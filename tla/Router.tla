--------------------------------- MODULE Router ---------------------------------
(***************************************************************************)
(* The router of lab 08 (08-router): forwarding by longest prefix match,   *)
(* the ARP cache, the ICMP messages, and the thread that sweeps the cache. *)
(*                                                                         *)
(* Only the main thread looks up, appends and inserts; the sweeping thread *)
(* times out and asks again.  Every operation on the cache runs under its  *)
(* lock and is one step.  The mutex is not recursive: the sweeping thread  *)
(* sends an ICMP error while it holds the lock that the error's own lookup *)
(* takes, and keeps it for ever.                                           *)
(*                                                                         *)
(* An address is a number of W bits, a mask its number of leading ones.    *)
(* Time is counted in sweeps.  time() has whole seconds, so the k-th sweep *)
(* after an event reads a difference of k-1 or of k.                       *)
(***************************************************************************)
EXTENDS Integers, Sequences, FiniteSets, SequencesExt

CONSTANTS
    W,              \* bits of an address
    Devices,        \* the kernel's devices: [name, eth, ip]
    Kernel,         \* the routes the kernel may hand over: sequences of
                    \* [table, dst, len, gw, oif], dst empty for a default route
    Hosts,          \* the neighbours that speak ARP
    Packets,        \* [id, in, src, dst, ttl, echo] of the packets to come
    MAX_ARP_SIZE, ARP_ENTRY_TIMEOUT, ARP_REQUEST_MAX_RETRIES

Ip == 0 .. 2^W - 1
Slot == 1 .. MAX_ARP_SIZE

ASSUME DeviceAssumption ==
    /\ \A d \in Devices : d.ip \in Ip \ {0} /\ d.eth \in BOOLEAN
    /\ \A d, e \in Devices : d.name = e.name => d = e
    /\ Hosts \subseteq Ip
ASSUME KernelAssumption ==
    \A t \in Kernel :
        /\ IsFiniteSet(DOMAIN t)
        /\ \A i \in DOMAIN t :
              /\ t[i].dst \subseteq Ip /\ t[i].len \in 0 .. W /\ t[i].gw \in Ip
              /\ \E d \in Devices : d.name = t[i].oif
ASSUME PacketAssumption ==
    /\ \A p, q \in Packets : p.id = q.id => p = q
    /\ \A p \in Packets : p.ttl \in 0 .. 255
ASSUME BoundsAssumption ==
    /\ W \in Nat /\ MAX_ARP_SIZE \in Nat \ {0}
    /\ ARP_ENTRY_TIMEOUT \in Nat /\ ARP_REQUEST_MAX_RETRIES \in Nat

Nobody == [valid |-> FALSE, ip4 |-> 0, age |-> 0]
NoPkt == [id |-> "none"]
NoRoute == [len |-> 0]
new_rt_entry(dest, len, gw, iface) ==
    [dest |-> dest, len |-> len, gw |-> gw, iface |-> iface]

--------------------------------------------------------------------------------
(* What the router takes from the kernel when it starts                        *)

\* The devices whose name has "-eth" in it.
find_available_ifaces == {d \in Devices : d.eth}

\* ... and the address read_iface_info asks the kernel for.
read_iface_info(name) == (CHOOSE d \in find_available_ifaces : d.name = name).ip

if_name_to_iface(name) == {d \in find_available_ifaces : d.name = name}

\* The routes taken: those of the main table, over an interface the router has.
Usable(msg) == msg.table = 254 /\ if_name_to_iface(msg.oif) # {}

\* A route without a destination has mask 0.
parse_routing_info(msg) ==
    IF msg.dst = {} THEN new_rt_entry(0, 0, msg.gw, msg.oif)
    ELSE new_rt_entry(CHOOSE d \in msg.dst : TRUE, msg.len, msg.gw, msg.oif)

\* The one way to list a set of positions in ascending order.
InOrder(kept) ==
    {f \in [1 .. Cardinality(kept) -> kept] :
        /\ \A j, k \in DOMAIN f : j < k => f[j] < f[k]
        /\ \A i \in kept : \E k \in DOMAIN f : f[k] = i}

load_rtable_from_kernel(msgs) ==
    {[k \in DOMAIN f |-> parse_routing_info(msgs[f[k]])] :
        f \in InOrder({i \in DOMAIN msgs : Usable(msgs[i])})}

--------------------------------------------------------------------------------
VARIABLES
    rtable,     \* the routes, in the order of the list
    entries,    \* entries[i]: slot i of the table of mappings, its age in sweeps
    req_list,   \* the pending requests: [iface, ip4, age, retries, cached_packets]
    lock,       \* "free", or the thread that will never give it back
    todo,       \* packets still to come
    pkt,        \* what the main thread has looked up in vain and will append
    sent,       \* history: [pkt, iface, nh] of the packets sent
    crashed     \* the process has ended

vars == <<rtable, entries, req_list, lock, todo, pkt, sent, crashed>>

--------------------------------------------------------------------------------
(* Routing                                                                     *)

Network(ip, len) == ip \div 2^(W - len)

\* Mutant: the last match, not the longest.
Longer_last(best, pos, dst) ==
    IF Network(pos.dest, pos.len) = Network(dst, pos.len) /\ pos.len > 0
    THEN pos ELSE best

\* One step of the loop of longest_prefix_match: `pos' against the best so far.
Longer(best, pos, dst) ==
    IF Network(pos.dest, pos.len) = Network(dst, pos.len) /\ pos.len > best.len
    THEN pos ELSE best

\* ... and the loop: best[i] after the first i routes of the list.
BestOf(table, dst) ==
    LET best[i \in 0 .. Len(table)] ==
            IF i = 0 THEN NoRoute ELSE Longer(best[i - 1], table[i], dst)
    IN  best[Len(table)]

longest_prefix_match(dst) == BestOf(rtable, dst)

NextHop(route, dst) == IF route.gw = 0 THEN dst ELSE route.gw

ip_init_hdr(saddr, daddr) == [src |-> saddr, dst |-> daddr, ttl |-> 64]

\* icmp_send_packet: what is made of the packet p, from the address of the
\* interface that leads to its source.
Icmp(p, type) ==
    LET hdr == ip_init_hdr(read_iface_info(longest_prefix_match(p.src).iface), p.src)
    IN  [id |-> p.id, src |-> hdr.src, dst |-> hdr.dst, ttl |-> hdr.ttl, icmp |-> type]

Forwarded(p) ==
    [id |-> p.id, src |-> p.src, dst |-> p.dst, ttl |-> (p.ttl - 1) % 256, icmp |-> "no"]

\* handle_ip_packet and ip_forward_packet: which ICMP message a packet is answered
\* with, or "no" when it is forwarded.  The TTL is a u8.
Verdict(p) ==
    IF p.echo /\ p.dst = read_iface_info(p.in) THEN "reply"
    ELSE IF (p.ttl - 1) % 256 = 0 THEN "expired"
    ELSE IF longest_prefix_match(p.dst) = NoRoute THEN "unreachable"
    ELSE "no"

--------------------------------------------------------------------------------
(* The cache                                                                   *)

arpcache_lookup(ip) == \E i \in Slot : entries[i].valid /\ entries[i].ip4 = ip

\* The packet q on the wire of an interface, to the mac of the next hop.
iface_send_packet(iface, nh, q) == [pkt |-> q, iface |-> iface, nh |-> nh]

\* ip_send_packet or the end of ip_forward_packet, then iface_send_packet_by_arp up
\* to the result of the lookup.
iface_send_packet_by_arp(q) ==
    LET route == longest_prefix_match(q.dst)
        hop == NextHop(route, q.dst)
    IN  /\ lock = "free"
        /\ \/ /\ arpcache_lookup(hop)
              /\ sent' = sent \cup {iface_send_packet(route.iface, hop, q)}
              /\ UNCHANGED pkt
           \/ /\ ~ arpcache_lookup(hop)
              /\ pkt' = q
              /\ UNCHANGED sent

Request(iface, ip) == [iface |-> iface, ip4 |-> ip, age |-> 0, retries |-> 0,
                       cached_packets |-> <<>>]

\* Mutant: the packet is put in a new request only.
Kept_first(r, q) == [r EXCEPT !.cached_packets = IF @ = <<>> THEN <<q>> ELSE @]

Kept(r, q) == [r EXCEPT !.cached_packets = Append(@, q)]

\* ... and its arpcache_append_packet, which asks for the address when no request
\* for it is pending.
arpcache_append_packet ==
    LET route == longest_prefix_match(pkt.dst)
        hop == NextHop(route, pkt.dst)
        same == {i \in DOMAIN req_list :
                    req_list[i].iface = route.iface /\ req_list[i].ip4 = hop}
    IN  /\ ~ crashed /\ lock = "free" /\ pkt # NoPkt
        /\ \/ \E i \in same :
                 req_list' = [req_list EXCEPT ![i] = Kept(@, pkt)]
           \/ /\ same = {}
              /\ req_list' = Append(req_list, Kept(Request(route.iface, hop), pkt))
        /\ pkt' = NoPkt
        /\ UNCHANGED <<rtable, entries, lock, todo, sent, crashed>>

\* handle_ip_packet.  An ICMP message to a source without a route reads through
\* the null pointer that longest_prefix_match returns.
handle_ip_packet(p) ==
    /\ ~ crashed /\ pkt = NoPkt /\ p \in todo
    /\ todo' = todo \ {p}
    /\ \/ /\ Verdict(p) = "no"
          /\ iface_send_packet_by_arp(Forwarded(p))
          /\ UNCHANGED crashed
       \/ /\ Verdict(p) # "no" /\ longest_prefix_match(p.src) # NoRoute
          /\ iface_send_packet_by_arp(Icmp(p, Verdict(p)))
          /\ UNCHANGED crashed
       \/ /\ Verdict(p) # "no" /\ longest_prefix_match(p.src) = NoRoute
          /\ crashed' = TRUE
          /\ UNCHANGED <<pkt, sent>>
    /\ UNCHANGED <<rtable, entries, req_list, lock>>

Mapping(ip) == [valid |-> TRUE, ip4 |-> ip, age |-> 0]

Waiting(r) == {iface_send_packet(r.iface, r.ip4, q) : q \in ToSet(r.cached_packets)}

\* The slots the search of arpcache_insert passes: the valid ones before the first
\* that is not.
Passed == {i \in Slot : \A j \in 1 .. i : entries[j].valid}

\* Mutant: `valid' is not looked at.
Known_stale(ip) == {i \in Slot : entries[i].ip4 = ip}

Known(ip) == {i \in Passed : entries[i].ip4 = ip}

\* The requests for ip leave the list, the others keep their order.
Unlinked(ip) ==
    \E f \in InOrder({i \in DOMAIN req_list : req_list[i].ip4 # ip}) :
        req_list' = [k \in DOMAIN f |-> req_list[f[k]]]

\* arpcache_insert.  A mapping found before the first free slot is renewed, and
\* the search returns without a look at req_list.  Otherwise the first free slot,
\* or the first of a full table, is written and what waits for ip is sent.
arpcache_insert(ip) ==
    \/ /\ Known(ip) # {}
       /\ entries' = [entries EXCEPT ![CHOOSE i \in Known(ip) : \A j \in Known(ip) : i <= j] = Mapping(ip)]
       /\ UNCHANGED <<req_list, sent>>
    \/ /\ Known(ip) = {}
       /\ LET slot == IF Passed = Slot THEN 1
                      ELSE CHOOSE i \in Slot : ~ entries[i].valid /\ 1 .. i - 1 \subseteq Passed
          IN  entries' = [entries EXCEPT ![slot] = Mapping(ip)]
       /\ sent' = sent \cup UNION {Waiting(r) : r \in {r \in ToSet(req_list) : r.ip4 = ip}}
       /\ Unlinked(ip)

\* handle_arp_packet: a neighbour's reply, or its request for the address of the
\* interface.  (A request for another address is sent back as it came and changes
\* nothing.)  A neighbour may speak at any time, asked or not.
handle_arp_packet(ip) ==
    /\ ~ crashed /\ lock = "free" /\ pkt = NoPkt
    /\ arpcache_insert(ip)
    /\ UNCHANGED <<rtable, lock, todo, pkt, crashed>>

--------------------------------------------------------------------------------
(* The sweeping thread                                                         *)

\* Whether a difference of seconds exceeds `limit' at the sweep that makes the
\* age k: certainly, possibly, or not.
Exceeds(k, limit) == IF k > limit + 1 THEN {TRUE}
                     ELSE IF k = limit + 1 THEN BOOLEAN
                     ELSE {FALSE}

\* Ages are counted as far as they matter.
Older(age, limit) == IF age > limit + 1 THEN age ELSE age + 1

\* A slot that times out keeps the address it held.
Swept(e) ==
    IF ~ e.valid THEN {e}
    ELSE LET age == Older(e.age, ARP_ENTRY_TIMEOUT)
         IN  {IF out THEN [e EXCEPT !.valid = FALSE, !.age = 0] ELSE [e EXCEPT !.age = age] :
                 out \in Exceeds(age, ARP_ENTRY_TIMEOUT)}

\* Mutant: the retries are not counted.
Asked_uncounted(r) == {[r EXCEPT !.age = Older(r.age, 1)]}

\* A request that is asked for again: `sent' stays, `retries' counts.
Asked(r) == {[r EXCEPT !.age = Older(r.age, 1), !.retries = @ + (IF again THEN 1 ELSE 0)] :
                again \in Exceeds(Older(r.age, 1), 1)}

Over(r) == r.retries > ARP_REQUEST_MAX_RETRIES

\* One sweep, in the order of req_list.  At the first request that is over,
\* icmp_send_packet reads through a null pointer when the source of its first
\* packet has no route, and otherwise waits for the lock the thread holds.
arpcache_sweep ==
    /\ ~ crashed /\ lock = "free"
    /\ \E es \in [Slot -> UNION {Swept(entries[i]) : i \in Slot}] :
          /\ \A i \in Slot : es[i] \in Swept(entries[i])
          /\ entries' = es
    /\ LET over == {i \in DOMAIN req_list : Over(req_list[i])}
           n == IF over = {} THEN Len(req_list)
                ELSE (CHOOSE i \in over : \A j \in over : i <= j) - 1
       IN  /\ \E rs \in [1 .. n -> UNION {Asked(req_list[i]) : i \in 1 .. n}] :
                 /\ \A i \in 1 .. n : rs[i] \in Asked(req_list[i])
                 /\ req_list' = [i \in DOMAIN req_list |->
                                    IF i <= n THEN rs[i] ELSE req_list[i]]
           /\ \/ over = {} /\ UNCHANGED <<lock, crashed>>
              \/ /\ over # {}
                 /\ LET p == Head(req_list[n + 1].cached_packets)
                    IN  crashed' = (longest_prefix_match(p.src) = NoRoute)
                 /\ lock' = IF crashed' THEN lock ELSE "sweep"
    /\ UNCHANGED <<rtable, todo, pkt, sent>>

--------------------------------------------------------------------------------
Init ==
    /\ \E msgs \in Kernel : rtable \in load_rtable_from_kernel(msgs)
    /\ entries = [i \in Slot |-> Nobody]
    /\ req_list = <<>> /\ lock = "free"
    /\ todo = Packets
    /\ pkt = NoPkt /\ sent = {} /\ crashed = FALSE

Main == arpcache_append_packet \/ \E p \in Packets : handle_ip_packet(p)

Next ==
    \/ Main
    \/ arpcache_sweep
    \/ \E ip \in Hosts : handle_arp_packet(ip)

\* The two threads run on unless they wait for the lock; nothing makes a
\* neighbour answer.
Spec == Init /\ [][Next]_vars /\ WF_vars(Main) /\ WF_vars(arpcache_sweep)

--------------------------------------------------------------------------------
(* Properties                                                                  *)

Held == (UNION {ToSet(r.cached_packets) : r \in ToSet(req_list)})
           \cup (IF pkt = NoPkt THEN {} ELSE {pkt})

\* Where packet p, or the ICMP message made for it, is.
Places(p) == {x \in Held : x.id = p.id} \cup {x \in sent : x.pkt.id = p.id}

\* No packet is lost or sent twice, whatever answers come and whenever the sweep
\* runs: until the process ends, each packet that came in, or the one ICMP message
\* made for it, is held once or was sent once.
PacketsConserved ==
    crashed \/ \A p \in Packets \ todo : Cardinality(Places(p)) = 1

\* The early return of arpcache_insert for a mapping that is there
\* (arpcache.c:137) leaves no packet behind: nothing waits for an address the
\* table has, although sweeps come between a lookup and its append.
NoneWaitsForKnown ==
    \A i \in DOMAIN req_list : ~ arpcache_lookup(req_list[i].ip4)

\* The routes that cover an address, the default route aside: the comparison
\* `mask > maxlen' starts from 0 and never takes it.
Covering(dst) == {i \in DOMAIN rtable :
    /\ rtable[i].len > 0
    /\ rtable[i].dest \div 2^(W - rtable[i].len) = dst \div 2^(W - rtable[i].len)}

\* Every packet on a wire went out by the longest route that covers its
\* destination, whichever way it was sent (directly, after an answer, as an ICMP
\* message), with a TTL that has not run out.
SentRight ==
    \A s \in sent :
        /\ s.pkt.ttl > 0
        /\ \E i \in Covering(s.pkt.dst) :
              /\ \A j \in Covering(s.pkt.dst) : rtable[j].len <= rtable[i].len
              /\ s.iface = rtable[i].iface
              /\ s.nh = IF rtable[i].gw = 0 THEN s.pkt.dst ELSE rtable[i].gw

Stopped == crashed \/ lock = "sweep"

\* Nothing waits for ever unless everything does: again and again no packet is
\* held, or the router has stopped, by the lock its sweeping thread waits for or by
\* an ICMP message to a source without a route (arpcache.c:202, icmp.c:31).
LeavesOrStops == []<>(Held = {} \/ Stopped)
================================================================================
