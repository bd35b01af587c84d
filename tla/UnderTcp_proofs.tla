---------------------------- MODULE UnderTcp_proofs ----------------------------
(***************************************************************************)
(* What TCP stands on in labs 15 and 16.                                   *)
(*                                                                         *)
(* The IP layer of a host (HostIp): no packet is lost or sent twice,       *)
(* whatever its three threads do between a lookup and its append, and the  *)
(* segments leave in order but for the one race the code has; for any      *)
(* number of neighbours, segments, packets, slots and routes.              *)
(*                                                                         *)
(* The receive buffer (RingBuffer): it implements the queue, for every     *)
(* size, every alphabet and every pattern of reads and writes.             *)
(***************************************************************************)
EXTENDS HostIp, RingBuffer, FiniteSetTheorems, TLAPS

--------------------------------------------------------------------------------
(* The IP layer of a host: types, and what each part of the state may hold.     *)

Seg == DOMAIN Segments
Ids == Seg \cup {p.id : p \in Incoming}

\* What is sent.  A packet to the host itself is an error for one of its own; what
\* has the number of a segment is the segment or the error for it.
Pkt == {q \in [id : Ids, src : Ip, dst : Ip] :
            (q.dst = Me \/ q.id \in Seg) => q.src = Me}
Hop == {get_next_hop(BestOf(load_rtable_from_kernel(msgs), dst), dst) :
            msgs \in Kernel, dst \in Ip}
Entry == {Free} \cup [valid : {TRUE}, ip4 : Hosts, age : Nat]
Req == [ip4 : Hop, fresh : BOOLEAN, retries : Nat, cached_packets : Seq(Pkt)]

Types ==
    /\ \E msgs \in Kernel : rtable = load_rtable_from_kernel(msgs)
    /\ entries \in [Slot -> Entry]
    /\ req_list \subseteq Req
    /\ todo \subseteq Incoming
    /\ out \in 0 .. Len(Segments)
    /\ pkt \in [Thread -> Pkt \cup {NoPkt}]
    /\ pkt_list \subseteq Pkt
    /\ sent \in Seq(Pkt)

\* A hop has one request, and what waits in it is to go there.
OneRequest == \A r, s \in req_list : r.ip4 = s.ip4 => r = s
RightRequest ==
    \A r \in req_list : \A i \in DOMAIN r.cached_packets :
        NextHop(r.cached_packets[i]) = r.ip4

\* What each thread may hold: the main thread no segment, the application its last
\* one, the sweeping thread of a segment only the error.
Holds ==
    /\ pkt["main"] # NoPkt => pkt["main"].id \notin Seg
    /\ pkt["app"] # NoPkt => pkt["app"].id = out
    /\ pkt["sweep"] # NoPkt /\ pkt["sweep"].id \in Seg => pkt["sweep"].dst = Me

\* The packets of one id are alternatives: they are to come, or one of them came.
OneOfEach == \A p \in todo, q \in Incoming : q.id = p.id => q \in todo

BaseInv == Types /\ OneRequest /\ RightRequest /\ Holds /\ OneOfEach

--------------------------------------------------------------------------------
(* Packets and routes.                                                          *)

LEMMA IdFacts ==
    /\ Len(Segments) \in Nat /\ Seg = 1 .. Len(Segments)
    /\ 0 \notin Ids
    /\ \A p \in Incoming : p.id \in Ids /\ p.id \notin Seg
    /\ \A n \in Seg : Segments[n] \in Ip /\ Segments[n] # Me /\ n \in Ids
<1>1. Len(Segments) \in Nat /\ Seg = 1 .. Len(Segments)
  BY SegmentAssumption DEF Seg
<1>2. \A p \in Incoming : p.id \notin 0 .. Len(Segments)
  BY IncomingAssumption
<1>3. \A p \in Incoming : p.id # 0 /\ p.id \notin Seg
  BY <1>1, <1>2
<1>4. 0 \notin Seg
  BY <1>1
<1>5. \A n \in Seg : Segments[n] \in Ip /\ Segments[n] # Me
  BY SegmentAssumption DEF Seg
<1> QED
  BY <1>1, <1>3, <1>4, <1>5 DEF Ids

LEMMA PktFacts ==
    ASSUME NEW q \in Pkt
    PROVE  /\ q.id \in Ids /\ q.src \in Ip /\ q.dst \in Ip
           /\ (q.dst = Me \/ q.id \in Seg) => q.src = Me
           /\ q # NoPkt /\ q.id # 0
  BY IdFacts DEF Pkt, NoPkt

LEMMA ErrorFacts ==
    ASSUME NEW p \in Pkt
    PROVE  /\ Packet(p.id, Me, p.src) \in Pkt
           /\ Packet(p.id, Me, p.src).id = p.id
           /\ Packet(p.id, Me, p.src).dst = p.src
  BY PktFacts DEF Packet, Pkt, Ip

LEMMA AnswerFacts ==
    ASSUME NEW p \in Incoming
    PROVE  /\ Packet(p.id, Me, p.src) \in Pkt
           /\ Packet(p.id, Me, p.src).id = p.id
           /\ Packet(p.id, Me, p.src).dst # Me
<1>1. p.id \in Ids /\ p.id \notin Seg
  BY IdFacts
<1>2. p.src \in Ip /\ p.src # Me
  BY IncomingAssumption
<1> QED
  BY <1>1, <1>2 DEF Packet, Pkt, Ip

LEMMA ForwardFacts ==
    ASSUME NEW p \in Incoming, p.dst # Me
    PROVE  /\ Packet(p.id, p.src, p.dst) \in Pkt
           /\ Packet(p.id, p.src, p.dst).id = p.id
           /\ Packet(p.id, p.src, p.dst).dst # Me
<1>1. p.id \in Ids /\ p.id \notin Seg
  BY IdFacts
<1>2. p.src \in Ip /\ p.dst \in Ip
  BY IncomingAssumption
<1> QED
  BY <1>1, <1>2 DEF Packet, Pkt, Ip

LEMMA SegmentFacts ==
    ASSUME NEW n \in Seg
    PROVE  /\ Packet(n, Me, Segments[n]) \in Pkt
           /\ Packet(n, Me, Segments[n]).id = n
           /\ Packet(n, Me, Segments[n]).dst # Me
  BY IdFacts DEF Packet, Pkt, Ip

LEMMA HopFacts ==
    ASSUME Types, NEW q \in Pkt
    PROVE  /\ NextHop(q) \in Hop
           /\ q.dst = Me => longest_prefix_match(q.dst) # NoRoute /\ NextHop(q) = Me
<1>1. PICK msgs \in Kernel : rtable = load_rtable_from_kernel(msgs)
  BY DEF Types
<1>2. q.dst \in Ip
  BY PktFacts
<1>3. NextHop(q) = get_next_hop(BestOf(load_rtable_from_kernel(msgs), q.dst), q.dst)
  BY <1>1 DEF NextHop, longest_prefix_match
<1>4. NextHop(q) \in Hop
  BY <1>2, <1>3 DEF Hop
<1>5. ASSUME q.dst = Me
      PROVE  longest_prefix_match(q.dst) # NoRoute /\ NextHop(q) = Me
  <2>1. /\ BestOf(load_rtable_from_kernel(msgs), Me) # NoRoute
        /\ BestOf(load_rtable_from_kernel(msgs), Me).gw = None
    BY SubnetAssumption
  <2> QED
    BY <1>1, <1>3, <1>5, <2>1 DEF longest_prefix_match, get_next_hop
<1> QED
  BY <1>4, <1>5

LEMMA HopStays ==
    ASSUME rtable' = rtable
    PROVE  \A q : NextHop(q)' = NextHop(q)
  BY DEF NextHop, longest_prefix_match

--------------------------------------------------------------------------------
(* Where a packet goes that a thread sends.                                     *)

Goes(t, q) ==
    \/ arpcache_lookup(NextHop(q)) /\ sent' = Append(sent, q) /\ UNCHANGED <<pkt, ended>>
    \/ /\ ~ arpcache_lookup(NextHop(q)) /\ pkt' = [pkt EXCEPT ![t] = q]
       /\ UNCHANGED <<sent, ended>>
    \/ q.dst # Me /\ ended' = ended \cup {q.id} /\ UNCHANGED <<pkt, sent>>

LEMMA SendGoes ==
    ASSUME Types, NEW t, NEW q \in Pkt, ip_send_packet(t, q)
    PROVE  Goes(t, q)
<1>1. longest_prefix_match(q.dst) = NoRoute => q.dst # Me
  BY HopFacts
<1> QED
  BY <1>1 DEF ip_send_packet, iface_send_packet_by_arp, Goes

LEMMA HandleGoes ==
    ASSUME Types, NEW p \in Incoming, NEW protocol, NEW ttl, handle_ip_packet(p, protocol, ttl)
    PROVE  /\ pkt["main"] = NoPkt /\ p \in todo /\ todo' = {q \in todo : q.id # p.id}
           /\ \E q \in Pkt : q.id = p.id /\ Goes("main", q)
           /\ UNCHANGED <<rtable, entries, req_list, out, pkt_list, reported, raced>>
<1> DEFINE a == Packet(p.id, Me, p.src)
           f == Packet(p.id, p.src, p.dst)
<1>1. a \in Pkt /\ a.id = p.id /\ a.dst # Me
  BY AnswerFacts
<1>2. p.dst # Me => f \in Pkt /\ f.id = p.id
  BY ForwardFacts
<1>3. ip_send_packet("main", a) => Goes("main", a)
  BY <1>1, SendGoes
<1>4. p.dst # Me /\ ip_forward_packet(p, ttl) => Goes("main", a) \/ Goes("main", f)
  BY <1>3 DEF ip_forward_packet, icmp_send_packet, iface_send_packet_by_arp, Goes
<1>5. ended' = ended \cup {p.id} /\ UNCHANGED <<pkt, sent>> => Goes("main", a)
  BY <1>1 DEF Goes
<1>6. \/ p.dst # Me /\ ip_forward_packet(p, ttl)
      \/ ip_send_packet("main", a)
      \/ ended' = ended \cup {p.id} /\ UNCHANGED <<pkt, sent>>
  BY DEF handle_ip_packet, icmp_send_packet
<1> HIDE DEF a, f
<1>7. \E q \in Pkt : q.id = p.id /\ Goes("main", q)
  BY <1>1, <1>2, <1>3, <1>4, <1>5, <1>6
<1> QED
  BY <1>7 DEF handle_ip_packet

LEMMA TcpGoes ==
    ASSUME Types, tcp_send_packet
    PROVE  /\ pkt["app"] = NoPkt /\ out' = out + 1 /\ out + 1 \in Seg
           /\ \E q \in Pkt : q.id = out + 1 /\ q.dst # Me /\ Goes("app", q)
           /\ UNCHANGED <<rtable, entries, req_list, todo, pkt_list, reported, raced>>
<1> DEFINE n == out + 1
           q == Packet(n, Me, Segments[n])
<1>1. n \in Seg
  BY IdFacts DEF Types, tcp_send_packet
<1>2. q \in Pkt /\ q.id = n /\ q.dst # Me
  BY <1>1, SegmentFacts
<1>3. ip_send_packet("app", q)
  BY DEF tcp_send_packet
<1> HIDE DEF q
<1>4. Goes("app", q)
  BY <1>2, <1>3, SendGoes
<1> QED
  BY <1>1, <1>2, <1>4 DEF tcp_send_packet

LEMMA ReportGoes ==
    ASSUME Types, Report
    PROVE  /\ pkt["sweep"] = NoPkt
           /\ \E p \in pkt_list, q \in Pkt :
                 /\ q.id = p.id /\ q.dst = p.src /\ Goes("sweep", q)
                 /\ pkt_list' = pkt_list \ {p}
                 /\ reported' = IF p.src = Me THEN reported \cup {p.id} ELSE reported
           /\ UNCHANGED <<rtable, entries, req_list, todo, out, raced>>
<1>1. PICK p \in pkt_list :
          /\ icmp_send_packet("sweep", p)
          /\ pkt_list' = pkt_list \ {p}
          /\ reported' = IF p.src = Me THEN reported \cup {p.id} ELSE reported
  BY DEF Report
<1> DEFINE q == Packet(p.id, Me, p.src)
<1>2. p \in Pkt
  BY DEF Types
<1>3. q \in Pkt /\ q.id = p.id /\ q.dst = p.src
  BY <1>2, ErrorFacts
<1>4. ip_send_packet("sweep", q)
  BY <1>1 DEF icmp_send_packet
<1> HIDE DEF q
<1>5. Goes("sweep", q)
  BY <1>3, <1>4, SendGoes
<1> QED
  BY <1>1, <1>3, <1>5 DEF Report

LEMMA GoesTypes ==
    ASSUME Types, NEW t \in Thread, NEW q \in Pkt, Goes(t, q)
    PROVE  /\ pkt' \in [Thread -> Pkt \cup {NoPkt}]
           /\ sent' \in Seq(Pkt)
           /\ \A u \in Thread : u # t => pkt'[u] = pkt[u]
           /\ pkt'[t] = pkt[t] \/ pkt'[t] = q
  BY DEF Types, Goes

--------------------------------------------------------------------------------
(* The cache.                                                                   *)

LEMMA EntryFacts ==
    ASSUME NEW e \in Entry, e.valid
    PROVE  e \in [valid : {TRUE}, ip4 : Hosts, age : Nat]
<1>1. ~ Free.valid
  BY DEF Free
<1>2. e = Free \/ e \in [valid : {TRUE}, ip4 : Hosts, age : Nat]
  BY DEF Entry
<1> QED
  BY <1>1, <1>2

LEMMA MeUnknown == ASSUME Types PROVE ~ arpcache_lookup(Me)
<1>1. \A i \in Slot : entries[i] \in Entry
  BY DEF Types
<1>2. \A i \in Slot : entries[i].valid => entries[i].ip4 \in Hosts
  BY <1>1, EntryFacts
<1> QED
  BY <1>2, AddressAssumption DEF arpcache_lookup

LEMMA InsertKnows ==
    ASSUME Types, NEW ip \in Hosts, InsertEntry(ip)
    PROVE  /\ entries' \in [Slot -> Entry]
           /\ \A x : x # ip /\ arpcache_lookup(x)' => arpcache_lookup(x)
<1>1. Mapping(ip) \in Entry /\ Mapping(ip).ip4 = ip
  BY DEF Mapping, Entry
<1>2. /\ entries' \in [Slot -> Entry]
      /\ \A i \in Slot : entries'[i] = entries[i] \/ entries'[i] = Mapping(ip)
  BY <1>1 DEF Types, InsertEntry
<1> QED
  BY <1>1, <1>2 DEF arpcache_lookup

LEMMA SweptForgets ==
    ASSUME NEW e \in Entry, NEW n \in Swept(e)
    PROVE  n \in Entry /\ (n.valid => e.valid /\ n.ip4 = e.ip4)
<1>1. CASE ~ e.valid
  <2>1. n = e
    BY <1>1 DEF Swept
  <2> QED
    BY <1>1, <2>1
<1>2. CASE e.valid
  <2> DEFINE k == e.age + 1
  <2>1. e \in [valid : {TRUE}, ip4 : Hosts, age : Nat]
    BY <1>2, EntryFacts
  <2>2. k \in Nat
    <3>1. e.age \in Nat
      BY <2>1
    <3> QED
      BY <3>1
  <2>3. n = Free \/ n = [e EXCEPT !.age = k]
    <3>1. n \in {Free} \cup {[e EXCEPT !.age = e.age + 1]}
      BY <1>2 DEF Swept
    <3> QED
      BY <3>1
  <2>4. Free \in Entry /\ ~ Free.valid
    BY DEF Free, Entry
  <2> HIDE DEF k
  <2>5. [e EXCEPT !.age = k] \in [valid : {TRUE}, ip4 : Hosts, age : Nat]
    BY <2>1, <2>2
  <2>6. [e EXCEPT !.age = k].ip4 = e.ip4
    BY <2>1
  <2> QED
    BY <1>2, <2>3, <2>4, <2>5, <2>6 DEF Entry
<1> QED
  BY <1>1, <1>2

LEMMA SweepForgets ==
    ASSUME Types, arpcache_sweep
    PROVE  /\ entries' \in [Slot -> Entry]
           /\ \A x : arpcache_lookup(x)' => arpcache_lookup(x)
<1>1. PICK es \in [Slot -> UNION {Swept(entries[i]) : i \in Slot}] :
          (\A i \in Slot : es[i] \in Swept(entries[i])) /\ entries' = es
  BY DEF arpcache_sweep
<1>2. \A i \in Slot : entries[i] \in Entry
  BY DEF Types
<1>3. \A i \in Slot : /\ es[i] \in Entry
                      /\ es[i].valid => entries[i].valid /\ es[i].ip4 = entries[i].ip4
  BY <1>1, <1>2, SweptForgets
<1> QED
  BY <1>1, <1>3 DEF arpcache_lookup

(* A request that stays in the list keeps its hop and its packets.              *)
LEMMA RenewKeeps ==
    ASSUME NEW r \in Req
    PROVE  /\ [r EXCEPT !.fresh = FALSE] \in Req
           /\ [r EXCEPT !.fresh = FALSE].ip4 = r.ip4
           /\ [r EXCEPT !.fresh = FALSE].cached_packets = r.cached_packets
           /\ Asked(r) \in Req
           /\ Asked(r).ip4 = r.ip4
           /\ Asked(r).cached_packets = r.cached_packets
<1> DEFINE k == r.retries + 1
<1>1. k \in Nat
  BY DEF Req
<1> HIDE DEF k
<1>2. /\ [r EXCEPT !.fresh = FALSE] \in Req
      /\ [r EXCEPT !.fresh = FALSE].ip4 = r.ip4
      /\ [r EXCEPT !.fresh = FALSE].cached_packets = r.cached_packets
  BY DEF Req
<1>3. /\ [[r EXCEPT !.fresh = FALSE] EXCEPT !.retries = k] \in Req
      /\ [[r EXCEPT !.fresh = FALSE] EXCEPT !.retries = k].ip4 = r.ip4
      /\ [[r EXCEPT !.fresh = FALSE] EXCEPT !.retries = k].cached_packets = r.cached_packets
  BY <1>1, <1>2 DEF Req
<1>4. Asked(r) = [[r EXCEPT !.fresh = FALSE] EXCEPT !.retries = k]
  BY DEF Asked, k
<1> QED
  BY <1>2, <1>3, <1>4

(* The requests after a sweep are those it leaves, `over' the others.           *)
Same(r, s) == s.ip4 = r.ip4 /\ s.cached_packets = r.cached_packets

LEMMA SweepKeeps ==
    ASSUME Types, OneRequest, arpcache_sweep
    PROVE  \E over \in SUBSET req_list :
              /\ req_list' \subseteq Req
              /\ \A s \in req_list' : \E r \in req_list \ over : Same(r, s)
              /\ \A r \in req_list \ over : \E s \in req_list' : Same(r, s)
              /\ \A r, s \in req_list' : r.ip4 = s.ip4 => r = s
              /\ pkt_list' = UNION {ToSet(r.cached_packets) : r \in over}
<1>1. PICK skipped \in SUBSET {r \in req_list : r.fresh} :
          LET due == req_list \ skipped
              over == {r \in due : r.retries >= ARP_REQUEST_MAX_RETRIES}
          IN  /\ req_list' = {[r EXCEPT !.fresh = FALSE] : r \in skipped}
                             \cup {Asked(r) : r \in due \ over}
              /\ pkt_list' = UNION {ToSet(r.cached_packets) : r \in over}
  BY DEF arpcache_sweep
<1> DEFINE over == {r \in req_list \ skipped : r.retries >= ARP_REQUEST_MAX_RETRIES}
           N(r) == IF r \in skipped THEN [r EXCEPT !.fresh = FALSE] ELSE Asked(r)
<1>2. /\ over \in SUBSET req_list /\ over \cap skipped = {} /\ skipped \subseteq req_list
      /\ req_list' = {[r EXCEPT !.fresh = FALSE] : r \in skipped}
                     \cup {Asked(r) : r \in (req_list \ skipped) \ over}
      /\ pkt_list' = UNION {ToSet(r.cached_packets) : r \in over}
  BY <1>1
<1> HIDE DEF over
<1>3. \A r \in req_list : N(r) \in Req /\ N(r).ip4 = r.ip4
                          /\ N(r).cached_packets = r.cached_packets
  BY RenewKeeps DEF Types
<1>4. req_list' = {N(r) : r \in req_list \ over}
  BY <1>2
<1> HIDE DEF N
<1>5. req_list' \subseteq Req
  BY <1>3, <1>4
<1>6. \A s \in req_list' : \E r \in req_list \ over : s = N(r) /\ Same(r, s)
  BY <1>3, <1>4 DEF Same
<1>7. \A r \in req_list \ over : \E s \in req_list' : Same(r, s)
  BY <1>3, <1>4 DEF Same
<1>8. ASSUME NEW s1 \in req_list', NEW s2 \in req_list', s1.ip4 = s2.ip4
      PROVE  s1 = s2
  <2>1. PICK r1 \in req_list \ over : s1 = N(r1) /\ Same(r1, s1)
    BY <1>6
  <2>2. PICK r2 \in req_list \ over : s2 = N(r2) /\ Same(r2, s2)
    BY <1>6
  <2>3. r1 = r2
    BY <1>8, <2>1, <2>2 DEF OneRequest, Same
  <2> QED
    BY <2>1, <2>2, <2>3
<1> QED
  BY <1>2, <1>5, <1>6, <1>7, <1>8

(* An append adds a packet at the end of the request of its hop, old or new.    *)
Joins(r, x) ==
    \/ /\ r \in req_list
       /\ req_list' = (req_list \ {r}) \cup {Kept(r, x)}
    \/ /\ \A s \in req_list : s.ip4 # r.ip4
       /\ r.cached_packets = <<>>
       /\ req_list' = req_list \cup {Kept(r, x)}

LEMMA AppendJoins ==
    ASSUME Types, NEW t \in Thread, arpcache_append_packet(t)
    PROVE  /\ pkt[t] \in Pkt
           /\ \E r \in Req : /\ r.ip4 = NextHop(pkt[t]) /\ Joins(r, pkt[t])
                             /\ Kept(r, pkt[t]) \in Req /\ Kept(r, pkt[t]).ip4 = r.ip4
                             /\ Kept(r, pkt[t]).cached_packets = Append(r.cached_packets, pkt[t])
<1> DEFINE x == pkt[t]
           ip == NextHop(x)
           n == Request(ip)
<1>1. x \in Pkt
  BY DEF arpcache_append_packet, Types
<1>2. ASSUME NEW r \in Req
      PROVE  /\ Kept(r, x) \in Req /\ Kept(r, x).ip4 = r.ip4
             /\ Kept(r, x).cached_packets = Append(r.cached_packets, x)
  <2>1. r.cached_packets \in Seq(Pkt)
    BY DEF Req
  <2> DEFINE c == Append(r.cached_packets, x)
  <2>2. c \in Seq(Pkt)
    BY <1>1, <2>1
  <2> HIDE DEF c
  <2>3. [r EXCEPT !.cached_packets = c] \in Req
    BY <2>2 DEF Req
  <2>4. /\ [r EXCEPT !.cached_packets = c].ip4 = r.ip4
        /\ [r EXCEPT !.cached_packets = c].cached_packets = c
    BY DEF Req
  <2>5. Kept(r, x) = [r EXCEPT !.cached_packets = c]
    BY DEF Kept, c
  <2> QED
    BY <2>3, <2>4, <2>5 DEF c
<1>3. ip \in Hop
  BY <1>1, HopFacts
<1>4. n \in Req /\ n.ip4 = ip /\ n.cached_packets = <<>>
  BY <1>3 DEF Request, Req
<1>5. \/ \E r \in req_list : /\ r.ip4 = ip
                             /\ req_list' = (req_list \ {r}) \cup {Kept(r, x)}
      \/ (\A s \in req_list : s.ip4 # ip) /\ req_list' = req_list \cup {Kept(n, x)}
  BY DEF arpcache_append_packet
<1>6. req_list \subseteq Req
  BY DEF Types
<1> HIDE DEF n, ip, x
<1>7. \E r \in Req : r.ip4 = ip /\ Joins(r, x)
  BY <1>4, <1>5, <1>6 DEF Joins
<1> QED
  BY <1>1, <1>2, <1>7 DEF ip, x

(* What waits for the address that became known is sent, and no other.          *)
LEMMA FlushFacts ==
    ASSUME OneRequest, NEW ip, Flush(ip)
    PROVE  /\ req_list' = {r \in req_list : r.ip4 # ip}
           /\ \/ \E r \in req_list : r.ip4 = ip /\ sent' = sent \o r.cached_packets
              \/ (\A r \in req_list : r.ip4 # ip) /\ sent' = sent
  BY DEF Flush, OneRequest

--------------------------------------------------------------------------------
(* One lemma for each action.                                                   *)

LEMMA InitBase == Init => BaseInv
<1> SUFFICES ASSUME Init PROVE BaseInv
  OBVIOUS
<1>1. Types
  BY IdFacts DEF Init, Types, Entry
<1>2. Holds
  BY DEF Init, Holds, Thread
<1> QED
  BY <1>1, <1>2 DEF Init, BaseInv, OneRequest, RightRequest, OneOfEach

LEMMA RequestsStay ==
    ASSUME BaseInv, UNCHANGED <<rtable, req_list>>
    PROVE  OneRequest' /\ RightRequest'
  BY HopStays DEF BaseInv, OneRequest, RightRequest

LEMMA HandleIpBase ==
    ASSUME NEW p \in Incoming, NEW protocol, NEW ttl
    PROVE  BaseInv /\ handle_ip_packet(p, protocol, ttl) => BaseInv'
<1> SUFFICES ASSUME BaseInv, handle_ip_packet(p, protocol, ttl) PROVE BaseInv'
  OBVIOUS
<1>1. Types /\ Holds /\ OneOfEach
  BY DEF BaseInv
<1>2. /\ todo' = {x \in todo : x.id # p.id}
      /\ UNCHANGED <<rtable, entries, req_list, out, pkt_list>>
  BY <1>1, HandleGoes
<1>3. PICK q \in Pkt : q.id = p.id /\ Goes("main", q)
  BY <1>1, HandleGoes
<1>4. /\ pkt' \in [Thread -> Pkt \cup {NoPkt}] /\ sent' \in Seq(Pkt)
      /\ \A u \in Thread : u # "main" => pkt'[u] = pkt[u]
      /\ pkt'["main"] = pkt["main"] \/ pkt'["main"] = q
  BY <1>1, <1>3, GoesTypes DEF Thread
<1>5. Types'
  BY <1>1, <1>2, <1>4 DEF Types
<1>6. Holds'
  BY <1>1, <1>2, <1>3, <1>4, IdFacts DEF Holds, Thread
<1>7. OneOfEach'
  BY <1>1, <1>2 DEF OneOfEach
<1> QED
  BY <1>2, <1>5, <1>6, <1>7, RequestsStay DEF BaseInv

LEMMA TcpSendBase == BaseInv /\ tcp_send_packet => BaseInv'
<1> SUFFICES ASSUME BaseInv, tcp_send_packet PROVE BaseInv'
  OBVIOUS
<1>1. Types /\ Holds /\ OneOfEach
  BY DEF BaseInv
<1>2. /\ pkt["app"] = NoPkt /\ out' = out + 1 /\ out + 1 \in Seg
      /\ UNCHANGED <<rtable, entries, req_list, todo, pkt_list>>
  BY <1>1, TcpGoes
<1>3. PICK q \in Pkt : q.id = out + 1 /\ Goes("app", q)
  BY <1>1, TcpGoes
<1>4. /\ pkt' \in [Thread -> Pkt \cup {NoPkt}] /\ sent' \in Seq(Pkt)
      /\ \A u \in Thread : u # "app" => pkt'[u] = pkt[u]
      /\ pkt'["app"] = pkt["app"] \/ pkt'["app"] = q
  BY <1>1, <1>3, GoesTypes DEF Thread
<1>5. out' \in 0 .. Len(Segments)
  BY <1>2, IdFacts
<1>6. Types'
  BY <1>1, <1>2, <1>4, <1>5 DEF Types
<1>7. Holds'
  BY <1>1, <1>2, <1>3, <1>4 DEF Holds, Thread
<1>8. OneOfEach'
  BY <1>1, <1>2 DEF OneOfEach
<1> QED
  BY <1>2, <1>6, <1>7, <1>8, RequestsStay DEF BaseInv

LEMMA ReportBase == BaseInv /\ Report => BaseInv'
<1> SUFFICES ASSUME BaseInv, Report PROVE BaseInv'
  OBVIOUS
<1>1. Types /\ Holds /\ OneOfEach
  BY DEF BaseInv
<1>2. UNCHANGED <<rtable, entries, req_list, todo, out>>
  BY <1>1, ReportGoes
<1>3. PICK p \in pkt_list, q \in Pkt :
          q.id = p.id /\ q.dst = p.src /\ Goes("sweep", q) /\ pkt_list' = pkt_list \ {p}
  BY <1>1, ReportGoes
<1>4. /\ pkt' \in [Thread -> Pkt \cup {NoPkt}] /\ sent' \in Seq(Pkt)
      /\ \A u \in Thread : u # "sweep" => pkt'[u] = pkt[u]
      /\ pkt'["sweep"] = pkt["sweep"] \/ pkt'["sweep"] = q
  BY <1>1, <1>3, GoesTypes DEF Thread
<1>5. Types'
  BY <1>1, <1>2, <1>3, <1>4 DEF Types
<1>6. p.id \in Seg => p.src = Me
  BY <1>1, <1>3, PktFacts DEF Types
<1>7. Holds'
  BY <1>1, <1>2, <1>3, <1>4, <1>6 DEF Holds, Thread
<1>8. OneOfEach'
  BY <1>1, <1>2 DEF OneOfEach
<1> QED
  BY <1>2, <1>5, <1>7, <1>8, RequestsStay DEF BaseInv

LEMMA AppendBase ==
    ASSUME NEW t \in Thread
    PROVE  BaseInv /\ arpcache_append_packet(t) => BaseInv'
<1> SUFFICES ASSUME BaseInv, arpcache_append_packet(t) PROVE BaseInv'
  OBVIOUS
<1>1. Types /\ OneRequest /\ RightRequest /\ Holds /\ OneOfEach
  BY DEF BaseInv
<1> DEFINE x == pkt[t]
<1>2. /\ pkt' = [pkt EXCEPT ![t] = NoPkt]
      /\ UNCHANGED <<rtable, entries, todo, out, pkt_list, sent>>
  BY DEF arpcache_append_packet
<1>3. x \in Pkt
  BY <1>1, AppendJoins
<1>4. PICK r \in Req : /\ r.ip4 = NextHop(x) /\ Joins(r, x)
                       /\ Kept(r, x) \in Req /\ Kept(r, x).ip4 = r.ip4
                       /\ Kept(r, x).cached_packets = Append(r.cached_packets, x)
  BY <1>1, AppendJoins
<1> HIDE DEF x
<1> DEFINE n == Kept(r, x)
<1>5. req_list' \subseteq (req_list \ {r}) \cup {n} /\ n \in Req /\ n.ip4 = r.ip4
      /\ \A s \in req_list : s.ip4 = r.ip4 => s = r
  BY <1>1, <1>4 DEF Joins, OneRequest
<1>6. n.cached_packets = Append(r.cached_packets, x) /\ r.cached_packets \in Seq(Pkt)
  BY <1>4 DEF Req
<1>7. \A i \in DOMAIN r.cached_packets : NextHop(r.cached_packets[i]) = r.ip4
  <2>1. r \in req_list \/ r.cached_packets = <<>>
    BY <1>4 DEF Joins
  <2>2. DOMAIN <<>> = {}
    OBVIOUS
  <2> QED
    BY <1>1, <2>1, <2>2 DEF RightRequest
<1> HIDE DEF n
<1>8. ASSUME NEW i \in DOMAIN n.cached_packets PROVE NextHop(n.cached_packets[i]) = n.ip4
  <2>1. \/ i \in DOMAIN r.cached_packets /\ n.cached_packets[i] = r.cached_packets[i]
        \/ n.cached_packets[i] = x
    BY <1>3, <1>6
  <2> QED
    BY <1>4, <1>5, <1>7, <2>1
<1>9. req_list' \subseteq Req
  BY <1>1, <1>5 DEF Types
<1>10. OneRequest'
  BY <1>1, <1>5 DEF OneRequest
<1>11. RightRequest'
  <2>1. \A s \in req_list' : \A i \in DOMAIN s.cached_packets :
            NextHop(s.cached_packets[i]) = s.ip4
    BY <1>1, <1>5, <1>8 DEF RightRequest
  <2> QED
    BY <1>2, <2>1, HopStays DEF RightRequest
<1>12. pkt' \in [Thread -> Pkt \cup {NoPkt}]
  BY <1>1, <1>2 DEF Types
<1>13. Types'
  BY <1>1, <1>2, <1>9, <1>12 DEF Types
<1>14. Holds'
  BY <1>1, <1>2 DEF Holds, Types, Thread
<1>15. OneOfEach'
  BY <1>1, <1>2 DEF OneOfEach
<1> QED
  BY <1>10, <1>11, <1>13, <1>14, <1>15 DEF BaseInv

LEMMA HandleArpBase ==
    ASSUME NEW ip \in Hosts
    PROVE  BaseInv /\ handle_arp_packet(ip) => BaseInv'
<1> SUFFICES ASSUME BaseInv, handle_arp_packet(ip) PROVE BaseInv'
  OBVIOUS
<1>1. Types /\ OneRequest /\ RightRequest /\ Holds /\ OneOfEach
  BY DEF BaseInv
<1>2. InsertEntry(ip) /\ Flush(ip) /\ UNCHANGED <<rtable, todo, out, pkt, pkt_list>>
  BY DEF handle_arp_packet
<1>3. entries' \in [Slot -> Entry]
  BY <1>1, <1>2, InsertKnows
<1>4. req_list' \subseteq req_list
  BY <1>1, <1>2, FlushFacts
<1>5. sent' \in Seq(Pkt)
  <2>1. \A r \in req_list : r.cached_packets \in Seq(Pkt)
    BY <1>1 DEF Types, Req
  <2>2. sent \in Seq(Pkt)
    BY <1>1 DEF Types
  <2>3. \A r \in req_list : sent \o r.cached_packets \in Seq(Pkt)
    BY <2>1, <2>2
  <2> QED
    BY <1>1, <1>2, <2>2, <2>3, FlushFacts
<1>6. Types'
  BY <1>1, <1>2, <1>3, <1>4, <1>5 DEF Types
<1>7. OneRequest'
  BY <1>1, <1>4 DEF OneRequest
<1>8. RightRequest'
  <2>1. \A q : NextHop(q)' = NextHop(q)
    BY <1>2, HopStays
  <2> QED
    BY <1>1, <1>4, <2>1 DEF RightRequest
<1>9. Holds' /\ OneOfEach'
  BY <1>1, <1>2 DEF Holds, OneOfEach
<1> QED
  BY <1>6, <1>7, <1>8, <1>9 DEF BaseInv

LEMMA SweepBase == BaseInv /\ arpcache_sweep => BaseInv'
<1> SUFFICES ASSUME BaseInv, arpcache_sweep PROVE BaseInv'
  OBVIOUS
<1>1. Types /\ OneRequest /\ RightRequest /\ Holds /\ OneOfEach
  BY DEF BaseInv
<1>2. UNCHANGED <<rtable, todo, out, pkt, sent>>
  BY DEF arpcache_sweep
<1>3. entries' \in [Slot -> Entry]
  BY <1>1, SweepForgets
<1>4. PICK over \in SUBSET req_list :
          /\ req_list' \subseteq Req
          /\ \A s \in req_list' : \E r \in req_list \ over : Same(r, s)
          /\ \A r, s \in req_list' : r.ip4 = s.ip4 => r = s
          /\ pkt_list' = UNION {ToSet(r.cached_packets) : r \in over}
  BY <1>1, SweepKeeps
<1>5. pkt_list' \subseteq Pkt
  <2>1. \A r \in over : r.cached_packets \in Seq(Pkt)
    BY <1>1 DEF Types, Req
  <2>2. \A r \in over : ToSet(r.cached_packets) \subseteq Pkt
    BY <2>1 DEF ToSet
  <2> QED
    BY <1>4, <2>2
<1>6. Types'
  BY <1>1, <1>2, <1>3, <1>4, <1>5 DEF Types
<1>7. OneRequest'
  BY <1>4 DEF OneRequest
<1>8. RightRequest'
  <2>1. \A q : NextHop(q)' = NextHop(q)
    BY <1>2, HopStays
  <2> QED
    BY <1>1, <1>4, <2>1 DEF RightRequest, Same
<1>9. Holds' /\ OneOfEach'
  BY <1>1, <1>2 DEF Holds, OneOfEach
<1> QED
  BY <1>6, <1>7, <1>8, <1>9 DEF BaseInv

LEMMA StutterBase == BaseInv /\ UNCHANGED vars => BaseInv'
<1> SUFFICES ASSUME BaseInv, UNCHANGED vars PROVE BaseInv'
  OBVIOUS
<1>1. Types' /\ Holds' /\ OneOfEach'
  BY DEF BaseInv, vars, Types, Holds, OneOfEach
<1> QED
  BY <1>1, RequestsStay DEF BaseInv, vars

--------------------------------------------------------------------------------
(* Where a packet is: with a thread, in a request, in the list of the sweeping  *)
(* thread, sent or at its end, and once there.                                  *)

In(k, s) == \E i \in DOMAIN s : s[i].id = k
Once(k, s) == \A i, j \in DOMAIN s : s[i].id = k /\ s[j].id = k => i = j

Busy(k, f) == \E t \in Thread : f[t].id = k
BusyOnce(k, f) == \A t, u \in Thread : f[t].id = k /\ f[u].id = k => t = u

Waits(k, rl) == \E r \in rl : In(k, r.cached_packets)
WaitsOnce(k, rl) ==
    /\ \A r \in rl : Once(k, r.cached_packets)
    /\ \A r, s \in rl : In(k, r.cached_packets) /\ In(k, s.cached_packets) => r = s

Listed(k, pl) == \E p \in pl : p.id = k
ListedOnce(k, pl) == \A p, q \in pl : p.id = k /\ q.id = k => p = q

Exactly(a, b, c, d, e) ==
    /\ a \/ b \/ c \/ d \/ e
    /\ a => ~ (b \/ c \/ d \/ e)
    /\ b => ~ (c \/ d \/ e)
    /\ c => ~ (d \/ e)
    /\ d => ~ e

Placed(k) == Exactly(Busy(k, pkt), Waits(k, req_list), Listed(k, pkt_list),
                     In(k, sent), k \in ended)
Nowhere(k) == /\ ~ Busy(k, pkt) /\ ~ Waits(k, req_list) /\ ~ Listed(k, pkt_list)
              /\ ~ In(k, sent) /\ k \notin ended
Uniquely(k) == /\ BusyOnce(k, pkt) /\ WaitsOnce(k, req_list)
               /\ ListedOnce(k, pkt_list) /\ Once(k, sent)

Arrived(k) == k \in 1 .. out \/ \E p \in Incoming \ todo : p.id = k

Tracked(k) == Uniquely(k) /\ IF Arrived(k) THEN Placed(k) ELSE Nowhere(k)

PlaceInv == BaseInv /\ \A k \in Ids : Tracked(k)

LEMMA ConcatFacts ==
    ASSUME NEW s \in Seq(Pkt), NEW c \in Seq(Pkt), NEW k
    PROVE  /\ s \o c \in Seq(Pkt)
           /\ In(k, s \o c) <=> In(k, s) \/ In(k, c)
           /\ Once(k, s) /\ Once(k, c) /\ ~ (In(k, s) /\ In(k, c)) => Once(k, s \o c)
<1> DEFINE m == Len(s)
           n == Len(c)
           u == s \o c
<1>1. /\ m \in Nat /\ n \in Nat /\ DOMAIN s = 1 .. m /\ DOMAIN c = 1 .. n
      /\ u \in Seq(Pkt) /\ DOMAIN u = 1 .. m + n
      /\ \A i \in 1 .. m : u[i] = s[i]
      /\ \A i \in 1 .. n : u[m + i] = c[i]
  OBVIOUS
<1> HIDE DEF m, n, u
<1>2. \A i \in 1 .. m + n : \/ i \in 1 .. m /\ u[i] = s[i]
                            \/ i - m \in 1 .. n /\ u[i] = c[i - m] /\ i \notin 1 .. m
  <2> SUFFICES ASSUME NEW i \in 1 .. m + n, i \notin 1 .. m
               PROVE  i - m \in 1 .. n /\ u[i] = c[i - m]
    BY <1>1
  <2>1. i - m \in 1 .. n /\ m + (i - m) = i
    BY <1>1
  <2>2. u[m + (i - m)] = c[i - m]
    BY <1>1, <2>1
  <2> QED
    BY <2>1, <2>2
<1>3. In(k, u) <=> In(k, s) \/ In(k, c)
  <2>1. ASSUME NEW i \in 1 .. m + n, u[i].id = k PROVE In(k, s) \/ In(k, c)
    <3>1. CASE i \in 1 .. m /\ u[i] = s[i]
      BY <1>1, <2>1, <3>1 DEF In
    <3>2. CASE i - m \in 1 .. n /\ u[i] = c[i - m]
      BY <1>1, <2>1, <3>2 DEF In
    <3> QED
      BY <1>2, <3>1, <3>2
  <2>2. In(k, s) => In(k, u)
    <3>1. \A i \in 1 .. m : i \in 1 .. m + n
      BY <1>1
    <3> QED
      BY <1>1, <3>1 DEF In
  <2>3. In(k, c) => In(k, u)
    <3> SUFFICES ASSUME NEW i \in 1 .. n, c[i].id = k PROVE In(k, u)
      BY <1>1 DEF In
    <3>1. m + i \in 1 .. m + n
      BY <1>1
    <3>2. u[m + i].id = k
      BY <1>1
    <3> QED
      BY <1>1, <3>1, <3>2 DEF In
  <2>4. In(k, u) => In(k, s) \/ In(k, c)
    BY <1>1, <2>1 DEF In
  <2> QED
    BY <2>2, <2>3, <2>4
<1>4. ASSUME Once(k, s), Once(k, c), ~ (In(k, s) /\ In(k, c)) PROVE Once(k, u)
  <2> SUFFICES ASSUME NEW i \in 1 .. m + n, NEW j \in 1 .. m + n, u[i].id = k, u[j].id = k
               PROVE  i = j
    BY <1>1 DEF Once
  <2>1. CASE i \in 1 .. m /\ j \in 1 .. m
    BY <1>1, <1>4, <2>1 DEF Once
  <2>2. CASE i \notin 1 .. m /\ j \notin 1 .. m
    <3> DEFINE a == i - m
               b == j - m
    <3>1. a \in 1 .. n /\ u[i] = c[a] /\ b \in 1 .. n /\ u[j] = c[b]
      BY <1>2, <2>2
    <3>2. a = b => i = j
      BY <1>1
    <3> HIDE DEF a, b
    <3>3. a = b
      BY <1>1, <1>4, <3>1 DEF Once
    <3> QED
      BY <3>2, <3>3
  <2>3. CASE ~ (i \in 1 .. m <=> j \in 1 .. m)
    <3>1. ASSUME NEW x \in 1 .. m + n, u[x].id = k, x \in 1 .. m PROVE In(k, s)
      BY <1>1, <3>1 DEF In
    <3>2. ASSUME NEW x \in 1 .. m + n, u[x].id = k, x \notin 1 .. m PROVE In(k, c)
      <4>1. x - m \in 1 .. n /\ u[x] = c[x - m]
        BY <1>2, <3>2
      <4> QED
        BY <1>1, <3>2, <4>1 DEF In
    <3> QED
      BY <1>4, <2>3, <3>1, <3>2
  <2> QED
    BY <2>1, <2>2, <2>3
<1> QED
  BY <1>1, <1>3, <1>4 DEF u

LEMMA AppendFacts ==
    ASSUME NEW s \in Seq(Pkt), NEW x \in Pkt, NEW k
    PROVE  /\ Append(s, x) \in Seq(Pkt)
           /\ In(k, Append(s, x)) <=> In(k, s) \/ x.id = k
           /\ Once(k, s) /\ ~ (In(k, s) /\ x.id = k) => Once(k, Append(s, x))
<1> DEFINE c == <<x>>
<1>1. c \in Seq(Pkt) /\ DOMAIN c = {1} /\ c[1] = x
  OBVIOUS
<1>2. Append(s, x) = s \o c
  OBVIOUS
<1> HIDE DEF c
<1>3. (In(k, c) <=> x.id = k) /\ Once(k, c)
  BY <1>1 DEF In, Once
<1>4. /\ s \o c \in Seq(Pkt)
      /\ In(k, s \o c) <=> In(k, s) \/ In(k, c)
      /\ Once(k, s) /\ Once(k, c) /\ ~ (In(k, s) /\ In(k, c)) => Once(k, s \o c)
  BY <1>1, ConcatFacts
<1> QED
  BY <1>2, <1>3, <1>4

(* A packet that is sent comes to one place; the others stay where they are.    *)
LEMMA GoesPlaces ==
    ASSUME Types, NEW t \in Thread, NEW q \in Pkt, Goes(t, q), pkt[t] = NoPkt, NEW k \in Ids,
           BusyOnce(k, pkt), Once(k, sent),
           q.id = k => ~ Busy(k, pkt) /\ ~ In(k, sent) /\ k \notin ended
    PROVE  /\ BusyOnce(k, pkt') /\ Once(k, sent')
           /\ q.id = k => Exactly(Busy(k, pkt'), In(k, sent'), k \in ended', FALSE, FALSE)
           /\ q.id # k => /\ Busy(k, pkt') <=> Busy(k, pkt)
                          /\ In(k, sent') <=> In(k, sent)
                          /\ k \in ended' <=> k \in ended
<1>1. pkt \in [Thread -> Pkt \cup {NoPkt}] /\ sent \in Seq(Pkt)
  BY DEF Types
<1>2. NoPkt.id # k
  BY IdFacts DEF NoPkt
<1>3. CASE sent' = Append(sent, q) /\ UNCHANGED <<pkt, ended>>
  <2>1. /\ In(k, sent') <=> In(k, sent) \/ q.id = k
        /\ Once(k, sent')
    BY <1>1, <1>3, AppendFacts
  <2> QED
    BY <1>3, <2>1 DEF Exactly
<1>4. CASE pkt' = [pkt EXCEPT ![t] = q] /\ UNCHANGED <<sent, ended>>
  <2>1. pkt'[t] = q /\ \A u \in Thread : u # t => pkt'[u] = pkt[u]
    BY <1>1, <1>4
  <2>2. Busy(k, pkt') <=> Busy(k, pkt) \/ q.id = k
    BY <1>2, <2>1 DEF Busy
  <2>3. BusyOnce(k, pkt')
    BY <2>1 DEF Busy, BusyOnce
  <2> QED
    BY <1>4, <2>2, <2>3 DEF Exactly
<1>5. CASE ended' = ended \cup {q.id} /\ UNCHANGED <<pkt, sent>>
  BY <1>5 DEF Exactly
<1> QED
  BY <1>3, <1>4, <1>5 DEF Goes

LEMMA InitPlaces == Init => PlaceInv
<1> SUFFICES ASSUME Init PROVE PlaceInv
  OBVIOUS
<1>1. /\ req_list = {} /\ pkt_list = {} /\ todo = Incoming /\ out = 0 /\ sent = <<>> /\ ended = {}
      /\ \A t \in Thread : pkt[t].id = 0
  BY DEF Init, NoPkt
<1>2. DOMAIN sent = {}
  BY <1>1
<1>3. ASSUME NEW k \in Ids PROVE Uniquely(k) /\ Nowhere(k) /\ ~ Arrived(k)
  <2>1. k # 0
    BY IdFacts
  <2>2. Uniquely(k) /\ Nowhere(k)
    BY <1>1, <1>2, <2>1 DEF Uniquely, BusyOnce, WaitsOnce, ListedOnce, Once,
                            Nowhere, Busy, Waits, Listed, In
  <2>3. ~ Arrived(k)
    BY <1>1 DEF Arrived
  <2> QED
    BY <2>2, <2>3
<1> QED
  BY <1>3, InitBase DEF PlaceInv, Tracked

LEMMA HandleIpPlaces ==
    ASSUME NEW p \in Incoming, NEW protocol, NEW ttl
    PROVE  PlaceInv /\ handle_ip_packet(p, protocol, ttl) => PlaceInv'
<1> SUFFICES ASSUME PlaceInv, handle_ip_packet(p, protocol, ttl) PROVE PlaceInv'
  OBVIOUS
<1>1. BaseInv' /\ Types /\ OneOfEach
  BY HandleIpBase DEF PlaceInv, BaseInv
<1>2. /\ pkt["main"] = NoPkt /\ p \in todo /\ todo' = {x \in todo : x.id # p.id}
      /\ UNCHANGED <<req_list, out, pkt_list>>
  BY <1>1, HandleGoes
<1>3. PICK q \in Pkt : q.id = p.id /\ Goes("main", q)
  BY <1>1, HandleGoes
<1>4. "main" \in Thread
  BY DEF Thread
<1>5. ASSUME NEW k \in Ids PROVE Tracked(k)'
  <2>1. Uniquely(k) /\ IF Arrived(k) THEN Placed(k) ELSE Nowhere(k)
    BY DEF PlaceInv, Tracked
  <2>2. k = p.id => ~ Arrived(k)
    <3> SUFFICES ASSUME k = p.id PROVE ~ Arrived(k)
      OBVIOUS
    <3>1. out \in 0 .. Len(Segments)
      BY <1>1 DEF Types
    <3>2. k \notin 1 .. out
      BY <3>1, IdFacts
    <3>3. \A x \in Incoming : x.id = k => x \in todo
      BY <1>1, <1>2 DEF OneOfEach
    <3> QED
      BY <3>2, <3>3 DEF Arrived
  <2>3. q.id = k => ~ Busy(k, pkt) /\ ~ In(k, sent) /\ k \notin ended
    BY <1>3, <2>1, <2>2 DEF Nowhere
  <2>4. /\ BusyOnce(k, pkt') /\ Once(k, sent')
        /\ q.id = k => Exactly(Busy(k, pkt'), In(k, sent'), k \in ended', FALSE, FALSE)
        /\ q.id # k => /\ Busy(k, pkt') <=> Busy(k, pkt)
                       /\ In(k, sent') <=> In(k, sent)
                       /\ k \in ended' <=> k \in ended
    BY <1>1, <1>2, <1>3, <1>4, <2>1, <2>3, GoesPlaces DEF Uniquely
  <2>5. Uniquely(k)'
    BY <1>2, <2>1, <2>4 DEF Uniquely
  <2>6. CASE k = p.id
    <3>1. Arrived(k)'
      BY <1>2, <2>6 DEF Arrived
    <3>2. Placed(k)'
      BY <1>2, <1>3, <2>1, <2>2, <2>4, <2>6 DEF Nowhere, Placed, Exactly
    <3> QED
      BY <2>5, <3>1, <3>2 DEF Tracked
  <2>7. CASE k # p.id
    <3>1. Arrived(k)' <=> Arrived(k)
      BY <1>2, <2>7 DEF Arrived
    <3>2. (Placed(k)' <=> Placed(k)) /\ (Nowhere(k)' <=> Nowhere(k))
      BY <1>2, <1>3, <2>4, <2>7 DEF Nowhere, Placed, Exactly
    <3> QED
      BY <2>1, <2>5, <3>1, <3>2 DEF Tracked
  <2> QED
    BY <2>6, <2>7
<1> QED
  BY <1>1, <1>5 DEF PlaceInv

LEMMA TcpSendPlaces == PlaceInv /\ tcp_send_packet => PlaceInv'
<1> SUFFICES ASSUME PlaceInv, tcp_send_packet PROVE PlaceInv'
  OBVIOUS
<1>1. BaseInv' /\ Types
  BY TcpSendBase DEF PlaceInv, BaseInv
<1>2. /\ pkt["app"] = NoPkt /\ out' = out + 1 /\ out + 1 \in Seg
      /\ UNCHANGED <<req_list, todo, pkt_list>>
  BY <1>1, TcpGoes
<1>3. PICK q \in Pkt : q.id = out + 1 /\ Goes("app", q)
  BY <1>1, TcpGoes
<1>4. "app" \in Thread /\ out \in Nat
  BY <1>1, IdFacts DEF Thread, Types
<1>5. ASSUME NEW k \in Ids PROVE Tracked(k)'
  <2>1. Uniquely(k) /\ IF Arrived(k) THEN Placed(k) ELSE Nowhere(k)
    BY DEF PlaceInv, Tracked
  <2>2. k = out + 1 => ~ Arrived(k)
    <3> SUFFICES ASSUME k = out + 1 PROVE ~ Arrived(k)
      OBVIOUS
    <3>1. k \notin 1 .. out
      BY <1>4
    <3>2. \A x \in Incoming : x.id # k
      BY <1>2, IdFacts
    <3> QED
      BY <3>1, <3>2 DEF Arrived
  <2>3. q.id = k => ~ Busy(k, pkt) /\ ~ In(k, sent) /\ k \notin ended
    BY <1>3, <2>1, <2>2 DEF Nowhere
  <2>4. /\ BusyOnce(k, pkt') /\ Once(k, sent')
        /\ q.id = k => Exactly(Busy(k, pkt'), In(k, sent'), k \in ended', FALSE, FALSE)
        /\ q.id # k => /\ Busy(k, pkt') <=> Busy(k, pkt)
                       /\ In(k, sent') <=> In(k, sent)
                       /\ k \in ended' <=> k \in ended
    BY <1>1, <1>2, <1>3, <1>4, <2>1, <2>3, GoesPlaces DEF Uniquely
  <2>5. Uniquely(k)'
    BY <1>2, <2>1, <2>4 DEF Uniquely
  <2>6. CASE k = out + 1
    <3>1. k \in 1 .. out'
      BY <1>2, <1>4, <2>6
    <3>2. Arrived(k)'
      BY <3>1 DEF Arrived
    <3>3. Placed(k)'
      BY <1>2, <1>3, <2>1, <2>2, <2>4, <2>6 DEF Nowhere, Placed, Exactly
    <3> QED
      BY <2>5, <3>2, <3>3 DEF Tracked
  <2>7. CASE k # out + 1
    <3>1. k \in 1 .. out' <=> k \in 1 .. out
      BY <1>2, <1>4, <2>7
    <3>2. Arrived(k)' <=> Arrived(k)
      BY <1>2, <3>1 DEF Arrived
    <3>3. (Placed(k)' <=> Placed(k)) /\ (Nowhere(k)' <=> Nowhere(k))
      BY <1>2, <1>3, <2>4, <2>7 DEF Nowhere, Placed, Exactly
    <3> QED
      BY <2>1, <2>5, <3>2, <3>3 DEF Tracked
  <2> QED
    BY <2>6, <2>7
<1> QED
  BY <1>1, <1>5 DEF PlaceInv

LEMMA ReportPlaces == PlaceInv /\ Report => PlaceInv'
<1> SUFFICES ASSUME PlaceInv, Report PROVE PlaceInv'
  OBVIOUS
<1>1. BaseInv' /\ Types
  BY ReportBase DEF PlaceInv, BaseInv
<1>2. pkt["sweep"] = NoPkt /\ UNCHANGED <<req_list, todo, out>>
  BY <1>1, ReportGoes
<1>3. PICK p \in pkt_list, q \in Pkt :
          q.id = p.id /\ Goes("sweep", q) /\ pkt_list' = pkt_list \ {p}
  BY <1>1, ReportGoes
<1>4. "sweep" \in Thread
  BY DEF Thread
<1>5. ASSUME NEW k \in Ids PROVE Tracked(k)'
  <2>1. Uniquely(k) /\ IF Arrived(k) THEN Placed(k) ELSE Nowhere(k)
    BY DEF PlaceInv, Tracked
  <2>2. q.id = k => Listed(k, pkt_list)
    BY <1>3 DEF Listed
  <2>3. q.id = k => Arrived(k) /\ Placed(k)
    BY <2>1, <2>2 DEF Nowhere
  <2>4. q.id = k => /\ ~ Busy(k, pkt) /\ ~ In(k, sent) /\ k \notin ended
                    /\ ~ Waits(k, req_list)
    BY <2>2, <2>3 DEF Placed, Exactly
  <2>5. /\ BusyOnce(k, pkt') /\ Once(k, sent')
        /\ q.id = k => Exactly(Busy(k, pkt'), In(k, sent'), k \in ended', FALSE, FALSE)
        /\ q.id # k => /\ Busy(k, pkt') <=> Busy(k, pkt)
                       /\ In(k, sent') <=> In(k, sent)
                       /\ k \in ended' <=> k \in ended
    BY <1>1, <1>2, <1>3, <1>4, <2>1, <2>4, GoesPlaces DEF Uniquely
  <2>6. ListedOnce(k, pkt_list') /\ (q.id # k => (Listed(k, pkt_list') <=> Listed(k, pkt_list)))
    BY <1>3, <2>1 DEF Uniquely, ListedOnce, Listed
  <2>7. q.id = k => ~ Listed(k, pkt_list')
    BY <1>3, <2>1 DEF Uniquely, ListedOnce, Listed
  <2>8. Uniquely(k)'
    BY <1>2, <2>1, <2>5, <2>6 DEF Uniquely
  <2>9. Arrived(k)' <=> Arrived(k)
    BY <1>2 DEF Arrived
  <2>10. CASE q.id = k
    <3>1. Placed(k)'
      BY <1>2, <2>4, <2>5, <2>7, <2>10 DEF Placed, Exactly
    <3> QED
      BY <2>3, <2>8, <2>9, <2>10, <3>1 DEF Tracked
  <2>11. CASE q.id # k
    <3>1. (Placed(k)' <=> Placed(k)) /\ (Nowhere(k)' <=> Nowhere(k))
      BY <1>2, <2>5, <2>6, <2>11 DEF Nowhere, Placed, Exactly
    <3> QED
      BY <2>1, <2>8, <2>9, <3>1 DEF Tracked
  <2> QED
    BY <2>10, <2>11
<1> QED
  BY <1>1, <1>5 DEF PlaceInv

LEMMA AppendPlaces ==
    ASSUME NEW t \in Thread
    PROVE  PlaceInv /\ arpcache_append_packet(t) => PlaceInv'
<1> SUFFICES ASSUME PlaceInv, arpcache_append_packet(t) PROVE PlaceInv'
  OBVIOUS
<1>1. BaseInv' /\ Types
  BY AppendBase DEF PlaceInv, BaseInv
<1> DEFINE x == pkt[t]
<1>2. /\ pkt' = [pkt EXCEPT ![t] = NoPkt]
      /\ UNCHANGED <<todo, out, pkt_list, sent, ended>>
  BY DEF arpcache_append_packet
<1>3. x \in Pkt
  BY <1>1, AppendJoins
<1>4. PICK r \in Req : /\ Joins(r, x)
                       /\ Kept(r, x).cached_packets = Append(r.cached_packets, x)
  BY <1>1, AppendJoins
<1>5. pkt \in [Thread -> Pkt \cup {NoPkt}]
  BY <1>1 DEF Types
<1>6. pkt'[t] = NoPkt /\ \A u \in Thread : u # t => pkt'[u] = pkt[u]
  BY <1>2, <1>5
<1>7. pkt[t] = x
  OBVIOUS
<1> HIDE DEF x
<1> DEFINE n == Kept(r, x)
<1>8. r.cached_packets \in Seq(Pkt)
  BY DEF Req
<1>9. \/ r \in req_list /\ req_list' = (req_list \ {r}) \cup {n}
      \/ r.cached_packets = <<>> /\ req_list' = req_list \cup {n}
  BY <1>4 DEF Joins
<1>10. n.cached_packets = Append(r.cached_packets, x)
  BY <1>4
<1> HIDE DEF n
<1>11. ASSUME NEW k \in Ids PROVE Tracked(k)'
  <2>1. Uniquely(k) /\ IF Arrived(k) THEN Placed(k) ELSE Nowhere(k)
    BY DEF PlaceInv, Tracked
  <2>2. NoPkt.id # k
    BY IdFacts DEF NoPkt
  <2>3. x.id = k => Busy(k, pkt)
    BY <1>7 DEF Busy
  <2>4. x.id = k => Arrived(k) /\ Placed(k) /\ ~ Waits(k, req_list)
    BY <2>1, <2>3 DEF Nowhere, Placed, Exactly
  <2>5. /\ In(k, n.cached_packets) <=> In(k, r.cached_packets) \/ x.id = k
        /\ Once(k, r.cached_packets) /\ ~ (In(k, r.cached_packets) /\ x.id = k)
              => Once(k, n.cached_packets)
    BY <1>3, <1>8, <1>10, AppendFacts
  <2>6. WaitsOnce(k, req_list') /\ (Waits(k, req_list') <=> Waits(k, req_list) \/ x.id = k)
    <3>1. CASE r \in req_list /\ req_list' = (req_list \ {r}) \cup {n}
      <4>1. Once(k, n.cached_packets)
        BY <2>1, <2>4, <2>5, <3>1 DEF Uniquely, WaitsOnce, Waits
      <4>2. Waits(k, req_list') <=> Waits(k, req_list) \/ x.id = k
        BY <2>5, <3>1 DEF Waits
      <4>3. \A s \in req_list \ {r} : In(k, s.cached_packets) => ~ In(k, n.cached_packets)
        BY <2>1, <2>4, <2>5, <3>1 DEF Uniquely, WaitsOnce, Waits
      <4>4. WaitsOnce(k, req_list')
        BY <2>1, <3>1, <4>1, <4>3 DEF Uniquely, WaitsOnce
      <4> QED
        BY <4>2, <4>4
    <3>2. CASE r.cached_packets = <<>> /\ req_list' = req_list \cup {n}
      <4>1. DOMAIN <<>> = {}
        OBVIOUS
      <4>2. ~ In(k, r.cached_packets) /\ Once(k, r.cached_packets)
        BY <3>2, <4>1 DEF In, Once
      <4>3. (In(k, n.cached_packets) <=> x.id = k) /\ Once(k, n.cached_packets)
        BY <2>5, <4>2
      <4> QED
        BY <2>1, <2>4, <3>2, <4>3 DEF Uniquely, WaitsOnce, Waits
    <3> QED
      BY <1>9, <3>1, <3>2
  <2>7. BusyOnce(k, pkt')
    BY <1>6, <2>1, <2>2 DEF Uniquely, BusyOnce
  <2>8. Busy(k, pkt') <=> Busy(k, pkt) /\ x.id # k
    BY <1>6, <1>7, <2>1, <2>2 DEF Uniquely, BusyOnce, Busy
  <2>9. Uniquely(k)'
    BY <1>2, <2>1, <2>6, <2>7 DEF Uniquely
  <2>10. Arrived(k)' <=> Arrived(k)
    BY <1>2 DEF Arrived
  <2>11. CASE x.id = k
    <3>1. Placed(k)'
      BY <1>2, <2>3, <2>4, <2>6, <2>8, <2>11 DEF Placed, Exactly
    <3> QED
      BY <2>4, <2>9, <2>10, <2>11, <3>1 DEF Tracked
  <2>12. CASE x.id # k
    <3>1. (Placed(k)' <=> Placed(k)) /\ (Nowhere(k)' <=> Nowhere(k))
      BY <1>2, <2>6, <2>8, <2>12 DEF Nowhere, Placed, Exactly
    <3> QED
      BY <2>1, <2>9, <2>10, <3>1 DEF Tracked
  <2> QED
    BY <2>11, <2>12
<1> QED
  BY <1>1, <1>11 DEF PlaceInv

LEMMA HandleArpPlaces ==
    ASSUME NEW ip \in Hosts
    PROVE  PlaceInv /\ handle_arp_packet(ip) => PlaceInv'
<1> SUFFICES ASSUME PlaceInv, handle_arp_packet(ip) PROVE PlaceInv'
  OBVIOUS
<1>1. BaseInv' /\ Types /\ OneRequest
  BY HandleArpBase DEF PlaceInv, BaseInv
<1>2. Flush(ip) /\ UNCHANGED <<todo, out, pkt, pkt_list, ended>>
  BY DEF handle_arp_packet
<1>3. req_list \subseteq Req /\ sent \in Seq(Pkt)
  BY <1>1 DEF Types
<1>4. \A k : Arrived(k)' <=> Arrived(k)
  BY <1>2 DEF Arrived
<1>5. CASE UNCHANGED <<req_list, sent>>
  <2>1. \A k \in Ids : Tracked(k)' <=> Tracked(k)
    BY <1>2, <1>4, <1>5 DEF Tracked, Uniquely, Placed, Nowhere
  <2> QED
    BY <1>1, <2>1 DEF PlaceInv
<1>6. ASSUME NEW r \in req_list, sent' = sent \o r.cached_packets, req_list' = req_list \ {r}
      PROVE  PlaceInv'
  <2> DEFINE c == r.cached_packets
  <2>1. c \in Seq(Pkt)
    BY <1>3 DEF Req
  <2>2. ASSUME NEW k \in Ids PROVE Tracked(k)'
    <3>1. Uniquely(k) /\ IF Arrived(k) THEN Placed(k) ELSE Nowhere(k)
      BY DEF PlaceInv, Tracked
    <3>2. /\ In(k, sent \o c) <=> In(k, sent) \/ In(k, c)
          /\ Once(k, sent) /\ Once(k, c) /\ ~ (In(k, sent) /\ In(k, c)) => Once(k, sent \o c)
      BY <1>3, <2>1, ConcatFacts
    <3>3. In(k, c) => Waits(k, req_list)
      BY DEF Waits
    <3>4. ~ (In(k, sent) /\ In(k, c)) /\ Once(k, c)
      BY <3>1, <3>3 DEF Placed, Exactly, Nowhere, Uniquely, WaitsOnce
    <3>5. Once(k, sent') /\ (In(k, sent') <=> In(k, sent) \/ In(k, c))
      BY <1>6, <3>1, <3>2, <3>4 DEF Uniquely
    <3>6. WaitsOnce(k, req_list')
      BY <1>6, <3>1 DEF Uniquely, WaitsOnce
    <3>7. /\ Waits(k, req_list) <=> Waits(k, req_list') \/ In(k, c)
          /\ ~ (Waits(k, req_list') /\ In(k, c))
      BY <1>6, <3>1 DEF Waits, Uniquely, WaitsOnce
    <3> HIDE DEF c
    <3>8. Uniquely(k)'
      BY <1>2, <3>1, <3>5, <3>6 DEF Uniquely
    <3>9. (Placed(k) => Placed(k)') /\ (Nowhere(k) => Nowhere(k)')
      BY <1>2, <3>5, <3>7 DEF Placed, Exactly, Nowhere
    <3> QED
      BY <1>4, <3>1, <3>8, <3>9 DEF Tracked
  <2> QED
    BY <1>1, <2>2 DEF PlaceInv
<1> QED
  BY <1>2, <1>5, <1>6 DEF Flush

LEMMA SweepPlaces == PlaceInv /\ arpcache_sweep => PlaceInv'
<1> SUFFICES ASSUME PlaceInv, arpcache_sweep PROVE PlaceInv'
  OBVIOUS
<1>1. BaseInv' /\ Types /\ OneRequest
  BY SweepBase DEF PlaceInv, BaseInv
<1>2. pkt_list = {} /\ UNCHANGED <<todo, out, pkt, sent, ended>>
  BY DEF arpcache_sweep
<1>3. PICK over \in SUBSET req_list :
          /\ \A s \in req_list' : \E r \in req_list \ over : Same(r, s)
          /\ \A r \in req_list \ over : \E s \in req_list' : Same(r, s)
          /\ \A r, s \in req_list' : r.ip4 = s.ip4 => r = s
          /\ pkt_list' = UNION {ToSet(r.cached_packets) : r \in over}
  BY <1>1, SweepKeeps
<1>4. \A q : q \in pkt_list' <=> \E r \in over : \E i \in DOMAIN r.cached_packets :
                                                     r.cached_packets[i] = q
  <2>1. \A q, s : q \in ToSet(s) <=> \E i \in DOMAIN s : s[i] = q
    BY DEF ToSet
  <2> QED
    BY <1>3, <2>1
<1>5. ASSUME NEW k \in Ids PROVE Tracked(k)'
  <2>1. Uniquely(k) /\ IF Arrived(k) THEN Placed(k) ELSE Nowhere(k)
    BY DEF PlaceInv, Tracked
  <2>2. Listed(k, pkt_list') <=> Waits(k, over)
    BY <1>4 DEF Listed, Waits, In
  <2>3. ListedOnce(k, pkt_list')
    <3> SUFFICES ASSUME NEW p \in pkt_list', NEW q \in pkt_list', p.id = k, q.id = k
                 PROVE  p = q
      BY DEF ListedOnce
    <3>1. PICK r \in over : \E i \in DOMAIN r.cached_packets : r.cached_packets[i] = p
      BY <1>4
    <3>2. PICK s \in over : \E i \in DOMAIN s.cached_packets : s.cached_packets[i] = q
      BY <1>4
    <3>3. r = s
      BY <2>1, <3>1, <3>2 DEF Uniquely, WaitsOnce, In
    <3>4. Once(k, r.cached_packets)
      BY <2>1, <3>1 DEF Uniquely, WaitsOnce
    <3> QED
      BY <3>1, <3>2, <3>3, <3>4 DEF Once
  <2>4. WaitsOnce(k, req_list')
    <3>1. \A s \in req_list' : Once(k, s.cached_packets)
      BY <1>3, <2>1 DEF Uniquely, WaitsOnce, Same
    <3>2. ASSUME NEW s1 \in req_list', NEW s2 \in req_list',
                 In(k, s1.cached_packets), In(k, s2.cached_packets)
          PROVE  s1 = s2
      <4>1. PICK r1 \in req_list : Same(r1, s1)
        BY <1>3
      <4>2. PICK r2 \in req_list : Same(r2, s2)
        BY <1>3
      <4>3. r1 = r2
        BY <2>1, <3>2, <4>1, <4>2 DEF Uniquely, WaitsOnce, Same
      <4> QED
        BY <1>3, <4>1, <4>2, <4>3 DEF Same
    <3> QED
      BY <3>1, <3>2 DEF WaitsOnce
  <2>5. Waits(k, req_list) <=> Waits(k, req_list') \/ Waits(k, over)
    BY <1>3 DEF Waits, Same
  <2>6. ~ (Waits(k, req_list') /\ Waits(k, over))
    BY <1>3, <2>1 DEF Waits, Uniquely, WaitsOnce, Same
  <2>7. ~ Listed(k, pkt_list)
    BY <1>2 DEF Listed
  <2>8. Uniquely(k)'
    BY <1>2, <2>1, <2>3, <2>4 DEF Uniquely
  <2>9. (Placed(k) => Placed(k)') /\ (Nowhere(k) => Nowhere(k)')
    BY <1>2, <2>2, <2>5, <2>6, <2>7 DEF Placed, Exactly, Nowhere
  <2>10. Arrived(k)' <=> Arrived(k)
    BY <1>2 DEF Arrived
  <2> QED
    BY <2>1, <2>8, <2>9, <2>10 DEF Tracked
<1> QED
  BY <1>1, <1>5 DEF PlaceInv

LEMMA StutterPlaces == PlaceInv /\ UNCHANGED vars => PlaceInv'
<1> SUFFICES ASSUME PlaceInv, UNCHANGED vars PROVE PlaceInv'
  OBVIOUS
<1>1. BaseInv'
  BY StutterBase DEF PlaceInv
<1>2. \A k \in Ids : Tracked(k)' <=> Tracked(k)
  BY DEF vars, Tracked, Uniquely, Arrived, Placed, Nowhere
<1> QED
  BY <1>1, <1>2 DEF PlaceInv

--------------------------------------------------------------------------------
(* The error for a packet of the host itself: its hop is the host, whom no      *)
(* neighbour maps, so it goes from the sweeping thread to the request for the   *)
(* host and back.                                                               *)

IsOwn(q, k) == q # NoPkt /\ q.id = k /\ q.dst = Me
OwnHeld(k) == \/ \E t \in Thread : IsOwn(pkt[t], k)
              \/ \E r \in req_list : \E i \in DOMAIN r.cached_packets :
                     IsOwn(r.cached_packets[i], k)
              \/ \E p \in pkt_list : IsOwn(p, k)

OwnInv == \A k \in reported : OwnHeld(k)

LEMMA GoesOwn ==
    ASSUME Types, NEW t \in Thread, NEW q \in Pkt, Goes(t, q), pkt[t] = NoPkt
    PROVE  /\ \A u \in Thread : pkt[u] # NoPkt => pkt'[u] = pkt[u]
           /\ q.dst = Me => pkt'[t] = q
<1>1. pkt \in [Thread -> Pkt \cup {NoPkt}]
  BY DEF Types
<1>2. q.dst = Me => ~ arpcache_lookup(NextHop(q))
  BY HopFacts, MeUnknown
<1> QED
  BY <1>1, <1>2 DEF Goes

LEMMA HandleIpOwn ==
    ASSUME NEW p \in Incoming, NEW protocol, NEW ttl, BaseInv, OwnInv,
           handle_ip_packet(p, protocol, ttl)
    PROVE  OwnInv'
<1>1. Types
  BY DEF BaseInv
<1>2. pkt["main"] = NoPkt /\ UNCHANGED <<req_list, pkt_list, reported>>
  BY <1>1, HandleGoes
<1>3. PICK q \in Pkt : Goes("main", q)
  BY <1>1, HandleGoes
<1>4. \A u \in Thread : pkt[u] # NoPkt => pkt'[u] = pkt[u]
  BY <1>1, <1>2, <1>3, GoesOwn DEF Thread
<1>5. \A k \in reported : OwnHeld(k)'
  BY <1>2, <1>4 DEF OwnInv, OwnHeld, IsOwn
<1> QED
  BY <1>2, <1>5 DEF OwnInv

LEMMA TcpSendOwn == ASSUME BaseInv, OwnInv, tcp_send_packet PROVE OwnInv'
<1>1. Types
  BY DEF BaseInv
<1>2. pkt["app"] = NoPkt /\ UNCHANGED <<req_list, pkt_list, reported>>
  BY <1>1, TcpGoes
<1>3. PICK q \in Pkt : Goes("app", q)
  BY <1>1, TcpGoes
<1>4. \A u \in Thread : pkt[u] # NoPkt => pkt'[u] = pkt[u]
  BY <1>1, <1>2, <1>3, GoesOwn DEF Thread
<1>5. \A k \in reported : OwnHeld(k)'
  BY <1>2, <1>4 DEF OwnInv, OwnHeld, IsOwn
<1> QED
  BY <1>2, <1>5 DEF OwnInv

LEMMA ReportOwn == ASSUME BaseInv, OwnInv, Report PROVE OwnInv'
<1>1. Types
  BY DEF BaseInv
<1>2. pkt["sweep"] = NoPkt /\ UNCHANGED req_list /\ "sweep" \in Thread
  BY <1>1, ReportGoes DEF Thread
<1>3. PICK p \in pkt_list, q \in Pkt :
          /\ q.id = p.id /\ q.dst = p.src /\ Goes("sweep", q)
          /\ pkt_list' = pkt_list \ {p}
          /\ reported' = IF p.src = Me THEN reported \cup {p.id} ELSE reported
  BY <1>1, ReportGoes
<1>4. /\ \A u \in Thread : pkt[u] # NoPkt => pkt'[u] = pkt[u]
      /\ q.dst = Me => pkt'["sweep"] = q
  BY <1>1, <1>2, <1>3, GoesOwn
<1>5. p.dst = Me => p.src = Me
  BY <1>1, PktFacts DEF Types
<1>6. p.src = Me => OwnHeld(p.id)'
  <2>1. q # NoPkt
    BY PktFacts
  <2> QED
    BY <1>2, <1>3, <1>4, <2>1 DEF OwnHeld, IsOwn
<1>7. ASSUME NEW k \in reported PROVE OwnHeld(k)'
  <2>1. CASE IsOwn(p, k)
    BY <1>5, <1>6, <2>1 DEF IsOwn
  <2>2. CASE ~ IsOwn(p, k)
    BY <1>2, <1>3, <1>4, <2>2 DEF OwnInv, OwnHeld, IsOwn
  <2> QED
    BY <2>1, <2>2
<1> QED
  BY <1>3, <1>6, <1>7 DEF OwnInv

LEMMA AppendOwn ==
    ASSUME NEW t \in Thread, BaseInv, OwnInv, arpcache_append_packet(t)
    PROVE  OwnInv'
<1>1. Types
  BY DEF BaseInv
<1> DEFINE x == pkt[t]
<1>2. pkt' = [pkt EXCEPT ![t] = NoPkt] /\ UNCHANGED <<pkt_list, reported>>
  BY DEF arpcache_append_packet
<1>3. x \in Pkt
  BY <1>1, AppendJoins
<1>4. PICK r \in Req : /\ Joins(r, x)
                       /\ Kept(r, x).cached_packets = Append(r.cached_packets, x)
  BY <1>1, AppendJoins
<1>5. \A u \in Thread : u # t => pkt'[u] = pkt[u]
  BY <1>1, <1>2 DEF Types
<1>6. pkt[t] = x
  OBVIOUS
<1> HIDE DEF x
<1> DEFINE n == Kept(r, x)
           c == r.cached_packets
           d == n.cached_packets
<1>7. n \in req_list' /\ \A s \in req_list : s = r \/ s \in req_list'
  BY <1>4 DEF Joins
<1>8. c \in Seq(Pkt) /\ d = Append(c, x)
  BY <1>4 DEF Req
<1> HIDE DEF n, c, d
<1>9. \E i \in DOMAIN d : d[i] = x
  BY <1>3, <1>8
<1>10. \A i \in DOMAIN c : i \in DOMAIN d /\ d[i] = c[i]
  BY <1>3, <1>8
<1>11. ASSUME NEW k \in reported PROVE OwnHeld(k)'
  <2>1. OwnHeld(k)
    BY DEF OwnInv
  <2>2. CASE \E u \in Thread : IsOwn(pkt[u], k)
    <3>1. PICK u \in Thread : IsOwn(pkt[u], k)
      BY <2>2
    <3>2. CASE u = t
      <4>1. \E i \in DOMAIN d : IsOwn(d[i], k)
        BY <1>6, <1>9, <3>1, <3>2
      <4> QED
        BY <1>7, <4>1 DEF OwnHeld, d
    <3>3. CASE u # t
      BY <1>5, <3>1, <3>3 DEF OwnHeld
    <3> QED
      BY <3>2, <3>3
  <2>3. CASE \E s \in req_list : \E i \in DOMAIN s.cached_packets : IsOwn(s.cached_packets[i], k)
    <3>1. PICK s \in req_list : \E i \in DOMAIN s.cached_packets : IsOwn(s.cached_packets[i], k)
      BY <2>3
    <3>2. CASE s = r
      <4>1. \E i \in DOMAIN c : IsOwn(c[i], k)
        BY <3>1, <3>2 DEF c
      <4>2. \E i \in DOMAIN d : IsOwn(d[i], k)
        BY <1>10, <4>1
      <4> QED
        BY <1>7, <4>2 DEF OwnHeld, d
    <3>3. CASE s \in req_list'
      BY <3>1, <3>3 DEF OwnHeld
    <3> QED
      BY <1>7, <3>2, <3>3
  <2>4. CASE \E p \in pkt_list : IsOwn(p, k)
    BY <1>2, <2>4 DEF OwnHeld
  <2> QED
    BY <2>1, <2>2, <2>3, <2>4 DEF OwnHeld
<1> QED
  BY <1>2, <1>11 DEF OwnInv

LEMMA HandleArpOwn ==
    ASSUME NEW ip \in Hosts, BaseInv, OwnInv, handle_arp_packet(ip)
    PROVE  OwnInv'
<1>1. Types /\ OneRequest /\ RightRequest
  BY DEF BaseInv
<1>2. Flush(ip) /\ UNCHANGED <<pkt, pkt_list, reported>>
  BY DEF handle_arp_packet
<1>3. req_list' = {r \in req_list : r.ip4 # ip}
  BY <1>1, <1>2, FlushFacts
<1>4. ip # Me
  BY AddressAssumption
<1>5. ASSUME NEW r \in req_list, NEW i \in DOMAIN r.cached_packets,
             r.cached_packets[i].dst = Me
      PROVE  r \in req_list'
  <2>1. r.cached_packets[i] \in Pkt
    BY <1>1 DEF Types, Req
  <2>2. r.ip4 = Me
    BY <1>1, <1>5, <2>1, HopFacts DEF RightRequest
  <2> QED
    BY <1>3, <1>4, <2>2
<1>6. \A k \in reported : OwnHeld(k)'
  BY <1>2, <1>5 DEF OwnInv, OwnHeld, IsOwn
<1> QED
  BY <1>2, <1>6 DEF OwnInv

LEMMA SweepOwn == ASSUME BaseInv, OwnInv, arpcache_sweep PROVE OwnInv'
<1>1. Types /\ OneRequest
  BY DEF BaseInv
<1>2. pkt_list = {} /\ UNCHANGED <<pkt, reported>>
  BY DEF arpcache_sweep
<1>3. PICK over \in SUBSET req_list :
          /\ \A r \in req_list \ over : \E s \in req_list' : Same(r, s)
          /\ pkt_list' = UNION {ToSet(r.cached_packets) : r \in over}
  BY <1>1, SweepKeeps
<1>4. \A r \in over : \A i \in DOMAIN r.cached_packets : r.cached_packets[i] \in pkt_list'
  BY <1>3 DEF ToSet
<1>5. ASSUME NEW k \in reported PROVE OwnHeld(k)'
  <2>1. OwnHeld(k)
    BY DEF OwnInv
  <2>2. CASE \E u \in Thread : IsOwn(pkt[u], k)
    BY <1>2, <2>2 DEF OwnHeld
  <2>3. ASSUME NEW r \in req_list,
               \E i \in DOMAIN r.cached_packets : IsOwn(r.cached_packets[i], k)
        PROVE  OwnHeld(k)'
    <3>1. CASE r \in over
      BY <1>4, <2>3, <3>1 DEF OwnHeld
    <3>2. CASE r \notin over
      <4>1. PICK s \in req_list' : s.cached_packets = r.cached_packets
        BY <1>3, <3>2 DEF Same
      <4> QED
        BY <2>3, <4>1 DEF OwnHeld
    <3> QED
      BY <3>1, <3>2
  <2> QED
    BY <1>2, <2>1, <2>2, <2>3 DEF OwnHeld
<1> QED
  BY <1>2, <1>5 DEF OwnInv

--------------------------------------------------------------------------------

LEMMA PlaceStep == PlaceInv /\ OwnInv /\ [Next]_vars => (PlaceInv /\ OwnInv)'
<1> SUFFICES ASSUME PlaceInv, OwnInv, [Next]_vars PROVE PlaceInv' /\ OwnInv'
  OBVIOUS
<1>1. BaseInv
  BY DEF PlaceInv
<1>2. ASSUME NEW p \in Incoming, NEW protocol, NEW ttl, handle_ip_packet(p, protocol, ttl)
      PROVE  PlaceInv' /\ OwnInv'
  BY <1>1, <1>2, HandleIpPlaces, HandleIpOwn
<1>3. ASSUME NEW ip \in Hosts, handle_arp_packet(ip) PROVE PlaceInv' /\ OwnInv'
  BY <1>1, <1>3, HandleArpPlaces, HandleArpOwn
<1>4. ASSUME NEW t \in Thread, arpcache_append_packet(t) PROVE PlaceInv' /\ OwnInv'
  BY <1>1, <1>4, AppendPlaces, AppendOwn
<1>5. CASE tcp_send_packet
  BY <1>1, <1>5, TcpSendPlaces, TcpSendOwn
<1>6. CASE arpcache_sweep
  BY <1>1, <1>6, SweepPlaces, SweepOwn
<1>7. CASE Report
  BY <1>1, <1>7, ReportPlaces, ReportOwn
<1>8. CASE UNCHANGED vars
  BY <1>8, StutterPlaces DEF vars, OwnInv, OwnHeld
<1> QED
  BY <1>2, <1>3, <1>4, <1>5, <1>6, <1>7, <1>8 DEF Next, handle_packet, Sweeper, Thread

(* One thing in a set of at most one.                                           *)
LEMMA CountOne ==
    ASSUME NEW S, \A x, y \in S : x = y
    PROVE  Cardinality(S) = IF S = {} THEN 0 ELSE 1
<1>1. CASE S = {}
  BY <1>1, FS_EmptySet
<1>2. CASE S # {}
  <2>1. PICK x \in S : TRUE
    BY <1>2
  <2>2. S = {x}
    BY <2>1
  <2> QED
    BY <1>2, <2>2, FS_Singleton
<1> QED
  BY <1>1, <1>2

LEMMA OnePlaceHolds == PlaceInv /\ OwnInv => OnePlace
<1> SUFFICES ASSUME PlaceInv, OwnInv PROVE OnePlace
  OBVIOUS
<1>1. Types
  BY DEF PlaceInv, BaseInv
<1>2. ASSUME NEW k \in 1 .. out \cup {p.id : p \in Incoming \ todo} PROVE Places(k) = 1
  <2>1. k \in Ids /\ Arrived(k)
    <3>1. CASE k \in 1 .. out
      <4>1. k \in Seg
        BY <1>1, <3>1, IdFacts DEF Types
      <4> QED
        BY <3>1, <4>1 DEF Ids, Arrived
    <3>2. CASE k \in {p.id : p \in Incoming \ todo}
      BY <3>2 DEF Ids, Arrived
    <3> QED
      BY <1>2, <3>1, <3>2
  <2>2. Uniquely(k) /\ Placed(k)
    BY <2>1 DEF PlaceInv, Tracked
  <2> DEFINE T == {t \in Thread : pkt[t].id = k}
             W == {w \in Waiting : w[1].cached_packets[w[2]].id = k}
             L == {p \in pkt_list : p.id = k}
             S == {i \in DOMAIN sent : sent[i].id = k}
             E == {k} \cap ended
  <2>3. Cardinality(T) = IF Busy(k, pkt) THEN 1 ELSE 0
    <3>1. \A t, u \in T : t = u
      BY <2>2 DEF Uniquely, BusyOnce
    <3>2. T = {} <=> ~ Busy(k, pkt)
      BY DEF Busy
    <3> HIDE DEF T
    <3> QED
      BY <3>1, <3>2, CountOne
  <2>4. Cardinality(W) = IF Waits(k, req_list) THEN 1 ELSE 0
    <3>1. \A w : w \in Waiting <=> \E r \in req_list : \E i \in DOMAIN r.cached_packets :
                                       w = <<r, i>>
      BY DEF Waiting
    <3>2. \A v \in W : \E r \in req_list : \E i \in DOMAIN r.cached_packets :
              v = <<r, i>> /\ r.cached_packets[i].id = k
      BY <3>1
    <3>3. ASSUME NEW v \in W, NEW w \in W PROVE v = w
      <4>1. PICK r \in req_list : \E i \in DOMAIN r.cached_packets :
                v = <<r, i>> /\ r.cached_packets[i].id = k
        BY <3>2
      <4>2. PICK s \in req_list : \E i \in DOMAIN s.cached_packets :
                w = <<s, i>> /\ s.cached_packets[i].id = k
        BY <3>2
      <4>3. r = s
        BY <2>2, <4>1, <4>2 DEF Uniquely, WaitsOnce, In
      <4>4. Once(k, r.cached_packets)
        BY <2>2 DEF Uniquely, WaitsOnce
      <4> QED
        BY <4>1, <4>2, <4>3, <4>4 DEF Once
    <3>4. Waits(k, req_list) => W # {}
      <4> SUFFICES ASSUME NEW r \in req_list, NEW i \in DOMAIN r.cached_packets,
                          r.cached_packets[i].id = k
                   PROVE  W # {}
        BY DEF Waits, In
      <4>1. <<r, i>> \in W
        BY <3>1
      <4> QED
        BY <4>1
    <3>5. W # {} => Waits(k, req_list)
      BY <3>2 DEF Waits, In
    <3> HIDE DEF W
    <3> QED
      BY <3>3, <3>4, <3>5, CountOne
  <2>5. Cardinality(L) = IF Listed(k, pkt_list) THEN 1 ELSE 0
    <3>1. \A p, q \in L : p = q
      BY <2>2 DEF Uniquely, ListedOnce
    <3>2. L = {} <=> ~ Listed(k, pkt_list)
      BY DEF Listed
    <3> HIDE DEF L
    <3> QED
      BY <3>1, <3>2, CountOne
  <2>6. Cardinality(S) = IF In(k, sent) THEN 1 ELSE 0
    <3>1. \A i, j \in S : i = j
      BY <2>2 DEF Uniquely, Once
    <3>2. S = {} <=> ~ In(k, sent)
      BY DEF In
    <3> HIDE DEF S
    <3> QED
      BY <3>1, <3>2, CountOne
  <2>7. Cardinality(E) = IF k \in ended THEN 1 ELSE 0
    <3>1. (\A x, y \in E : x = y) /\ (E = {} <=> k \notin ended)
      OBVIOUS
    <3> HIDE DEF E
    <3> QED
      BY <3>1, CountOne
  <2>8. Places(k) = Cardinality(T) + Cardinality(W) + Cardinality(L) + Cardinality(S)
                       + Cardinality(E)
    BY DEF Places
  <2> HIDE DEF T, W, L, S, E
  <2> QED
    BY <2>2, <2>3, <2>4, <2>5, <2>6, <2>7, <2>8 DEF Placed, Exactly
<1>3. ASSUME NEW k \in reported PROVE \E q \in Held : q.id = k /\ q.dst = Me
  <2>1. OwnHeld(k)
    BY DEF OwnInv
  <2>2. CASE \E t \in Thread : IsOwn(pkt[t], k)
    BY <2>2 DEF Held, IsOwn
  <2>3. ASSUME NEW r \in req_list, NEW i \in DOMAIN r.cached_packets,
               IsOwn(r.cached_packets[i], k)
        PROVE  \E q \in Held : q.id = k /\ q.dst = Me
    <3>1. <<r, i>> \in Waiting
      BY DEF Waiting
    <3>2. r.cached_packets[i] \in {w[1].cached_packets[w[2]] : w \in Waiting}
      BY <3>1
    <3>3. r.cached_packets[i] \in Held
      BY <3>2 DEF Held
    <3> QED
      BY <2>3, <3>3 DEF IsOwn
  <2>4. CASE \E p \in pkt_list : IsOwn(p, k)
    BY <2>4 DEF Held, IsOwn
  <2> QED
    BY <2>1, <2>2, <2>3, <2>4 DEF OwnHeld
<1> QED
  BY <1>2, <1>3 DEF OnePlace

(* No packet is lost or sent twice, whatever the three threads do between the    *)
(* lookup of iface_send_packet_by_arp and its arpcache_append_packet, and an     *)
(* error the host sends to itself never leaves the cache: for any number of      *)
(* neighbours, segments, packets, slots and routes.                              *)
THEOREM PacketsAreInOnePlace == Spec => []OnePlace
<1>1. Init => PlaceInv /\ OwnInv
  BY InitPlaces DEF Init, OwnInv
<1> QED
  BY <1>1, PlaceStep, OnePlaceHolds, PTL DEF Spec

--------------------------------------------------------------------------------
(* The order of the segments.  A segment that waits for a hop the cache knows   *)
(* was overtaken by the answer (it is in `raced'); so what is sent past the     *)
(* requests overtakes no other.  What is sent from a request comes after all    *)
(* that was sent to the same destination, and a destination has one request.    *)

IsSegment(q) == q.id \in Seg /\ q.dst # Me
Before(x, y, ids) ==
    IsSegment(x) /\ IsSegment(y) /\ x.dst = y.dst => x.id < y.id \/ y.id \in ids

Sorted(s, ids) == \A i, j \in DOMAIN s : i < j => Before(s[i], s[j], ids)
Precede(s, c, ids) == \A i \in DOMAIN s, j \in DOMAIN c : Before(s[i], c[j], ids)

Overtaken(c) == \A i \in DOMAIN c : IsSegment(c[i]) => c[i].id \in raced

RequestOrder(r) ==
    /\ Sorted(r.cached_packets, raced)
    /\ Precede(sent, r.cached_packets, raced)
    /\ arpcache_lookup(r.ip4) => Overtaken(r.cached_packets)
AppOrder ==
    pkt["app"] # NoPkt /\ arpcache_lookup(NextHop(pkt["app"])) => pkt["app"].id \in raced

OrderInv ==
    PlaceInv /\ Sorted(sent, raced) /\ AppOrder /\ \A r \in req_list : RequestOrder(r)

LEMMA PrecedeConcat ==
    ASSUME NEW s \in Seq(Pkt), NEW c \in Seq(Pkt), NEW d, NEW ids,
           Precede(s, d, ids), Precede(c, d, ids)
    PROVE  Precede(s \o c, d, ids)
<1> DEFINE m == Len(s)
           n == Len(c)
           u == s \o c
<1>1. /\ m \in Nat /\ n \in Nat /\ DOMAIN s = 1 .. m /\ DOMAIN c = 1 .. n
      /\ DOMAIN u = 1 .. m + n
      /\ \A i \in 1 .. m + n : u[i] = IF i <= m THEN s[i] ELSE c[i - m]
  OBVIOUS
<1> HIDE DEF m, n, u
<1>2. ASSUME NEW i \in DOMAIN u, NEW j \in DOMAIN d PROVE Before(u[i], d[j], ids)
  <2>1. CASE i <= m
    <3>1. i \in 1 .. m /\ u[i] = s[i]
      BY <1>1, <2>1
    <3> QED
      BY <1>1, <3>1 DEF Precede
  <2>2. CASE ~ (i <= m)
    <3> DEFINE a == i - m
    <3>1. a \in 1 .. n /\ u[i] = c[a]
      BY <1>1, <2>2
    <3> HIDE DEF a
    <3> QED
      BY <1>1, <3>1 DEF Precede
  <2> QED
    BY <2>1, <2>2
<1> QED
  BY <1>2 DEF Precede, u

LEMMA SortedConcat ==
    ASSUME NEW s \in Seq(Pkt), NEW c \in Seq(Pkt), NEW ids,
           Sorted(s, ids), Sorted(c, ids), Precede(s, c, ids)
    PROVE  Sorted(s \o c, ids)
<1> DEFINE m == Len(s)
           n == Len(c)
           u == s \o c
<1>1. /\ m \in Nat /\ n \in Nat /\ DOMAIN s = 1 .. m /\ DOMAIN c = 1 .. n
      /\ DOMAIN u = 1 .. m + n
      /\ \A i \in 1 .. m + n : u[i] = IF i <= m THEN s[i] ELSE c[i - m]
  OBVIOUS
<1> HIDE DEF m, n, u
<1>2. ASSUME NEW i \in DOMAIN u, NEW j \in DOMAIN u, i < j PROVE Before(u[i], u[j], ids)
  <2>1. CASE j <= m
    <3>1. i \in 1 .. m /\ u[i] = s[i] /\ j \in 1 .. m /\ u[j] = s[j]
      BY <1>1, <1>2, <2>1
    <3> QED
      BY <1>1, <1>2, <3>1 DEF Sorted
  <2>2. CASE ~ (j <= m) /\ i <= m
    <3> DEFINE b == j - m
    <3>1. i \in 1 .. m /\ u[i] = s[i] /\ b \in 1 .. n /\ u[j] = c[b]
      BY <1>1, <2>2
    <3> HIDE DEF b
    <3> QED
      BY <1>1, <3>1 DEF Precede
  <2>3. CASE ~ (j <= m) /\ ~ (i <= m)
    <3> DEFINE a == i - m
               b == j - m
    <3>1. a \in 1 .. n /\ u[i] = c[a] /\ b \in 1 .. n /\ u[j] = c[b] /\ a < b
      BY <1>1, <1>2, <2>3
    <3> HIDE DEF a, b
    <3> QED
      BY <1>1, <3>1 DEF Sorted
  <2> QED
    BY <2>1, <2>2, <2>3
<1> QED
  BY <1>2 DEF Sorted, u

LEMMA AppendSorted ==
    ASSUME NEW s \in Seq(Pkt), NEW x \in Pkt, NEW ids, Sorted(s, ids),
           \A i \in DOMAIN s : Before(s[i], x, ids)
    PROVE  Sorted(Append(s, x), ids)
<1> DEFINE c == <<x>>
<1>1. c \in Seq(Pkt) /\ DOMAIN c = {1} /\ c[1] = x /\ Append(s, x) = s \o c
  OBVIOUS
<1> HIDE DEF c
<1>2. Sorted(c, ids)
  BY <1>1 DEF Sorted
<1>3. Precede(s, c, ids)
  BY <1>1 DEF Precede
<1> QED
  BY <1>1, <1>2, <1>3, SortedConcat

LEMMA AppendPrecedes ==
    ASSUME NEW s \in Seq(Pkt), NEW x \in Pkt, NEW d, NEW ids, Precede(s, d, ids),
           \A j \in DOMAIN d : Before(x, d[j], ids)
    PROVE  Precede(Append(s, x), d, ids)
<1> DEFINE c == <<x>>
<1>1. c \in Seq(Pkt) /\ DOMAIN c = {1} /\ c[1] = x /\ Append(s, x) = s \o c
  OBVIOUS
<1> HIDE DEF c
<1>2. Precede(c, d, ids)
  BY <1>1 DEF Precede
<1> QED
  BY <1>1, <1>2, PrecedeConcat

LEMMA PrecedeAppend ==
    ASSUME NEW s, NEW c \in Seq(Pkt), NEW x \in Pkt, NEW ids, Precede(s, c, ids),
           \A i \in DOMAIN s : Before(s[i], x, ids)
    PROVE  Precede(s, Append(c, x), ids)
<1> DEFINE d == Append(c, x)
<1>1. \A j \in DOMAIN d : (j \in DOMAIN c /\ d[j] = c[j]) \/ d[j] = x
  OBVIOUS
<1> HIDE DEF d
<1>2. Precede(s, d, ids)
  BY <1>1 DEF Precede
<1> QED
  BY <1>2 DEF d

LEMMA MoreRaced ==
    ASSUME NEW ids, NEW more, ids \subseteq more
    PROVE  /\ \A s : Sorted(s, ids) => Sorted(s, more)
           /\ \A s, c : Precede(s, c, ids) => Precede(s, c, more)
  BY DEF Sorted, Precede, Before

(* The application's segments are numbered as it sends them.                    *)
LEMMA NumbersBelow ==
    ASSUME PlaceInv, NEW k \in Seg, In(k, sent) \/ Waits(k, req_list)
    PROVE  k \in 1 .. out /\ (pkt["app"] # NoPkt => k # out)
<1>1. k \in Ids
  BY IdFacts
<1>2. Arrived(k) /\ Placed(k)
  BY <1>1 DEF PlaceInv, Tracked, Nowhere
<1>3. k \in 1 .. out
  BY <1>2, IdFacts DEF Arrived
<1>4. ASSUME pkt["app"] # NoPkt, k = out PROVE FALSE
  <2>1. pkt["app"].id = k
    BY <1>4 DEF PlaceInv, BaseInv, Holds
  <2>2. Busy(k, pkt)
    BY <2>1 DEF Busy, Thread
  <2> QED
    BY <1>2, <2>2 DEF Placed, Exactly
<1> QED
  BY <1>3, <1>4

LEMMA SentBelow ==
    ASSUME PlaceInv
    PROVE  \A i \in DOMAIN sent : IsSegment(sent[i]) =>
              sent[i].id \in 1 .. out /\ (pkt["app"] # NoPkt => sent[i].id # out)
<1> SUFFICES ASSUME NEW i \in DOMAIN sent, IsSegment(sent[i])
             PROVE  sent[i].id \in 1 .. out /\ (pkt["app"] # NoPkt => sent[i].id # out)
  OBVIOUS
<1>1. In(sent[i].id, sent)
  BY DEF In
<1> QED
  BY <1>1, NumbersBelow DEF IsSegment

LEMMA WaitingBelow ==
    ASSUME PlaceInv, NEW r \in req_list
    PROVE  \A i \in DOMAIN r.cached_packets : IsSegment(r.cached_packets[i]) =>
              /\ r.cached_packets[i].id \in 1 .. out
              /\ pkt["app"] # NoPkt => r.cached_packets[i].id # out
<1> SUFFICES ASSUME NEW i \in DOMAIN r.cached_packets, IsSegment(r.cached_packets[i])
             PROVE  /\ r.cached_packets[i].id \in 1 .. out
                    /\ pkt["app"] # NoPkt => r.cached_packets[i].id # out
  OBVIOUS
<1>1. Waits(r.cached_packets[i].id, req_list)
  BY DEF In, Waits
<1> QED
  BY <1>1, NumbersBelow DEF IsSegment

--------------------------------------------------------------------------------
(* One lemma for each action.                                                   *)

(* What is no segment does not matter.                                          *)
LEMMA OtherGoes ==
    ASSUME Types, NEW t \in Thread, t # "app", NEW q \in Pkt, Goes(t, q), ~ IsSegment(q),
           Sorted(sent, raced), AppOrder, \A r \in req_list : RequestOrder(r),
           UNCHANGED <<rtable, entries, req_list, raced>>
    PROVE  (Sorted(sent, raced) /\ AppOrder /\ \A r \in req_list : RequestOrder(r))'
<1>1. sent \in Seq(Pkt) /\ (sent' = sent \/ sent' = Append(sent, q))
  BY DEF Types, Goes
<1>2. \A x : Before(x, q, raced) /\ Before(q, x, raced)
  BY DEF Before
<1>3. Sorted(sent', raced)
  BY <1>1, <1>2, AppendSorted
<1>4. \A r \in req_list : Precede(sent', r.cached_packets, raced)
  <2>1. \A r \in req_list : Precede(sent, r.cached_packets, raced)
    BY DEF RequestOrder
  <2> QED
    BY <1>1, <1>2, <2>1, AppendPrecedes
<1>5. \A x : arpcache_lookup(x)' <=> arpcache_lookup(x)
  BY DEF arpcache_lookup
<1>6. pkt'["app"] = pkt["app"]
  BY GoesTypes DEF Thread
<1>7. AppOrder'
  BY <1>5, <1>6, HopStays DEF AppOrder
<1>8. \A r \in req_list' : RequestOrder(r)'
  BY <1>4, <1>5 DEF RequestOrder, Overtaken
<1> QED
  BY <1>3, <1>7, <1>8

LEMMA HandleIpOrder ==
    ASSUME NEW p \in Incoming, NEW protocol, NEW ttl
    PROVE  OrderInv /\ handle_ip_packet(p, protocol, ttl) => OrderInv'
<1> SUFFICES ASSUME OrderInv, handle_ip_packet(p, protocol, ttl) PROVE OrderInv'
  OBVIOUS
<1>1. PlaceInv' /\ Types
  BY HandleIpPlaces DEF OrderInv, PlaceInv, BaseInv
<1>2. UNCHANGED <<rtable, entries, req_list, raced>>
  BY <1>1, HandleGoes
<1>3. PICK q \in Pkt : q.id = p.id /\ Goes("main", q)
  BY <1>1, HandleGoes
<1>4. ~ IsSegment(q)
  BY <1>3, IdFacts DEF IsSegment
<1> QED
  BY <1>1, <1>2, <1>3, <1>4, OtherGoes DEF OrderInv, Thread

LEMMA ReportOrder == OrderInv /\ Report => OrderInv'
<1> SUFFICES ASSUME OrderInv, Report PROVE OrderInv'
  OBVIOUS
<1>1. PlaceInv' /\ Types
  BY ReportPlaces DEF OrderInv, PlaceInv, BaseInv
<1>2. UNCHANGED <<rtable, entries, req_list, raced>>
  BY <1>1, ReportGoes
<1>3. PICK p \in pkt_list, q \in Pkt : q.id = p.id /\ q.dst = p.src /\ Goes("sweep", q)
  BY <1>1, ReportGoes
<1>4. p.id \in Seg => p.src = Me
  BY <1>1, <1>3, PktFacts DEF Types
<1>5. ~ IsSegment(q)
  BY <1>3, <1>4 DEF IsSegment
<1> QED
  BY <1>1, <1>2, <1>3, <1>5, OtherGoes DEF OrderInv, Thread

(* A segment that is sent at once overtakes only what was overtaken already.    *)
LEMMA TcpSendOrder == OrderInv /\ tcp_send_packet => OrderInv'
<1> SUFFICES ASSUME OrderInv, tcp_send_packet PROVE OrderInv'
  OBVIOUS
<1>1. PlaceInv' /\ PlaceInv /\ Types /\ RightRequest
  BY TcpSendPlaces DEF OrderInv, PlaceInv, BaseInv
<1>2. /\ pkt["app"] = NoPkt /\ out + 1 \in Seg
      /\ UNCHANGED <<rtable, entries, req_list, raced>>
  BY <1>1, TcpGoes
<1>3. PICK q \in Pkt : q.id = out + 1 /\ q.dst # Me /\ Goes("app", q)
  BY <1>1, TcpGoes
<1>4. out \in Nat /\ sent \in Seq(Pkt) /\ pkt \in [Thread -> Pkt \cup {NoPkt}]
  BY <1>1, IdFacts DEF Types
<1>5. \A x : arpcache_lookup(x)' <=> arpcache_lookup(x)
  BY <1>2 DEF arpcache_lookup
<1>6. \A x : NextHop(x)' = NextHop(x)
  BY <1>2, HopStays
<1>7. CASE arpcache_lookup(NextHop(q)) /\ sent' = Append(sent, q) /\ pkt' = pkt
  <2>1. \A i \in DOMAIN sent : Before(sent[i], q, raced)
    <3>1. \A i \in DOMAIN sent : IsSegment(sent[i]) => sent[i].id < out + 1
      BY <1>1, <1>4, SentBelow
    <3> QED
      BY <1>3, <3>1 DEF Before
  <2>2. Sorted(sent', raced)
    BY <1>4, <1>7, <2>1, AppendSorted DEF OrderInv
  <2>3. ASSUME NEW r \in req_list, NEW j \in DOMAIN r.cached_packets
        PROVE  Before(q, r.cached_packets[j], raced)
    <3> DEFINE y == r.cached_packets[j]
    <3>1. NextHop(y) = r.ip4
      BY <1>1 DEF RightRequest
    <3>2. y.dst = q.dst => NextHop(y) = NextHop(q)
      BY DEF NextHop
    <3>3. arpcache_lookup(r.ip4) /\ IsSegment(y) => y.id \in raced
      BY DEF OrderInv, RequestOrder, Overtaken
    <3> QED
      BY <1>7, <3>1, <3>2, <3>3 DEF Before
  <2>4. \A r \in req_list : Precede(sent', r.cached_packets, raced)
    <3>1. \A r \in req_list : Precede(sent, r.cached_packets, raced)
      BY DEF OrderInv, RequestOrder
    <3> QED
      BY <1>4, <1>7, <2>3, <3>1, AppendPrecedes
  <2>5. \A r \in req_list' : RequestOrder(r)'
    BY <1>2, <1>5, <2>4 DEF OrderInv, RequestOrder, Overtaken
  <2>6. AppOrder'
    BY <1>2, <1>7 DEF AppOrder
  <2> QED
    BY <1>1, <1>2, <2>2, <2>5, <2>6 DEF OrderInv
<1>8. CASE ~ arpcache_lookup(NextHop(q)) /\ sent' = sent /\ pkt' = [pkt EXCEPT !["app"] = q]
  <2>1. pkt'["app"] = q
    BY <1>4, <1>8 DEF Thread
  <2>2. AppOrder'
    BY <1>5, <1>6, <1>8, <2>1 DEF AppOrder
  <2>3. \A r \in req_list' : RequestOrder(r)'
    BY <1>2, <1>5, <1>8 DEF OrderInv, RequestOrder, Overtaken
  <2> QED
    BY <1>1, <1>2, <1>8, <2>2, <2>3 DEF OrderInv
<1>9. CASE sent' = sent /\ pkt' = pkt
  <2>1. AppOrder'
    BY <1>2, <1>9 DEF AppOrder
  <2>2. \A r \in req_list' : RequestOrder(r)'
    BY <1>2, <1>5, <1>9 DEF OrderInv, RequestOrder, Overtaken
  <2> QED
    BY <1>1, <1>2, <1>9, <2>1, <2>2 DEF OrderInv
<1> QED
  BY <1>3, <1>7, <1>8, <1>9 DEF Goes

(* A segment is appended behind all earlier ones.                               *)
LEMMA AppendOrder ==
    ASSUME NEW t \in Thread
    PROVE  OrderInv /\ arpcache_append_packet(t) => OrderInv'
<1> SUFFICES ASSUME OrderInv, arpcache_append_packet(t) PROVE OrderInv'
  OBVIOUS
<1>1. PlaceInv' /\ PlaceInv /\ Types /\ Holds
  BY AppendPlaces DEF OrderInv, PlaceInv, BaseInv
<1> DEFINE x == pkt[t]
<1>2. /\ x # NoPkt /\ pkt' = [pkt EXCEPT ![t] = NoPkt]
      /\ UNCHANGED <<rtable, entries, sent, raced>>
  BY DEF arpcache_append_packet
<1>3. x \in Pkt
  BY <1>1, AppendJoins
<1>4. PICK r \in Req : /\ r.ip4 = NextHop(x) /\ Joins(r, x) /\ Kept(r, x).ip4 = r.ip4
                       /\ Kept(r, x).cached_packets = Append(r.cached_packets, x)
  BY <1>1, AppendJoins
<1>5. sent \in Seq(Pkt) /\ out \in Nat
  BY <1>1, IdFacts DEF Types
<1>6. IsSegment(x) => t = "app" /\ pkt["app"] # NoPkt /\ x.id = out
  <2>1. t = "main" => x.id \notin Seg
    BY <1>1, <1>2 DEF Holds
  <2>2. t = "sweep" => ~ IsSegment(x)
    BY <1>1, <1>2 DEF Holds, IsSegment
  <2>3. t = "app" => pkt["app"] # NoPkt /\ x.id = out
    BY <1>1, <1>2 DEF Holds
  <2> QED
    BY <2>1, <2>2, <2>3 DEF Thread, IsSegment
<1>7. IsSegment(x) /\ arpcache_lookup(NextHop(x)) => x.id \in raced
  BY <1>6 DEF OrderInv, AppOrder
<1>8. AppOrder'
  <2>1. pkt'["app"] = NoPkt \/ pkt'["app"] = pkt["app"]
    BY <1>1, <1>2 DEF Types, Thread
  <2>2. \A y : NextHop(y)' = NextHop(y)
    BY <1>2, HopStays
  <2>3. \A y : arpcache_lookup(y)' <=> arpcache_lookup(y)
    BY <1>2 DEF arpcache_lookup
  <2> QED
    BY <1>2, <2>1, <2>2, <2>3 DEF OrderInv, AppOrder
<1> HIDE DEF x
<1> DEFINE n == Kept(r, x)
           c == r.cached_packets
           d == n.cached_packets
<1>9. \A i \in DOMAIN sent : Before(sent[i], x, raced)
  <2>1. \A i \in DOMAIN sent : IsSegment(sent[i]) =>
            sent[i].id \in 1 .. out /\ (pkt["app"] # NoPkt => sent[i].id # out)
    BY <1>1, SentBelow
  <2>2. \A i \in DOMAIN sent : IsSegment(sent[i]) /\ IsSegment(x) => sent[i].id < x.id
    BY <1>5, <1>6, <2>1
  <2> QED
    BY <2>2 DEF Before
<1>10. /\ Sorted(c, raced) /\ Precede(sent, c, raced) /\ (arpcache_lookup(r.ip4) => Overtaken(c))
       /\ \A i \in DOMAIN c : Before(c[i], x, raced)
  <2>1. CASE r \in req_list
    <3>1. /\ Sorted(c, raced) /\ Precede(sent, c, raced)
          /\ arpcache_lookup(r.ip4) => Overtaken(c)
      BY <2>1 DEF OrderInv, RequestOrder
    <3>2. \A i \in DOMAIN c : IsSegment(c[i]) =>
              c[i].id \in 1 .. out /\ (pkt["app"] # NoPkt => c[i].id # out)
      BY <1>1, <2>1, WaitingBelow
    <3>3. \A i \in DOMAIN c : IsSegment(c[i]) /\ IsSegment(x) => c[i].id < x.id
      BY <1>5, <1>6, <3>2
    <3> QED
      BY <3>1, <3>3 DEF Before
  <2>2. CASE c = <<>>
    <3>1. DOMAIN c = {}
      BY <2>2
    <3> QED
      BY <3>1 DEF Sorted, Precede, Overtaken
  <2> QED
    BY <1>4, <2>1, <2>2 DEF Joins
<1>11. c \in Seq(Pkt) /\ d = Append(c, x) /\ n.ip4 = r.ip4
  BY <1>4 DEF Req
<1>12. req_list' \subseteq req_list \cup {n}
  BY <1>4 DEF Joins
<1> HIDE DEF n, c, d
<1>13. Sorted(d, raced)
  BY <1>3, <1>10, <1>11, AppendSorted
<1>14. Precede(sent, d, raced)
  BY <1>3, <1>9, <1>10, <1>11, PrecedeAppend
<1>15. arpcache_lookup(n.ip4) => Overtaken(d)
  <2> SUFFICES ASSUME arpcache_lookup(n.ip4), NEW i \in DOMAIN d, IsSegment(d[i])
               PROVE  d[i].id \in raced
    BY DEF Overtaken
  <2>1. (i \in DOMAIN c /\ d[i] = c[i]) \/ d[i] = x
    BY <1>3, <1>11
  <2> QED
    BY <1>4, <1>7, <1>10, <1>11, <2>1 DEF Overtaken
<1>16. \A s \in req_list' : RequestOrder(s)
  BY <1>12, <1>13, <1>14, <1>15 DEF OrderInv, RequestOrder, d
<1>17. \A s \in req_list' : RequestOrder(s)'
  BY <1>2, <1>16 DEF RequestOrder, Overtaken, arpcache_lookup
<1> QED
  BY <1>1, <1>2, <1>8, <1>17 DEF OrderInv

(* What waits is sent behind all earlier ones; what was looked up and not yet    *)
(* appended is overtaken by the answer.                                          *)
LEMMA HandleArpOrder ==
    ASSUME NEW ip \in Hosts
    PROVE  OrderInv /\ handle_arp_packet(ip) => OrderInv'
<1> SUFFICES ASSUME OrderInv, handle_arp_packet(ip) PROVE OrderInv'
  OBVIOUS
<1>1. PlaceInv' /\ Types /\ OneRequest /\ RightRequest
  BY HandleArpPlaces DEF OrderInv, PlaceInv, BaseInv
<1>2. InsertEntry(ip) /\ Flush(ip) /\ UNCHANGED <<rtable, pkt>>
  BY DEF handle_arp_packet
<1>3. \A y : y # ip /\ arpcache_lookup(y)' => arpcache_lookup(y)
  BY <1>1, <1>2, InsertKnows
<1>4. /\ raced \subseteq raced'
      /\ pkt["app"] # NoPkt /\ NextHop(pkt["app"]) = ip => pkt["app"].id \in raced'
  BY DEF handle_arp_packet
<1>5. AppOrder'
  BY <1>2, <1>3, <1>4, HopStays DEF OrderInv, AppOrder
<1>6. req_list' = {r \in req_list : r.ip4 # ip}
  BY <1>1, <1>2, FlushFacts
<1>7. /\ sent \in Seq(Pkt) /\ Sorted(sent, raced')
      /\ \A r \in req_list : /\ r.cached_packets \in Seq(Pkt)
                             /\ Sorted(r.cached_packets, raced')
                             /\ Precede(sent, r.cached_packets, raced')
  <2>1. sent \in Seq(Pkt) /\ \A r \in req_list : r.cached_packets \in Seq(Pkt)
    BY <1>1 DEF Types, Req
  <2>2. /\ Sorted(sent, raced)
        /\ \A r \in req_list : Sorted(r.cached_packets, raced)
                               /\ Precede(sent, r.cached_packets, raced)
    BY DEF OrderInv, RequestOrder
  <2> QED
    BY <1>4, <2>1, <2>2, MoreRaced
<1>8. Sorted(sent', raced') /\ \A s \in req_list' : Precede(sent', s.cached_packets, raced')
  <2>1. CASE sent' = sent
    BY <1>6, <1>7, <2>1
  <2>2. ASSUME NEW r \in req_list, r.ip4 = ip, sent' = sent \o r.cached_packets
        PROVE  /\ Sorted(sent', raced')
               /\ \A s \in req_list' : Precede(sent', s.cached_packets, raced')
    <3>1. Sorted(sent', raced')
      BY <1>7, <2>2, SortedConcat
    <3>2. ASSUME NEW s \in req_list' PROVE Precede(r.cached_packets, s.cached_packets, raced')
      <4> SUFFICES ASSUME NEW i \in DOMAIN r.cached_packets, NEW j \in DOMAIN s.cached_packets,
                          r.cached_packets[i].dst = s.cached_packets[j].dst
                   PROVE  FALSE
        BY DEF Precede, Before
      <4>1. s \in req_list /\ s.ip4 # ip
        BY <1>6
      <4>2. NextHop(r.cached_packets[i]) = r.ip4 /\ NextHop(s.cached_packets[j]) = s.ip4
        BY <1>1, <4>1 DEF RightRequest
      <4>3. NextHop(r.cached_packets[i]) = NextHop(s.cached_packets[j])
        BY DEF NextHop
      <4> QED
        BY <2>2, <4>1, <4>2, <4>3
    <3>3. \A s \in req_list' : Precede(sent', s.cached_packets, raced')
      BY <1>6, <1>7, <2>2, <3>2, PrecedeConcat
    <3> QED
      BY <3>1, <3>3
  <2> QED
    BY <1>1, <1>2, <2>1, <2>2, FlushFacts
<1>9. ASSUME NEW s \in req_list' PROVE RequestOrder(s)'
  <2>1. s \in req_list /\ s.ip4 # ip
    BY <1>6
  <2>2. arpcache_lookup(s.ip4)' => Overtaken(s.cached_packets)'
    BY <1>3, <1>4, <2>1 DEF OrderInv, RequestOrder, Overtaken
  <2> QED
    BY <1>7, <1>8, <2>1, <2>2 DEF RequestOrder
<1> QED
  BY <1>1, <1>5, <1>8, <1>9 DEF OrderInv

LEMMA SweepOrder == OrderInv /\ arpcache_sweep => OrderInv'
<1> SUFFICES ASSUME OrderInv, arpcache_sweep PROVE OrderInv'
  OBVIOUS
<1>1. PlaceInv' /\ Types /\ OneRequest
  BY SweepPlaces DEF OrderInv, PlaceInv, BaseInv
<1>2. UNCHANGED <<rtable, pkt, sent, raced>>
  BY DEF arpcache_sweep
<1>3. \A y : arpcache_lookup(y)' => arpcache_lookup(y)
  BY <1>1, SweepForgets
<1>4. \A s \in req_list' : \E r \in req_list : Same(r, s)
  BY <1>1, SweepKeeps
<1>5. AppOrder'
  BY <1>2, <1>3, HopStays DEF OrderInv, AppOrder
<1>6. ASSUME NEW s \in req_list' PROVE RequestOrder(s)'
  <2>1. PICK r \in req_list : Same(r, s)
    BY <1>4
  <2>2. RequestOrder(r)
    BY DEF OrderInv
  <2> QED
    BY <1>2, <1>3, <2>1, <2>2 DEF RequestOrder, Overtaken, Same
<1> QED
  BY <1>1, <1>2, <1>5, <1>6 DEF OrderInv

LEMMA StutterOrder == OrderInv /\ UNCHANGED vars => OrderInv'
<1> SUFFICES ASSUME OrderInv, UNCHANGED vars PROVE OrderInv'
  OBVIOUS
<1>1. PlaceInv' /\ UNCHANGED <<rtable, entries, req_list, pkt, sent, raced>>
  BY StutterPlaces DEF OrderInv, vars
<1>2. \A y : arpcache_lookup(y)' <=> arpcache_lookup(y)
  BY <1>1 DEF arpcache_lookup
<1>3. AppOrder'
  BY <1>1, <1>2, HopStays DEF OrderInv, AppOrder
<1>4. \A r \in req_list' : RequestOrder(r)'
  BY <1>1, <1>2 DEF OrderInv, RequestOrder, Overtaken
<1> QED
  BY <1>1, <1>3, <1>4 DEF OrderInv

LEMMA OrderStep == OrderInv /\ [Next]_vars => OrderInv'
<1> SUFFICES ASSUME OrderInv, [Next]_vars PROVE OrderInv'
  OBVIOUS
<1>1. ASSUME NEW p \in Incoming, NEW protocol, NEW ttl, handle_ip_packet(p, protocol, ttl)
      PROVE  OrderInv'
  BY <1>1, HandleIpOrder
<1>2. ASSUME NEW ip \in Hosts, handle_arp_packet(ip) PROVE OrderInv'
  BY <1>2, HandleArpOrder
<1>3. ASSUME NEW t \in Thread, arpcache_append_packet(t) PROVE OrderInv'
  BY <1>3, AppendOrder
<1>4. CASE tcp_send_packet
  BY <1>4, TcpSendOrder
<1>5. CASE arpcache_sweep
  BY <1>5, SweepOrder
<1>6. CASE Report
  BY <1>6, ReportOrder
<1>7. CASE UNCHANGED vars
  BY <1>7, StutterOrder
<1> QED
  BY <1>1, <1>2, <1>3, <1>4, <1>5, <1>6, <1>7 DEF Next, handle_packet, Sweeper, Thread

(* The segments of a host to a destination leave in the order in which the       *)
(* application sent them, but for those whose answer came between the lookup of  *)
(* iface_send_packet_by_arp and its arpcache_append_packet: for any number of    *)
(* neighbours, segments, packets, slots and routes.                              *)
THEOREM SegmentsLeaveInOrder == Spec => []InOrder
<1>1. Init => OrderInv
  <2> SUFFICES ASSUME Init PROVE OrderInv
    OBVIOUS
  <2>1. req_list = {} /\ sent = <<>> /\ pkt["app"] = NoPkt
    BY DEF Init, Thread
  <2>2. DOMAIN sent = {}
    BY <2>1
  <2> QED
    BY <2>1, <2>2, InitPlaces DEF OrderInv, Sorted, AppOrder
<1>2. OrderInv => InOrder
  BY DEF OrderInv, Sorted, Before, IsSegment, InOrder, Seg
<1> QED
  BY <1>1, <1>2, OrderStep, PTL DEF Spec

--------------------------------------------------------------------------------
(* The receive buffer.                                                          *)

\* `% size' on the numbers the buffer computes with: one wrap-around at most.
LEMMA Wrap ==
    ASSUME NEW a \in Nat, a < 2 * size
    PROVE  a % size = IF a < size THEN a ELSE a - size
  <1>1. size \in Nat /\ size > 0
    BY SizeAssumption
  <1>2. CASE a < size
    BY <1>1, <1>2
  <1>3. CASE a >= size
    BY <1>1, <1>3
  <1>4. QED
    BY <1>1, <1>2, <1>3

\* The amount of data, without the modulus.
LEMMA UsedValue ==
    ASSUME RingTypeOK
    PROVE  /\ ring_buffer_used = IF tail >= head THEN tail - head ELSE tail - head + size
           /\ ring_buffer_used \in 0 .. size - 1
  <1>1. size \in Nat /\ size > 0 /\ head \in 0 .. size - 1 /\ tail \in 0 .. size - 1
    BY SizeAssumption DEF RingTypeOK, Index
  <1> DEFINE a == tail - head + size
  <1>2. a \in Nat /\ a < 2 * size
    BY <1>1
  <1>3. a % size = IF a < size THEN a ELSE a - size
    BY <1>2, Wrap
  <1>4. QED
    BY <1>1, <1>3 DEF ring_buffer_used

\* The cell of the i-th byte, without the modulus: the copies of a read take the
\* bytes the queue consists of.
LEMMA QueueCells ==
    ASSUME RingTypeOK
    PROVE  /\ Queue = [i \in 1 .. ring_buffer_used |-> ReadCell(i)]
           /\ \A i \in 1 .. ring_buffer_used : ReadCell(i) \in Byte
           /\ Queue \in Seq(Byte)
           /\ Len(Queue) = ring_buffer_used
  <1>1. size \in Nat /\ size > 0 /\ head \in 0 .. size - 1 /\ tail \in 0 .. size - 1
    BY SizeAssumption DEF RingTypeOK, Index
  <1>2. ring_buffer_used \in 0 .. size - 1
    BY UsedValue
  <1>3. ASSUME NEW i \in 1 .. ring_buffer_used
        PROVE  /\ buf[(head + i - 1) % size] = ReadCell(i)
               /\ ReadCell(i) \in Byte
    <2> DEFINE a == head + i - 1
    <2>1. a \in Nat /\ a < 2 * size
      BY <1>1, <1>2
    <2>2. a % size = IF a < size THEN a ELSE a - size
      BY <2>1, Wrap
    <2>3. (IF a < size THEN a ELSE a - size) \in 0 .. size - 1
      BY <1>1, <1>2, <2>1
    <2>4. buf[IF a < size THEN a ELSE a - size] \in Byte
      BY <2>3 DEF RingTypeOK, Index
    <2>5. ReadCell(i) = buf[IF a < size THEN a ELSE a - size]
      BY <1>1, <1>2 DEF ReadCell
    <2>6. QED
      BY <2>2, <2>4, <2>5
  <1>4. Queue = [i \in 1 .. ring_buffer_used |-> ReadCell(i)]
    BY <1>3 DEF Queue
  <1>5. Queue \in Seq(Byte) /\ Len(Queue) = ring_buffer_used
    BY <1>2, <1>3, <1>4
  <1>6. QED
    BY <1>3, <1>4, <1>5

\* A write keeps the types and appends the bytes to the queue.
LEMMA WriteStep ==
    ASSUME RingTypeOK, NEW data \in Seq(Byte), write_ring_buffer(data)
    PROVE  /\ RingTypeOK'
           /\ Queue' = Queue \o data
           /\ Len(Queue) + Len(data) <= size - 1
  <1> DEFINE len == Len(data)
             u == ring_buffer_used
  <1>1. /\ size \in Nat /\ size > 0 /\ head \in 0 .. size - 1 /\ tail \in 0 .. size - 1
        /\ buf \in [0 .. size - 1 -> Byte] /\ got \in Seq(Byte)
    BY SizeAssumption DEF RingTypeOK, Index
  <1>2. /\ u = IF tail >= head THEN tail - head ELSE tail - head + size
        /\ u \in 0 .. size - 1
    BY UsedValue
  <1>3. len \in Nat /\ len > 0 /\ u + len <= size - 1
    BY <1>1, <1>2 DEF write_ring_buffer, MayWrite, ring_buffer_free
  <1>4. tail' = IF tail + len < size THEN tail + len ELSE tail + len - size
    <2> DEFINE a == tail + len
    <2>1. a \in Nat /\ a < 2 * size
      BY <1>1, <1>2, <1>3
    <2> HIDE DEF a
    <2>2. a % size = IF a < size THEN a ELSE a - size
      BY <2>1, Wrap
    <2>3. tail' = a % size
      BY DEF write_ring_buffer, a
    <2>4. tail' = IF a < size THEN a ELSE a - size
      BY <2>2, <2>3
    <2>5. QED
      BY <1>1, <1>2, <1>3, <2>4 DEF a
  <1>5. head' = head /\ got' = got
    BY DEF write_ring_buffer
  <1>6. tail' \in 0 .. size - 1
    BY <1>1, <1>2, <1>3, <1>4
  <1>7. buf' \in [0 .. size - 1 -> Byte]
    <2>1. ASSUME NEW i \in 0 .. size - 1
          PROVE  WriteCell(data, i) \in Byte
      BY <1>1, <1>2, <1>3 DEF WriteCell
    <2>2. QED
      BY <2>1 DEF write_ring_buffer, Index
  <1>8. RingTypeOK'
    BY <1>1, <1>5, <1>6, <1>7 DEF RingTypeOK, Index
  <1>9. ring_buffer_used' = u + len
    <2>1. ring_buffer_used' = IF tail' >= head' THEN tail' - head' ELSE tail' - head' + size
      <3>1. (ring_buffer_used = IF tail >= head THEN tail - head ELSE tail - head + size)'
        BY <1>8, UsedValue, PTL
      <3>2. QED
        BY <3>1
    <2>2. QED
      BY <1>1, <1>2, <1>3, <1>4, <1>5, <2>1
  <1>10. ASSUME NEW i \in 1 .. u + len
         PROVE  ReadCell(i)' = IF i <= u THEN ReadCell(i) ELSE data[i - u]
    <2> DEFINE c == IF head + i <= size THEN head + i - 1 ELSE head + i - 1 - size
    <2>1. c \in 0 .. size - 1
      BY <1>1, <1>2, <1>3
    <2>2. ReadCell(i) = buf[c] /\ ReadCell(i)' = buf'[c]
      BY <1>1, <1>5 DEF ReadCell
    <2>3. buf'[c] = WriteCell(data, c)
      BY <2>1 DEF write_ring_buffer, Index
    <2>4. CASE i <= u
      <3>1. WriteCell(data, c) = buf[c]
        BY <1>1, <1>2, <1>3, <2>4 DEF WriteCell
      <3>2. QED
        BY <2>2, <2>3, <2>4, <3>1
    <2>5. CASE i > u
      <3>1. WriteCell(data, c) = data[i - u]
        BY <1>1, <1>2, <1>3, <2>5 DEF WriteCell
      <3>2. QED
        BY <1>2, <2>2, <2>3, <2>5, <3>1
    <2>6. QED
      BY <1>2, <2>4, <2>5
  <1>11. Queue' = Queue \o data
    <2>1. Queue' = [i \in 1 .. ring_buffer_used' |-> ReadCell(i)']
      <3>1. (Queue = [i \in 1 .. ring_buffer_used |-> ReadCell(i)])'
        BY <1>8, QueueCells, PTL
      <3>2. QED
        BY <3>1
    <2>2. /\ Queue = [i \in 1 .. u |-> ReadCell(i)]
          /\ Queue \in Seq(Byte) /\ Len(Queue) = u
      BY QueueCells
    <2>3. Queue' = [i \in 1 .. u + len |-> IF i <= u THEN ReadCell(i) ELSE data[i - u]]
      BY <1>9, <1>10, <2>1
    <2>4. Queue \o data = [i \in 1 .. u + len |-> IF i <= u THEN Queue[i] ELSE data[i - u]]
      BY <1>2, <1>3, <2>2
    <2>5. \A i \in 1 .. u : Queue[i] = ReadCell(i)
      BY <2>2
    <2>6. QED
      BY <1>2, <1>3, <2>3, <2>4, <2>5
  <1>12. QED
    BY <1>3, <1>8, <1>11, QueueCells

\* A read keeps the types, returns the first bytes of the queue and removes them.
LEMMA ReadStep ==
    ASSUME RingTypeOK, NEW n \in Nat, read_ring_buffer(n)
    PROVE  /\ RingTypeOK'
           /\ LET len == IF Len(Queue) < n THEN Len(Queue) ELSE n
              IN  /\ got' = SubSeq(Queue, 1, len)
                  /\ Queue' = SubSeq(Queue, len + 1, Len(Queue))
  <1> DEFINE u == ring_buffer_used
             len == IF u < n THEN u ELSE n
  <1>1. /\ size \in Nat /\ size > 0 /\ head \in 0 .. size - 1 /\ tail \in 0 .. size - 1
        /\ buf \in [0 .. size - 1 -> Byte] /\ got \in Seq(Byte)
    BY SizeAssumption DEF RingTypeOK, Index
  <1>2. /\ u = IF tail >= head THEN tail - head ELSE tail - head + size
        /\ u \in 0 .. size - 1
    BY UsedValue
  <1>3. len \in 0 .. u
    BY <1>2
  <1>4. head' = IF head + len < size THEN head + len ELSE head + len - size
    <2> DEFINE a == head + len
    <2>1. a \in Nat /\ a < 2 * size
      BY <1>1, <1>2, <1>3
    <2> HIDE DEF a
    <2>2. a % size = IF a < size THEN a ELSE a - size
      BY <2>1, Wrap
    <2>3. head' = a % size
      BY DEF read_ring_buffer, a
    <2>4. head' = IF a < size THEN a ELSE a - size
      BY <2>2, <2>3
    <2>5. QED
      BY <1>1, <1>2, <1>3, <2>4 DEF a
  <1>5. tail' = tail /\ buf' = buf /\ got' = [i \in 1 .. len |-> ReadCell(i)]
    BY DEF read_ring_buffer
  <1>6. /\ Queue = [i \in 1 .. u |-> ReadCell(i)]
        /\ \A i \in 1 .. u : ReadCell(i) \in Byte
        /\ Queue \in Seq(Byte) /\ Len(Queue) = u
    BY QueueCells
  <1>7. head' \in 0 .. size - 1
    BY <1>1, <1>2, <1>3, <1>4
  <1>8. got' \in Seq(Byte)
    BY <1>2, <1>3, <1>5, <1>6
  <1>9. RingTypeOK'
    BY <1>1, <1>5, <1>7, <1>8 DEF RingTypeOK, Index
  <1>10. ring_buffer_used' = u - len
    <2>1. (ring_buffer_used = IF tail >= head THEN tail - head ELSE tail - head + size)'
      BY <1>9, UsedValue, PTL
    <2>2. QED
      BY <1>1, <1>2, <1>3, <1>4, <1>5, <2>1
  <1>11. ASSUME NEW i \in 1 .. u - len
         PROVE  ReadCell(i)' = ReadCell(len + i)
    BY <1>1, <1>2, <1>3, <1>4, <1>5 DEF ReadCell
  <1>12. Queue' = SubSeq(Queue, len + 1, u)
    <2>1. (Queue = [i \in 1 .. ring_buffer_used |-> ReadCell(i)])'
      BY <1>9, QueueCells, PTL
    <2>2. Queue' = [i \in 1 .. u - len |-> ReadCell(len + i)]
      BY <1>10, <1>11, <2>1
    <2>3. \A i \in 1 .. u - len : Queue[len + i] = ReadCell(len + i)
      BY <1>2, <1>3, <1>6
    <2>4. SubSeq(Queue, len + 1, u) = [i \in 1 .. u - len |-> Queue[len + i]]
      BY <1>2, <1>3, <1>6
    <2>5. QED
      BY <2>2, <2>3, <2>4
  <1>13. got' = SubSeq(Queue, 1, len)
    <2>1. SubSeq(Queue, 1, len) = [i \in 1 .. len |-> Queue[i]]
      BY <1>2, <1>3, <1>6
    <2>2. \A i \in 1 .. len : Queue[i] = ReadCell(i)
      BY <1>2, <1>3, <1>6
    <2>3. QED
      BY <1>5, <2>1, <2>2
  <1>14. QED
    BY <1>6, <1>9, <1>12, <1>13

\* head and tail stay in the buffer and what is read are bytes (ring_buffer.h).
THEOREM RingTypeCorrect == RingSpec => []RingTypeOK
  <1>1. RingInit => RingTypeOK
    BY SizeAssumption DEF RingInit, RingTypeOK, Index
  <1>2. RingTypeOK /\ [RingNext]_ring_vars => RingTypeOK'
    <2> SUFFICES ASSUME RingTypeOK, [RingNext]_ring_vars PROVE RingTypeOK'
      OBVIOUS
    <2>1. CASE \E data \in Chunks : write_ring_buffer(data)
      BY <2>1, WriteStep, CallerAssumption
    <2>2. CASE \E n \in Sizes : read_ring_buffer(n)
      BY <2>2, ReadStep, CallerAssumption
    <2>3. CASE UNCHANGED ring_vars
      BY <2>3 DEF ring_vars, RingTypeOK
    <2>4. QED
      BY <2>1, <2>2, <2>3 DEF RingNext
  <1>3. QED
    BY <1>1, <1>2, PTL DEF RingSpec

\* The ring buffer of ring_buffer.h implements a queue of size - 1 bytes.
THEOREM RingIsQueue == RingSpec => IsQueue
  <1>1. RingInit => Abstract!Init
    <2> SUFFICES ASSUME RingInit PROVE Abstract!Init
      OBVIOUS
    <2>1. RingTypeOK /\ ring_buffer_used = 0
      <3>1. RingTypeOK
        BY SizeAssumption DEF RingInit, RingTypeOK, Index
      <3>2. QED
        BY <3>1, UsedValue DEF RingInit
    <2>2. Queue \in Seq(Byte) /\ Len(Queue) = 0
      BY <2>1, QueueCells
    <2>3. Queue = <<>>
      BY <2>2
    <2>4. QED
      BY <2>3 DEF RingInit, Abstract!Init
  <1>2. RingTypeOK /\ [RingNext]_ring_vars => [Abstract!Next]_<<Queue, got>>
    <2> SUFFICES ASSUME RingTypeOK, [RingNext]_ring_vars PROVE [Abstract!Next]_<<Queue, got>>
      OBVIOUS
    <2>1. CASE \E data \in Chunks : write_ring_buffer(data)
      <3>1. PICK data \in Chunks : write_ring_buffer(data)
        BY <2>1
      <3>2. data \in Seq(Byte)
        BY CallerAssumption
      <3>3. Queue' = Queue \o data /\ Len(Queue) + Len(data) <= size - 1
        BY <3>1, <3>2, WriteStep
      <3>4. got' = got /\ data # <<>>
        BY <3>1, <3>2 DEF write_ring_buffer, MayWrite
      <3>5. Abstract!Put(data)
        BY <3>3, <3>4 DEF Abstract!Put
      <3>6. QED
        BY <3>5 DEF Abstract!Next
    <2>2. CASE \E n \in Sizes : read_ring_buffer(n)
      <3>1. PICK n \in Sizes : read_ring_buffer(n)
        BY <2>2
      <3>2. n \in Nat
        BY CallerAssumption
      <3>3. Abstract!Get(n)
        BY <3>1, <3>2, ReadStep DEF Abstract!Get
      <3>4. QED
        BY <3>3 DEF Abstract!Next
    <2>3. CASE UNCHANGED ring_vars
      BY <2>3 DEF ring_vars, Queue, ring_buffer_used
    <2>4. QED
      BY <2>1, <2>2, <2>3 DEF RingNext
  <1>3. QED
    BY <1>1, <1>2, RingTypeCorrect, PTL DEF RingSpec, IsQueue, Abstract!Spec
================================================================================
