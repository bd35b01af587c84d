------------------------------ MODULE Router_proofs ------------------------------
(***************************************************************************)
(* Proofs about the router of lab 08: no packet is lost or sent twice,     *)
(* none waits for an address the table has, and every packet goes out by   *)
(* the longest route, for every routing table the kernel may hand over,    *)
(* any packets and neighbours, and any size and timeouts of the cache.     *)
(***************************************************************************)
EXTENDS Router, FiniteSetTheorems, FunctionTheorems, SequenceTheorems,
        WellFoundedInduction, TLAPS

--------------------------------------------------------------------------------
(* Least elements, and the induction that rests on them.                       *)

\* A non-empty set of naturals has a least element.
LEMMA LeastNatural ==
    ASSUME NEW S, S \subseteq Nat, S # {}
    PROVE  \E n \in S : \A k \in S : n <= k
<1> DEFINE R == OpToRel(<, Nat)
<1>1. PICK n \in S : \A k \in S : ~ (<<k, n>> \in R)
  BY NatLessThanWellFounded, WFMin
<1>2. ASSUME NEW k \in S PROVE n <= k
  <2>1. ~ (k < n)
    BY <1>1, <1>2 DEF OpToRel
  <2> QED
    BY <2>1
<1> QED
  BY <1>1, <1>2

\* Induction up to m, with the property given as the set of its numbers.
LEMMA UpTo ==
    ASSUME NEW m \in Nat, NEW P, 0 \in P, \A i \in 0 .. m - 1 : i \in P => i + 1 \in P
    PROVE  0 .. m \subseteq P
<1> DEFINE S == {i \in 0 .. m : i \notin P}
<1> SUFFICES ASSUME S # {} PROVE FALSE
  OBVIOUS
<1>1. S \subseteq Nat
  OBVIOUS
<1>2. PICK n \in S : \A k \in S : n <= k
  BY <1>1, LeastNatural
<1>3. n \in 0 .. m /\ n \notin P /\ n # 0
  BY <1>2
<1>4. n - 1 \in 0 .. m - 1 /\ n - 1 \in 0 .. m /\ ~ (n <= n - 1)
  BY <1>3
<1>5. n - 1 \in P
  BY <1>2, <1>4
<1>6. (n - 1) + 1 \in P
  BY <1>4, <1>5
<1> QED
  BY <1>3, <1>6

--------------------------------------------------------------------------------
(* The loop of longest_prefix_match.                                           *)

Name == {d.name : d \in Devices}
Route == [dest : Ip, len : Nat, gw : Ip, iface : Name]

\* best is the loop's variable after each number of routes.
Walks(best, table, dst, m) ==
    /\ DOMAIN best = 0 .. m
    /\ best[0] = NoRoute
    /\ \A i \in 1 .. m : best[i] = Longer(best[i - 1], table[i], dst)

\* The recursion has a solution, so best is what the recursion says.
LEMMA WalkExists ==
    ASSUME NEW table, NEW dst, NEW m \in Nat
    PROVE  \E best : best = [i \in 0 .. m |->
                IF i = 0 THEN NoRoute ELSE Longer(best[i - 1], table[i], dst)]
<1> DEFINE Step(b, i) == IF i = 0 THEN NoRoute ELSE Longer(b[i - 1], table[i], dst)
           P == {n \in 0 .. m : \E b : b = [i \in 0 .. n |-> Step(b, i)]}
<1>1. 0 \in P
  <2> DEFINE b == [i \in 0 .. 0 |-> NoRoute]
  <2>1. \A i \in 0 .. 0 : Step(b, i) = NoRoute
    OBVIOUS
  <2>2. b = [i \in 0 .. 0 |-> Step(b, i)]
    BY <2>1
  <2>3. 0 \in 0 .. m
    OBVIOUS
  <2> HIDE DEF b
  <2> QED
    BY <2>2, <2>3
<1>2. ASSUME NEW n \in 0 .. m - 1, n \in P PROVE n + 1 \in P
  <2>1. PICK b : b = [i \in 0 .. n |-> Step(b, i)]
    BY <1>2
  <2> DEFINE c == [i \in 0 .. n + 1 |->
                      IF i = n + 1 THEN Longer(b[n], table[n + 1], dst) ELSE b[i]]
  <2>2. ASSUME NEW i \in 0 .. n + 1 PROVE c[i] = Step(c, i)
    <3>1. CASE i = 0
      BY <2>1, <3>1
    <3>2. CASE i = n + 1
      <4>1. c[n] = b[n] /\ n + 1 - 1 = n /\ n + 1 # 0
        OBVIOUS
      <4> QED
        BY <3>2, <4>1
    <3>3. CASE i \in 1 .. n
      <4>1. c[i] = b[i] /\ i - 1 \in 0 .. n /\ i - 1 \in 0 .. n + 1 /\ c[i - 1] = b[i - 1] /\ i # 0
        BY <3>3
      <4>2. b[i] = Longer(b[i - 1], table[i], dst)
        BY <2>1, <3>3
      <4> QED
        BY <4>1, <4>2
    <3> QED
      BY <3>1, <3>2, <3>3
  <2>3. c = [i \in 0 .. n + 1 |-> c[i]]
    OBVIOUS
  <2>4. [i \in 0 .. n + 1 |-> c[i]] = [i \in 0 .. n + 1 |-> Step(c, i)]
    BY <2>2
  <2>5. n + 1 \in 0 .. m
    OBVIOUS
  <2> HIDE DEF c
  <2> QED
    BY <2>3, <2>4, <2>5
<1>3. 0 .. m \subseteq P
  <2> HIDE DEF P
  <2> QED
    BY <1>1, <1>2, UpTo
<1> QED
  BY <1>3

LEMMA BestWalks ==
    ASSUME NEW table \in Seq(Route), NEW dst
    PROVE  \E best : Walks(best, table, dst, Len(table)) /\ BestOf(table, dst) = best[Len(table)]
<1> DEFINE b == CHOOSE best : best = [i \in 0 .. Len(table) |->
                    IF i = 0 THEN NoRoute ELSE Longer(best[i - 1], table[i], dst)]
<1>1. Len(table) \in Nat
  OBVIOUS
<1>2. b = [i \in 0 .. Len(table) |->
              IF i = 0 THEN NoRoute ELSE Longer(b[i - 1], table[i], dst)]
  BY SMTT(30), <1>1, WalkExists
<1>3. BestOf(table, dst) = b[Len(table)]
  BY DEF BestOf
<1> HIDE DEF b
<1>4. Walks(b, table, dst, Len(table))
  BY <1>1, <1>2 DEF Walks
<1> QED
  BY <1>3, <1>4

Covers(r, dst) == r.len > 0 /\ Network(r.dest, r.len) = Network(dst, r.len)

\* r is the longest of the first n routes that cover dst, or there is none.
Longest(r, table, dst, n) ==
    \/ r = NoRoute /\ \A j \in 1 .. n : ~ Covers(table[j], dst)
    \/ \E i \in 1 .. n :
          /\ r = table[i] /\ Covers(r, dst)
          /\ \A j \in 1 .. n : Covers(table[j], dst) => table[j].len <= r.len

\* The comparison with the best so far, which starts from 0, finds the longest route and
\* never takes a default route.
LEMMA MatchIsLongest ==
    ASSUME NEW table \in Seq(Route), NEW dst
    PROVE  Longest(BestOf(table, dst), table, dst, Len(table))
<1> DEFINE m == Len(table)
<1>0. m \in Nat /\ \A i \in 1 .. m : table[i] \in Route
  OBVIOUS
<1>1. PICK best : Walks(best, table, dst, m) /\ BestOf(table, dst) = best[m]
  BY BestWalks
<1> HIDE DEF m
<1> DEFINE P == {n \in 0 .. m : Longest(best[n], table, dst, n)}
<1>2. 0 \in P
  BY <1>0, <1>1 DEF Walks, Longest
<1>3. ASSUME NEW n \in 0 .. m - 1, n \in P PROVE n + 1 \in P
  <2> DEFINE r == table[n + 1]
             b == best[n]
  <2>1. n + 1 \in 1 .. m /\ n + 1 \in 0 .. m /\ r \in Route /\ r.len \in Nat
    BY <1>0 DEF Route
  <2>2. best[n + 1] = Longer(b, r, dst)
    <3>1. n + 1 - 1 = n
      BY <1>0
    <3> QED
      BY <1>1, <2>1, <3>1 DEF Walks
  <2>3. Longest(b, table, dst, n)
    BY <1>3
  <2>4. \A j \in 1 .. n + 1 : j \in 1 .. n \/ j = n + 1
    BY <1>0
  <2>5. NoRoute.len = 0
    BY DEF NoRoute
  <2>6. Longest(best[n + 1], table, dst, n + 1)
    <3>1. CASE b = NoRoute /\ \A j \in 1 .. n : ~ Covers(table[j], dst)
      <4>1. CASE Covers(r, dst)
        <5>1. best[n + 1] = r
          BY <2>1, <2>2, <2>5, <3>1, <4>1 DEF Longer, Covers
        <5>2. n + 1 \in 1 .. n + 1
          BY <1>0
        <5>3. r.len <= r.len
          BY <2>1
        <5> QED
          BY <2>4, <3>1, <4>1, <5>1, <5>2, <5>3 DEF Longest
      <4>2. CASE ~ Covers(r, dst)
        <5>1. best[n + 1] = NoRoute
          BY <2>1, <2>2, <2>5, <3>1, <4>2 DEF Longer, Covers
        <5> QED
          BY <2>4, <3>1, <4>2, <5>1 DEF Longest
      <4> QED
        BY <4>1, <4>2
    <3>2. ASSUME NEW i \in 1 .. n, b = table[i], Covers(b, dst),
                 \A j \in 1 .. n : Covers(table[j], dst) => table[j].len <= b.len
          PROVE  Longest(best[n + 1], table, dst, n + 1)
      <4>1. b.len \in Nat /\ b.len > 0 /\ \A j \in 1 .. n : table[j].len \in Nat
        BY <1>0, <3>2 DEF Route, Covers
      <4>2. CASE Covers(r, dst) /\ r.len > b.len
        <5>1. best[n + 1] = r
          BY <2>2, <4>2 DEF Longer, Covers
        <5>2. n + 1 \in 1 .. n + 1
          BY <1>0
        <5>3. ASSUME NEW j \in 1 .. n + 1, Covers(table[j], dst) PROVE table[j].len <= r.len
          <6>1. CASE j = n + 1
            BY <2>1, <6>1
          <6>2. CASE j \in 1 .. n
            <7>1. table[j].len <= b.len /\ table[j].len \in Nat
              BY <3>2, <4>1, <5>3, <6>2
            <7> QED
              BY <2>1, <4>1, <4>2, <7>1
          <6> QED
            BY <2>4, <6>1, <6>2
        <5> QED
          BY <4>2, <5>1, <5>2, <5>3 DEF Longest
      <4>3. CASE ~ (Covers(r, dst) /\ r.len > b.len)
        <5>1. best[n + 1] = b
          BY <2>1, <2>2, <4>1, <4>3 DEF Longer, Covers
        <5>2. i \in 1 .. n + 1
          BY <1>0
        <5>3. ASSUME NEW j \in 1 .. n + 1, Covers(table[j], dst) PROVE table[j].len <= b.len
          BY <2>1, <2>4, <3>2, <4>1, <4>3, <5>3
        <5> QED
          BY <3>2, <5>1, <5>2, <5>3 DEF Longest
      <4> QED
        BY <4>2, <4>3
    <3> QED
      BY <2>3, <3>1, <3>2 DEF Longest
  <2> QED
    BY <2>1, <2>6
<1>4. 0 .. m \subseteq P
  <2> HIDE DEF P
  <2> QED
    BY <1>0, <1>2, <1>3, UpTo
<1>5. m \in P
  BY <1>0, <1>4
<1> QED
  BY <1>1, <1>5 DEF m

--------------------------------------------------------------------------------
(* The inductive invariant.  A packet the router handles was forwarded or made *)
(* of a packet that came in, has a route, and lives.                           *)

Via(q) == longest_prefix_match(q.dst).iface
Hop(q) == NextHop(longest_prefix_match(q.dst), q.dst)
Wire(q) == iface_send_packet(Via(q), Hop(q), q)

IcmpTypes(p) == {t \in {"reply", "expired", "unreachable"} :
                        longest_prefix_match(p.src) # NoRoute}
Made(p) == {Forwarded(p)} \cup {Icmp(p, t) : t \in IcmpTypes(p)}
Pkt == {q \in UNION {Made(p) : p \in Packets} :
           q.ttl > 0 /\ longest_prefix_match(q.dst) # NoRoute}
Req == [iface : {Via(q) : q \in Pkt}, ip4 : {Hop(q) : q \in Pkt}, age : Int, retries : Int,
        cached_packets : Seq(Pkt)]
Entry == [valid : BOOLEAN, ip4 : Int, age : Int]

Types ==
    /\ rtable \in Seq(Route)
    /\ entries \in [Slot -> Entry]
    /\ req_list \in Seq(Req)
    /\ todo \subseteq Packets
    /\ pkt \in Pkt \cup {NoPkt}

\* The packets of a request are those that go its way.
ReqOK(r) == \A k \in DOMAIN r.cached_packets :
                Via(r.cached_packets[k]) = r.iface /\ Hop(r.cached_packets[k]) = r.ip4
Requests == \A i \in DOMAIN req_list : ReqOK(req_list[i])

\* What was sent went its way.
Sent == \A s \in sent : \E q \in Pkt : s = Wire(q)

\* What the main thread looked up in vain is unknown until it appends it.
Unknown == pkt # NoPkt => ~ arpcache_lookup(Hop(pkt))

Gone == {s.pkt : s \in sent}
All == Held \cup Gone

\* A packet is in one place.
Conserved ==
    /\ \A q \in All : \E p \in Packets \ todo : q.id = p.id
    /\ \A q, r \in All : q.id = r.id => q = r
    /\ Held \cap Gone = {}
    /\ crashed \/ \A p \in Packets \ todo : \E q \in All : q.id = p.id

Inv == Types /\ Requests /\ Sent /\ Unknown /\ NoneWaitsForKnown /\ Conserved

\* The routes do not change, and so none of the sets made with them.
LEMMA RoutesStay ==
    ASSUME UNCHANGED rtable
    PROVE  /\ Pkt' = Pkt /\ Req' = Req
           /\ \A q : Via(q)' = Via(q) /\ Hop(q)' = Hop(q) /\ Wire(q)' = Wire(q)
<1>1. \A d : longest_prefix_match(d)' = longest_prefix_match(d)
  BY DEF longest_prefix_match
<1>2. \A q : Via(q)' = Via(q) /\ Hop(q)' = Hop(q)
  BY <1>1 DEF Via, Hop
<1>3. \A q : Wire(q)' = Wire(q)
  BY <1>2 DEF Wire
<1>4. \A p, t : Icmp(p, t)' = Icmp(p, t)
  BY <1>1 DEF Icmp
<1>5. \A p : Made(p)' = Made(p)
  BY <1>1, <1>4 DEF Made, IcmpTypes
<1>6. Pkt' = Pkt
  BY <1>1, <1>5 DEF Pkt
<1>7. Req' = Req
  BY <1>2, <1>6 DEF Req
<1> QED
  BY <1>2, <1>3, <1>6, <1>7

LEMMA PktFacts ==
    ASSUME NEW q \in Pkt
    PROVE  /\ q # NoPkt
           /\ \E p \in Packets : q.id = p.id
           /\ Wire(q).pkt = q
<1>1. PICK p \in Packets : q \in Made(p)
  BY DEF Pkt
<1>2. CASE q = Forwarded(p)
  BY <1>2 DEF Forwarded, NoPkt, Wire, iface_send_packet
<1>3. ASSUME NEW t, q = Icmp(p, t)
      PROVE  q # NoPkt /\ q.id = p.id /\ Wire(q).pkt = q
  BY <1>3 DEF Icmp, NoPkt, Wire, iface_send_packet
<1> QED
  BY <1>1, <1>2, <1>3 DEF Made, Forwarded, Wire, iface_send_packet

\* q waits in one of the requests rl.
Waits(q, rl) == \E i \in DOMAIN rl : \E k \in DOMAIN rl[i].cached_packets :
                    q = rl[i].cached_packets[k]

LEMMA HeldIs ==
    /\ \A q : q \in Held <=> Waits(q, req_list) \/ (pkt # NoPkt /\ q = pkt)
    /\ \A q : q \in Held' <=> Waits(q, req_list') \/ (pkt' # NoPkt /\ q = pkt')
<1> DEFINE U(rl) == UNION {ToSet(r.cached_packets) : r \in ToSet(rl)}
           One(x) == IF x = NoPkt THEN {} ELSE {x}
<1>1. \A rl, q : q \in U(rl) <=> Waits(q, rl)
  <2> TAKE rl, q
  <2>1. q \in U(rl) <=> \E r \in ToSet(rl) : q \in ToSet(r.cached_packets)
    OBVIOUS
  <2>2. \A t : q \in ToSet(t) <=> \E k \in DOMAIN t : q = t[k]
    BY DEF ToSet
  <2>3. \A r : r \in ToSet(rl) <=> \E i \in DOMAIN rl : r = rl[i]
    BY DEF ToSet
  <2> QED
    BY <2>1, <2>2, <2>3 DEF Waits
<1>2. \A x, q : q \in One(x) <=> x # NoPkt /\ q = x
  OBVIOUS
<1>3. /\ Held = U(req_list) \cup One(pkt)
      /\ Held' = U(req_list') \cup One(pkt')
  BY DEF Held
<1> HIDE DEF U, One
<1> QED
  BY <1>1, <1>2, <1>3

\* Packets that only change their place stay conserved.
LEMMA MovesConserve ==
    ASSUME Conserved, UNCHANGED todo, crashed => crashed',
           \A q : q \in All' <=> q \in All, Held' \cap Gone' = {}
    PROVE  Conserved'
  BY DEF Conserved

\* The packets of requests that leave their packets, their way and their number alone.
LEMMA SameWaits ==
    ASSUME NEW rl, NEW rm, DOMAIN rm = DOMAIN rl,
           \A i \in DOMAIN rl : rm[i].cached_packets = rl[i].cached_packets
    PROVE  \A q : Waits(q, rm) <=> Waits(q, rl)
  BY DEF Waits

--------------------------------------------------------------------------------
(* Packets that come in.                                                       *)

LEMMA VerdictNo ==
    ASSUME NEW p \in Packets, Verdict(p) = "no"
    PROVE  Forwarded(p) \in Pkt /\ Forwarded(p).id = p.id
<1> DEFINE q == Forwarded(p)
           t == (p.ttl - 1) % 256
<1>1. q.ttl = t /\ q.dst = p.dst /\ q.id = p.id
  BY DEF Forwarded
<1>2. p.ttl \in 0 .. 255
  BY PacketAssumption
<1>3. t # 0 /\ longest_prefix_match(p.dst) # NoRoute
  BY DEF Verdict
<1>4. t > 0
  BY <1>2, <1>3
<1>5. q \in Made(p)
  BY DEF Made
<1> HIDE DEF q, t
<1>6. q \in Pkt
  BY <1>1, <1>3, <1>4, <1>5 DEF Pkt
<1> QED
  BY <1>1, <1>6 DEF q

LEMMA VerdictIcmp ==
    ASSUME NEW p \in Packets, Verdict(p) # "no", longest_prefix_match(p.src) # NoRoute
    PROVE  Icmp(p, Verdict(p)) \in Pkt /\ Icmp(p, Verdict(p)).id = p.id
<1> DEFINE v == Verdict(p)
           q == Icmp(p, v)
<1>1. v \in {"reply", "expired", "unreachable"}
  BY DEF Verdict
<1> HIDE DEF v
<1>2. q.ttl = 64 /\ q.dst = p.src /\ q.id = p.id
  BY DEF Icmp, ip_init_hdr
<1>3. q \in Made(p)
  BY <1>1 DEF Made, IcmpTypes
<1> HIDE DEF q
<1>4. q \in Pkt
  BY <1>2, <1>3 DEF Pkt
<1> QED
  BY <1>2, <1>4 DEF q, v

\* A packet that came in, or the message made for it, is sent or kept for the append.
LEMMA NewPacket ==
    ASSUME Inv, NEW p \in todo, NEW q \in Pkt, q.id = p.id, pkt = NoPkt,
           todo' = todo \ {p}, iface_send_packet_by_arp(q),
           UNCHANGED <<rtable, entries, req_list, crashed>>
    PROVE  Inv'
<1> USE DEF Inv
<1>1. /\ Pkt' = Pkt /\ Req' = Req
      /\ \A x : Via(x)' = Via(x) /\ Hop(x)' = Hop(x) /\ Wire(x)' = Wire(x)
  BY RoutesStay
<1>2. q # NoPkt /\ Wire(q).pkt = q /\ todo \subseteq Packets
  BY PktFacts DEF Types
<1>3. \/ sent' = sent \cup {Wire(q)} /\ UNCHANGED pkt
      \/ ~ arpcache_lookup(Hop(q)) /\ pkt' = q /\ UNCHANGED sent
  BY DEF iface_send_packet_by_arp, Wire, Via, Hop
<1>4. q \notin All
  BY <1>2, PacketAssumption DEF Conserved
<1>5. /\ \A x : x \in All' <=> x \in All \/ x = q
      /\ Held' \cap Gone' = {}
  <2>1. CASE sent' = sent \cup {Wire(q)} /\ UNCHANGED pkt
    <3>1. \A x : x \in Gone' <=> x \in Gone \/ x = q
      BY <1>2, <2>1 DEF Gone
    <3>2. \A x : x \in Held' <=> x \in Held
      BY <2>1, HeldIs
    <3> QED
      BY <1>4, <3>1, <3>2 DEF All, Conserved
  <2>2. CASE pkt' = q /\ UNCHANGED sent
    <3>1. \A x : x \in Gone' <=> x \in Gone
      BY <2>2 DEF Gone
    <3>2. \A x : x \in Held' <=> x \in Held \/ x = q
      BY <1>2, <2>2, HeldIs
    <3> QED
      BY <1>4, <3>1, <3>2 DEF All, Conserved
  <2> QED
    BY <1>3, <2>1, <2>2
<1>6. Conserved'
  <2>1. \A x \in All' : \E y \in Packets \ todo' : x.id = y.id
    BY <1>2, <1>5 DEF Conserved
  <2>2. \A x \in All : x.id # q.id
    BY <1>2, PacketAssumption DEF Conserved
  <2>3. \A x, y \in All' : x.id = y.id => x = y
    BY <1>5, <2>2 DEF Conserved
  <2>4. crashed' \/ \A y \in Packets \ todo' : \E x \in All' : x.id = y.id
    BY <1>5 DEF Conserved
  <2> QED
    BY <1>5, <2>1, <2>3, <2>4 DEF Conserved
<1>7. Types'
  BY <1>1, <1>3 DEF Types
<1>8. Requests'
  BY <1>1 DEF Requests, ReqOK
<1>9. Sent'
  BY <1>1, <1>3 DEF Sent
<1>10. NoneWaitsForKnown'
  BY DEF NoneWaitsForKnown, arpcache_lookup
<1>11. Unknown'
  <2>1. \A x : arpcache_lookup(x)' <=> arpcache_lookup(x)
    BY DEF arpcache_lookup
  <2>2. pkt' # NoPkt => \A x : x = Hop(pkt') => ~ arpcache_lookup(x)
    BY <1>3
  <2>3. Hop(pkt)' = Hop(pkt')
    BY <1>1 DEF Hop, longest_prefix_match
  <2> QED
    BY <2>1, <2>2, <2>3 DEF Unknown
<1> QED
  BY <1>6, <1>7, <1>8, <1>9, <1>10, <1>11

LEMMA HandleIpKeeps == ASSUME Inv, NEW p \in Packets, handle_ip_packet(p) PROVE Inv'
<1>1. /\ p \in todo /\ pkt = NoPkt /\ todo' = todo \ {p} /\ ~ crashed
      /\ UNCHANGED <<rtable, entries, req_list>>
  BY DEF handle_ip_packet
<1>2. CASE /\ Verdict(p) = "no" /\ iface_send_packet_by_arp(Forwarded(p)) /\ UNCHANGED crashed
  BY <1>1, <1>2, VerdictNo, NewPacket
<1>3. CASE /\ Verdict(p) # "no" /\ longest_prefix_match(p.src) # NoRoute
           /\ iface_send_packet_by_arp(Icmp(p, Verdict(p))) /\ UNCHANGED crashed
  BY <1>1, <1>3, VerdictIcmp, NewPacket
<1>4. CASE crashed' = TRUE /\ UNCHANGED <<pkt, sent>>
  <2> USE DEF Inv
  <2>1. /\ Pkt' = Pkt /\ Req' = Req
        /\ \A x : Via(x)' = Via(x) /\ Hop(x)' = Hop(x) /\ Wire(x)' = Wire(x)
    BY <1>1, RoutesStay
  <2>2. Types' /\ Requests' /\ Sent'
    BY <1>1, <1>4, <2>1 DEF Types, Requests, ReqOK, Sent
  <2>3. NoneWaitsForKnown' /\ Unknown'
    BY <1>1, <1>4 DEF NoneWaitsForKnown, Unknown, arpcache_lookup
  <2>4. Held' = Held /\ Gone' = Gone /\ All' = All
    BY <1>1, <1>4 DEF Held, Gone, All
  <2>5. Conserved'
    BY <1>1, <1>4, <2>4 DEF Conserved
  <2> QED
    BY <2>2, <2>3, <2>5
<1> QED
  BY <1>2, <1>3, <1>4 DEF handle_ip_packet

--------------------------------------------------------------------------------
(* The packet that is appended.                                                *)

LEMMA KeptFacts ==
    ASSUME NEW r \in Req, NEW q \in Pkt, ReqOK(r), r.iface = Via(q), r.ip4 = Hop(q)
    PROVE  /\ Kept(r, q) \in Req /\ ReqOK(Kept(r, q))
           /\ Kept(r, q).iface = r.iface /\ Kept(r, q).ip4 = r.ip4
           /\ \A x : (\E k \in DOMAIN Kept(r, q).cached_packets : x = Kept(r, q).cached_packets[k])
                        <=> x = q \/ \E k \in DOMAIN r.cached_packets : x = r.cached_packets[k]
<1> DEFINE c == r.cached_packets
           d == Append(c, q)
<1>1. c \in Seq(Pkt)
  BY DEF Req
<1> HIDE DEF c
<1>2. /\ d \in Seq(Pkt) /\ DOMAIN c = 1 .. Len(c) /\ DOMAIN d = 1 .. Len(c) + 1 /\ Len(c) \in Nat
      /\ d[Len(c) + 1] = q /\ \A k \in 1 .. Len(c) : d[k] = c[k]
  BY <1>1
<1> HIDE DEF d
<1>3. /\ Kept(r, q) \in Req
      /\ Kept(r, q).iface = r.iface /\ Kept(r, q).ip4 = r.ip4 /\ Kept(r, q).cached_packets = d
  BY <1>2 DEF Kept, Req, d, c
<1>4. \A k \in DOMAIN d : k = Len(c) + 1 \/ k \in 1 .. Len(c)
  BY <1>2
<1>5. \A k \in DOMAIN d : Via(d[k]) = r.iface /\ Hop(d[k]) = r.ip4
  BY <1>2, <1>4 DEF ReqOK, c
<1>6. \A x : (\E k \in DOMAIN d : x = d[k]) <=> x = q \/ \E k \in DOMAIN c : x = c[k]
  <2>1. Len(c) + 1 \in DOMAIN d /\ \A k \in DOMAIN c : k \in DOMAIN d
    BY <1>2
  <2> QED
    BY <1>2, <1>4, <2>1
<1>7. ReqOK(Kept(r, q))
  BY <1>3, <1>5 DEF ReqOK
<1> QED
  BY <1>3, <1>6, <1>7 DEF c

\* The list with one request for pkt changed, or added, at j.
Joined(j, r) ==
    /\ r \in Req /\ ReqOK(r) /\ r.iface = Via(pkt) /\ r.ip4 = Hop(pkt)
    /\ req_list' \in Seq(Req)
    /\ DOMAIN req_list' = DOMAIN req_list \cup {j}
    /\ req_list'[j] = Kept(r, pkt)
    /\ \A k \in DOMAIN req_list : k # j => req_list'[k] = req_list[k]
    /\ j \in DOMAIN req_list => r = req_list[j]
    /\ j \notin DOMAIN req_list => r.cached_packets = << >>

LEMMA AppendKeeps == ASSUME Inv, arpcache_append_packet PROVE Inv'
<1> USE DEF Inv
<1>1. /\ pkt \in Pkt /\ pkt # NoPkt /\ pkt' = NoPkt
      /\ UNCHANGED <<rtable, entries, todo, sent, crashed>>
  BY DEF arpcache_append_packet, Types
<1>2. /\ Pkt' = Pkt /\ Req' = Req
      /\ \A x : Via(x)' = Via(x) /\ Hop(x)' = Hop(x) /\ Wire(x)' = Wire(x)
  BY <1>1, RoutesStay
<1>3. \E j, r : Joined(j, r)
  <2>1. req_list \in Seq(Req) /\ \A i \in DOMAIN req_list : req_list[i] \in Req
    BY DEF Types
  <2>2. ASSUME NEW i \in DOMAIN req_list,
               req_list[i].iface = Via(pkt), req_list[i].ip4 = Hop(pkt),
               req_list' = [req_list EXCEPT ![i] = Kept(req_list[i], pkt)]
        PROVE  Joined(i, req_list[i])
    <3> DEFINE r == req_list[i]
               v == Kept(r, pkt)
    <3>1. r \in Req /\ ReqOK(r)
      BY <2>1 DEF Requests
    <3>2. v \in Req
      BY <1>1, <2>2, <3>1, KeptFacts
    <3>3. r.iface = Via(pkt) /\ r.ip4 = Hop(pkt) /\ req_list' = [req_list EXCEPT ![i] = v]
      BY <2>2
    <3> HIDE DEF v
    <3>4. /\ req_list' \in Seq(Req) /\ DOMAIN req_list' = DOMAIN req_list
          /\ req_list'[i] = v
          /\ \A k \in DOMAIN req_list : k # i => req_list'[k] = req_list[k]
      BY <2>1, <3>2, <3>3
    <3> QED
      BY <3>1, <3>3, <3>4 DEF Joined, v
  <2>3. ASSUME req_list' = Append(req_list, Kept(Request(Via(pkt), Hop(pkt)), pkt))
        PROVE  Joined(Len(req_list) + 1, Request(Via(pkt), Hop(pkt)))
    <3> DEFINE r == Request(Via(pkt), Hop(pkt))
               v == Kept(r, pkt)
               n == Len(req_list)
    <3>1. /\ r \in Req /\ ReqOK(r) /\ r.iface = Via(pkt) /\ r.ip4 = Hop(pkt)
          /\ r.cached_packets = << >>
      BY <1>1 DEF Request, Req, ReqOK
    <3> HIDE DEF r
    <3>2. v \in Req
      BY <1>1, <3>1, KeptFacts
    <3>3. req_list' = Append(req_list, v)
      BY <2>3 DEF r
    <3> HIDE DEF v
    <3>4. n \in Nat /\ DOMAIN req_list = 1 .. n
      BY <2>1
    <3>5. /\ req_list' \in Seq(Req) /\ DOMAIN req_list' = 1 .. n + 1
          /\ req_list'[n + 1] = v
          /\ \A k \in 1 .. n : req_list'[k] = req_list[k]
      BY <2>1, <3>2, <3>3
    <3>6. n + 1 \notin 1 .. n /\ 1 .. n + 1 = (1 .. n) \cup {n + 1}
      BY <3>4
    <3> QED
      BY <3>1, <3>4, <3>5, <3>6 DEF Joined, v, r
  <2> QED
    BY <2>2, <2>3 DEF arpcache_append_packet, Via, Hop
<1>4. PICK j, r : Joined(j, r)
  BY <1>3
<1> DEFINE v == Kept(r, pkt)
<1> DEFINE Has(q, x) == \E k \in DOMAIN q.cached_packets : x = q.cached_packets[k]
<1>5. /\ ReqOK(v) /\ v.iface = Via(pkt) /\ v.ip4 = Hop(pkt)
      /\ \A x : Has(v, x) <=> x = pkt \/ Has(r, x)
  BY <1>1, <1>4, KeptFacts DEF Joined
<1>6. req_list'[j] = v /\ j \in DOMAIN req_list'
  BY <1>4 DEF Joined
<1> HIDE DEF v
<1>7. \A x : Waits(x, req_list') <=> Waits(x, req_list) \/ x = pkt
  <2>1. \A x, rl : Waits(x, rl) <=> \E i \in DOMAIN rl : Has(rl[i], x)
    BY DEF Waits
  <2>2. j \notin DOMAIN req_list => \A x : ~ Has(r, x)
    BY <1>4 DEF Joined
  <2> HIDE DEF Has
  <2>3. /\ DOMAIN req_list' = DOMAIN req_list \cup {j}
        /\ \A k \in DOMAIN req_list : k # j => req_list'[k] = req_list[k]
        /\ j \in DOMAIN req_list => r = req_list[j]
    BY <1>4 DEF Joined
  <2>4. \A x : (\E i \in DOMAIN req_list' : Has(req_list'[i], x))
                  <=> (\E i \in DOMAIN req_list : Has(req_list[i], x)) \/ x = pkt
    BY <1>5, <1>6, <2>2, <2>3
  <2> QED
    BY <2>1, <2>4
<1>8. Conserved'
  <2>1. \A x : x \in Held' <=> x \in Held
    BY <1>1, <1>7, HeldIs
  <2>2. Gone' = Gone
    BY <1>1 DEF Gone
  <2>3. \A x : x \in All' <=> x \in All
    BY <2>1, <2>2 DEF All
  <2>4. Held' \cap Gone' = {}
    BY <2>1, <2>2 DEF Conserved
  <2> QED
    BY <1>1, <2>3, <2>4, MovesConserve
<1>9. Types'
  BY <1>1, <1>2, <1>4 DEF Types, Joined
<1>10. Requests'
  <2>1. \A i \in DOMAIN req_list' : ReqOK(req_list'[i])
    BY <1>4, <1>5, <1>6 DEF Joined, Requests
  <2>2. \A x : ReqOK(x)' <=> ReqOK(x)
    BY <1>2 DEF ReqOK
  <2> QED
    BY <2>1, <2>2 DEF Requests
<1>11. Sent' /\ Unknown'
  BY <1>1, <1>2 DEF Sent, Unknown
<1>12. NoneWaitsForKnown'
  <2>1. \A x : arpcache_lookup(x)' <=> arpcache_lookup(x)
    BY <1>1 DEF arpcache_lookup
  <2>2. ~ arpcache_lookup(Hop(pkt))
    BY <1>1 DEF Unknown
  <2>3. \A i \in DOMAIN req_list' : ~ arpcache_lookup(req_list'[i].ip4)
    BY <1>4, <1>5, <1>6, <2>2 DEF Joined, NoneWaitsForKnown
  <2> QED
    BY <2>1, <2>3 DEF NoneWaitsForKnown
<1> QED
  BY <1>8, <1>9, <1>10, <1>11, <1>12


--------------------------------------------------------------------------------
(* A neighbour's answer.                                                       *)

LEMMA OrderFacts ==
    ASSUME NEW kept, IsFiniteSet(kept), NEW f \in InOrder(kept)
    PROVE  /\ Cardinality(kept) \in Nat /\ DOMAIN f = 1 .. Cardinality(kept)
           /\ \A k \in DOMAIN f : f[k] \in kept
           /\ \A i \in kept : \E k \in DOMAIN f : f[k] = i
<1>1. Cardinality(kept) \in Nat
  BY FS_CardinalityType
<1> QED
  BY <1>1 DEF InOrder

\* At most the new address becomes known.
LEMMA MappingKnows ==
    ASSUME entries \in [Slot -> Entry], NEW ip \in Hosts, NEW s,
           entries' = [entries EXCEPT ![s] = Mapping(ip)]
    PROVE  /\ entries' \in [Slot -> Entry]
           /\ \A x : arpcache_lookup(x)' => arpcache_lookup(x) \/ x = ip
<1> DEFINE e == Mapping(ip)
<1>1. ip \in Int
  BY DeviceAssumption DEF Ip
<1>2. e \in Entry /\ e.ip4 = ip
  BY <1>1 DEF Mapping, Entry
<1> HIDE DEF e
<1>3. entries' = [entries EXCEPT ![s] = e]
  BY DEF e
<1>4. entries' \in [Slot -> Entry]
  BY <1>2, <1>3
<1>5. \A i \in Slot : entries'[i] = entries[i] \/ entries'[i] = e
  BY <1>3
<1>6. \A x : arpcache_lookup(x)' => \E i \in Slot : entries'[i].valid /\ entries'[i].ip4 = x
  BY DEF arpcache_lookup
<1> QED
  BY <1>2, <1>4, <1>5, <1>6 DEF arpcache_lookup

\* The requests for ip have left the list and what waited for it was sent.
LEMMA AnsweredLeave ==
    ASSUME Inv, NEW ip \in Hosts, Unlinked(ip), UNCHANGED <<rtable, todo, pkt, crashed>>, pkt = NoPkt,
           sent' = sent \cup UNION {Waiting(r) : r \in {r \in ToSet(req_list) : r.ip4 = ip}}
    PROVE  /\ req_list' \in Seq(Req)
           /\ \A i \in DOMAIN req_list' :
                 \E j \in DOMAIN req_list : req_list'[i] = req_list[j] /\ req_list[j].ip4 # ip
           /\ Sent' /\ Conserved'
<1> USE DEF Inv
<1> DEFINE kept == {i \in DOMAIN req_list : req_list[i].ip4 # ip}
           U == UNION {Waiting(r) : r \in {r \in ToSet(req_list) : r.ip4 = ip}}
           Has(q, x) == \E k \in DOMAIN q.cached_packets : x = q.cached_packets[k]
<1>1. /\ Pkt' = Pkt
      /\ \A x : Via(x)' = Via(x) /\ Hop(x)' = Hop(x) /\ Wire(x)' = Wire(x)
  BY RoutesStay
<1>2. /\ req_list \in Seq(Req) /\ Len(req_list) \in Nat /\ DOMAIN req_list = 1 .. Len(req_list)
      /\ \A i \in DOMAIN req_list : req_list[i] \in Req
  BY DEF Types
<1>3. IsFiniteSet(kept)
  <2>1. IsFiniteSet(1 .. Len(req_list))
    BY <1>2, FS_Interval
  <2> QED
    BY <1>2, <2>1, FS_Subset
<1>4. PICK f \in InOrder(kept) : req_list' = [k \in DOMAIN f |-> req_list[f[k]]]
  BY DEF Unlinked
<1>5. /\ Cardinality(kept) \in Nat /\ DOMAIN f = 1 .. Cardinality(kept)
      /\ \A k \in DOMAIN f : f[k] \in kept
      /\ \A i \in kept : \E k \in DOMAIN f : f[k] = i
  BY <1>3, <1>4, OrderFacts
<1>6. /\ DOMAIN req_list' = DOMAIN f /\ \A k \in DOMAIN f : req_list'[k] = req_list[f[k]]
      /\ \A k \in DOMAIN f : f[k] \in DOMAIN req_list /\ req_list[f[k]].ip4 # ip
  BY <1>4, <1>5
<1>7. req_list' \in Seq(Req)
  <2> DEFINE n == Cardinality(kept)
  <2>1. \A k \in DOMAIN f : req_list[f[k]] \in Req
    BY <1>2, <1>6
  <2>2. n \in Nat /\ DOMAIN f = 1 .. n
    BY <1>5
  <2> HIDE DEF n, kept
  <2>3. req_list' \in [1 .. n -> Req]
    BY <1>4, <2>1, <2>2
  <2> QED
    BY <2>2, <2>3
<1>8. \A i \in DOMAIN req_list' :
         \E j \in DOMAIN req_list : req_list'[i] = req_list[j] /\ req_list[j].ip4 # ip
  BY <1>6
<1>9. \A i \in DOMAIN req_list : req_list[i].ip4 # ip =>
         \E k \in DOMAIN req_list' : req_list'[k] = req_list[i]
  BY <1>5, <1>6
<1>10. \A r, x : r \in Req /\ ReqOK(r) /\ Has(r, x) =>
          x \in Pkt /\ iface_send_packet(r.iface, r.ip4, x) = Wire(x) /\ Hop(x) = r.ip4
  <2> SUFFICES ASSUME NEW r \in Req, NEW x, ReqOK(r), Has(r, x)
               PROVE  x \in Pkt /\ iface_send_packet(r.iface, r.ip4, x) = Wire(x) /\ Hop(x) = r.ip4
    OBVIOUS
  <2>1. r.cached_packets \in Seq(Pkt)
    BY DEF Req
  <2>2. x \in Pkt
    BY <2>1
  <2>3. Via(x) = r.iface /\ Hop(x) = r.ip4
    BY DEF ReqOK
  <2> QED
    BY <2>2, <2>3 DEF Wire
<1>11. \A s : s \in U <=> \E i \in DOMAIN req_list : \E x :
            req_list[i].ip4 = ip /\ Has(req_list[i], x)
            /\ s = iface_send_packet(req_list[i].iface, req_list[i].ip4, x)
  <2> TAKE s
  <2>1. s \in U <=> \E r \in ToSet(req_list) : r.ip4 = ip /\ s \in Waiting(r)
    OBVIOUS
  <2>2. \A r : r \in ToSet(req_list) <=> \E i \in DOMAIN req_list : r = req_list[i]
    BY DEF ToSet
  <2>3. \A r : s \in Waiting(r) <=>
              \E x \in ToSet(r.cached_packets) : s = iface_send_packet(r.iface, r.ip4, x)
    BY DEF Waiting
  <2>4. \A r, x : x \in ToSet(r.cached_packets) <=> Has(r, x)
    BY DEF ToSet
  <2> HIDE DEF U, Has
  <2>5. \A r : s \in Waiting(r) <=> \E x : Has(r, x) /\ s = iface_send_packet(r.iface, r.ip4, x)
    BY <2>3, <2>4
  <2>6. s \in U <=> \E i \in DOMAIN req_list : req_list[i].ip4 = ip /\ s \in Waiting(req_list[i])
    BY <2>1, <2>2
  <2> QED
    BY <2>5, <2>6
<1>12. \A x, rl : Waits(x, rl) <=> \E i \in DOMAIN rl : Has(rl[i], x)
  BY DEF Waits
<1>13. sent' = sent \cup U
  OBVIOUS
<1> HIDE DEF kept, U, Has
<1>14. \A i \in DOMAIN req_list : \A x : Has(req_list[i], x) =>
          /\ x \in Pkt /\ Hop(x) = req_list[i].ip4
          /\ iface_send_packet(req_list[i].iface, req_list[i].ip4, x) = Wire(x)
  BY <1>2, <1>10 DEF Requests
<1>15. \A s : s \in U <=> \E x : x \in Pkt /\ Hop(x) = ip /\ Waits(x, req_list) /\ s = Wire(x)
  BY <1>11, <1>12, <1>14
<1>16. Sent'
  BY <1>1, <1>13, <1>15 DEF Sent
<1>17. \A x : x \in Gone' <=> x \in Gone \/ (x \in Pkt /\ Hop(x) = ip /\ Waits(x, req_list))
  <2>1. Gone' = {s.pkt : s \in sent'}
    BY DEF Gone
  <2>2. \A x \in Pkt : Wire(x).pkt = x
    BY PktFacts
  <2> QED
    BY <1>13, <1>15, <2>1, <2>2 DEF Gone
<1>18. \A x : Waits(x, req_list') <=> x \in Pkt /\ Hop(x) # ip /\ Waits(x, req_list)
  <2> TAKE x
  <2>1. ASSUME Waits(x, req_list') PROVE x \in Pkt /\ Hop(x) # ip /\ Waits(x, req_list)
    BY <1>8, <1>12, <1>14, <2>1
  <2>2. ASSUME x \in Pkt, Hop(x) # ip, Waits(x, req_list) PROVE Waits(x, req_list')
    BY <1>9, <1>12, <1>14, <2>2
  <2> QED
    BY <2>1, <2>2
<1>19. \A x : Waits(x, req_list) => x \in Pkt
  BY <1>12, <1>14
<1>20. /\ \A x : x \in Held <=> Waits(x, req_list)
       /\ \A x : x \in Held' <=> Waits(x, req_list')
  BY HeldIs
<1>21. \A x : x \in All' <=> x \in All
  BY <1>17, <1>18, <1>19, <1>20 DEF All
<1>22. Held' \cap Gone' = {}
  BY <1>17, <1>18, <1>20 DEF Conserved
<1>23. Conserved'
  BY <1>21, <1>22, MovesConserve
<1> QED
  BY <1>7, <1>8, <1>16, <1>23

LEMMA HandleArpKeeps == ASSUME Inv, NEW ip \in Hosts, handle_arp_packet(ip) PROVE Inv'
<1> USE DEF Inv
<1>1. pkt = NoPkt /\ arpcache_insert(ip) /\ UNCHANGED <<rtable, todo, pkt, crashed>>
  BY DEF handle_arp_packet
<1>2. /\ Pkt' = Pkt /\ Req' = Req
      /\ \A x : Via(x)' = Via(x) /\ Hop(x)' = Hop(x) /\ Wire(x)' = Wire(x)
  BY <1>1, RoutesStay
<1>3. entries \in [Slot -> Entry]
  BY DEF Types
<1>4. Unknown'
  BY <1>1 DEF Unknown
<1>5. \A x : ReqOK(x)' <=> ReqOK(x)
  BY <1>2 DEF ReqOK
<1>6. CASE Known(ip) # {} /\ UNCHANGED <<req_list, sent>>
  <2>1. \E s : entries' = [entries EXCEPT ![s] = Mapping(ip)]
    BY <1>1, <1>6 DEF arpcache_insert
  <2>2. /\ entries' \in [Slot -> Entry]
        /\ \A x : arpcache_lookup(x)' => arpcache_lookup(x) \/ x = ip
    BY <1>3, <2>1, MappingKnows
  <2>3. arpcache_lookup(ip)
    <3>1. PICK i \in Slot : i \in 1 .. i /\ entries[i].ip4 = ip /\ \A j \in 1 .. i : entries[j].valid
      BY <1>6 DEF Known, Passed, Slot
    <3> QED
      BY <3>1 DEF arpcache_lookup
  <2>4. NoneWaitsForKnown'
    <3>1. \A i \in DOMAIN req_list : ~ arpcache_lookup(req_list[i].ip4)'
      BY <1>6, <2>2, <2>3 DEF NoneWaitsForKnown
    <3> QED
      BY <1>6, <2>2, <2>3 DEF NoneWaitsForKnown
  <2>5. Types'
    BY <1>1, <1>2, <1>6, <2>2 DEF Types
  <2>6. Requests' /\ Sent'
    BY <1>2, <1>5, <1>6 DEF Requests, Sent
  <2>7. Held' = Held /\ Gone' = Gone /\ All' = All
    BY <1>1, <1>6 DEF Held, Gone, All
  <2>8. Conserved'
    BY <1>1, <2>7 DEF Conserved
  <2> QED
    BY <1>4, <2>4, <2>5, <2>6, <2>8
<1>7. CASE /\ Unlinked(ip)
           /\ sent' = sent \cup UNION {Waiting(r) : r \in {r \in ToSet(req_list) : r.ip4 = ip}}
           /\ \E s : entries' = [entries EXCEPT ![s] = Mapping(ip)]
  <2>1. /\ entries' \in [Slot -> Entry]
        /\ \A x : arpcache_lookup(x)' => arpcache_lookup(x) \/ x = ip
    BY <1>3, <1>7, MappingKnows
  <2>2. /\ req_list' \in Seq(Req)
        /\ \A i \in DOMAIN req_list' :
              \E j \in DOMAIN req_list : req_list'[i] = req_list[j] /\ req_list[j].ip4 # ip
        /\ Sent' /\ Conserved'
    BY <1>1, <1>7, AnsweredLeave
  <2>3. Types'
    BY <1>1, <1>2, <2>1, <2>2 DEF Types
  <2>4. Requests'
    BY <1>5, <2>2 DEF Requests
  <2>5. NoneWaitsForKnown'
    <3>1. \A i \in DOMAIN req_list' : \A x : x = req_list'[i].ip4 => ~ arpcache_lookup(x)'
      BY <2>1, <2>2 DEF NoneWaitsForKnown
    <3> QED
      BY <3>1 DEF NoneWaitsForKnown, arpcache_lookup
  <2> QED
    BY <1>4, <2>2, <2>3, <2>4, <2>5
<1>8. \/ Known(ip) # {} /\ UNCHANGED <<req_list, sent>>
      \/ /\ Unlinked(ip)
         /\ sent' = sent \cup UNION {Waiting(r) : r \in {r \in ToSet(req_list) : r.ip4 = ip}}
         /\ \E s : entries' = [entries EXCEPT ![s] = Mapping(ip)]
  BY <1>1 DEF arpcache_insert
<1> QED
  BY <1>6, <1>7, <1>8


--------------------------------------------------------------------------------
(* The sweep.                                                                  *)

LEMMA OlderType == ASSUME NEW age \in Int, NEW limit \in Int PROVE Older(age, limit) \in Int
  BY DEF Older

LEMMA SweptFacts ==
    ASSUME NEW e \in Entry, NEW x \in Swept(e)
    PROVE  x \in Entry /\ x.ip4 = e.ip4 /\ (x.valid => e.valid)
<1> DEFINE a == Older(e.age, ARP_ENTRY_TIMEOUT)
<1>1. a \in Int
  BY BoundsAssumption, OlderType DEF Entry
<1>2. CASE ~ e.valid
  BY <1>2 DEF Swept
<1>3. CASE e.valid
  <2>1. Swept(e) = {IF out THEN [e EXCEPT !.valid = FALSE, !.age = 0] ELSE [e EXCEPT !.age = a] :
                       out \in Exceeds(a, ARP_ENTRY_TIMEOUT)}
    BY <1>3 DEF Swept
  <2> HIDE DEF a
  <2>2. \/ x = [e EXCEPT !.valid = FALSE, !.age = 0]
        \/ x = [e EXCEPT !.age = a]
    BY <2>1
  <2>3. x.ip4 = e.ip4
    BY <2>2 DEF Entry
  <2>4. e = [valid |-> e.valid, ip4 |-> e.ip4, age |-> e.age]
    BY DEF Entry
  <2>5. e.valid \in BOOLEAN /\ e.ip4 \in Int /\ FALSE \in BOOLEAN /\ 0 \in Int
    BY DEF Entry
  <2>6. \/ x = [valid |-> FALSE, ip4 |-> e.ip4, age |-> 0]
        \/ x = [valid |-> e.valid, ip4 |-> e.ip4, age |-> a]
    BY <2>2, <2>4
  <2>7. \A b \in BOOLEAN, i \in Int, k \in Int : [valid |-> b, ip4 |-> i, age |-> k] \in Entry
    BY DEF Entry
  <2>8. x \in Entry
    BY <1>1, <2>5, <2>6, <2>7, Zenon
  <2> QED
    BY <1>3, <2>3, <2>8
<1> QED
  BY <1>2, <1>3

LEMMA AskedFacts ==
    ASSUME NEW r \in Req, NEW x \in Asked(r)
    PROVE  /\ x \in Req /\ x.iface = r.iface /\ x.ip4 = r.ip4
           /\ x.cached_packets = r.cached_packets
<1> DEFINE a == Older(r.age, 1)
<1>1. r.age \in Int /\ r.retries \in Int
  BY DEF Req
<1>2. a \in Int
  BY <1>1 DEF Older
<1>3. PICK again \in Exceeds(a, 1) :
         x = [r EXCEPT !.age = a, !.retries = r.retries + (IF again THEN 1 ELSE 0)]
  BY Zenon DEF Asked
<1> DEFINE m == r.retries + (IF again THEN 1 ELSE 0)
<1>4. m \in Int
  BY <1>1
<1>5. x = [r EXCEPT !.age = a, !.retries = m]
  BY <1>3
<1> HIDE DEF a, m
<1> QED
  BY <1>2, <1>4, <1>5 DEF Req

\* Each request stays, asked again or not.
LEMMA SweepAsks ==
    ASSUME Types, arpcache_sweep
    PROVE  /\ req_list' \in Seq(Req) /\ DOMAIN req_list' = DOMAIN req_list
           /\ \A i \in DOMAIN req_list :
                 /\ req_list'[i].iface = req_list[i].iface
                 /\ req_list'[i].ip4 = req_list[i].ip4
                 /\ req_list'[i].cached_packets = req_list[i].cached_packets
<1> DEFINE over == {i \in DOMAIN req_list : Over(req_list[i])}
           n == IF over = {} THEN Len(req_list)
                ELSE (CHOOSE i \in over : \A j \in over : i <= j) - 1
<1>1. /\ req_list \in Seq(Req) /\ Len(req_list) \in Nat /\ DOMAIN req_list = 1 .. Len(req_list)
      /\ \A i \in DOMAIN req_list : req_list[i] \in Req
  BY DEF Types
<1>2. n \in Int
  <2>1. CASE over = {}
    BY <1>1, <2>1
  <2>2. CASE over # {}
    <3>1. over \subseteq Nat
      BY <1>1
    <3>2. \E i \in over : \A j \in over : i <= j
      BY <2>2, <3>1, LeastNatural
    <3> QED
      BY <2>2, <3>1, <3>2
  <2> QED
    BY <2>1, <2>2
<1>3. \E rs : /\ \A i \in 1 .. n : rs[i] \in Asked(req_list[i])
              /\ req_list' = [i \in DOMAIN req_list |-> IF i <= n THEN rs[i] ELSE req_list[i]]
  BY DEF arpcache_sweep
<1> HIDE DEF n, over
<1>4. PICK rs : /\ \A i \in 1 .. n : rs[i] \in Asked(req_list[i])
                /\ req_list' = [i \in DOMAIN req_list |-> IF i <= n THEN rs[i] ELSE req_list[i]]
  BY <1>3
<1>5. /\ DOMAIN req_list' = DOMAIN req_list
      /\ \A i \in DOMAIN req_list :
            req_list'[i] \in Asked(req_list[i]) \/ req_list'[i] = req_list[i]
  BY <1>1, <1>2, <1>4
<1>6. \A i \in DOMAIN req_list :
         /\ req_list'[i] \in Req
         /\ req_list'[i].iface = req_list[i].iface
         /\ req_list'[i].ip4 = req_list[i].ip4
         /\ req_list'[i].cached_packets = req_list[i].cached_packets
  BY <1>1, <1>5, AskedFacts
<1>7. req_list' = [i \in 1 .. Len(req_list) |-> req_list'[i]]
  BY <1>1, <1>4
<1>8. req_list' \in [1 .. Len(req_list) -> Req]
  BY <1>1, <1>6, <1>7
<1> QED
  BY <1>1, <1>5, <1>6, <1>8

LEMMA SweepKeeps == ASSUME Inv, arpcache_sweep PROVE Inv'
<1> USE DEF Inv
<1>1. ~ crashed /\ UNCHANGED <<rtable, todo, pkt, sent>>
  BY DEF arpcache_sweep
<1>2. /\ Pkt' = Pkt /\ Req' = Req
      /\ \A x : Via(x)' = Via(x) /\ Hop(x)' = Hop(x) /\ Wire(x)' = Wire(x)
  BY <1>1, RoutesStay
<1>3. /\ req_list' \in Seq(Req) /\ DOMAIN req_list' = DOMAIN req_list
      /\ \A i \in DOMAIN req_list :
            /\ req_list'[i].iface = req_list[i].iface
            /\ req_list'[i].ip4 = req_list[i].ip4
            /\ req_list'[i].cached_packets = req_list[i].cached_packets
  BY SweepAsks
<1>4. /\ entries' \in [Slot -> Entry]
      /\ \A i \in Slot : entries'[i].ip4 = entries[i].ip4 /\ (entries'[i].valid => entries[i].valid)
  <2>1. PICK es \in [Slot -> UNION {Swept(entries[i]) : i \in Slot}] :
           entries' = es /\ \A i \in Slot : es[i] \in Swept(entries[i])
    BY DEF arpcache_sweep
  <2>2. \A i \in Slot : entries[i] \in Entry
    BY DEF Types
  <2>3. \A i \in Slot : /\ es[i] \in Entry /\ es[i].ip4 = entries[i].ip4
                        /\ es[i].valid => entries[i].valid
    BY <2>1, <2>2, SweptFacts
  <2> QED
    BY <2>1, <2>3
<1>5. \A x : arpcache_lookup(x)' => arpcache_lookup(x)
  BY <1>4 DEF arpcache_lookup
<1>6. Types'
  BY <1>1, <1>2, <1>3, <1>4 DEF Types
<1>7. Requests'
  <2>1. \A i \in DOMAIN req_list : ReqOK(req_list'[i])
    BY <1>3 DEF Requests, ReqOK
  <2>2. \A x : ReqOK(x)' <=> ReqOK(x)
    BY <1>2 DEF ReqOK
  <2> QED
    BY <1>3, <2>1, <2>2 DEF Requests
<1>8. Sent'
  BY <1>1, <1>2 DEF Sent
<1>9. Unknown'
  <2>1. pkt # NoPkt => ~ arpcache_lookup(Hop(pkt))
    BY DEF Unknown
  <2>2. \A x : x = Hop(pkt) => Hop(pkt)' = x
    BY <1>1, <1>2 DEF Hop, longest_prefix_match
  <2> QED
    BY <1>1, <1>5, <2>1, <2>2 DEF Unknown, arpcache_lookup
<1>10. NoneWaitsForKnown'
  <2>1. \A i \in DOMAIN req_list' : \A x : x = req_list'[i].ip4 => ~ arpcache_lookup(x)'
    BY <1>3, <1>5 DEF NoneWaitsForKnown
  <2> QED
    BY <2>1 DEF NoneWaitsForKnown, arpcache_lookup
<1>11. Conserved'
  <2>1. \A x : Waits(x, req_list') <=> Waits(x, req_list)
    BY <1>3, SameWaits
  <2>2. \A x : x \in Held' <=> x \in Held
    BY <1>1, <2>1, HeldIs
  <2>3. Gone' = Gone
    BY <1>1 DEF Gone
  <2>4. \A x : x \in All' <=> x \in All
    BY <2>2, <2>3 DEF All
  <2>5. Held' \cap Gone' = {}
    BY <2>2, <2>3 DEF Conserved
  <2> QED
    BY <1>1, <2>4, <2>5, MovesConserve
<1> QED
  BY <1>6, <1>7, <1>8, <1>9, <1>10, <1>11

--------------------------------------------------------------------------------
(* The theorems.                                                               *)

\* What the kernel hands over is a list of routes.
LEMMA KernelRoutes ==
    ASSUME NEW msgs \in Kernel, NEW t \in load_rtable_from_kernel(msgs)
    PROVE  t \in Seq(Route)
<1> DEFINE kept == {i \in DOMAIN msgs : Usable(msgs[i])}
           n == Cardinality(kept)
<1>1. PICK f \in InOrder(kept) : t = [k \in DOMAIN f |-> parse_routing_info(msgs[f[k]])]
  BY DEF load_rtable_from_kernel
<1>2. IsFiniteSet(kept)
  <2>1. kept \subseteq DOMAIN msgs /\ IsFiniteSet(DOMAIN msgs)
    BY KernelAssumption
  <2> QED
    BY <2>1, FS_Subset
<1>3. n \in Nat /\ DOMAIN f = 1 .. n /\ \A k \in DOMAIN f : f[k] \in kept
  BY <1>1, <1>2, OrderFacts
<1>4. ASSUME NEW i \in kept PROVE parse_routing_info(msgs[i]) \in Route
  <2> DEFINE m == msgs[i]
  <2>1. m.dst \subseteq Ip /\ m.len \in 0 .. W /\ m.gw \in Ip /\ m.oif \in Name
    BY <1>4, KernelAssumption DEF Name
  <2>2. m.len \in Nat /\ 0 \in Nat
    BY <2>1
  <2>3. \A d, l : d \in Ip /\ l \in Nat => new_rt_entry(d, l, m.gw, m.oif) \in Route
    BY <2>1 DEF new_rt_entry, Route
  <2>4. m.gw \in Ip => 0 \in Ip
    BY BoundsAssumption DEF Ip
  <2> HIDE DEF m
  <2>5. m.dst # {} => (CHOOSE d \in m.dst : TRUE) \in Ip
    BY <2>1
  <2>6. parse_routing_info(m) \in Route
    BY <2>1, <2>2, <2>3, <2>4, <2>5 DEF parse_routing_info
  <2> QED
    BY <2>6 DEF m
<1> HIDE DEF kept, n
<1>5. t \in [1 .. n -> Route]
  BY <1>1, <1>3, <1>4
<1> QED
  BY <1>3, <1>5

LEMMA InitInv == Init => Inv
<1> SUFFICES ASSUME Init PROVE Inv
  OBVIOUS
<1>1. rtable \in Seq(Route)
  BY KernelRoutes DEF Init
<1>2. /\ entries = [i \in Slot |-> Nobody] /\ req_list = << >> /\ todo = Packets
      /\ pkt = NoPkt /\ sent = {}
  BY DEF Init
<1>3. Nobody \in Entry
  BY DEF Nobody, Entry
<1>4. req_list \in Seq(Req) /\ DOMAIN req_list = {}
  BY <1>2
<1>5. Types
  BY <1>1, <1>2, <1>3, <1>4 DEF Types
<1>6. Requests /\ Sent /\ Unknown /\ NoneWaitsForKnown
  BY <1>2, <1>4 DEF Requests, Sent, Unknown, NoneWaitsForKnown
<1>7. \A q : q \notin Held
  BY <1>2, <1>4, HeldIs DEF Waits
<1>8. \A q : q \notin Gone
  BY <1>2 DEF Gone
<1>9. Conserved
  BY <1>2, <1>7, <1>8 DEF Conserved, All
<1> QED
  BY <1>5, <1>6, <1>9 DEF Inv

LEMMA StepInv == Inv /\ [Next]_vars => Inv'
<1> SUFFICES ASSUME Inv, [Next]_vars PROVE Inv'
  OBVIOUS
<1>1. CASE UNCHANGED vars
  <2>1. UNCHANGED <<rtable, entries, req_list, todo, pkt, sent, crashed>>
    BY <1>1 DEF vars
  <2>2. /\ Pkt' = Pkt /\ Req' = Req
        /\ \A x : Via(x)' = Via(x) /\ Hop(x)' = Hop(x) /\ Wire(x)' = Wire(x)
    BY <2>1, RoutesStay
  <2>3. Types' /\ Requests' /\ Sent'
    BY <2>1, <2>2 DEF Inv, Types, Requests, ReqOK, Sent
  <2>4. NoneWaitsForKnown' /\ Unknown'
    BY <2>1 DEF Inv, NoneWaitsForKnown, Unknown, arpcache_lookup, Hop, longest_prefix_match
  <2>5. Held' = Held /\ Gone' = Gone /\ All' = All
    BY <2>1 DEF Held, Gone, All
  <2>6. Conserved'
    BY <2>1, <2>5 DEF Inv, Conserved
  <2> QED
    BY <2>3, <2>4, <2>6 DEF Inv
<1>2. CASE arpcache_append_packet
  BY <1>2, AppendKeeps
<1>3. ASSUME NEW p \in Packets, handle_ip_packet(p) PROVE Inv'
  BY <1>3, HandleIpKeeps
<1>4. CASE arpcache_sweep
  BY <1>4, SweepKeeps
<1>5. ASSUME NEW ip \in Hosts, handle_arp_packet(ip) PROVE Inv'
  BY <1>5, HandleArpKeeps
<1> QED
  BY <1>1, <1>2, <1>3, <1>4, <1>5 DEF Next, Main

LEMMA AlwaysInv == Spec => []Inv
  BY InitInv, StepInv, PTL DEF Spec

\* The router of lab 08 loses no packet and sends none twice: until the process ends, each
\* packet that came in, or the one ICMP message made for it, is in one request of the ARP
\* cache, with the main thread on its way there, or was sent once.
THEOREM PacketsAreConserved == Spec => []PacketsConserved
<1>1. Inv => PacketsConserved
  <2> SUFFICES ASSUME Inv, ~ crashed, NEW p \in Packets \ todo PROVE Cardinality(Places(p)) = 1
    BY DEF PacketsConserved
  <2>1. \A x : x \in Places(p) <=> \/ x \in Held /\ x.id = p.id
                                   \/ x \in sent /\ x.pkt.id = p.id
    BY DEF Places
  <2>2. PICK q \in All : q.id = p.id
    BY DEF Inv, Conserved
  <2>3. \A x \in All : x.id = p.id => x = q
    BY <2>2 DEF Inv, Conserved
  <2>4. \A s \in sent : s.pkt \in Gone /\ s = Wire(s.pkt)
    BY PktFacts DEF Inv, Sent, Gone
  <2>5. CASE q \in Held
    <3>1. q \notin Gone
      BY <2>5 DEF Inv, Conserved
    <3>2. Places(p) = {q}
      BY <2>1, <2>2, <2>3, <2>4, <2>5, <3>1 DEF All
    <3> QED
      BY <3>2, FS_Singleton
  <2>6. CASE q \in Gone
    <3>1. q \notin Held
      BY <2>6 DEF Inv, Conserved
    <3>2. PICK s \in sent : s.pkt = q
      BY <2>6 DEF Gone
    <3>3. \A x \in sent : x.pkt.id = p.id => x = s
      BY <2>3, <2>4, <3>2 DEF All
    <3>4. \A x \in Held : x.id # p.id
      BY <2>3, <3>1 DEF All
    <3>5. Places(p) = {s}
      BY <2>1, <2>2, <3>2, <3>3, <3>4
    <3> QED
      BY <3>5, FS_Singleton
  <2> QED
    BY <2>5, <2>6 DEF All
<1> QED
  BY <1>1, AlwaysInv, PTL

\* The early return of the router's arpcache_insert leaves nothing behind: no packet waits for
\* an address that the table has a mapping for.
THEOREM NoneIsLeftBehind == Spec => []NoneWaitsForKnown
<1>1. Inv => NoneWaitsForKnown
  BY DEF Inv
<1> QED
  BY <1>1, AlwaysInv, PTL

\* Every packet the router of lab 08 puts on a wire, forwarded, kept until an answer came or
\* made as an ICMP message, goes to the next hop of the longest route that covers its
\* destination, never of a default route, with a TTL that has not run out.
THEOREM SentByTheLongestRoute == Spec => []SentRight
<1>1. Inv => SentRight
  <2> SUFFICES ASSUME Inv, NEW s \in sent
               PROVE  /\ s.pkt.ttl > 0
                      /\ \E i \in Covering(s.pkt.dst) :
                            /\ \A j \in Covering(s.pkt.dst) : rtable[j].len <= rtable[i].len
                            /\ s.iface = rtable[i].iface
                            /\ s.nh = IF rtable[i].gw = 0 THEN s.pkt.dst ELSE rtable[i].gw
    BY DEF SentRight
  <2>1. PICK q \in Pkt : s = Wire(q)
    BY DEF Inv, Sent
  <2> DEFINE r == longest_prefix_match(q.dst)
  <2>2. s.pkt = q /\ s.iface = r.iface /\ s.nh = IF r.gw = 0 THEN q.dst ELSE r.gw
    BY <2>1 DEF Wire, iface_send_packet, Via, Hop, NextHop
  <2>3. q.ttl > 0 /\ r # NoRoute
    BY DEF Pkt
  <2>4. rtable \in Seq(Route)
    BY DEF Inv, Types
  <2>5. Longest(r, rtable, q.dst, Len(rtable))
    BY <2>4, MatchIsLongest DEF longest_prefix_match
  <2> HIDE DEF r
  <2>6. DOMAIN rtable = 1 .. Len(rtable)
    BY <2>4
  <2>7. \A i : i \in Covering(q.dst) <=> i \in DOMAIN rtable /\ Covers(rtable[i], q.dst)
    BY DEF Covering, Covers, Network
  <2> QED
    BY <2>2, <2>3, <2>5, <2>6, <2>7 DEF Longest
<1> QED
  BY <1>1, AlwaysInv, PTL

================================================================================
