---------------------------- MODULE ArpCache_proofs ----------------------------
(***************************************************************************)
(* Proofs that the two tables of the ARP cache agree (nothing the main     *)
(* thread forwards waits for a mapping that is there) and that no packet   *)
(* is lost, sent twice, or sent and reported, for any number of            *)
(* neighbours, packets and slots, and any timeouts.                        *)
(***************************************************************************)
EXTENDS ArpCache, FiniteSetTheorems, TLAPS

Pkt == [id : {p.id : p \in Packets}, src : Ip, nh : Ip, icmp : BOOLEAN]
Entry == {Nobody} \cup [valid : {TRUE}, ip4 : Ip, age : Nat]
Req == [ip4 : Ip, fresh : BOOLEAN, retries : Nat, cached_packets : Seq(Pkt)]

Types ==
    /\ entries \in [Slot -> Entry]
    /\ req_list \subseteq Req
    /\ todo \subseteq Packets
    /\ pkt \in [Thread -> Pkt \cup {NoPkt}]
    /\ pkt_list \subseteq Pkt

\* arpcache_append_packet joins the request that is there: a hop has one.  So the
\* one request arpcache_insert takes out of the list is all that waits for it.
OneRequest == \A r, s \in req_list : r.ip4 = s.ip4 => r = s

\* What the main thread looked up in vain is unknown until it appends it: only
\* the main thread inserts.
MainUnknown == pkt["main"] # NoPkt => ~ arpcache_lookup(pkt["main"].nh)

\* The sweeping thread sends nothing but errors.
SweepSendsErrors == pkt["sweep"] # NoPkt => pkt["sweep"].icmp

AgreeInv ==
    Types /\ OneRequest /\ MainUnknown /\ SweepSendsErrors /\ NoneWaitsForKnown

--------------------------------------------------------------------------------
(* InsertEntry makes one address known and no other.                           *)
LEMMA InsertKnows ==
    ASSUME Types, NEW ip \in Hosts, InsertEntry(ip)
    PROVE  /\ entries' \in [Slot -> Entry]
           /\ \A x \in Ip : x # ip /\ arpcache_lookup(x)' => arpcache_lookup(x)
<1>1. /\ ip \in Ip
      /\ Mapping(ip) \in Entry
      /\ Mapping(ip).ip4 = ip
  BY DEF Ip, Mapping, Entry
<1>2. entries' \in [Slot -> Entry]
      /\ \A i \in Slot : entries'[i] = entries[i] \/ entries'[i] = Mapping(ip)
  BY <1>1 DEF Types, InsertEntry
<1> QED
  BY <1>1, <1>2 DEF arpcache_lookup

(* Aging makes nothing known.                                                   *)
LEMMA AgedForgets ==
    ASSUME NEW e \in Entry
    PROVE  /\ Aged(e) \in Entry
           /\ Aged(e).valid => e.valid /\ Aged(e).ip4 = e.ip4
<1>1. CASE e = Nobody
  <2>1. ~ Nobody.valid
    BY DEF Nobody
  <2>2. Aged(e) = e
    BY <1>1, <2>1 DEF Aged
  <2> QED
    BY <1>1, <2>1, <2>2
<1>2. CASE e \in [valid : {TRUE}, ip4 : Ip, age : Nat]
  <2>1. e.valid /\ e.ip4 \in Ip /\ e.age \in Nat
    BY <1>2
  <2>2. CASE e.age + 1 >= ARP_ENTRY_TIMEOUT
    <3>1. Aged(e) = Nobody
      BY <2>1, <2>2 DEF Aged
    <3>2. ~ Nobody.valid /\ Nobody \in Entry
      BY DEF Nobody, Entry
    <3> QED
      BY <3>1, <3>2
  <2>3. CASE ~ (e.age + 1 >= ARP_ENTRY_TIMEOUT)
    <3>1. Aged(e) = [e EXCEPT !.age = @ + 1]
      BY <2>1, <2>3 DEF Aged
    <3> DEFINE k == e.age + 1
    <3>2. k \in Nat
      BY <2>1
    <3> HIDE DEF k
    <3>3. /\ [e EXCEPT !.age = k] \in [valid : {TRUE}, ip4 : Ip, age : Nat]
          /\ [e EXCEPT !.age = k].ip4 = e.ip4
      BY <1>2, <3>2
    <3> QED
      BY <2>1, <3>1, <3>3 DEF Entry, k
  <2> QED
    BY <2>2, <2>3
<1> QED
  BY <1>1, <1>2 DEF Entry

(* What iface_send_packet_by_arp leaves for arpcache_append_packet.             *)
LEMMA LookupKeeps ==
    ASSUME Types, NEW t \in Thread, NEW p \in Pkt, iface_send_packet_by_arp(t, p)
    PROVE  /\ pkt' \in [Thread -> Pkt \cup {NoPkt}]
           /\ \A u \in Thread : u # t => pkt'[u] = pkt[u]
           /\ pkt'[t] # NoPkt => pkt'[t] = p /\ ~ arpcache_lookup(p.nh)
  BY DEF Types, iface_send_packet_by_arp

LEMMA InitAgrees == Init => AgreeInv
<1> SUFFICES ASSUME Init PROVE AgreeInv
  OBVIOUS
<1>1. Types
  BY DEF Init, Types, Entry
<1>2. MainUnknown /\ SweepSendsErrors
  BY DEF Init, MainUnknown, SweepSendsErrors, Thread
<1> QED
  BY <1>1, <1>2 DEF Init, AgreeInv, OneRequest, NoneWaitsForKnown

--------------------------------------------------------------------------------
(* One lemma for each action.                                                   *)

LEMMA ForwardAgrees == AgreeInv /\ Forward => AgreeInv'
<1> SUFFICES ASSUME AgreeInv, Forward PROVE AgreeInv'
  OBVIOUS
<1> USE DEF AgreeInv
<1>1. PICK p \in todo :
          /\ iface_send_packet_by_arp("main",
                [id |-> p.id, src |-> p.src, nh |-> p.nh, icmp |-> FALSE])
          /\ todo' = todo \ {p}
  BY DEF Forward
<1> DEFINE q == [id |-> p.id, src |-> p.src, nh |-> p.nh, icmp |-> FALSE]
<1>2. q \in Pkt
  BY PacketAssumption DEF Types, Pkt
<1>3. "main" \in Thread /\ "sweep" \in Thread
  BY DEF Thread
<1>4. /\ pkt' \in [Thread -> Pkt \cup {NoPkt}]
      /\ pkt'["sweep"] = pkt["sweep"]
      /\ pkt'["main"] # NoPkt => pkt'["main"] = q /\ ~ arpcache_lookup(q.nh)
  BY <1>1, <1>2, <1>3, LookupKeeps
<1>5. UNCHANGED <<entries, req_list, pkt_list>>
  BY DEF Forward
<1>6. Types'
  BY <1>1, <1>4, <1>5 DEF Types
<1>7. MainUnknown'
  BY <1>4, <1>5 DEF MainUnknown, arpcache_lookup
<1>8. SweepSendsErrors'
  BY <1>4 DEF SweepSendsErrors
<1>9. OneRequest' /\ NoneWaitsForKnown'
  BY <1>5 DEF OneRequest, NoneWaitsForKnown, arpcache_lookup
<1> QED
  BY <1>6, <1>7, <1>8, <1>9

LEMMA ReportAgrees == AgreeInv /\ Report => AgreeInv'
<1> SUFFICES ASSUME AgreeInv, Report PROVE AgreeInv'
  OBVIOUS
<1> USE DEF AgreeInv
<1>1. PICK p \in pkt_list :
          /\ iface_send_packet_by_arp("sweep", IcmpError(p))
          /\ pkt_list' = pkt_list \ {p}
  BY DEF Report
<1>2. IcmpError(p) \in Pkt /\ IcmpError(p).icmp
  BY DEF Types, Pkt, IcmpError, Ip
<1>3. "main" \in Thread /\ "sweep" \in Thread
  BY DEF Thread
<1>4. /\ pkt' \in [Thread -> Pkt \cup {NoPkt}]
      /\ pkt'["main"] = pkt["main"]
      /\ pkt'["sweep"] # NoPkt => pkt'["sweep"] = IcmpError(p)
  BY <1>1, <1>2, <1>3, LookupKeeps
<1>5. UNCHANGED <<entries, req_list, todo>>
  BY DEF Report
<1>6. Types'
  BY <1>1, <1>4, <1>5 DEF Types
<1>7. MainUnknown'
  BY <1>4, <1>5 DEF MainUnknown, arpcache_lookup
<1>8. SweepSendsErrors'
  BY <1>2, <1>4 DEF SweepSendsErrors
<1>9. OneRequest' /\ NoneWaitsForKnown'
  BY <1>5 DEF OneRequest, NoneWaitsForKnown, arpcache_lookup
<1> QED
  BY <1>6, <1>7, <1>8, <1>9

(* The packet appended is an error, or its hop is still unknown.                *)
LEMMA AppendAgrees ==
    ASSUME NEW t \in Thread PROVE AgreeInv /\ arpcache_append_packet(t) => AgreeInv'
<1> SUFFICES ASSUME AgreeInv, arpcache_append_packet(t) PROVE AgreeInv'
  OBVIOUS
<1> USE DEF AgreeInv
<1> DEFINE p == pkt[t]
<1>1. /\ p # NoPkt /\ p \in Pkt
      /\ p.nh \in Ip
      /\ p.icmp \/ ~ arpcache_lookup(p.nh)
  <2>1. p # NoPkt /\ p \in Pkt
    BY DEF arpcache_append_packet, Types
  <2>2. CASE t = "main"
    BY <2>1, <2>2 DEF MainUnknown, Pkt
  <2>3. CASE t = "sweep"
    BY <2>1, <2>3 DEF SweepSendsErrors, Pkt
  <2> QED
    BY <2>2, <2>3 DEF Thread
<1>2. /\ pkt' = [pkt EXCEPT ![t] = NoPkt]
      /\ UNCHANGED <<entries, todo, pkt_list>>
  BY DEF arpcache_append_packet
<1>3. MainUnknown' /\ SweepSendsErrors'
  BY <1>2 DEF MainUnknown, SweepSendsErrors, arpcache_lookup, Types, Thread
<1>4. req_list' \subseteq Req /\ OneRequest' /\ NoneWaitsForKnown'
  <2>1. CASE \E r \in ForHop(p.nh) :
                 req_list' = (req_list \ {r}) \cup
                             {[r EXCEPT !.cached_packets = Append(@, p)]}
    <3>1. PICK r \in ForHop(p.nh) :
                 req_list' = (req_list \ {r}) \cup
                             {[r EXCEPT !.cached_packets = Append(@, p)]}
      BY <2>1
    <3> DEFINE n == [r EXCEPT !.cached_packets = Append(@, p)]
    <3>2. r \in req_list /\ r \in Req /\ r.ip4 = p.nh
      BY DEF ForHop, Types
    <3>3. r.cached_packets \in Seq(Pkt) /\ Append(r.cached_packets, p) \in Seq(Pkt)
      BY <3>2, <1>1 DEF Req
    <3>4. /\ n \in Req /\ n.ip4 = r.ip4
          /\ n.cached_packets = Append(r.cached_packets, p)
      BY <3>2, <3>3 DEF Req
    <3>5. req_list' \subseteq Req
      BY <3>1, <3>4 DEF Types
    <3>6. OneRequest'
      <4>1. req_list' = (req_list \ {r}) \cup {n} /\ n.ip4 = r.ip4
        BY <3>1, <3>4
      <4> HIDE DEF n
      <4>2. \A s \in req_list \ {r} : s.ip4 # n.ip4
        BY <3>2, <4>1 DEF OneRequest
      <4> QED
        BY <4>1, <4>2 DEF OneRequest
    <3>7. arpcache_lookup(p.nh) => \A i \in DOMAIN n.cached_packets : n.cached_packets[i].icmp
      <4>1. SUFFICES ASSUME arpcache_lookup(p.nh), NEW i \in DOMAIN n.cached_packets
                     PROVE  n.cached_packets[i].icmp
        OBVIOUS
      <4>2. p.icmp /\ \A j \in DOMAIN r.cached_packets : r.cached_packets[j].icmp
        BY <4>1, <1>1, <3>2 DEF NoneWaitsForKnown
      <4>3. \/ i \in DOMAIN r.cached_packets /\ n.cached_packets[i] = r.cached_packets[i]
            \/ n.cached_packets[i] = p
        BY <4>1, <3>3, <3>4, <1>1
      <4> QED
        BY <4>2, <4>3
    <3>8. NoneWaitsForKnown'
      BY <3>1, <3>2, <3>4, <3>7, <1>2 DEF NoneWaitsForKnown, arpcache_lookup
    <3> QED
      BY <3>5, <3>6, <3>8
  <2>2. CASE /\ ForHop(p.nh) = {}
             /\ req_list' = req_list \cup {[ip4 |-> p.nh, fresh |-> TRUE, retries |-> 1,
                                            cached_packets |-> <<p>>]}
    <3> DEFINE n == [ip4 |-> p.nh, fresh |-> TRUE, retries |-> 1, cached_packets |-> <<p>>]
    <3>1. <<p>> \in Seq(Pkt) /\ DOMAIN <<p>> = {1} /\ <<p>>[1] = p
      BY <1>1
    <3>2. n \in Req
      BY <3>1, <1>1 DEF Req
    <3>3. \A r \in req_list : r.ip4 # p.nh
      BY <2>2 DEF ForHop
    <3>4. arpcache_lookup(p.nh) => \A i \in DOMAIN n.cached_packets : n.cached_packets[i].icmp
      BY <3>1, <1>1
    <3>5. n.ip4 = p.nh /\ req_list' = req_list \cup {n}
      BY <2>2
    <3> HIDE DEF n
    <3>6. req_list' \subseteq Req /\ OneRequest'
      BY <3>2, <3>3, <3>5 DEF Types, OneRequest
    <3>7. \A x : arpcache_lookup(x)' <=> arpcache_lookup(x)
      BY <1>2 DEF arpcache_lookup
    <3>8. ASSUME NEW r \in req_list', arpcache_lookup(r.ip4)'
          PROVE  \A i \in DOMAIN r.cached_packets : r.cached_packets[i].icmp
      <4>1. CASE r = n
        BY <4>1, <3>4, <3>5, <3>7, <3>8
      <4>2. CASE r \in req_list
        BY <4>2, <3>7, <3>8 DEF NoneWaitsForKnown
      <4> QED
        BY <4>1, <4>2, <3>5
    <3>9. NoneWaitsForKnown'
      BY <3>8 DEF NoneWaitsForKnown
    <3> QED
      BY <3>6, <3>9
  <2> QED
    BY <2>1, <2>2 DEF arpcache_append_packet
<1>5. Types'
  BY <1>2, <1>4 DEF Types
<1> QED
  BY <1>3, <1>4, <1>5

(* The mapping that becomes known takes its request with it.                    *)
LEMMA HandleAgrees ==
    ASSUME NEW ip \in Hosts PROVE AgreeInv /\ handle_arp_packet(ip) => AgreeInv'
<1> SUFFICES ASSUME AgreeInv, handle_arp_packet(ip) PROVE AgreeInv'
  OBVIOUS
<1> USE DEF AgreeInv
<1>1. /\ pkt["main"] = NoPkt
      /\ InsertEntry(ip) /\ Flush(ip)
      /\ UNCHANGED <<todo, pkt, pkt_list>>
  BY DEF handle_arp_packet
<1>2. /\ entries' \in [Slot -> Entry]
      /\ \A x \in Ip : x # ip /\ arpcache_lookup(x)' => arpcache_lookup(x)
  BY <1>1, InsertKnows
<1>3. req_list' \subseteq req_list /\ \A r \in req_list' : r.ip4 # ip
  <2>1. CASE ForHop(ip) = {}
    BY <1>1, <2>1 DEF Flush, ForHop
  <2>2. CASE ForHop(ip) # {}
    <3>1. PICK r \in ForHop(ip) : req_list' = req_list \ {r}
      BY <1>1, <2>2 DEF Flush
    <3> QED
      BY <3>1 DEF ForHop, OneRequest
  <2> QED
    BY <2>1, <2>2
<1>4. Types'
  BY <1>1, <1>2, <1>3 DEF Types
<1>5. OneRequest'
  BY <1>3 DEF OneRequest
<1>6. MainUnknown' /\ SweepSendsErrors'
  BY <1>1 DEF MainUnknown, SweepSendsErrors
<1>7. NoneWaitsForKnown'
  <2>1. ASSUME NEW r \in req_list', arpcache_lookup(r.ip4)'
        PROVE  \A i \in DOMAIN r.cached_packets : r.cached_packets[i].icmp
    <3>1. r \in req_list /\ r.ip4 \in Ip /\ r.ip4 # ip
      BY <1>3, <2>1 DEF Types, Req
    <3> QED
      BY <3>1, <2>1, <1>2 DEF NoneWaitsForKnown
  <2> QED
    BY <2>1 DEF NoneWaitsForKnown
<1> QED
  BY <1>4, <1>5, <1>6, <1>7

(* A request that stays in the list keeps its hop and its packets.              *)
LEMMA RenewKeeps ==
    ASSUME NEW r \in Req
    PROVE  /\ [r EXCEPT !.fresh = FALSE] \in Req
           /\ [r EXCEPT !.fresh = FALSE].ip4 = r.ip4
           /\ [r EXCEPT !.fresh = FALSE].cached_packets = r.cached_packets
           /\ Asked_again(r) \in Req
           /\ Asked_again(r).ip4 = r.ip4
           /\ Asked_again(r).cached_packets = r.cached_packets
<1> DEFINE k == r.retries + 1
<1>1. k \in Nat
  BY DEF Req
<1> HIDE DEF k
<1>2. /\ [r EXCEPT !.fresh = FALSE] \in Req
      /\ [r EXCEPT !.fresh = FALSE].ip4 = r.ip4
      /\ [r EXCEPT !.fresh = FALSE].cached_packets = r.cached_packets
  BY DEF Req
<1>3. /\ [[r EXCEPT !.fresh = FALSE] EXCEPT !.retries = k] \in Req
      /\ [[r EXCEPT !.fresh = FALSE] EXCEPT !.retries = k].ip4 = r.ip4
      /\ [[r EXCEPT !.fresh = FALSE] EXCEPT !.retries = k].cached_packets = r.cached_packets
  BY <1>1, <1>2 DEF Req
<1>4. Asked_again(r) = [[r EXCEPT !.fresh = FALSE] EXCEPT !.retries = k]
  BY DEF Asked_again, k
<1> QED
  BY <1>2, <1>3, <1>4

(* A sweep forgets mappings and requests, and keeps what the others hold.       *)
LEMMA SweepAgrees == AgreeInv /\ arpcache_sweep => AgreeInv'
<1> SUFFICES ASSUME AgreeInv, arpcache_sweep PROVE AgreeInv'
  OBVIOUS
<1> USE DEF AgreeInv
<1>1. /\ entries' = [i \in Slot |-> Aged(entries[i])]
      /\ UNCHANGED <<todo, pkt>>
  BY DEF arpcache_sweep
<1>2. /\ entries' \in [Slot -> Entry]
      /\ \A x : arpcache_lookup(x)' => arpcache_lookup(x)
  <2>1. \A i \in Slot : entries[i] \in Entry
    BY DEF Types
  <2>2. \A i \in Slot : Aged(entries[i]) \in Entry
    BY <2>1, AgedForgets
  <2>3. \A i \in Slot : Aged(entries[i]).valid
            => entries[i].valid /\ Aged(entries[i]).ip4 = entries[i].ip4
    BY <2>1, AgedForgets
  <2> QED
    BY <1>1, <2>2, <2>3 DEF arpcache_lookup
<1>3. PICK skipped \in SUBSET {r \in req_list : r.fresh} :
          LET due == req_list \ skipped
              over == {r \in due : Exhausted(r)}
              again == due \ over
          IN  /\ req_list' = {[r EXCEPT !.fresh = FALSE] : r \in skipped}
                             \cup {Asked_again(r) : r \in again}
              /\ pkt_list' = GivenUp(over)
  BY DEF arpcache_sweep
<1> DEFINE over == {r \in req_list \ skipped : Exhausted(r)}
<1>4. \A r \in req_list : /\ [r EXCEPT !.fresh = FALSE] \in Req
                          /\ [r EXCEPT !.fresh = FALSE].ip4 = r.ip4
                          /\ [r EXCEPT !.fresh = FALSE].cached_packets = r.cached_packets
                          /\ Asked_again(r) \in Req
                          /\ Asked_again(r).ip4 = r.ip4
                          /\ Asked_again(r).cached_packets = r.cached_packets
  BY RenewKeeps DEF Types
<1>5. \A s \in req_list' : \E r \in req_list :
          /\ s \in Req /\ s.ip4 = r.ip4 /\ s.cached_packets = r.cached_packets
          /\ \/ r \in skipped /\ s = [r EXCEPT !.fresh = FALSE]
             \/ r \notin skipped /\ s = Asked_again(r)
  <2>1. ASSUME NEW s \in req_list'
        PROVE  \/ \E r \in skipped : s = [r EXCEPT !.fresh = FALSE]
               \/ \E r \in req_list \ skipped : s = Asked_again(r)
    BY <1>3, <2>1
  <2> QED
    BY ZenonT(60), <2>1, <1>4
<1>6. req_list' \subseteq Req
  BY <1>5
<1>7. OneRequest'
  <2>1. SUFFICES ASSUME NEW s1 \in req_list', NEW s2 \in req_list', s1.ip4 = s2.ip4
                 PROVE  s1 = s2
    BY DEF OneRequest
  <2>2. PICK r1 \in req_list :
          /\ s1.ip4 = r1.ip4
          /\ \/ r1 \in skipped /\ s1 = [r1 EXCEPT !.fresh = FALSE]
             \/ r1 \notin skipped /\ s1 = Asked_again(r1)
    BY <1>5
  <2>3. PICK r2 \in req_list :
          /\ s2.ip4 = r2.ip4
          /\ \/ r2 \in skipped /\ s2 = [r2 EXCEPT !.fresh = FALSE]
             \/ r2 \notin skipped /\ s2 = Asked_again(r2)
    BY <1>5
  <2>4. r1 = r2
    BY <2>1, <2>2, <2>3 DEF OneRequest
  <2> QED
    BY <2>2, <2>3, <2>4
<1>8. pkt_list' \subseteq Pkt
  <2>1. \A r \in over : r.cached_packets \in Seq(Pkt)
    BY DEF Types, Req
  <2>2. \A r \in over : ToSet(r.cached_packets) \subseteq Pkt
    BY <2>1 DEF ToSet
  <2> QED
    BY <1>3, <2>2 DEF GivenUp
<1>9. Types'
  BY <1>1, <1>2, <1>6, <1>8 DEF Types
<1>10. MainUnknown' /\ SweepSendsErrors'
  BY <1>1, <1>2 DEF MainUnknown, SweepSendsErrors
<1>11. NoneWaitsForKnown'
  BY <1>2, <1>5 DEF NoneWaitsForKnown
<1> QED
  BY <1>7, <1>9, <1>10, <1>11

--------------------------------------------------------------------------------

LEMMA AgreeStep == AgreeInv /\ [Next]_vars => AgreeInv'
<1> SUFFICES ASSUME AgreeInv, [Next]_vars PROVE AgreeInv'
  OBVIOUS
<1>1. CASE Main
  BY <1>1, ForwardAgrees, AppendAgrees DEF Main, Thread
<1>2. CASE Sweeper
  BY <1>2, SweepAgrees, ReportAgrees, AppendAgrees DEF Sweeper, Thread
<1>3. CASE \E ip \in Hosts : handle_arp_packet(ip)
  BY <1>3, HandleAgrees
<1>4. CASE UNCHANGED vars
  BY <1>4 DEF vars, AgreeInv, Types, OneRequest, MainUnknown, SweepSendsErrors,
              NoneWaitsForKnown, arpcache_lookup
<1> QED
  BY <1>1, <1>2, <1>3, <1>4 DEF Next

(* What the main thread forwards never waits for a mapping that the cache has   *)
(* (arpcache_lookup, arpcache_append_packet, arpcache_insert, arpcache_sweep),  *)
(* however the two threads interleave, full table and retries included.         *)
THEOREM TablesAgree == Spec => []NoneWaitsForKnown
<1>1. AgreeInv => NoneWaitsForKnown
  BY DEF AgreeInv
<1> QED
  BY <1>1, InitAgrees, AgreeStep, PTL DEF Spec

--------------------------------------------------------------------------------
(* Where a forwarded packet is.  The inductive invariant says of each packet    *)
(* that came in that it is in one of five places, and once in it: the requests  *)
(* share no packet, and none is twice in a request or in what was sent.         *)

Fwd(p) == [id |-> p.id, src |-> p.src, nh |-> p.nh, icmp |-> FALSE]

In(q, s) == \E i \in DOMAIN s : s[i] = q
Once(q, s) == \A i, j \in DOMAIN s : s[i] = q /\ s[j] = q => i = j

Waits(q, rl) == \E r \in rl : In(q, r.cached_packets)
WaitsOnce(q, rl) ==
    /\ \A r \in rl : Once(q, r.cached_packets)
    /\ \A r, s \in rl : In(q, r.cached_packets) /\ In(q, s.cached_packets) => r = s

OnePlace(a, b, c, d, e) ==
    /\ a \/ b \/ c \/ d \/ e
    /\ a => ~ (b \/ c \/ d \/ e)
    /\ b => ~ (c \/ d \/ e)
    /\ c => ~ (d \/ e)
    /\ d => ~ e

Placed(q) == OnePlace(pkt["main"] = q, Waits(q, req_list), q \in pkt_list,
                      In(q, sent), q \in reported)
Nowhere(q) == /\ pkt["main"] # q /\ ~ Waits(q, req_list) /\ q \notin pkt_list
              /\ ~ In(q, sent) /\ q \notin reported

Tracked(p) == /\ WaitsOnce(Fwd(p), req_list) /\ Once(Fwd(p), sent)
              /\ IF p \in todo THEN Nowhere(Fwd(p)) ELSE Placed(Fwd(p))

PlaceInv == AgreeInv /\ sent \in Seq(Pkt) /\ \A p \in Packets : Tracked(p)

LEMMA FwdFacts ==
    ASSUME NEW p \in Packets
    PROVE  /\ Fwd(p) \in Pkt /\ Fwd(p) # NoPkt /\ Fwd(p).icmp = FALSE
           /\ \A q \in Packets : Fwd(q) = Fwd(p) => q = p
<1>1. p.src \in Ip /\ p.nh \in Ip
  BY PacketAssumption
<1>2. Fwd(p) \in Pkt
  BY <1>1 DEF Fwd, Pkt
<1>3. Fwd(p) # NoPkt /\ Fwd(p).icmp = FALSE
  BY DEF Fwd, NoPkt
<1>4. \A q \in Packets : Fwd(q).id = q.id
  BY DEF Fwd
<1> QED
  BY <1>2, <1>3, <1>4, PacketAssumption

LEMMA ConcatFacts ==
    ASSUME NEW s \in Seq(Pkt), NEW c \in Seq(Pkt), NEW q
    PROVE  /\ s \o c \in Seq(Pkt)
           /\ In(q, s \o c) <=> In(q, s) \/ In(q, c)
           /\ Once(q, s) /\ Once(q, c) /\ ~ (In(q, s) /\ In(q, c)) => Once(q, s \o c)
<1> DEFINE m == Len(s)
           n == Len(c)
           u == s \o c
<1>1. /\ m \in Nat /\ n \in Nat /\ DOMAIN s = 1 .. m /\ DOMAIN c = 1 .. n
      /\ u \in Seq(Pkt) /\ DOMAIN u = 1 .. m + n
      /\ \A i \in 1 .. m : u[i] = s[i]
      /\ \A i \in 1 .. n : u[m + i] = c[i]
  OBVIOUS
<1> HIDE DEF m, n, u
<1>2. \A i \in 1 .. m + n : \/ i \in 1 .. m /\ u[i] = s[i]
                            \/ i - m \in 1 .. n /\ u[i] = c[i - m] /\ i \notin 1 .. m
  <2> SUFFICES ASSUME NEW i \in 1 .. m + n, i \notin 1 .. m
               PROVE  i - m \in 1 .. n /\ u[i] = c[i - m]
    BY <1>1
  <2>1. i - m \in 1 .. n /\ m + (i - m) = i
    BY <1>1
  <2>2. u[m + (i - m)] = c[i - m]
    BY <1>1, <2>1
  <2> QED
    BY <2>1, <2>2
<1>3. In(q, u) <=> In(q, s) \/ In(q, c)
  <2>1. In(q, u) => In(q, s) \/ In(q, c)
    BY <1>1, <1>2 DEF In
  <2>2. In(q, s) => In(q, u)
    <3>1. \A i \in 1 .. m : i \in 1 .. m + n
      BY <1>1
    <3> QED
      BY <1>1, <3>1 DEF In
  <2>3. In(q, c) => In(q, u)
    <3>1. \A i \in 1 .. n : m + i \in 1 .. m + n
      BY <1>1
    <3> QED
      BY <1>1, <3>1 DEF In
  <2> QED
    BY <2>1, <2>2, <2>3
<1>4. ASSUME Once(q, s), Once(q, c), ~ (In(q, s) /\ In(q, c)) PROVE Once(q, u)
  <2> SUFFICES ASSUME NEW i \in 1 .. m + n, NEW j \in 1 .. m + n, u[i] = q, u[j] = q
               PROVE  i = j
    BY <1>1 DEF Once
  <2>1. CASE i \in 1 .. m /\ j \in 1 .. m
    BY <1>1, <1>4, <2>1 DEF Once
  <2>2. CASE i \notin 1 .. m /\ j \notin 1 .. m
    <3> DEFINE k == i - m
               l == j - m
    <3>1. k \in 1 .. n /\ u[i] = c[k] /\ l \in 1 .. n /\ u[j] = c[l]
      BY <1>2, <2>2
    <3>2. k = l => i = j
      BY <1>1
    <3> HIDE DEF k, l
    <3>3. k = l
      BY <1>1, <1>4, <3>1 DEF Once
    <3> QED
      BY <3>2, <3>3
  <2>3. CASE ~ (i \in 1 .. m <=> j \in 1 .. m)
    <3>1. In(q, s) /\ In(q, c)
      BY ZenonT(60), <1>1, <1>2, <2>3 DEF In
    <3> QED
      BY <1>4, <3>1
  <2> QED
    BY <2>1, <2>2, <2>3
<1> QED
  BY <1>1, <1>3, <1>4 DEF u

LEMMA AppendFacts ==
    ASSUME NEW s \in Seq(Pkt), NEW x \in Pkt, NEW q
    PROVE  /\ Append(s, x) \in Seq(Pkt)
           /\ In(q, Append(s, x)) <=> In(q, s) \/ q = x
           /\ Once(q, s) /\ ~ (In(q, s) /\ q = x) => Once(q, Append(s, x))
<1> DEFINE c == <<x>>
<1>1. c \in Seq(Pkt) /\ DOMAIN c = {1} /\ c[1] = x
  OBVIOUS
<1>2. Append(s, x) = s \o c
  OBVIOUS
<1> HIDE DEF c
<1>3. (In(q, c) <=> q = x) /\ Once(q, c)
  BY <1>1 DEF In, Once
<1>4. /\ s \o c \in Seq(Pkt)
      /\ In(q, s \o c) <=> In(q, s) \/ In(q, c)
      /\ Once(q, s) /\ Once(q, c) /\ ~ (In(q, s) /\ In(q, c)) => Once(q, s \o c)
  BY <1>1, ConcatFacts
<1> QED
  BY <1>2, <1>3, <1>4

--------------------------------------------------------------------------------
(* One lemma for each action.  Only a packet that the action handles moves.     *)

LEMMA ForwardPlaces == PlaceInv /\ Forward => PlaceInv'
<1> SUFFICES ASSUME PlaceInv, Forward PROVE PlaceInv'
  OBVIOUS
<1>1. AgreeInv'
  BY ForwardAgrees DEF PlaceInv
<1>2. PICK p \in todo : iface_send_packet_by_arp("main", Fwd(p)) /\ todo' = todo \ {p}
  BY DEF Forward, Fwd
<1>3. UNCHANGED <<req_list, pkt_list, reported>>
  BY DEF Forward
<1>4. p \in Packets /\ todo \subseteq Packets /\ pkt \in [Thread -> Pkt \cup {NoPkt}]
  BY DEF PlaceInv, AgreeInv, Types
<1> DEFINE x == Fwd(p)
<1>5. x \in Pkt /\ \A q \in Packets : Fwd(q) # NoPkt /\ (Fwd(q) = x => q = p)
  BY <1>4, FwdFacts
<1>6. iface_send_packet_by_arp("main", x) /\ sent \in Seq(Pkt)
  BY <1>2 DEF PlaceInv
<1> HIDE DEF x
<1>7. /\ pkt["main"] = NoPkt
      /\ \/ sent' = Append(sent, x) /\ pkt' = pkt
         \/ sent' = sent /\ pkt'["main"] = x
  BY <1>4, <1>6 DEF iface_send_packet_by_arp, Thread
<1>8. sent' \in Seq(Pkt)
  BY <1>5, <1>6, <1>7, AppendFacts
<1>9. ASSUME NEW q \in Packets PROVE Tracked(q)'
  <2> DEFINE f == Fwd(q)
  <2>1. WaitsOnce(f, req_list) /\ Once(f, sent) /\ IF q \in todo THEN Nowhere(f) ELSE Placed(f)
    BY DEF PlaceInv, Tracked
  <2>2. f # NoPkt /\ (f = x <=> q = p)
    BY <1>5 DEF x
  <2> SUFFICES /\ WaitsOnce(f, req_list') /\ Once(f, sent')
               /\ IF q \in todo' THEN Nowhere(f)' ELSE Placed(f)'
    BY DEF Tracked, Fwd
  <2> HIDE DEF f
  <2>3. \/ /\ pkt'["main"] # f /\ Once(f, sent')
           /\ In(f, sent') <=> In(f, sent) \/ f = x
        \/ sent' = sent /\ (pkt'["main"] = f <=> f = x)
    <3>1. CASE sent' = Append(sent, x) /\ pkt' = pkt
      <4>1. /\ In(f, Append(sent, x)) <=> In(f, sent) \/ f = x
            /\ Once(f, sent) /\ ~ (In(f, sent) /\ f = x) => Once(f, Append(sent, x))
        BY <1>5, <1>6, AppendFacts
      <4>2. ~ (In(f, sent) /\ f = x)
        BY <1>2, <2>1, <2>2 DEF Nowhere
      <4> QED
        BY <1>7, <2>1, <2>2, <3>1, <4>1, <4>2
    <3>2. CASE sent' = sent /\ pkt'["main"] = x
      BY <3>2
    <3> QED
      BY <1>7, <3>1, <3>2
  <2>4. pkt["main"] # f
    BY <1>7, <2>2
  <2>5. WaitsOnce(f, req_list') /\ Once(f, sent')
    BY <1>3, <2>1, <2>3
  <2>6. CASE q = p
    <3>1. Nowhere(f) /\ q \notin todo' /\ f = x
      BY <1>2, <2>1, <2>2, <2>6
    <3>2. Placed(f)'
      BY <1>3, <2>3, <3>1 DEF Nowhere, Placed, OnePlace
    <3> QED
      BY <2>5, <3>1, <3>2
  <2>7. CASE q # p
    <3>1. (q \in todo' <=> q \in todo) /\ f # x
      BY <1>2, <2>2, <2>7
    <3>2. (pkt'["main"] = f <=> pkt["main"] = f) /\ (In(f, sent') <=> In(f, sent))
      BY <2>3, <2>4, <3>1
    <3>3. (Nowhere(f)' <=> Nowhere(f)) /\ (Placed(f)' <=> Placed(f))
      BY <1>3, <3>2 DEF Nowhere, Placed, OnePlace
    <3> QED
      BY <2>1, <2>5, <3>1, <3>3
  <2> QED
    BY <2>6, <2>7
<1> QED
  BY <1>1, <1>8, <1>9 DEF PlaceInv

LEMMA ReportPlaces == PlaceInv /\ Report => PlaceInv'
<1> SUFFICES ASSUME PlaceInv, Report PROVE PlaceInv'
  OBVIOUS
<1>1. AgreeInv'
  BY ReportAgrees DEF PlaceInv
<1>2. PICK p \in pkt_list : /\ iface_send_packet_by_arp("sweep", IcmpError(p))
                            /\ pkt_list' = pkt_list \ {p} /\ reported' = reported \cup {p}
  BY DEF Report
<1>3. UNCHANGED <<req_list, todo>>
  BY DEF Report
<1>4. /\ pkt \in [Thread -> Pkt \cup {NoPkt}] /\ pkt_list \subseteq Pkt /\ sent \in Seq(Pkt)
      /\ todo \subseteq Packets
  BY DEF PlaceInv, AgreeInv, Types
<1> DEFINE x == IcmpError(p)
<1>5. x \in Pkt /\ x.icmp = TRUE
  BY <1>4 DEF Pkt, IcmpError, Ip
<1>6. iface_send_packet_by_arp("sweep", x)
  BY <1>2
<1> HIDE DEF x
<1>7. pkt'["main"] = pkt["main"] /\ (sent' = Append(sent, x) \/ sent' = sent)
  BY <1>4, <1>6 DEF iface_send_packet_by_arp, Thread
<1>8. sent' \in Seq(Pkt)
  BY <1>4, <1>5, <1>7, AppendFacts
<1>9. ASSUME NEW q \in Packets PROVE Tracked(q)'
  <2> DEFINE f == Fwd(q)
  <2>1. WaitsOnce(f, req_list) /\ Once(f, sent) /\ IF q \in todo THEN Nowhere(f) ELSE Placed(f)
    BY DEF PlaceInv, Tracked
  <2>2. f # x
    BY <1>5, FwdFacts
  <2> SUFFICES /\ WaitsOnce(f, req_list') /\ Once(f, sent')
               /\ IF q \in todo' THEN Nowhere(f)' ELSE Placed(f)'
    BY DEF Tracked, Fwd
  <2> HIDE DEF f
  <2>3. Once(f, sent') /\ (In(f, sent') <=> In(f, sent))
    <3>1. /\ In(f, Append(sent, x)) <=> In(f, sent) \/ f = x
          /\ Once(f, sent) /\ ~ (In(f, sent) /\ f = x) => Once(f, Append(sent, x))
      BY <1>4, <1>5, AppendFacts
    <3> QED
      BY <1>7, <2>1, <2>2, <3>1
  <2>4. CASE q \in todo
    <3>1. Nowhere(f) /\ f # p
      BY <1>2, <2>1, <2>4 DEF Nowhere
    <3> QED
      BY <1>2, <1>3, <1>7, <2>1, <2>3, <2>4, <3>1 DEF Nowhere
  <2>5. CASE q \notin todo
    <3>1. Placed(f)
      BY <2>1, <2>5
    <3>2. Placed(f)'
      BY <1>2, <1>3, <1>7, <2>3, <3>1 DEF Placed, OnePlace
    <3> QED
      BY <1>3, <2>1, <2>3, <2>5, <3>2
  <2> QED
    BY <2>4, <2>5
<1> QED
  BY <1>1, <1>8, <1>9 DEF PlaceInv

LEMMA AppendPlaces ==
    ASSUME NEW t \in Thread PROVE PlaceInv /\ arpcache_append_packet(t) => PlaceInv'
<1> SUFFICES ASSUME PlaceInv, arpcache_append_packet(t) PROVE PlaceInv'
  OBVIOUS
<1>1. AgreeInv'
  BY AppendAgrees DEF PlaceInv
<1> DEFINE x == pkt[t]
<1>2. /\ pkt \in [Thread -> Pkt \cup {NoPkt}] /\ req_list \subseteq Req /\ sent \in Seq(Pkt)
      /\ todo \subseteq Packets
  BY DEF PlaceInv, AgreeInv, Types
<1>3. /\ x # NoPkt /\ pkt' = [pkt EXCEPT ![t] = NoPkt]
      /\ UNCHANGED <<todo, pkt_list, sent, reported>>
  BY DEF arpcache_append_packet
<1>4. x \in Pkt
  BY <1>2, <1>3
<1>5. t = "sweep" => x.icmp
  BY <1>3 DEF PlaceInv, AgreeInv, SweepSendsErrors
<1>6. \/ \E r \in req_list : req_list' = (req_list \ {r}) \cup
                                         {[r EXCEPT !.cached_packets = Append(@, x)]}
      \/ \E n : n.cached_packets = <<x>> /\ req_list' = req_list \cup {n}
  BY DEF arpcache_append_packet, ForHop
<1>7. t = "main" => pkt["main"] = x /\ pkt'["main"] = NoPkt
  BY <1>2, <1>3 DEF Thread
<1>8. t = "sweep" => pkt'["main"] = pkt["main"]
  BY <1>2, <1>3 DEF Thread
<1> HIDE DEF x
<1>9. ASSUME NEW q \in Packets PROVE Tracked(q)'
  <2> DEFINE f == Fwd(q)
  <2>1. WaitsOnce(f, req_list) /\ Once(f, sent) /\ IF q \in todo THEN Nowhere(f) ELSE Placed(f)
    BY DEF PlaceInv, Tracked
  <2>2. f # NoPkt /\ f.icmp = FALSE
    BY FwdFacts
  <2> SUFFICES /\ WaitsOnce(f, req_list') /\ Once(f, sent')
               /\ IF q \in todo' THEN Nowhere(f)' ELSE Placed(f)'
    BY DEF Tracked, Fwd
  <2> HIDE DEF f
  <2>3. f = x => t = "main" /\ pkt["main"] = f
    BY <1>5, <1>7, <2>2 DEF Thread
  <2>4. f = x => ~ Waits(f, req_list)
    BY <2>1, <2>3 DEF Placed, OnePlace, Nowhere
  <2>5. WaitsOnce(f, req_list') /\ (Waits(f, req_list') <=> Waits(f, req_list) \/ f = x)
    <3>1. ASSUME NEW r \in req_list,
                 req_list' = (req_list \ {r}) \cup {[r EXCEPT !.cached_packets = Append(@, x)]}
          PROVE  WaitsOnce(f, req_list') /\ (Waits(f, req_list') <=> Waits(f, req_list) \/ f = x)
      <4> DEFINE n == [r EXCEPT !.cached_packets = Append(@, x)]
      <4>1. r \in Req /\ r.cached_packets \in Seq(Pkt)
        BY <1>2 DEF Req
      <4>2. n.cached_packets = Append(r.cached_packets, x)
        BY <4>1 DEF Req
      <4>3. /\ In(f, Append(r.cached_packets, x)) <=> In(f, r.cached_packets) \/ f = x
            /\ Once(f, r.cached_packets) /\ ~ (In(f, r.cached_packets) /\ f = x)
                  => Once(f, Append(r.cached_packets, x))
        BY <1>4, <4>1, AppendFacts
      <4>4. req_list' = (req_list \ {r}) \cup {n}
        BY <3>1
      <4> HIDE DEF n
      <4>5. /\ In(f, n.cached_packets) <=> In(f, r.cached_packets) \/ f = x
            /\ Once(f, n.cached_packets)
        BY <2>1, <2>4, <4>2, <4>3 DEF WaitsOnce, Waits
      <4>6. Waits(f, req_list') <=> Waits(f, req_list) \/ f = x
        BY <4>4, <4>5 DEF Waits
      <4>7. \A s \in req_list \ {r} : In(f, s.cached_packets) => ~ In(f, n.cached_packets)
        BY <2>1, <2>4, <4>5 DEF WaitsOnce, Waits
      <4>8. WaitsOnce(f, req_list')
        BY <2>1, <4>4, <4>5, <4>7 DEF WaitsOnce
      <4> QED
        BY <4>6, <4>8
    <3>2. ASSUME NEW n, n.cached_packets = <<x>>, req_list' = req_list \cup {n}
          PROVE  WaitsOnce(f, req_list') /\ (Waits(f, req_list') <=> Waits(f, req_list) \/ f = x)
      <4>1. (In(f, <<x>>) <=> f = x) /\ Once(f, <<x>>)
        BY DEF In, Once
      <4>2. (In(f, n.cached_packets) <=> f = x) /\ Once(f, n.cached_packets)
        BY <3>2, <4>1
      <4> QED
        BY <2>1, <2>4, <3>2, <4>2 DEF WaitsOnce, Waits
    <3> QED
      BY <1>6, <3>1, <3>2
  <2>6. IF q \in todo' THEN Nowhere(f)' ELSE Placed(f)'
    <3>1. CASE f = x
      <4>1. q \notin todo /\ Placed(f)
        BY <2>1, <2>3, <3>1 DEF Nowhere
      <4>2. pkt["main"] = f /\ pkt'["main"] # f
        BY <1>7, <2>2, <2>3, <3>1
      <4>3. Placed(f)'
        BY <1>3, <2>5, <3>1, <4>1, <4>2 DEF Placed, OnePlace
      <4> QED
        BY <1>3, <4>1, <4>3
    <3>2. CASE f # x
      <4>1. pkt'["main"] = f <=> pkt["main"] = f
        BY <1>7, <1>8, <2>2, <3>2 DEF Thread
      <4> QED
        BY <1>3, <2>1, <2>5, <3>2, <4>1 DEF Placed, OnePlace, Nowhere
    <3> QED
      BY <3>1, <3>2
  <2> QED
    BY <1>3, <2>1, <2>5, <2>6
<1> QED
  BY <1>1, <1>2, <1>3, <1>9 DEF PlaceInv

LEMMA HandlePlaces ==
    ASSUME NEW ip \in Hosts PROVE PlaceInv /\ handle_arp_packet(ip) => PlaceInv'
<1> SUFFICES ASSUME PlaceInv, handle_arp_packet(ip) PROVE PlaceInv'
  OBVIOUS
<1>1. AgreeInv'
  BY HandleAgrees DEF PlaceInv
<1>2. Flush(ip) /\ UNCHANGED <<todo, pkt, pkt_list, reported>>
  BY DEF handle_arp_packet
<1>3. req_list \subseteq Req /\ sent \in Seq(Pkt)
  BY DEF PlaceInv, AgreeInv, Types
<1>4. CASE UNCHANGED <<req_list, sent>>
  BY <1>1, <1>2, <1>3, <1>4 DEF PlaceInv, Tracked, Placed, Nowhere
<1>5. ASSUME NEW r \in req_list, sent' = sent \o r.cached_packets, req_list' = req_list \ {r}
      PROVE  PlaceInv'
  <2> DEFINE c == r.cached_packets
  <2>1. c \in Seq(Pkt)
    BY <1>3 DEF Req
  <2>2. sent' \in Seq(Pkt)
    BY <1>3, <1>5, <2>1, ConcatFacts
  <2>3. ASSUME NEW q \in Packets PROVE Tracked(q)'
    <3> DEFINE f == Fwd(q)
    <3>1. WaitsOnce(f, req_list) /\ Once(f, sent) /\ IF q \in todo THEN Nowhere(f) ELSE Placed(f)
      BY DEF PlaceInv, Tracked
    <3> SUFFICES /\ WaitsOnce(f, req_list') /\ Once(f, sent')
                 /\ IF q \in todo' THEN Nowhere(f)' ELSE Placed(f)'
      BY DEF Tracked, Fwd
    <3> HIDE DEF f
    <3>2. /\ In(f, sent \o c) <=> In(f, sent) \/ In(f, c)
          /\ Once(f, sent) /\ Once(f, c) /\ ~ (In(f, sent) /\ In(f, c)) => Once(f, sent \o c)
      BY <1>3, <2>1, ConcatFacts
    <3>3. In(f, c) => Waits(f, req_list)
      BY DEF Waits
    <3>4. ~ (In(f, sent) /\ In(f, c)) /\ Once(f, c)
      BY <3>1, <3>3 DEF Placed, OnePlace, Nowhere, WaitsOnce
    <3>5. Once(f, sent') /\ (In(f, sent') <=> In(f, sent) \/ In(f, c))
      BY <1>5, <3>1, <3>2, <3>4
    <3>6. WaitsOnce(f, req_list')
      BY <1>5, <3>1 DEF WaitsOnce
    <3>7. /\ Waits(f, req_list) <=> Waits(f, req_list') \/ In(f, c)
          /\ ~ (Waits(f, req_list') /\ In(f, c))
      BY <1>5, <3>1 DEF Waits, WaitsOnce
    <3> HIDE DEF c
    <3>8. IF q \in todo' THEN Nowhere(f)' ELSE Placed(f)'
      BY <1>2, <3>1, <3>5, <3>7 DEF Placed, OnePlace, Nowhere
    <3> QED
      BY <3>5, <3>6, <3>8
  <2> QED
    BY <1>1, <2>2, <2>3 DEF PlaceInv
<1> QED
  BY <1>2, <1>4, <1>5 DEF Flush, ForHop

LEMMA SweepPlaces == PlaceInv /\ arpcache_sweep => PlaceInv'
<1> SUFFICES ASSUME PlaceInv, arpcache_sweep PROVE PlaceInv'
  OBVIOUS
<1>1. AgreeInv'
  BY SweepAgrees DEF PlaceInv
<1>2. pkt_list = {} /\ UNCHANGED <<todo, pkt, sent, reported>>
  BY DEF arpcache_sweep
<1>3. req_list \subseteq Req /\ sent \in Seq(Pkt)
  BY DEF PlaceInv, AgreeInv, Types
<1>4. PICK skipped \in SUBSET {r \in req_list : r.fresh} :
          LET due == req_list \ skipped
              over == {r \in due : Exhausted(r)}
              again == due \ over
          IN  /\ req_list' = {[r EXCEPT !.fresh = FALSE] : r \in skipped}
                             \cup {Asked_again(r) : r \in again}
              /\ pkt_list' = GivenUp(over)
  BY DEF arpcache_sweep
<1> DEFINE over == {r \in req_list \ skipped : Exhausted(r)}
           Same(r, s) == s.ip4 = r.ip4 /\ s.cached_packets = r.cached_packets
<1>5. over \subseteq req_list /\ over \cap skipped = {}
  OBVIOUS
<1>6. \A q : q \in pkt_list' <=> Waits(q, over)
  <2>1. \A q, s : q \in ToSet(s) <=> In(q, s)
    BY DEF ToSet, In
  <2>2. pkt_list' = GivenUp(over)
    BY <1>4
  <2> HIDE DEF over
  <2> QED
    BY <2>1, <2>2 DEF GivenUp, Waits
<1>7. req_list' = {[r EXCEPT !.fresh = FALSE] : r \in skipped}
                     \cup {Asked_again(r) : r \in (req_list \ skipped) \ over}
  BY <1>4
<1> HIDE DEF over
<1>8. \A r \in req_list : Same(r, [r EXCEPT !.fresh = FALSE]) /\ Same(r, Asked_again(r))
  BY <1>3, RenewKeeps
<1> HIDE DEF Same
<1>9. /\ \A s \in req_list' : \E r \in req_list \ over : Same(r, s)
      /\ \A r \in req_list \ over : \E s \in req_list' : Same(r, s)
  BY <1>5, <1>7, <1>8
<1>10. \A r, s \in req_list' : r.ip4 = s.ip4 => r = s
  BY <1>1 DEF AgreeInv, OneRequest
<1>11. ASSUME NEW q \in Packets PROVE Tracked(q)'
  <2> DEFINE f == Fwd(q)
  <2>1. WaitsOnce(f, req_list) /\ Once(f, sent) /\ IF q \in todo THEN Nowhere(f) ELSE Placed(f)
    BY DEF PlaceInv, Tracked
  <2> SUFFICES /\ WaitsOnce(f, req_list') /\ Once(f, sent')
               /\ IF q \in todo' THEN Nowhere(f)' ELSE Placed(f)'
    BY DEF Tracked, Fwd
  <2> HIDE DEF f
  <2>2. /\ \A s \in req_list' : \E r \in req_list \ over :
              s.ip4 = r.ip4 /\ s.cached_packets = r.cached_packets
        /\ \A r \in req_list \ over : \E s \in req_list' : s.cached_packets = r.cached_packets
    BY <1>9 DEF Same
  <2>3. WaitsOnce(f, req_list')
    <3>1. \A s \in req_list' : Once(f, s.cached_packets)
      BY <2>1, <2>2 DEF WaitsOnce
    <3>2. ASSUME NEW s1 \in req_list', NEW s2 \in req_list',
                 In(f, s1.cached_packets), In(f, s2.cached_packets)
          PROVE  s1 = s2
      <4>1. PICK r1 \in req_list : s1.ip4 = r1.ip4 /\ s1.cached_packets = r1.cached_packets
        BY <2>2
      <4>2. PICK r2 \in req_list : s2.ip4 = r2.ip4 /\ s2.cached_packets = r2.cached_packets
        BY <2>2
      <4>3. r1 = r2
        BY <2>1, <3>2, <4>1, <4>2 DEF WaitsOnce
      <4> QED
        BY <1>10, <4>1, <4>2, <4>3
    <3> QED
      BY <3>1, <3>2 DEF WaitsOnce
  <2>4. Waits(f, req_list) <=> Waits(f, req_list') \/ Waits(f, over)
    BY <1>5, <2>2 DEF Waits
  <2>5. ~ (Waits(f, req_list') /\ Waits(f, over))
    BY <1>5, <2>1, <2>2 DEF Waits, WaitsOnce
  <2>6. IF q \in todo' THEN Nowhere(f)' ELSE Placed(f)'
    BY <1>2, <1>6, <2>1, <2>4, <2>5 DEF Placed, OnePlace, Nowhere
  <2> QED
    BY <1>2, <2>1, <2>3, <2>6
<1> QED
  BY <1>1, <1>2, <1>3, <1>11 DEF PlaceInv

LEMMA InitPlaces == Init => PlaceInv
<1> SUFFICES ASSUME Init PROVE PlaceInv
  OBVIOUS
<1>1. /\ req_list = {} /\ pkt_list = {} /\ todo = Packets /\ sent = << >> /\ reported = {}
      /\ pkt["main"] = NoPkt
  BY DEF Init, Thread
<1>2. sent \in Seq(Pkt) /\ DOMAIN sent = {}
  BY <1>1
<1>3. \A q : WaitsOnce(q, req_list) /\ Once(q, sent) /\ (q # NoPkt => Nowhere(q))
  BY <1>1, <1>2 DEF WaitsOnce, Once, Nowhere, Waits, In
<1> QED
  BY <1>1, <1>2, <1>3, InitAgrees, FwdFacts DEF PlaceInv, Tracked

(* No packet to be forwarded is lost, sent twice, or sent and reported: each one *)
(* that came in waits in one request, is with the thread that looked it up, is   *)
(* about to be reported, was sent once or was reported, whatever arpcache_insert *)
(* and arpcache_sweep do between the lookup of iface_send_packet_by_arp and its  *)
(* append.                                                                       *)
THEOREM PacketsAreConserved == Spec => []PacketsConserved
<1>1. PlaceInv /\ [Next]_vars => PlaceInv'
  <2> SUFFICES ASSUME PlaceInv, [Next]_vars PROVE PlaceInv'
    OBVIOUS
  <2>1. CASE Main
    BY <2>1, ForwardPlaces, AppendPlaces DEF Main, Thread
  <2>2. CASE Sweeper
    BY <2>2, SweepPlaces, ReportPlaces, AppendPlaces DEF Sweeper, Thread
  <2>3. CASE \E ip \in Hosts : handle_arp_packet(ip)
    BY <2>3, HandlePlaces
  <2>4. CASE UNCHANGED vars
    <3>1. AgreeInv'
      BY <2>4, AgreeStep DEF PlaceInv
    <3> QED
      BY <2>4, <3>1 DEF vars, PlaceInv, Tracked, Placed, Nowhere
  <2> QED
    BY <2>1, <2>2, <2>3, <2>4 DEF Next
<1>2. PlaceInv => PacketsConserved
  <2> SUFFICES ASSUME PlaceInv, NEW p \in Packets, p \notin todo PROVE Copies(Fwd(p)) = 1
    BY DEF PacketsConserved, Fwd
  <2> DEFINE f == Fwd(p)
             I == {i \in DOMAIN sent : sent[i] = f}
             T == \E t \in Thread : pkt[t] = f
  <2>1. Placed(f) /\ Once(f, sent)
    BY DEF PlaceInv, Tracked
  <2>2. f # NoPkt /\ f.icmp = FALSE
    BY FwdFacts
  <2> HIDE DEF f
  <2>3. T <=> pkt["main"] = f
    BY <2>2 DEF Thread, PlaceInv, AgreeInv, SweepSendsErrors
  <2>4. f \in Cached <=> Waits(f, req_list)
    <3>1. \A s : f \in ToSet(s) <=> In(f, s)
      BY DEF ToSet, In
    <3> QED
      BY <3>1 DEF Cached, Waits
  <2>5. IF In(f, sent) THEN Cardinality(I) = 1 ELSE Cardinality(I) = 0
    <3>1. CASE In(f, sent)
      <4>1. PICK i \in DOMAIN sent : sent[i] = f
        BY <3>1 DEF In
      <4>2. I = {i}
        BY <2>1, <4>1 DEF Once
      <4> QED
        BY <3>1, <4>2, FS_Singleton
    <3>2. CASE ~ In(f, sent)
      <4>1. I = {}
        BY <3>2 DEF In
      <4> QED
        BY <3>2, <4>1, FS_EmptySet
    <3> QED
      BY <3>1, <3>2
  <2>6. Copies(f) = (IF T THEN 1 ELSE 0) + (IF f \in Cached THEN 1 ELSE 0)
                       + (IF f \in pkt_list THEN 1 ELSE 0) + Cardinality(I)
                       + (IF f \in reported THEN 1 ELSE 0)
    BY DEF Copies
  <2> HIDE DEF T, I
  <2>7. Copies(f) = 1
    BY <2>1, <2>3, <2>4, <2>5, <2>6 DEF Placed, OnePlace
  <2> QED
    BY <2>7 DEF f
<1> QED
  BY <1>1, <1>2, InitPlaces, PTL DEF Spec
================================================================================
