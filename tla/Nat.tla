---------------------------------- MODULE Nat ----------------------------------
(***************************************************************************)
(* The address translator of lab 10 (10-nat/src/nat.c).                    *)
(*                                                                         *)
(* The table is 256 lists selected by hash8 of the REMOTE address.  It is  *)
(* modelled by the set of its mappings: `bucket' is the list a mapping is  *)
(* in and `ord' the number of mappings before it there.  update_time is    *)
(* kept as the time that passed since: idle = time(NULL) - update_time.    *)
(* Of conn the two fin marks are kept: it is zeroed when a mapping is      *)
(* created and nobody writes it, so the sequence numbers nat_timeout       *)
(* compares (nat.c:161-162) are always equal.                              *)
(*                                                                         *)
(* nat.lock is held for the whole of do_translation and of a sweep of      *)
(* nat_timeout, so each is one step.                                       *)
(***************************************************************************)
EXTENDS Integers, FiniteSets

CONSTANTS
    Inside,                   \* addresses routed to internal_iface
    Outside,                  \* addresses routed to external_iface
    Unrouted,                 \* addresses longest_prefix_match has no entry for
    ExternalIp,               \* the address of external_iface
    Ports,                    \* TCP ports the hosts use
    Closing,                  \* flows that may be closed: <<inner address, list>>
    Bucket,                   \* the lists of nat_mapping_list
    hash8,                    \* address -> list
    NAT_PORT_MIN, NAT_PORT_MAX,
    TCP_ESTABLISHED_TIMEOUT

ASSUME NatPorts == /\ NAT_PORT_MIN \in Nat
                   /\ NAT_PORT_MAX \in Nat
                   /\ NAT_PORT_MIN <= NAT_PORT_MAX
ASSUME NatClosing == Closing \subseteq Inside \X Bucket
ASSUME NatTimeout == TCP_ESTABLISHED_TIMEOUT \in Nat
ASSUME NatHash == hash8 \in [Outside \cup {ExternalIp} -> Bucket]
ASSUME NatRouting == /\ ExternalIp \notin Inside \cup Outside \cup Unrouted
                     /\ Inside \cap Outside = {}
                     /\ Inside \cap Unrouted = {}
                     /\ Outside \cap Unrouted = {}

VARIABLES
    mappings,         \* the contents of nat_mapping_list
    assigned_ports,   \* {i : nat.assigned_ports[i] = 1}
    up,               \* FALSE once the process died
    heard             \* history: who sent what each remote host received

vars == <<mappings, assigned_ports, up, heard>>

\* Everything routed through external_iface, its own address included.
OutAddr == Outside \cup {ExternalIp}

ExtPort == NAT_PORT_MIN .. NAT_PORT_MAX

Conn == [internal_fin : {0}, external_fin : {0}]
ZeroConn == [internal_fin |-> 0, external_fin |-> 0]

Side == {"internal", "external"}

\* `ended' is history: the sides whose FIN the other has acknowledged.
Mapping == [bucket : Bucket, ord : Nat, internal_ip : Inside, internal_port : Ports,
            external_port : ExtPort, idle : Nat, conn : Conn, ended : SUBSET Side]

\* A remote host got a segment from external port `port', which the inner
\* endpoint (ip, sport) had sent.
Heard == [remote : OutAddr, port : ExtPort, ip : Inside, sport : Ports]

--------------------------------------------------------------------------------
(* Routing and direction (nat.c:29-42)                                         *)

DIR_OUT(src, dst) == src \in Inside /\ dst \in OutAddr
DIR_IN(src, dst) == src \in OutAddr /\ dst = ExternalIp

--------------------------------------------------------------------------------
(* The table                                                                   *)

\* The first mapping of a list that passes the test: ms is the set that does.
FirstOf(ms) == CHOOSE m \in ms : \A o \in ms : m.ord <= o.ord

MatchIn(src, dport) ==
    {m \in mappings : m.bucket = hash8[src] /\ m.external_port = dport}

MatchOut(src, sport, dst) ==
    {m \in mappings : /\ m.bucket = hash8[dst]
                      /\ m.internal_ip = src
                      /\ m.internal_port = sport}

FreePorts == (NAT_PORT_MIN .. NAT_PORT_MAX - 1) \ assigned_ports

\* The scan stops at the first free port; when there is none it falls off the
\* end of the range and NAT_PORT_MAX itself is returned, without being marked.
getport ==
    IF FreePorts = {} THEN NAT_PORT_MAX
    ELSE CHOOSE p \in FreePorts : \A q \in FreePorts : p <= q

\* Mutant: the port found is not marked.
MarkPort_forgotten(p) == assigned_ports

MarkPort(p) == IF p < NAT_PORT_MAX THEN assigned_ports \cup {p} ELSE assigned_ports

InBucket(b) == {m \in mappings : m.bucket = b}

insert_nat_entry(src, sport, dst) ==
    [bucket |-> hash8[dst], ord |-> Cardinality(InBucket(hash8[dst])),
     internal_ip |-> src, internal_port |-> sport,
     external_port |-> getport, idle |-> 0, conn |-> ZeroConn, ended |-> {}]

\* Whether a segment of the flow of m acknowledges a FIN.
Acks(m) == IF <<m.internal_ip, m.bucket>> \in Closing THEN BOOLEAN ELSE {FALSE}

\* A segment passes: update_time is set.  With `ack' it acknowledges the FIN of `side'.
Touch(m, side, ack) ==
    [m EXCEPT !.idle = 0, !.ended = IF ack THEN @ \cup {side} ELSE @]

--------------------------------------------------------------------------------
(* The packet thread                                                           *)

\* A segment of an inner endpoint: translated by the mapping found, or by a
\* new one, and sent on.  The remote host gets it.
TranslateOut(src, sport, dst) ==
    LET found == MatchOut(src, sport, dst)
        m == IF found = {} THEN insert_nat_entry(src, sport, dst) ELSE FirstOf(found)
    IN  /\ up
        /\ DIR_OUT(src, dst)
        /\ \E ack \in Acks(m) :
              mappings' = (mappings \ {m}) \cup {Touch(m, "external", ack)}
        /\ assigned_ports' = IF found = {} THEN MarkPort(m.external_port)
                                           ELSE assigned_ports
        /\ heard' = heard \cup {[remote |-> dst, port |-> m.external_port,
                                 ip |-> src, sport |-> sport]}
        /\ UNCHANGED up

\* A segment from outside to external port dport: found, and sent to the inner
\* endpoint of the mapping.
TranslateIn(src, dport) ==
    LET found == MatchIn(src, dport)
        m == FirstOf(found)
    IN  /\ up
        /\ DIR_IN(src, ExternalIp)
        /\ found # {}
        /\ \E ack \in Acks(m) :
              mappings' = (mappings \ {m}) \cup {Touch(m, "internal", ack)}
        /\ UNCHANGED <<assigned_ports, up, heard>>

\* ... and not found: ICMP host unreachable, free(packet), and then, because
\* the branch does not return, ip_send_packet of the freed packet.  What that
\* does is undefined: the stale bytes go out, or the process dies.
TranslateMiss(src, dport) ==
    /\ up
    /\ DIR_IN(src, ExternalIp)
    /\ MatchIn(src, dport) = {}
    /\ up' \in BOOLEAN
    /\ UNCHANGED <<mappings, assigned_ports, heard>>

\* Whether get_packet_direction reads the NULL entry of an address without a route:
\* the source's at once, the destination's only for a source inside.
NullEntry(src, dst) == src \in Unrouted \/ (src \in Inside /\ dst \in Unrouted)

\* Neither direction: ICMP host unreachable, or the NULL entry ends the process.
DropInvalid(src, dst) ==
    /\ up
    /\ ~ DIR_OUT(src, dst)
    /\ ~ DIR_IN(src, dst)
    /\ up' = ~ NullEntry(src, dst)
    /\ UNCHANGED <<mappings, assigned_ports, heard>>

--------------------------------------------------------------------------------
(* The timeout thread and time                                                 *)

\* Mutant: off by one in the comparison with the timeout.
Expired_early(m) == m.idle >= TCP_ESTABLISHED_TIMEOUT

Expired(m) == m.idle > TCP_ESTABLISHED_TIMEOUT

\* Both FINs are marked.
Finished(m) == m.conn.external_fin = 1 /\ m.conn.internal_fin = 1

\* Mutant: only the FIN branch.
Kept_unfinished == {m \in mappings : ~ Finished(m)}

Kept == {m \in mappings : ~ Finished(m) /\ ~ Expired(m)}

\* A mapping moves up in its list by the mappings deleted before it.
Moved(m) ==
    [m EXCEPT !.ord = Cardinality({o \in Kept : o.bucket = m.bucket /\ o.ord < m.ord})]

\* Mutant: the sweep frees the port of the mapping it deletes.
nat_timeout_frees ==
    /\ up
    /\ \E m \in mappings : Finished(m) \/ Expired(m)
    /\ mappings' = {Moved(m) : m \in Kept}
    /\ assigned_ports' = assigned_ports \ {m.external_port : m \in mappings \ Kept}
    /\ UNCHANGED <<up, heard>>

\* One sweep: the mapping goes, its port stays marked in assigned_ports.
nat_timeout ==
    /\ up
    /\ \E m \in mappings : Finished(m) \/ Expired(m)
    /\ mappings' = {Moved(m) : m \in Kept}
    /\ UNCHANGED <<assigned_ports, up, heard>>

\* One second passes.  Ages above the timeout are all alike.
Older(m) == [m EXCEPT !.idle = IF Expired(m) THEN m.idle ELSE m.idle + 1]

Tick ==
    /\ up
    /\ \E m \in mappings : ~ Expired(m)
    /\ mappings' = {Older(m) : m \in mappings}
    /\ UNCHANGED <<assigned_ports, up, heard>>

--------------------------------------------------------------------------------
Init ==
    /\ mappings = {}
    /\ assigned_ports = {}
    /\ up = TRUE
    /\ heard = {}

nat_translate_packet ==
    \/ \E src \in Inside, sport \in Ports, dst \in OutAddr : TranslateOut(src, sport, dst)
    \/ \E src \in OutAddr, dport \in ExtPort :
            TranslateIn(src, dport) \/ TranslateMiss(src, dport)
    \/ \E src, dst \in Inside \cup OutAddr \cup Unrouted : DropInvalid(src, dst)

Next == nat_translate_packet \/ nat_timeout \/ Tick

\* nat_timeout runs in an endless loop of its own and time passes; packets
\* come when they come.
Spec == Init /\ [][Next]_vars /\ WF_vars(nat_timeout) /\ WF_vars(Tick)

--------------------------------------------------------------------------------
(* Properties                                                                  *)

\* Type invariant of the table, the port pool and the history.
TypeOK ==
    /\ mappings \subseteq Mapping
    /\ assigned_ports \subseteq NAT_PORT_MIN .. NAT_PORT_MAX - 1
    /\ up \in BOOLEAN
    /\ heard \subseteq Heard

\* Two live mappings never share an external port handed out by getport
\* (nat.c:44-53), whichever lists they are in and however many mappings
\* expired before.  Only NAT_PORT_MAX, which getport returns when the pool is
\* exhausted, can be shared.
UniqueExternalPorts ==
    \A m, o \in mappings :
        m.external_port = o.external_port /\ m # o => m.external_port = NAT_PORT_MAX

\* An answer goes to the inner endpoint the remote host was talking to: for
\* everything a remote host ever heard from an external port, the mapping
\* do_translation would use for its answer (nat.c:80-98), if there is one, is
\* the mapping of the endpoint that sent it; also when the answer comes after
\* that endpoint's mapping timed out and others were made.
ReplyReachesOpener ==
    \A h \in heard :
        h.port < NAT_PORT_MAX /\ MatchIn(h.remote, h.port) # {} =>
            LET m == FirstOf(MatchIn(h.remote, h.port))
            IN  m.internal_ip = h.ip /\ m.internal_port = h.sport

SameFlow(m, n) == /\ m.bucket = n.bucket
                  /\ m.internal_ip = n.internal_ip
                  /\ m.internal_port = n.internal_port
                  /\ m.external_port = n.external_port

\* Both sides have sent a FIN and seen it acknowledged.
Over(m) == m.ended = Side

\* A flow keeps its external port for as long as it is used: unless both sides
\* have closed it, its mapping goes only after more than TCP_ESTABLISHED_TIMEOUT
\* seconds without a packet in either direction (nat.c:166), and is never
\* renumbered.
FlowKeepsPort ==
    [][\A m \in mappings : \/ \E n \in mappings' : SameFlow(m, n)
                           \/ m.idle > TCP_ESTABLISHED_TIMEOUT
                           \/ Over(m)]_vars

ExpiredFlow(ip, sport, b) ==
    \E m \in mappings : /\ m.internal_ip = ip
                        /\ m.internal_port = sport
                        /\ m.bucket = b
                        /\ Expired(m)

\* The sweep of nat_timeout gets to every flow that went idle: it is removed,
\* or a packet revives it first, or the process died.
IdleFlowsGo ==
    \A ip \in Inside, sport \in Ports, b \in Bucket :
        ExpiredFlow(ip, sport, b) ~> (~ ExpiredFlow(ip, sport, b) \/ ~ up)
================================================================================
