-------------------------------- MODULE LanSystem --------------------------------
(***************************************************************************)
(* A network of lab 04's hubs or of lab 05's switches, and its hosts.      *)
(***************************************************************************)
EXTENDS Switch

H == INSTANCE Hub

Sends(h, d) ==
    /\ HostSends(h, d)
    /\ known' = Append(known, ~ net.hubs /\ \A s \in Box : Learnt(s, d))
    /\ UNCHANGED <<hash8, hash_table, now>>

Gets(h) == HostGets(h) /\ UNCHANGED <<hash8, hash_table, now, known>>

Hubs(b, m) ==
    /\ net.hubs /\ H!handle_packet(b, m)
    /\ UNCHANGED <<hash8, hash_table, now, known>>

Switches(s, m) == ~ net.hubs /\ handle_packet(s, m)

NetInit ==
    /\ LanInit
    /\ hash8 \in IF net.hubs THEN {CHOOSE f \in Hashes : TRUE} ELSE Hashes
    /\ hash_table = [s \in Box |-> [k \in Key |-> EMPTY]]
    /\ now = 0 /\ known = <<>>

NetNext ==
    \/ \E b \in Box, m \in Node : Hubs(b, m) \/ Switches(b, m)
    \/ sweeping_mac_port_thread
    \/ \E h \in Host, d \in Host \cup {Bcast} : Sends(h, d)
    \/ \E h \in Host : Gets(h)

NetSpec == NetInit /\ [][NetNext]_net_vars

--------------------------------------------------------------------------------
(* Properties                                                                  *)

Collides(a) == \E b \in Host \ {a} : hash8[a] = hash8[b]

\* "what leaves through the port a frame from X came in by reaches X"
\* (05-switching/report/DesignDocument.tex:41): whatever the switches learn while a
\* frame is on its way, it reaches its addressees, unless lookup_port took another
\* host's entry for theirs.
NotLost ==
    \A i \in 1 .. Len(sent) :
        \/ \E e \in Wires : \E k \in 1 .. Len(cable[e]) : cable[e][k].id = i
        \/ \A h \in Addressees(i) : got[h][i] > 0
        \/ Collides(sent[i].dst)

\* A frame reaches a host once and never comes back to its sender, although one switch
\* may know what the next one does not, as long as no slot is shared.
Once ==
    ~ net.hubs /\ (\A a \in Host \cup {Bcast} : ~ Collides(a)) =>
        \A h \in Host : \A i \in 1 .. Len(sent) :
            got[h][i] <= IF h = sent[i].src THEN 0 ELSE 1

\* A frame that every switch knew the way of when it was sent reaches nobody else.
Private ==
    \A i \in 1 .. Len(sent) : known[i] =>
        \A h \in Host \ Addressees(i) : got[h][i] = 0

\* Where the copies of the i-th frame are on the links between boxes.
OnRing(i) == UNION {{e} \X {k \in DOMAIN cable[e] : cable[e][k].id = i} :
                        e \in Wires \cap (Box \X Box)}

Entered(i) ==
    i <= Len(sent) /\ \A h \in Host : \A m \in Nbr[h] : \A k \in 1 .. Len(cable[<<h, m>>]) :
        cable[<<h, m>>][k].id # i

IsRing == Box # {} /\ \A b \in Box : Cardinality(Nbr[b] \cap Box) = 2

\* "a packet is forwarded without end" (04-broadcast/report/DesignDocument.tex:108): a
\* frame that entered a ring of hubs goes round both ways, and neither copy is lost
\* or doubled.
TwoCopiesStay ==
    net.hubs /\ IsRing => \A i \in 1 .. net.frames :
                    Cardinality(OnRing(i)) = IF Entered(i) THEN 2 ELSE 0
================================================================================
