----------------------------------- MODULE Hub -----------------------------------
(***************************************************************************)
(* The hub of lab 04 (04-broadcast/main.c): it sends every frame on every  *)
(* other interface.                                                        *)
(***************************************************************************)
EXTENDS Lan

\* Mutant: the interface of the frame is not left out.
handle_packet_back(b, m) ==
    /\ Reads(b, m)
    /\ \A h \in Nbr[b] \cap Host : Len(cable[<<b, h>>]) < HOST_ROOM
    /\ cable' = iface_send_packet(b, Nbr[b], Head(cable[<<m, b>>]), Read(b, m))
    /\ UNCHANGED <<net, sent, got>>

handle_packet(b, m) ==
    /\ Reads(b, m)
    /\ \A h \in Nbr[b] \cap Host : Len(cable[<<b, h>>]) < HOST_ROOM
    /\ cable' = iface_send_packet(b, broadcast_packet(b, m), Head(cable[<<m, b>>]),
                                 Read(b, m))
    /\ UNCHANGED <<net, sent, got>>
================================================================================
