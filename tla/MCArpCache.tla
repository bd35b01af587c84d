------------------------------- MODULE MCArpCache -------------------------------
(* Three packets, two of them for the same next hop, between two neighbours and  *)
(* an address nobody has; a third neighbour competes for the two slots.          *)
EXTENDS ArpCache

CONSTANTS h1, h2, h3, dead

MCPackets == {[id |-> 1, src |-> h1, nh |-> dead],
              [id |-> 2, src |-> h1, nh |-> h2],
              [id |-> 3, src |-> dead, nh |-> h2]}
================================================================================
