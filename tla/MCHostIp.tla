-------------------------------- MODULE MCHostIp --------------------------------
(* A host that sends two segments to its neighbour h.  A packet comes in, for it *)
(* or to be forwarded.  Its table has a default route, over a gateway that is a  *)
(* neighbour, or only the subnet; routes of another table or interface are left  *)
(* out.                                                                          *)
EXTENDS HostIp

CONSTANTS h, gate, far

MCKernel ==
    LET subnet == [table |-> 254, dst |-> {Me, h, gate}, len |-> 24, gw |-> None, mine |-> TRUE]
        default == [table |-> 254, dst |-> {}, len |-> 0, gw |-> gate, mine |-> TRUE]
        lo == [table |-> 254, dst |-> {h}, len |-> 32, gw |-> None, mine |-> FALSE]
        own == [table |-> 255, dst |-> {Me}, len |-> 32, gw |-> h, mine |-> TRUE]
    IN  {<<default, subnet, lo, own>>, <<subnet>>}

MCSegments == <<h, h>>

MCIncoming == {[id |-> 11, src |-> h, dst |-> Me],
               [id |-> 11, src |-> far, dst |-> h],
               [id |-> 11, src |-> h, dst |-> far]}
================================================================================
