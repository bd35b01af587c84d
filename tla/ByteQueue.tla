------------------------------- MODULE ByteQueue -------------------------------
(***************************************************************************)
(* What ring_buffer.h promises: a queue of at most Capacity bytes.  Bytes  *)
(* come out in the order they went in, a read takes as many as there are   *)
(* up to the number asked for.                                             *)
(***************************************************************************)
EXTENDS Integers, Sequences

CONSTANTS Chunks, Sizes, Capacity

VARIABLES
    queue,      \* the bytes written and not yet read
    out         \* what the last read returned

Put(data) ==
    /\ data # <<>> /\ Len(queue) + Len(data) <= Capacity
    /\ queue' = queue \o data
    /\ UNCHANGED out

Get(n) ==
    LET len == IF Len(queue) < n THEN Len(queue) ELSE n
    IN  /\ out' = SubSeq(queue, 1, len)
        /\ queue' = SubSeq(queue, len + 1, Len(queue))

Init == queue = <<>> /\ out = <<>>

Next == (\E data \in Chunks : Put(data)) \/ (\E n \in Sizes : Get(n))

Spec == Init /\ [][Next]_<<queue, out>>
================================================================================
