------------------------------ MODULE RingBuffer ------------------------------
(***************************************************************************)
(* The receive buffer of a TCP sock (16-tcp_stack/include/ring_buffer.h).  *)
(* Its callers hold rw_lock during a read or a write, which are therefore  *)
(* atomic.                                                                 *)
(***************************************************************************)
EXTENDS Integers, Sequences

CONSTANTS
    Byte,
    Chunks,     \* what callers may write
    Sizes,      \* how much they may ask for
    size        \* the size given to alloc_ring_buffer

ASSUME SizeAssumption == size \in Nat \ {0}
ASSUME CallerAssumption == Chunks \subseteq Seq(Byte) /\ Sizes \subseteq Nat

Index == 0 .. size - 1

VARIABLES
    head,       \* read from head
    tail,       \* write from tail
    buf,
    got         \* the caller's buffer after the last read

ring_vars == <<head, tail, buf, got>>

ring_buffer_used == (tail - head + size) % size
ring_buffer_free == size - ring_buffer_used - 1

\* Byte i of a read: the two memcpy's from buf + head and, past the end, from buf.
ReadCell(i) ==
    IF head + i <= size THEN buf[head + i - 1] ELSE buf[head + i - 1 - size]

read_ring_buffer(n) ==
    LET len == IF ring_buffer_used < n THEN ring_buffer_used ELSE n
    IN  /\ got' = [i \in 1 .. len |-> ReadCell(i)]
        /\ head' = (head + len) % size
        /\ UNCHANGED <<tail, buf>>

\* Cell i after a write: the two memcpy's to buf + tail and, past the end, to buf.
WriteCell(data, i) ==
    LET len == Len(data)
    IN  IF i >= tail /\ i - tail < len THEN data[i - tail + 1]
        ELSE IF tail + len > size /\ i < tail + len - size THEN data[size - tail + i + 1]
        ELSE buf[i]

\* Mutant: the assertion lets the last byte be used.
MayWrite_full(data) == Len(data) > 0 /\ ring_buffer_free + 1 >= Len(data)

\* The assertion of write_ring_buffer, which its caller has to respect.
MayWrite(data) == Len(data) > 0 /\ ring_buffer_free >= Len(data)

write_ring_buffer(data) ==
    /\ MayWrite(data)
    /\ buf' = [i \in Index |-> WriteCell(data, i)]
    /\ tail' = (tail + Len(data)) % size
    /\ UNCHANGED <<head, got>>

\* alloc_ring_buffer: memset to 0, which is some byte.
RingInit ==
    /\ head = 0 /\ tail = 0
    /\ \E zero \in Byte : buf = [i \in Index |-> zero]
    /\ got = <<>>

RingNext == \/ \E data \in Chunks : write_ring_buffer(data)
        \/ \E n \in Sizes : read_ring_buffer(n)

RingSpec == RingInit /\ [][RingNext]_ring_vars

--------------------------------------------------------------------------------
\* Type invariant.
RingTypeOK ==
    /\ head \in Index /\ tail \in Index
    /\ buf \in [Index -> Byte]
    /\ got \in Seq(Byte)

\* The bytes a reader would get, oldest first.
Queue == [i \in 1 .. ring_buffer_used |-> buf[(head + i - 1) % size]]

\* The ring buffer is a queue of size - 1 bytes, whatever is written and read in
\* whatever amounts and wherever the copies wrap around: no byte is lost,
\* repeated, reordered or overwritten before it is read, and a full buffer is
\* never taken for an empty one.
Abstract == INSTANCE ByteQueue WITH queue <- Queue, out <- got, Capacity <- size - 1
IsQueue == Abstract!Spec
================================================================================
