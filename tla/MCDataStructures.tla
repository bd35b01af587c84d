---------------------------- MODULE MCDataStructures ----------------------------
(* The two data structures that are used by one thread at a time: the prefix trees  *)
(* of lab 09 and the ring buffer of lab 16.  They are parts of different programs,  *)
(* so a behaviour is one of the first while the second stays as it began, or the    *)
(* other way round.                                                                 *)
(*                                                                                  *)
(* Trees: addresses of 4 bits, so two levels of the MulPTree.  Two subtrees with a  *)
(* route of their own and children of their own are needed for leaf pushing to      *)
(* reach from one into the other: 10xx and 11xx, with 1xxx above them.              *)
(*                                                                                  *)
(* Ring buffer: four cells, written up to three bytes at a time: every position of  *)
(* head and tail, every amount, both copies of a write and of a read.               *)
EXTENDS PrefixTree, RingBuffer

Line(s, l, p) == [SubNet |-> s, PreLen |-> l, Port |-> p]

Lines == {Line(0, 0, 9), Line(8, 1, 1), Line(8, 2, 2), Line(12, 2, 3), Line(14, 3, 5),
          Line(11, 4, 6), Line(4, 3, 4)}

\* Files of one, two, four or five of these lines, in any order.
MCFiles == UNION {SetToSeqs(S) : S \in {S \in SUBSET Lines : Cardinality(S) \in {1, 2, 4, 5}}}

CONSTANT MaxChunk

MCChunks == SeqOf(Byte, MaxChunk)
MCSizes == 0 .. MaxChunk + 1

VARIABLE structure      \* the one that is used: "trees" or "ring"

\* What the unused one begins with does not matter.
DataInit ==
    /\ Init /\ RingInit
    /\ \/ structure = "trees" /\ \A i \in Index : buf[i] = CHOOSE zero \in Byte : TRUE
       \/ structure = "ring" /\ file = <<Line(8, 1, 1)>>
DataNext ==
    \/ structure = "trees" /\ Next /\ UNCHANGED <<ring_vars, structure>>
    \/ structure = "ring" /\ RingNext /\ UNCHANGED <<vars, structure>>
DataSpec == DataInit /\ [][DataNext]_<<vars, ring_vars, structure>>
================================================================================
