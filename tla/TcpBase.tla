-------------------------------- MODULE TcpBase --------------------------------
(***************************************************************************)
(* What the TCP labs share: sequence numbers, segments and the functions   *)
(* that build them (tcp.h, tcp.c, tcp_out.c).  Payload bytes are counted,  *)
(* ports and addresses are left out: there is one server port and the      *)
(* client always gets PORT_MIN, so the 4-tuple never changes.              *)
(***************************************************************************)
EXTENDS Integers, Sequences

CONSTANTS
    SEQ_MOD,                \* 2^32: sequence numbers are u32
    TCP_DEFAULT_WINDOW      \* the initial rcv_wnd

ASSUME SeqModAssumption == SEQ_MOD \in Nat /\ SEQ_MOD >= 4 /\ SEQ_MOD % 2 = 0
ASSUME WindowAssumption == TCP_DEFAULT_WINDOW \in 1 .. (SEQ_MOD \div 2)

u32 == 0 .. SEQ_MOD - 1

TCP_FIN == "FIN"
TCP_SYN == "SYN"
TCP_RST == "RST"
TCP_PSH == "PSH"
TCP_ACK == "ACK"
Flag == {TCP_FIN, TCP_SYN, TCP_RST, TCP_PSH, TCP_ACK}

tcp_state == {"CLOSED", "LISTEN", "SYN_RECV", "SYN_SENT", "ESTABLISHED", "CLOSE_WAIT",
              "LAST_ACK", "FIN_WAIT_1", "FIN_WAIT_2", "TIME_WAIT"}

Plus(a, n) == (a + n) % SEQ_MOD

\* The difference taken as a signed number is negative.  The subtraction of two
\* int32_t may overflow; the Makefile compiles without optimisation, where it
\* wraps.
less_than_32b(a, b) == (a - b) % SEQ_MOD >= SEQ_MOD \div 2
less_or_equal_32b(a, b) == a = b \/ less_than_32b(a, b)

--------------------------------------------------------------------------------
(* A segment as tcp_cb_init presents it.  `data' is the payload, a sequence.    *)

tcp_cb(flags, seq, ack, data) ==
    [flags |-> flags, seq |-> seq, ack |-> ack, data |-> data]

seq_end(cb) ==
    Plus(cb.seq, Len(cb.data) + IF cb.flags \cap {TCP_SYN, TCP_FIN} # {} THEN 1 ELSE 0)

\* tcp_send_packet: a data segment, and the sock after it was sent.
tcp_send_packet(tsk, data) == tcp_cb({TCP_PSH, TCP_ACK}, tsk.snd_nxt, tsk.rcv_nxt, data)
after_packet(tsk, data) == [tsk EXCEPT !.snd_nxt = Plus(@, Len(data))]

\* tcp_send_control_packet: SYN and FIN take a sequence number.
tcp_send_control_packet(tsk, flags) == tcp_cb(flags, tsk.snd_nxt, tsk.rcv_nxt, <<>>)
\* Mutant: a FIN takes no sequence number.
after_control_syn_only(tsk, flags) ==
    [tsk EXCEPT !.snd_nxt = IF TCP_SYN \in flags THEN Plus(@, 1) ELSE @]

after_control(tsk, flags) ==
    [tsk EXCEPT !.snd_nxt = IF flags \cap {TCP_SYN, TCP_FIN} # {} THEN Plus(@, 1) ELSE @]

\* tcp_send_reset: sequence number 0, whatever the connection has.
tcp_send_reset(cb) == tcp_cb({TCP_RST, TCP_ACK}, 0, seq_end(cb), <<>>)

\* Some of the segment is in the receiving window.
is_tcp_seq_valid(tsk, cb) ==
    LET wnd == IF tsk.rcv_wnd > 1 THEN tsk.rcv_wnd ELSE 1
    IN  /\ less_than_32b(cb.seq, Plus(tsk.rcv_nxt, wnd))
        /\ less_or_equal_32b(tsk.rcv_nxt, seq_end(cb))

Segment(data) == [flags : SUBSET Flag, seq : u32, ack : u32, data : data]
================================================================================
