---------------------------- MODULE TcpStream_proofs ----------------------------
(***************************************************************************)
(* Proofs about the data transfer of lab 16: no wake-up is lost, what an   *)
(* application reads is a prefix of what the other one wrote, and neither  *)
(* sock acknowledges what the other has not sent, for every window, every  *)
(* initial sequence number and any number of rounds.                       *)
(***************************************************************************)
EXTENDS TcpStream, SequenceTheorems, TLAPS

Byte == Int
States == tcp_state \cup {"NONE"}
Seg == [flags : SUBSET Flag, seq : Int, ack : Int, data : Seq(Byte)]
Sock == [state : States, snd_nxt : Int, snd_una : Int, rcv_nxt : Int, rcv_wnd : Int,
         rcv_buf : Seq(Byte), timer : {"off", "on", "fired"},
         wait_connect : BOOLEAN, wait_send : BOOLEAN, wait_recv : BOOLEAN]
Wake == [at |-> "wake"]
Owe == [at |-> "ack"]
Busy == [at : {"process"}, cb : Seg, state : States]
Pc == {"connect", "connecting", "accept", "accepting", "dequeue", "write", "emit", "sent",
       "read", "recv", "take", "close", "FIN_WAIT_1", "LAST_ACK", "done"}
App == [pc : Pc, buf : Seq(Byte) \cup Seg, i : Int]

Types ==
    /\ sk \in [Host -> Sock]
    /\ backlog \in [n : Int, wait_accept : BOOLEAN]
    /\ app \in [Host -> App]
    /\ \A h \in Host : /\ app[h].pc = "write" => app[h].buf \in Seq(Byte)
                       /\ app[h].pc = "emit" => app[h].buf \in Seg
    /\ main \in [Host -> {Idle, Wake, Owe} \cup Busy]
    /\ net \in [Host -> Seq(Seg)]
    /\ wrote \in [Host -> Seq(Byte)]
    /\ got \in [Host -> Seq(Byte)]
    /\ early \in BOOLEAN

--------------------------------------------------------------------------------
(* Sequence numbers and the segments and socks made with them.                 *)

LEMMA PlusType == ASSUME NEW a \in Int, NEW n \in Int PROVE Plus(a, n) \in Int
<1>1. SEQ_MOD \in Nat /\ SEQ_MOD > 0
  BY SeqModAssumption
<1>2. \A x \in Int, m \in Nat : m > 0 => x % m \in Int
  OBVIOUS
<1> DEFINE x == a + n
<1>3. x \in Int
  OBVIOUS
<1> HIDE DEF x
<1>4. x % SEQ_MOD \in Int
  BY <1>1, <1>2, <1>3
<1> QED
  BY <1>4 DEF Plus, x

LEMMA SeqEndType == ASSUME NEW cb \in Seg PROVE seq_end(cb) \in Int
<1> DEFINE k == Len(cb.data) + IF cb.flags \cap {TCP_SYN, TCP_FIN} # {} THEN 1 ELSE 0
<1>1. cb.seq \in Int /\ Len(cb.data) \in Int
  BY LenProperties DEF Seg
<1>2. k \in Int
  BY <1>1
<1>3. seq_end(cb) = Plus(cb.seq, k)
  BY DEF seq_end
<1> HIDE DEF k
<1> QED
  BY <1>1, <1>2, <1>3, PlusType

LEMMA ControlType ==
    ASSUME NEW tsk \in Sock, NEW flags \in SUBSET Flag
    PROVE  /\ tcp_send_control_packet(tsk, flags) \in Seg
           /\ tcp_send_control_packet(tsk, flags).flags = flags
  BY DEF tcp_send_control_packet, tcp_cb, Seg, Sock

LEMMA ResetType ==
    ASSUME NEW cb \in Seg
    PROVE  /\ tcp_send_reset(cb) \in Seg
           /\ tcp_send_reset(cb).flags = {TCP_RST, TCP_ACK}
  BY SeqEndType DEF tcp_send_reset, tcp_cb, Seg, Flag

\* The socks differ in the sequence number of what is sent next, at most.
SameButSeq(t, u) ==
    /\ t.state = u.state /\ t.rcv_buf = u.rcv_buf /\ t.timer = u.timer
    /\ t.wait_connect = u.wait_connect /\ t.wait_send = u.wait_send
    /\ t.wait_recv = u.wait_recv

LEMMA AfterControlType ==
    ASSUME NEW tsk \in Sock, NEW flags
    PROVE  /\ after_control(tsk, flags) \in Sock
           /\ SameButSeq(after_control(tsk, flags), tsk)
<1> DEFINE v == IF flags \cap {TCP_SYN, TCP_FIN} # {} THEN Plus(tsk.snd_nxt, 1) ELSE tsk.snd_nxt
<1>1. v \in Int
  BY PlusType DEF Sock
<1>2. after_control(tsk, flags) = [tsk EXCEPT !.snd_nxt = v]
  BY DEF after_control
<1> HIDE DEF v
<1>3. [tsk EXCEPT !.snd_nxt = v] \in Sock /\ SameButSeq([tsk EXCEPT !.snd_nxt = v], tsk)
  BY <1>1 DEF Sock, SameButSeq
<1> QED
  BY <1>2, <1>3

LEMMA AfterPacketType ==
    ASSUME NEW tsk \in Sock, NEW data \in Seq(Byte)
    PROVE  /\ after_packet(tsk, data) \in Sock
           /\ SameButSeq(after_packet(tsk, data), tsk)
           /\ tcp_send_packet(tsk, data) \in Seg
           /\ tcp_send_packet(tsk, data).flags = {TCP_PSH, TCP_ACK}
           /\ tcp_send_packet(tsk, data).data = data
<1> DEFINE v == Plus(tsk.snd_nxt, Len(data))
<1>1. v \in Int
  BY PlusType, LenProperties DEF Sock
<1>2. after_packet(tsk, data) = [tsk EXCEPT !.snd_nxt = v]
  BY DEF after_packet
<1> HIDE DEF v
<1>3. [tsk EXCEPT !.snd_nxt = v] \in Sock /\ SameButSeq([tsk EXCEPT !.snd_nxt = v], tsk)
  BY <1>1 DEF Sock, SameButSeq
<1>4. /\ tcp_send_packet(tsk, data) \in Seg
      /\ tcp_send_packet(tsk, data).flags = {TCP_PSH, TCP_ACK}
      /\ tcp_send_packet(tsk, data).data = data
  BY DEF tcp_send_packet, tcp_cb, Seg, Flag, Sock
<1> QED
  BY <1>2, <1>3, <1>4

LEMMA AllocType == alloc_tcp_sock \in Sock
<1>1. TCP_DEFAULT_WINDOW \in Int
  BY WindowAssumption, SeqModAssumption
<1> QED
  BY <1>1 DEF alloc_tcp_sock, Sock, States, tcp_state

--------------------------------------------------------------------------------
(* What tcp_process can do to a sock.                                          *)

Results == [tsk : Sock, out : {<<>>} \cup {<<m>> : m \in Seg},
            enqueue : BOOLEAN, stored : BOOLEAN]

\* The answer is one segment that carries no payload; which answers are bare ACKs or
\* carry a FIN depends on the state that was read and on a FIN received.
AnswerOK(state, cb, r) ==
    \A m \in Seg : r.out = <<m>> =>
        /\ m.flags # {TCP_PSH, TCP_ACK}
        /\ m.flags = {TCP_ACK} => /\ state \notin {"CLOSED", "SYN_RECV"}
                                  /\ state = "ESTABLISHED" => TCP_FIN \in cb.flags
                                  /\ state = "SYN_SENT" => r.tsk.state = "ESTABLISHED"
        /\ TCP_FIN \in m.flags => state \in {"FIN_WAIT_2", "CLOSE_WAIT"}

\* The state after it, for the states of an open connection.
StateOK(tsk, state, cb, r) ==
    /\ state \in {"CLOSED", "SYN_RECV", "ESTABLISHED"} /\ TCP_FIN \notin cb.flags =>
           r.tsk.state \in {tsk.state, "CLOSED"}
    /\ state = "SYN_SENT" => r.tsk.state = "ESTABLISHED" \/ r.tsk = tsk
    /\ state # "SYN_SENT" => r.tsk.wait_connect = tsk.wait_connect
    /\ state # "FIN_WAIT_2" => r.tsk.timer = tsk.timer

\* Only payload for a sock that was read as ESTABLISHED is stored, only a bare ACK for
\* such a sock wakes a writer, and the accept queue is entered from SYN_RECV with an ACK.
StoreOK(tsk, state, cb, r) ==
    /\ r.tsk.wait_recv = tsk.wait_recv
    /\ ~ r.stored => r.tsk.rcv_buf = tsk.rcv_buf
    /\ r.stored => /\ state = "ESTABLISHED" /\ cb.flags = {TCP_PSH, TCP_ACK}
                   /\ r.tsk.rcv_buf = tsk.rcv_buf \o cb.data
                   /\ r.tsk.wait_send = tsk.wait_send /\ r.out = <<>>
    /\ \/ r.tsk.wait_send = tsk.wait_send
       \/ r.tsk.wait_send /\ state = "ESTABLISHED" /\ cb.flags = {TCP_ACK}
    /\ r.enqueue => /\ state = "SYN_RECV" /\ r.out = <<>>
                    /\ TCP_ACK \in cb.flags /\ TCP_SYN \notin cb.flags /\ TCP_RST \notin cb.flags

Effect(tsk, state, cb, r) ==
    r \in Results /\ AnswerOK(state, cb, r) /\ StateOK(tsk, state, cb, r) /\ StoreOK(tsk, state, cb, r)

LEMMA ResultEffect ==
    ASSUME NEW t \in Sock, NEW out \in {<<>>} \cup {<<m>> : m \in Seg}
    PROVE  /\ Result(t, out) \in Results
           /\ Result(t, out).tsk = t /\ Result(t, out).out = out
           /\ ~ Result(t, out).enqueue /\ ~ Result(t, out).stored
  BY DEF Result, Results

LEMMA AnswerEffect ==
    ASSUME NEW t \in Sock, NEW flags \in SUBSET Flag
    PROVE  LET r == Answer(t, flags)
           IN  /\ r \in Results /\ r.tsk \in Sock /\ SameButSeq(r.tsk, t)
               /\ \A m : r.out = <<m>> => m.flags = flags
               /\ ~ r.enqueue /\ ~ r.stored
<1> DEFINE u == after_control(t, flags)
           m == tcp_send_control_packet(t, flags)
<1>1. u \in Sock /\ SameButSeq(u, t)
  BY AfterControlType
<1>2. m \in Seg /\ m.flags = flags
  BY ControlType
<1>3. Answer(t, flags) = Result(u, <<m>>)
  BY DEF Answer
<1> HIDE DEF u, m
<1>4. \A n : <<m>> = <<n>> => m = n
  OBVIOUS
<1> QED
  BY <1>1, <1>2, <1>3, <1>4, ResultEffect

\* The sock of steps 8 to 11 is the old one with other acknowledgement numbers.
LEMMA AckedType ==
    ASSUME NEW tsk \in Sock, NEW cb \in Seg
    PROVE  LET t == [tsk EXCEPT !.snd_una = cb.ack, !.rcv_nxt = seq_end(cb)]
           IN  t \in Sock /\ SameButSeq(t, tsk)
<1> DEFINE v == seq_end(cb)
           a == cb.ack
<1>1. v \in Int /\ a \in Int
  BY SeqEndType DEF Seg
<1> HIDE DEF v, a
<1>2. /\ [tsk EXCEPT !.snd_una = a, !.rcv_nxt = v] \in Sock
      /\ SameButSeq([tsk EXCEPT !.snd_una = a, !.rcv_nxt = v], tsk)
  BY <1>1 DEF Sock, SameButSeq
<1> QED
  BY <1>2 DEF v, a

LEMMA SetType ==
    ASSUME NEW tsk \in Sock, NEW s \in States
    PROVE  /\ Set(tsk, s) \in Sock /\ Set(tsk, s).state = s
           /\ SameButSeq(tsk, [Set(tsk, s) EXCEPT !.state = tsk.state])
           /\ Set(tsk, s).rcv_buf = tsk.rcv_buf /\ Set(tsk, s).timer = tsk.timer
           /\ Set(tsk, s).wait_connect = tsk.wait_connect
           /\ Set(tsk, s).wait_send = tsk.wait_send /\ Set(tsk, s).wait_recv = tsk.wait_recv
  BY DEF Set, Sock, SameButSeq

LEMMA SynSentEffect ==
    ASSUME NEW tsk \in Sock, NEW cb \in Seg
    PROVE  Effect(tsk, "SYN_SENT", cb, tcp_state_syn_sent(tsk, cb))
<1> DEFINE r == tcp_state_syn_sent(tsk, cb)
<1>1. CASE cb.flags \cap {TCP_SYN, TCP_ACK} # {}
  <2> DEFINE v == seq_end(cb)
             a == cb.ack
             t == [tsk EXCEPT !.rcv_nxt = v, !.snd_una = a,
                              !.state = "ESTABLISHED", !.wait_connect = TRUE]
  <2>1. v \in Int /\ a \in Int
    BY SeqEndType DEF Seg
  <2>2. r = Answer(t, {TCP_ACK})
    BY <1>1 DEF tcp_state_syn_sent
  <2> HIDE DEF v, a, r
  <2>3. /\ t \in Sock /\ t.state = "ESTABLISHED" /\ t.rcv_buf = tsk.rcv_buf
        /\ t.timer = tsk.timer /\ t.wait_send = tsk.wait_send /\ t.wait_recv = tsk.wait_recv
    BY <2>1 DEF Sock, States, tcp_state
  <2> HIDE DEF t
  <2>4. {TCP_ACK} \in SUBSET Flag
    BY DEF Flag
  <2>5. /\ r \in Results /\ SameButSeq(r.tsk, t)
        /\ \A m : r.out = <<m>> => m.flags = {TCP_ACK}
        /\ ~ r.enqueue /\ ~ r.stored
    BY <2>2, <2>3, <2>4, AnswerEffect
  <2>6. /\ {TCP_ACK} # {TCP_PSH, TCP_ACK} /\ TCP_FIN \notin {TCP_ACK}
    BY DEF TCP_PSH, TCP_ACK, TCP_FIN
  <2>7. Effect(tsk, "SYN_SENT", cb, r)
    BY <2>3, <2>5, <2>6 DEF Effect, AnswerOK, StateOK, StoreOK, SameButSeq
  <2> QED
    BY <2>7 DEF r
<1>2. CASE cb.flags \cap {TCP_SYN, TCP_ACK} = {}
  <2> DEFINE m == tcp_send_reset(cb)
  <2>1. m \in Seg /\ m.flags = {TCP_RST, TCP_ACK}
    BY ResetType
  <2>2. r = Result(tsk, <<m>>)
    BY <1>2 DEF tcp_state_syn_sent
  <2> HIDE DEF m, r
  <2>3. /\ r \in Results /\ r.tsk = tsk /\ r.out = <<m>> /\ ~ r.enqueue /\ ~ r.stored
    BY <2>1, <2>2, ResultEffect
  <2>4. \A n : <<m>> = <<n>> => n.flags = {TCP_RST, TCP_ACK}
    BY <2>1
  <2>5. /\ {TCP_RST, TCP_ACK} # {TCP_PSH, TCP_ACK} /\ TCP_FIN \notin {TCP_RST, TCP_ACK}
        /\ {TCP_RST, TCP_ACK} # {TCP_ACK}
    BY DEF TCP_PSH, TCP_ACK, TCP_FIN, TCP_RST
  <2>6. Effect(tsk, "SYN_SENT", cb, r)
    BY <2>3, <2>4, <2>5 DEF Effect, AnswerOK, StateOK, StoreOK
  <2> QED
    BY <2>6 DEF r
<1> QED
  BY <1>1, <1>2

LEMMA NoOut == \A m : <<>> # <<m>>
  OBVIOUS

LEMMA ProcessAckEffect ==
    ASSUME NEW tsk \in Sock, NEW state \in States \ {"NONE", "CLOSED", "SYN_SENT"}, NEW cb \in Seg,
           TCP_ACK \in cb.flags, TCP_SYN \notin cb.flags, TCP_RST \notin cb.flags,
           ~ (state = "ESTABLISHED" /\ cb.flags = {TCP_PSH, TCP_ACK})
    PROVE  Effect(tsk, state, cb, ProcessAck(tsk, state, cb))
<1> DEFINE r == ProcessAck(tsk, state, cb)
           t == [tsk EXCEPT !.snd_una = cb.ack, !.rcv_nxt = seq_end(cb)]
           acked == cb.ack = t.snd_nxt
<1> SUFFICES Effect(tsk, state, cb, r)
  OBVIOUS
<1>1. t \in Sock /\ SameButSeq(t, tsk)
  BY AckedType
<1>2. r = CASE state = "SYN_RECV" /\ acked -> [Result(t, <<>>) EXCEPT !.enqueue = TRUE]
            [] state = "FIN_WAIT_1" /\ acked -> Answer(Set(t, "FIN_WAIT_2"), {TCP_ACK})
            [] state = "FIN_WAIT_2" ->
                  Answer([t EXCEPT !.state = "TIME_WAIT", !.timer = "on"], {TCP_ACK, TCP_FIN})
            [] state = "ESTABLISHED" /\ TCP_FIN \in cb.flags -> Answer(Set(t, "CLOSE_WAIT"), {TCP_ACK})
            [] state = "CLOSE_WAIT" -> Answer(Set(t, "LAST_ACK"), {TCP_ACK, TCP_FIN})
            [] state = "LAST_ACK" /\ acked -> Result(Set(t, "CLOSED"), <<>>)
            [] state = "ESTABLISHED" /\ cb.flags = {TCP_ACK} ->
                  Result([t EXCEPT !.wait_send = TRUE], <<>>)
            [] OTHER -> Result(t, <<>>)
  BY DEF ProcessAck
<1> HIDE DEF r, t, acked
<1>3. /\ {TCP_ACK} \in SUBSET Flag /\ {TCP_ACK, TCP_FIN} \in SUBSET Flag
      /\ {TCP_ACK} # {TCP_PSH, TCP_ACK} /\ TCP_FIN \notin {TCP_ACK}
      /\ {TCP_ACK, TCP_FIN} # {TCP_PSH, TCP_ACK} /\ {TCP_ACK, TCP_FIN} # {TCP_ACK}
      /\ ~ (TCP_FIN \in {TCP_ACK})
  BY DEF TCP_PSH, TCP_ACK, TCP_FIN, TCP_SYN, TCP_RST, Flag
<1>4. /\ "FIN_WAIT_2" \in States /\ "CLOSE_WAIT" \in States /\ "LAST_ACK" \in States
      /\ "CLOSED" \in States /\ "TIME_WAIT" \in States
  BY DEF States, tcp_state
<1>5. ASSUME NEW u \in Sock, NEW flags \in SUBSET Flag, r = Answer(u, flags),
             u.rcv_buf = tsk.rcv_buf, u.wait_connect = tsk.wait_connect,
             u.wait_send = tsk.wait_send, u.wait_recv = tsk.wait_recv,
             u.timer = tsk.timer \/ state = "FIN_WAIT_2",
             \/ state \in {"FIN_WAIT_1", "FIN_WAIT_2", "CLOSE_WAIT"}
             \/ state = "ESTABLISHED" /\ TCP_FIN \in cb.flags,
             flags # {TCP_PSH, TCP_ACK}, TCP_FIN \in flags => state \in {"FIN_WAIT_2", "CLOSE_WAIT"}
      PROVE  Effect(tsk, state, cb, r)
  <2>1. /\ r \in Results /\ SameButSeq(r.tsk, u)
        /\ \A m : r.out = <<m>> => m.flags = flags
        /\ ~ r.enqueue /\ ~ r.stored
    BY <1>5, AnswerEffect
  <2>2. AnswerOK(state, cb, r)
    BY <1>5, <2>1 DEF AnswerOK
  <2>3. StateOK(tsk, state, cb, r) /\ StoreOK(tsk, state, cb, r)
    BY <1>5, <2>1 DEF StateOK, StoreOK, SameButSeq
  <2> QED
    BY <2>1, <2>2, <2>3 DEF Effect
<1>6. ASSUME NEW u \in Sock, r = Result(u, <<>>),
             u.rcv_buf = tsk.rcv_buf, u.wait_connect = tsk.wait_connect,
             u.wait_recv = tsk.wait_recv, u.timer = tsk.timer,
             \/ u.wait_send = tsk.wait_send
             \/ u.wait_send /\ state = "ESTABLISHED" /\ cb.flags = {TCP_ACK},
             u.state \in {tsk.state, "CLOSED"}
      PROVE  Effect(tsk, state, cb, r)
  <2>1. /\ r \in Results /\ r.tsk = u /\ r.out = <<>> /\ ~ r.enqueue /\ ~ r.stored
    BY <1>6, ResultEffect
  <2>2. AnswerOK(state, cb, r)
    BY <2>1, NoOut DEF AnswerOK
  <2>3. StateOK(tsk, state, cb, r) /\ StoreOK(tsk, state, cb, r)
    BY <1>6, <2>1 DEF StateOK, StoreOK
  <2> QED
    BY <2>1, <2>2, <2>3 DEF Effect
<1>7. CASE state = "SYN_RECV" /\ acked
  <2>1. r = [Result(t, <<>>) EXCEPT !.enqueue = TRUE]
    BY <1>2, <1>7
  <2>2. /\ r \in Results /\ r.tsk = t /\ r.out = <<>> /\ r.enqueue /\ ~ r.stored
    BY <2>1, <1>1 DEF Result, Results
  <2>3. AnswerOK(state, cb, r)
    BY <2>2, NoOut DEF AnswerOK
  <2>4. StateOK(tsk, state, cb, r) /\ StoreOK(tsk, state, cb, r)
    BY <1>1, <1>7, <2>2 DEF StateOK, StoreOK, SameButSeq
  <2> QED
    BY <2>2, <2>3, <2>4 DEF Effect
<1>8. CASE state = "FIN_WAIT_1" /\ acked
  <2> DEFINE u == Set(t, "FIN_WAIT_2")
  <2>1. r = Answer(u, {TCP_ACK})
    BY <1>2, <1>8
  <2>2. /\ u \in Sock /\ u.rcv_buf = t.rcv_buf /\ u.wait_connect = t.wait_connect
        /\ u.wait_send = t.wait_send /\ u.wait_recv = t.wait_recv /\ u.timer = t.timer
    BY <1>1, <1>4, SetType
  <2> HIDE DEF u
  <2> QED
    BY <1>1, <1>3, <1>5, <1>8, <2>1, <2>2 DEF SameButSeq
<1>9. CASE state = "FIN_WAIT_2"
  <2> DEFINE u == [t EXCEPT !.state = "TIME_WAIT", !.timer = "on"]
  <2>1. r = Answer(u, {TCP_ACK, TCP_FIN})
    BY <1>2, <1>9
  <2>2. /\ u \in Sock /\ u.rcv_buf = t.rcv_buf /\ u.wait_connect = t.wait_connect
        /\ u.wait_send = t.wait_send /\ u.wait_recv = t.wait_recv
    BY <1>1, <1>4 DEF Sock
  <2> HIDE DEF u
  <2> QED
    BY <1>1, <1>3, <1>5, <1>9, <2>1, <2>2 DEF SameButSeq
<1>10. CASE state = "ESTABLISHED" /\ TCP_FIN \in cb.flags
  <2> DEFINE u == Set(t, "CLOSE_WAIT")
  <2>1. r = Answer(u, {TCP_ACK})
    BY <1>2, <1>3, <1>10
  <2>2. /\ u \in Sock /\ u.rcv_buf = t.rcv_buf /\ u.wait_connect = t.wait_connect
        /\ u.wait_send = t.wait_send /\ u.wait_recv = t.wait_recv /\ u.timer = t.timer
    BY <1>1, <1>4, SetType
  <2> HIDE DEF u
  <2> QED
    BY <1>1, <1>3, <1>5, <1>10, <2>1, <2>2 DEF SameButSeq
<1>11. CASE state = "CLOSE_WAIT"
  <2> DEFINE u == Set(t, "LAST_ACK")
  <2>1. r = Answer(u, {TCP_ACK, TCP_FIN})
    BY <1>2, <1>11
  <2>2. /\ u \in Sock /\ u.rcv_buf = t.rcv_buf /\ u.wait_connect = t.wait_connect
        /\ u.wait_send = t.wait_send /\ u.wait_recv = t.wait_recv /\ u.timer = t.timer
    BY <1>1, <1>4, SetType
  <2> HIDE DEF u
  <2> QED
    BY <1>1, <1>3, <1>5, <1>11, <2>1, <2>2 DEF SameButSeq
<1>12. CASE state = "LAST_ACK" /\ acked
  <2>1. r = Result(Set(t, "CLOSED"), <<>>)
    BY <1>2, <1>12
  <2> QED
    BY ZenonT(60), <1>1, <1>4, <1>6, <2>1, SetType DEF SameButSeq
<1>13. CASE state = "ESTABLISHED" /\ cb.flags = {TCP_ACK}
  <2> DEFINE u == [t EXCEPT !.wait_send = TRUE]
  <2>1. r = Result(u, <<>>)
    BY <1>2, <1>3, <1>13
  <2>2. /\ u \in Sock /\ u.rcv_buf = t.rcv_buf /\ u.wait_connect = t.wait_connect
        /\ u.wait_send /\ u.wait_recv = t.wait_recv /\ u.timer = t.timer /\ u.state = t.state
    BY <1>1 DEF Sock
  <2> HIDE DEF u
  <2> QED
    BY <1>1, <1>6, <1>13, <2>1, <2>2 DEF SameButSeq
<1>14. CASE ~ \/ state = "SYN_RECV" /\ acked
              \/ state = "FIN_WAIT_1" /\ acked
              \/ state = "FIN_WAIT_2"
              \/ state = "ESTABLISHED" /\ TCP_FIN \in cb.flags
              \/ state = "CLOSE_WAIT"
              \/ state = "LAST_ACK" /\ acked
              \/ state = "ESTABLISHED" /\ cb.flags = {TCP_ACK}
  <2>1. r = Result(t, <<>>)
    BY <1>2, <1>14
  <2> QED
    BY <1>1, <1>6, <2>1 DEF SameButSeq
<1> QED
  BY <1>7, <1>8, <1>9, <1>10, <1>11, <1>12, <1>13, <1>14

\* What tcp_process does to a sock, whatever the segment.
LEMMA ProcessEffect ==
    ASSUME NEW tsk \in Sock, NEW state \in States \ {"NONE"}, NEW cb \in Seg
    PROVE  Effect(tsk, state, cb, tcp_process(tsk, state, cb))
<1> DEFINE r == tcp_process(tsk, state, cb)
           reset == tcp_send_reset(cb)
<1> SUFFICES Effect(tsk, state, cb, r)
  OBVIOUS
<1>1. reset \in Seg /\ reset.flags = {TCP_RST, TCP_ACK}
  BY ResetType
<1>2. /\ {TCP_RST, TCP_ACK} # {TCP_PSH, TCP_ACK} /\ TCP_FIN \notin {TCP_RST, TCP_ACK}
      /\ {TCP_RST, TCP_ACK} # {TCP_ACK} /\ "CLOSED" \in States
  BY DEF TCP_PSH, TCP_ACK, TCP_FIN, TCP_RST, States, tcp_state
<1>3. CASE state = "SYN_SENT"
  BY <1>3, SynSentEffect DEF tcp_process
<1>4. CASE state # "SYN_SENT" /\ \E u \in {tsk, Set(tsk, "CLOSED")}, out \in {<<>>, <<reset>>} :
                                    r = Result(u, out)
  <2>1. PICK u \in {tsk, Set(tsk, "CLOSED")}, out \in {<<>>, <<reset>>} : r = Result(u, out)
    BY <1>4
  <2> DEFINE closed == Set(tsk, "CLOSED")
  <2>a. /\ closed \in Sock /\ closed.state = "CLOSED" /\ closed.rcv_buf = tsk.rcv_buf
        /\ closed.wait_connect = tsk.wait_connect /\ closed.timer = tsk.timer
        /\ closed.wait_recv = tsk.wait_recv /\ closed.wait_send = tsk.wait_send
    BY <1>2, SetType
  <2> HIDE DEF closed
  <2>2. /\ u \in Sock /\ u.state \in {tsk.state, "CLOSED"} /\ u.rcv_buf = tsk.rcv_buf
        /\ u.wait_connect = tsk.wait_connect /\ u.timer = tsk.timer
        /\ u.wait_recv = tsk.wait_recv /\ u.wait_send = tsk.wait_send
    BY <2>a, <2>1 DEF closed
  <2> HIDE DEF r, reset
  <2>3. /\ r \in Results /\ r.tsk = u /\ r.out = out /\ ~ r.enqueue /\ ~ r.stored
    BY <1>1, <2>1, <2>2, ResultEffect
  <2>4. \A m : out = <<m>> => m.flags = {TCP_RST, TCP_ACK}
    BY <1>1
  <2>5. AnswerOK(state, cb, r)
    BY <1>2, <2>3, <2>4 DEF AnswerOK
  <2>6. StateOK(tsk, state, cb, r) /\ StoreOK(tsk, state, cb, r)
    BY <1>4, <2>2, <2>3 DEF StateOK, StoreOK
  <2> QED
    BY <2>3, <2>5, <2>6 DEF Effect
<1>5. CASE /\ state = "ESTABLISHED" /\ cb.flags = {TCP_PSH, TCP_ACK}
           /\ r = [Result(tcp_rcv_data_packet(tsk, cb), <<>>) EXCEPT !.stored = TRUE]
  <2> DEFINE b == tsk.rcv_buf \o cb.data
             w == tsk.rcv_wnd - Len(cb.data)
             u == [tsk EXCEPT !.rcv_buf = b, !.rcv_wnd = w]
  <2>1. b \in Seq(Byte) /\ w \in Int
    BY LenProperties, ConcatProperties DEF Sock, Seg
  <2>2. r = [Result(u, <<>>) EXCEPT !.stored = TRUE]
    BY <1>5 DEF tcp_rcv_data_packet
  <2> HIDE DEF b, w, r
  <2>3. /\ u \in Sock /\ u.state = tsk.state /\ u.rcv_buf = b /\ u.timer = tsk.timer
        /\ u.wait_connect = tsk.wait_connect /\ u.wait_recv = tsk.wait_recv
        /\ u.wait_send = tsk.wait_send
    BY <2>1 DEF Sock
  <2> HIDE DEF u
  <2>4. r \in Results /\ r.tsk = u /\ r.out = <<>> /\ ~ r.enqueue /\ r.stored
    BY <2>2, <2>3 DEF Result, Results
  <2>5. AnswerOK(state, cb, r)
    BY <2>4, NoOut DEF AnswerOK
  <2>6. StateOK(tsk, state, cb, r) /\ StoreOK(tsk, state, cb, r)
    BY <1>5, <2>3, <2>4 DEF StateOK, StoreOK, b
  <2> QED
    BY <2>4, <2>5, <2>6 DEF Effect
<1>6. CASE /\ state \notin {"CLOSED", "SYN_SENT"}
           /\ TCP_ACK \in cb.flags /\ TCP_SYN \notin cb.flags /\ TCP_RST \notin cb.flags
           /\ ~ (state = "ESTABLISHED" /\ cb.flags = {TCP_PSH, TCP_ACK})
           /\ r = ProcessAck(tsk, state, cb)
  BY <1>6, ProcessAckEffect
<1>7. CASE state = "CLOSED"
  <2>1. r = Result(tsk, <<reset>>)
    BY <1>7 DEF tcp_process
  <2> QED
    BY <1>4, <1>7, <2>1
<1>8. CASE state \notin {"CLOSED", "SYN_SENT"}
  <2>1. r = IF ~ is_tcp_seq_valid(tsk, cb) THEN Result(tsk, <<>>)
            ELSE IF TCP_RST \in cb.flags THEN Result(Set(tsk, "CLOSED"), <<>>)
            ELSE IF TCP_SYN \in cb.flags THEN Result(Set(tsk, "CLOSED"), <<reset>>)
            ELSE IF TCP_ACK \notin cb.flags THEN Result(tsk, <<reset>>)
            ELSE IF state = "ESTABLISHED" /\ cb.flags = {TCP_PSH, TCP_ACK}
                 THEN [Result(tcp_rcv_data_packet(tsk, cb), <<>>) EXCEPT !.stored = TRUE]
            ELSE ProcessAck(tsk, state, cb)
    BY <1>8 DEF tcp_process
  <2> HIDE DEF r, reset
  <2> QED
    BY <1>4, <1>5, <1>6, <1>8, <2>1
<1> QED
  BY <1>3, <1>7, <1>8

--------------------------------------------------------------------------------
(* Type correctness.                                                           *)

LEMMA MainCases ==
    ASSUME NEW m \in {Idle, Wake, Owe} \cup Busy
    PROVE  /\ m.at = "idle" => m = Idle
           /\ m.at = "wake" => m = Wake
           /\ m.at = "ack" => m = Owe
           /\ m.at = "process" => m \in Busy /\ m.cb \in Seg /\ m.state \in States
           /\ m.at \in {"idle", "wake", "ack", "process"}
  BY DEF Idle, Wake, Owe, Busy

LEMMA PeerType == ASSUME NEW h \in Host
                  PROVE  Peer(h) \in Host /\ Peer(h) # h /\ Peer(Peer(h)) = h
  BY DEF Host, Peer

\* A segment more on the wire to the peer.
LEMMA SendType ==
    ASSUME NEW h \in Host, net \in [Host -> Seq(Seg)],
           NEW out \in {<<>>} \cup {<<m>> : m \in Seg}, Send(h, out)
    PROVE  /\ net' \in [Host -> Seq(Seg)]
           /\ net'[h] = net[h]
           /\ net'[Peer(h)] = net[Peer(h)] \o out
           /\ out = <<>> => net' = net
<1> DEFINE p == Peer(h)
           s == net[p] \o out
<1>1. p \in Host /\ p # h
  BY PeerType
<1>2. net' = [net EXCEPT ![p] = s]
  BY DEF Send
<1>3. out \in Seq(Seg)
  <2>1. \A m \in Seg : <<m>> \in Seq(Seg)
    OBVIOUS
  <2>2. <<>> \in Seq(Seg)
    OBVIOUS
  <2> QED
    BY <2>1, <2>2
<1>4. s \in Seq(Seg)
  BY <1>1, <1>3, ConcatProperties
<1>5. out = <<>> => s = net[p]
  BY <1>1, ConcatEmptySeq
<1> HIDE DEF s, p
<1>6. /\ net' \in [Host -> Seq(Seg)] /\ net'[h] = net[h] /\ net'[p] = s
      /\ s = net[p] => net' = net
  BY <1>1, <1>2, <1>4
<1> QED
  BY <1>5, <1>6 DEF s, p

LEMMA GotoType ==
    ASSUME NEW h \in Host, NEW pc \in Pc \ {"write", "emit"}, Types, Goto(h, pc)
    PROVE  /\ app' \in [Host -> App]
           /\ \A g \in Host : /\ app'[g].pc = "write" => app'[g].buf \in Seq(Byte)
                              /\ app'[g].pc = "emit" => app'[g].buf \in Seg
           /\ app'[h].pc = pc /\ app'[h].buf = app[h].buf /\ app'[h].i = app[h].i
           /\ \A g \in Host : g # h => app'[g] = app[g]
<1>1. app \in [Host -> App] /\ app[h] \in App
  BY DEF Types
<1> DEFINE a == [app[h] EXCEPT !.pc = pc]
<1>2. a \in App /\ a.pc = pc /\ a.buf = app[h].buf /\ a.i = app[h].i
  BY <1>1 DEF App
<1>3. app' = [app EXCEPT ![h] = a]
  BY DEF Goto
<1> HIDE DEF a
<1>4. app' \in [Host -> App] /\ app'[h] = a /\ \A g \in Host : g # h => app'[g] = app[g]
  BY <1>1, <1>2, <1>3
<1> QED
  BY <1>2, <1>4 DEF Types

LEMMA InitTypes == Init => Types
<1> SUFFICES ASSUME Init PROVE Types
  OBVIOUS
<1>1. sk \in [Host -> Sock]
  <2>1. \A s \in States : [alloc_tcp_sock EXCEPT !.state = s] \in Sock
    BY AllocType DEF Sock
  <2>2. \A h \in Host : (IF h = "server" THEN "NONE" ELSE "CLOSED") \in States
    BY DEF States, tcp_state
  <2> QED
    BY <2>1, <2>2 DEF Init
<1>2. backlog \in [n : Int, wait_accept : BOOLEAN]
  BY DEF Init
<1>3. /\ app \in [Host -> App]
      /\ \A h \in Host : app[h].pc \notin {"write", "emit"}
  <2> DEFINE a(h) == [pc |-> IF h = "client" THEN "connect" ELSE "accept", buf |-> <<>>, i |-> 0]
  <2>1. \A h \in Host : a(h) \in App /\ a(h).pc \notin {"write", "emit"}
    <3>1. <<>> \in Seq(Byte) \cup Seg
      OBVIOUS
    <3> QED
      BY <3>1 DEF App, Pc
  <2>2. app = [h \in Host |-> a(h)]
    BY DEF Init
  <2> HIDE DEF a
  <2> QED
    BY <2>1, <2>2
<1>4. /\ main \in [Host -> {Idle, Wake, Owe} \cup Busy] /\ net \in [Host -> Seq(Seg)]
      /\ wrote \in [Host -> Seq(Byte)] /\ got \in [Host -> Seq(Byte)] /\ early \in BOOLEAN
  <2>1. \A S : [h \in Host |-> <<>>] \in [Host -> Seq(S)]
    OBVIOUS
  <2>2. [h \in Host |-> Idle] \in [Host -> {Idle, Wake, Owe} \cup Busy]
    OBVIOUS
  <2> QED
    BY <2>1, <2>2 DEF Init
<1> QED
  BY <1>1, <1>2, <1>3, <1>4 DEF Types

\* Each of the next lemmas says what one step changes, and that the types are kept.
LEMMA ReceiveStep ==
    ASSUME NEW h \in Host, Types, Receive(h)
    PROVE  /\ Types'
           /\ net[h] \in Seq(Seg) /\ net[h] # <<>> /\ main[h] = Idle
           /\ net'[h] = Tail(net[h]) /\ net'[Peer(h)] = net[Peer(h)]
           /\ main'[h] \in Busy /\ main'[h].cb = Head(net[h]) /\ main'[h].state = sk[h].state
           /\ main'[h].at = "process" /\ main'[Peer(h)] = main[Peer(h)]
           /\ UNCHANGED <<sk, backlog, app, wrote, got, early>>
<1> DEFINE s == Tail(net[h])
           b == [at |-> "process", cb |-> Head(net[h]), state |-> sk[h].state]
<1>1. /\ net \in [Host -> Seq(Seg)] /\ net[h] \in Seq(Seg) /\ net[h] # <<>>
      /\ main \in [Host -> {Idle, Wake, Owe} \cup Busy] /\ main[h] = Idle /\ sk[h] \in Sock
      /\ Peer(h) \in Host /\ Peer(h) # h
  BY MainCases, PeerType DEF Types, Receive
<1>2. s \in Seq(Seg) /\ Head(net[h]) \in Seg
  BY <1>1, HeadTailProperties
<1>3. b \in Busy /\ b.cb = Head(net[h]) /\ b.state = sk[h].state /\ b.at = "process"
  BY <1>1, <1>2 DEF Busy, Sock
<1>4. /\ net' = [net EXCEPT ![h] = s] /\ main' = [main EXCEPT ![h] = b]
      /\ UNCHANGED <<sk, backlog, app, wrote, got, early>>
  BY DEF Receive
<1> HIDE DEF s, b
<1>5. /\ net' \in [Host -> Seq(Seg)] /\ net'[h] = s /\ net'[Peer(h)] = net[Peer(h)]
      /\ main' \in [Host -> {Idle, Wake, Owe} \cup Busy] /\ main'[h] = b
      /\ main'[Peer(h)] = main[Peer(h)]
  BY <1>1, <1>2, <1>3, <1>4
<1>6. Types'
  BY <1>4, <1>5 DEF Types
<1> QED
  BY <1>1, <1>3, <1>4, <1>5, <1>6 DEF s

LEMMA ProcessStep ==
    ASSUME NEW h \in Host, Types, Process(h)
    PROVE  /\ Types'
           /\ main[h] \in Busy /\ main[h].at = "process" /\ main[h].state # "NONE"
           /\ main[h].cb \in Seg
           /\ \E r : /\ Effect(sk[h], main[h].state, main[h].cb, r)
                     /\ sk'[h] = r.tsk /\ sk'[Peer(h)] = sk[Peer(h)]
                     /\ net'[h] = net[h] /\ net'[Peer(h)] = net[Peer(h)] \o r.out
                     /\ main'[h] = IF r.stored THEN Wake ELSE Idle
                     /\ main'[Peer(h)] = main[Peer(h)]
                     /\ ~ r.enqueue => backlog' = backlog
                     /\ UNCHANGED <<app, wrote, got>>
<1> DEFINE m == main[h]
           r == tcp_process(sk[h], m.state, m.cb)
           b == IF r.stored THEN Wake ELSE Idle
<1>1. /\ m \in Busy /\ m.at = "process" /\ m.state \in States \ {"NONE"} /\ m.cb \in Seg
      /\ sk \in [Host -> Sock] /\ sk[h] \in Sock /\ net \in [Host -> Seq(Seg)]
      /\ main \in [Host -> {Idle, Wake, Owe} \cup Busy] /\ Peer(h) \in Host /\ Peer(h) # h
  BY MainCases, PeerType DEF Types, Process
<1>2. Effect(sk[h], m.state, m.cb, r)
  BY <1>1, ProcessEffect
<1>3. /\ sk' = [sk EXCEPT ![h] = r.tsk]
      /\ Send(h, r.out)
      /\ backlog' = IF r.enqueue THEN [n |-> backlog.n + 1, wait_accept |-> TRUE] ELSE backlog
      /\ main' = [main EXCEPT ![h] = b]
      /\ early' = (early \/ (m.cb.data # <<>> /\ m.state = "SYN_RECV"))
      /\ UNCHANGED <<app, wrote, got>>
  BY DEF Process, Wake
<1> HIDE DEF r
<1>4. r.tsk \in Sock /\ r.out \in {<<>>} \cup {<<n>> : n \in Seg} /\ r.stored \in BOOLEAN
  BY <1>2 DEF Effect, Results
<1>5. b \in {Idle, Wake}
  OBVIOUS
<1> HIDE DEF b
<1>6. /\ sk' \in [Host -> Sock] /\ sk'[h] = r.tsk /\ sk'[Peer(h)] = sk[Peer(h)]
      /\ main' \in [Host -> {Idle, Wake, Owe} \cup Busy] /\ main'[h] = b
      /\ main'[Peer(h)] = main[Peer(h)]
  BY <1>1, <1>3, <1>4, <1>5
<1>7. /\ net' \in [Host -> Seq(Seg)] /\ net'[h] = net[h]
      /\ net'[Peer(h)] = net[Peer(h)] \o r.out
  BY <1>1, <1>3, <1>4, SendType
<1>8. backlog' \in [n : Int, wait_accept : BOOLEAN]
  BY <1>3 DEF Types
<1>9. early' \in BOOLEAN
  <2> DEFINE x == m.cb.data # <<>> /\ m.state = "SYN_RECV"
  <2>1. x \in BOOLEAN /\ early \in BOOLEAN /\ early' = (early \/ x)
    BY <1>3 DEF Types
  <2> HIDE DEF x
  <2> QED
    BY <2>1
<1>10. Types'
  BY <1>3, <1>6, <1>7, <1>8, <1>9 DEF Types
<1> QED
  BY <1>1, <1>2, <1>3, <1>6, <1>7, <1>10 DEF b

LEMMA WakeStep ==
    ASSUME NEW h \in Host, Types, WakeReader(h)
    PROVE  /\ Types'
           /\ main[h] = Wake /\ main'[h] = Owe /\ main'[Peer(h)] = main[Peer(h)]
           /\ sk'[h].wait_recv /\ sk'[h].rcv_buf = sk[h].rcv_buf
           /\ sk'[h].state = sk[h].state /\ sk'[h].timer = sk[h].timer
           /\ sk'[h].wait_connect = sk[h].wait_connect /\ sk'[h].wait_send = sk[h].wait_send
           /\ sk'[Peer(h)] = sk[Peer(h)]
           /\ UNCHANGED <<backlog, app, net, wrote, got>>
<1> DEFINE u == [sk[h] EXCEPT !.wait_recv = TRUE]
<1>1. /\ main[h] = Wake /\ sk \in [Host -> Sock] /\ sk[h] \in Sock
      /\ main \in [Host -> {Idle, Wake, Owe} \cup Busy] /\ Peer(h) \in Host /\ Peer(h) # h
  BY MainCases, PeerType DEF Types, WakeReader
<1>2. /\ sk' = [sk EXCEPT ![h] = u] /\ main' = [main EXCEPT ![h] = Owe]
      /\ UNCHANGED <<backlog, app, net, wrote, got, early>>
  BY DEF WakeReader, Owe
<1>3. /\ u \in Sock /\ u.wait_recv = TRUE /\ u.state = sk[h].state /\ u.rcv_buf = sk[h].rcv_buf
      /\ u.timer = sk[h].timer /\ u.wait_connect = sk[h].wait_connect
      /\ u.wait_send = sk[h].wait_send
  BY <1>1 DEF Sock
<1> HIDE DEF u
<1>4. /\ sk' \in [Host -> Sock] /\ sk'[h] = u /\ sk'[Peer(h)] = sk[Peer(h)]
      /\ main' \in [Host -> {Idle, Wake, Owe} \cup Busy] /\ main'[h] = Owe
      /\ main'[Peer(h)] = main[Peer(h)]
  BY <1>1, <1>2, <1>3
<1>5. Types'
  BY <1>2, <1>4 DEF Types
<1> QED
  BY <1>1, <1>2, <1>3, <1>4, <1>5

LEMMA AckStep ==
    ASSUME NEW h \in Host, Types, Acknowledge(h)
    PROVE  /\ Types'
           /\ main[h] = Owe /\ main'[h] = Idle /\ main'[Peer(h)] = main[Peer(h)]
           /\ sk'[h].wait_recv = sk[h].wait_recv /\ sk'[h].rcv_buf = sk[h].rcv_buf
           /\ sk'[h].state = sk[h].state /\ sk'[h].timer = sk[h].timer
           /\ sk'[h].wait_connect = sk[h].wait_connect /\ sk'[h].wait_send = sk[h].wait_send
           /\ sk'[Peer(h)] = sk[Peer(h)]
           /\ \E m \in Seg : /\ m.flags = {TCP_ACK}
                             /\ net'[h] = net[h] /\ net'[Peer(h)] = net[Peer(h)] \o <<m>>
           /\ UNCHANGED <<backlog, app, wrote, got>>
<1> DEFINE t == after_control(sk[h], {TCP_ACK})
           m == tcp_send_control_packet(sk[h], {TCP_ACK})
<1>1. /\ main[h] = Owe /\ sk \in [Host -> Sock] /\ sk[h] \in Sock
      /\ net \in [Host -> Seq(Seg)] /\ main \in [Host -> {Idle, Wake, Owe} \cup Busy]
      /\ Peer(h) \in Host /\ Peer(h) # h
  BY MainCases, PeerType DEF Types, Acknowledge
<1>2. {TCP_ACK} \in SUBSET Flag
  BY DEF Flag
<1>3. t \in Sock /\ SameButSeq(t, sk[h]) /\ m \in Seg /\ m.flags = {TCP_ACK}
  BY <1>1, <1>2, AfterControlType, ControlType
<1>4. /\ sk' = [sk EXCEPT ![h] = t] /\ Send(h, <<m>>) /\ main' = [main EXCEPT ![h] = Idle]
      /\ UNCHANGED <<backlog, app, wrote, got, early>>
  BY DEF Acknowledge
<1> HIDE DEF t, m
<1>6. /\ sk' \in [Host -> Sock] /\ sk'[h] = t /\ sk'[Peer(h)] = sk[Peer(h)]
      /\ main' \in [Host -> {Idle, Wake, Owe} \cup Busy] /\ main'[h] = Idle
      /\ main'[Peer(h)] = main[Peer(h)]
  BY <1>1, <1>3, <1>4
<1>7. <<m>> \in {<<n>> : n \in Seg}
  BY <1>3
<1>8. /\ net' \in [Host -> Seq(Seg)] /\ net'[h] = net[h]
      /\ net'[Peer(h)] = net[Peer(h)] \o <<m>>
  BY <1>1, <1>4, <1>7, SendType
<1>9. Types'
  BY <1>4, <1>6, <1>8 DEF Types
<1> QED
  BY <1>1, <1>3, <1>4, <1>6, <1>8, <1>9 DEF SameButSeq

\* A sock that is new but for its numbers and its state.
LEMMA NewSock ==
    ASSUME NEW t \in Sock, t.rcv_buf = <<>>, t.timer = "off",
           ~ t.wait_connect, ~ t.wait_send, ~ t.wait_recv,
           NEW flags \in SUBSET Flag
    PROVE  LET u == after_control(t, flags)
           IN  /\ u \in Sock /\ u.rcv_buf = <<>> /\ u.timer = "off" /\ u.state = t.state
               /\ ~ u.wait_connect /\ ~ u.wait_send /\ ~ u.wait_recv
  BY AfterControlType DEF SameButSeq

LEMMA ListenStep ==
    ASSUME Types, tcp_state_listen
    PROVE  /\ Types'
           /\ main["server"].at = "process" /\ main["server"].state = "NONE"
           /\ main'["server"] = Idle /\ main'["client"] = main["client"]
           /\ sk'["server"].state = "SYN_RECV" /\ sk'["server"].rcv_buf = <<>>
           /\ sk'["server"].timer = "off" /\ ~ sk'["server"].wait_send
           /\ sk'["client"] = sk["client"]
           /\ \E m \in Seg : /\ m.flags = {TCP_SYN, TCP_ACK}
                             /\ net'["server"] = net["server"]
                             /\ net'["client"] = net["client"] \o <<m>>
           /\ UNCHANGED <<backlog, app, wrote, got>>
<1> DEFINE e == seq_end(main["server"].cb)
           fl == {TCP_SYN, TCP_ACK}
           new(iss) == [alloc_tcp_sock EXCEPT !.rcv_nxt = e, !.snd_nxt = iss, !.state = "SYN_RECV"]
<1>1. PICK iss \in ISS : /\ sk' = [sk EXCEPT !["server"] = after_control(new(iss), fl)]
                         /\ Send("server", <<tcp_send_control_packet(new(iss), fl)>>)
  BY DEF tcp_state_listen
<1>2. /\ main' = [main EXCEPT !["server"] = Idle] /\ UNCHANGED <<backlog, app, wrote, got, early>>
      /\ main["server"].at = "process" /\ main["server"].state = "NONE"
  BY DEF tcp_state_listen
<1>3. /\ sk \in [Host -> Sock] /\ net \in [Host -> Seq(Seg)] /\ fl \in SUBSET Flag
      /\ main \in [Host -> {Idle, Wake, Owe} \cup Busy] /\ "server" \in Host /\ "client" \in Host
      /\ Peer("server") = "client"
  BY DEF Types, Host, Peer, Flag
<1>4. e \in Int /\ iss \in Int
  <2>1. e \in Int
    BY <1>2, <1>3, MainCases, SeqEndType
  <2>2. \A k : ISS \subseteq 0 .. k => \A x \in ISS : x \in Int
    OBVIOUS
  <2> QED
    BY <2>1, <2>2, StreamAssumption
<1> HIDE DEF e
<1>5. /\ new(iss) \in Sock /\ new(iss).rcv_buf = <<>> /\ new(iss).timer = "off"
      /\ ~ new(iss).wait_connect /\ ~ new(iss).wait_send /\ ~ new(iss).wait_recv
      /\ new(iss).state = "SYN_RECV"
  <2> DEFINE a == alloc_tcp_sock
  <2>1. /\ a \in Sock /\ a.rcv_buf = <<>> /\ a.timer = "off"
        /\ ~ a.wait_connect /\ ~ a.wait_send /\ ~ a.wait_recv
    BY AllocType DEF alloc_tcp_sock
  <2>2. "SYN_RECV" \in States
    BY DEF States, tcp_state
  <2> HIDE DEF a
  <2>3. new(iss) = [a EXCEPT !.rcv_nxt = e, !.snd_nxt = iss, !.state = "SYN_RECV"]
    BY DEF a
  <2> QED
    BY <1>4, <2>1, <2>2, <2>3 DEF Sock
<1> DEFINE u == after_control(new(iss), fl)
           m == tcp_send_control_packet(new(iss), fl)
<1> HIDE DEF new
<1>6. /\ u \in Sock /\ u.rcv_buf = <<>> /\ u.timer = "off" /\ u.state = "SYN_RECV" /\ ~ u.wait_send
  BY <1>3, <1>5, NewSock
<1>7. m \in Seg /\ m.flags = fl
  BY <1>3, <1>5, ControlType
<1>8. sk' = [sk EXCEPT !["server"] = u] /\ Send("server", <<m>>)
  BY <1>1
<1> HIDE DEF u, m, fl
<1>9. /\ sk' \in [Host -> Sock] /\ sk'["server"] = u /\ sk'["client"] = sk["client"]
      /\ main' \in [Host -> {Idle, Wake, Owe} \cup Busy] /\ main'["server"] = Idle
      /\ main'["client"] = main["client"]
  BY <1>2, <1>3, <1>6, <1>8
<1>10. <<m>> \in {<<n>> : n \in Seg}
  BY <1>7
<1>11. /\ net' \in [Host -> Seq(Seg)] /\ net'["server"] = net["server"]
       /\ net'["client"] = net["client"] \o <<m>>
  BY <1>3, <1>8, <1>10, SendType
<1>12. Types'
  BY <1>2, <1>9, <1>11 DEF Types
<1> QED
  BY <1>2, <1>6, <1>7, <1>9, <1>11, <1>12 DEF fl

LEMMA ConnectStep ==
    ASSUME Types, tcp_sock_connect
    PROVE  /\ Types'
           /\ app["client"].pc = "connect" /\ app'["client"].pc = "connecting"
           /\ app'["server"] = app["server"]
           /\ sk'["client"].state = "SYN_SENT" /\ sk'["client"].rcv_buf = <<>>
           /\ sk'["client"].timer = "off" /\ ~ sk'["client"].wait_send
           /\ ~ sk'["client"].wait_connect /\ sk'["server"] = sk["server"]
           /\ \E m \in Seg : /\ m.flags = {TCP_SYN}
                             /\ net'["client"] = net["client"]
                             /\ net'["server"] = net["server"] \o <<m>>
           /\ UNCHANGED <<backlog, main, wrote, got>>
<1> DEFINE fl == {TCP_SYN}
           new(iss) == [alloc_tcp_sock EXCEPT !.snd_nxt = iss, !.state = "SYN_SENT"]
<1>1. PICK iss \in ISS : /\ sk' = [sk EXCEPT !["client"] = after_control(new(iss), fl)]
                         /\ Send("client", <<tcp_send_control_packet(new(iss), fl)>>)
  BY DEF tcp_sock_connect
<1>2. /\ Goto("client", "connecting") /\ UNCHANGED <<backlog, main, wrote, got, early>>
      /\ app["client"].pc = "connect"
  BY DEF tcp_sock_connect
<1>3. /\ sk \in [Host -> Sock] /\ net \in [Host -> Seq(Seg)] /\ fl \in SUBSET Flag
      /\ "server" \in Host /\ "client" \in Host /\ Peer("client") = "server"
      /\ "connecting" \in Pc \ {"write", "emit"}
  BY DEF Types, Host, Peer, Flag, Pc
<1>4. iss \in Int
  <2>1. \A k : ISS \subseteq 0 .. k => \A x \in ISS : x \in Int
    OBVIOUS
  <2> QED
    BY <2>1, StreamAssumption
<1>5. /\ new(iss) \in Sock /\ new(iss).rcv_buf = <<>> /\ new(iss).timer = "off"
      /\ ~ new(iss).wait_connect /\ ~ new(iss).wait_send /\ ~ new(iss).wait_recv
      /\ new(iss).state = "SYN_SENT"
  <2> DEFINE a == alloc_tcp_sock
  <2>1. /\ a \in Sock /\ a.rcv_buf = <<>> /\ a.timer = "off"
        /\ ~ a.wait_connect /\ ~ a.wait_send /\ ~ a.wait_recv
    BY AllocType DEF alloc_tcp_sock
  <2>2. "SYN_SENT" \in States
    BY DEF States, tcp_state
  <2> HIDE DEF a
  <2>3. new(iss) = [a EXCEPT !.snd_nxt = iss, !.state = "SYN_SENT"]
    BY DEF a
  <2> QED
    BY <1>4, <2>1, <2>2, <2>3 DEF Sock
<1> DEFINE u == after_control(new(iss), fl)
           m == tcp_send_control_packet(new(iss), fl)
<1> HIDE DEF new
<1>6. /\ u \in Sock /\ u.rcv_buf = <<>> /\ u.timer = "off" /\ u.state = "SYN_SENT"
      /\ ~ u.wait_send /\ ~ u.wait_connect
  BY <1>3, <1>5, NewSock
<1>7. m \in Seg /\ m.flags = fl
  BY <1>3, <1>5, ControlType
<1>8. sk' = [sk EXCEPT !["client"] = u] /\ Send("client", <<m>>)
  BY <1>1
<1> HIDE DEF u, m, fl
<1>9. sk' \in [Host -> Sock] /\ sk'["client"] = u /\ sk'["server"] = sk["server"]
  BY <1>3, <1>6, <1>8
<1>10. <<m>> \in {<<n>> : n \in Seg}
  BY <1>7
<1>11. /\ net' \in [Host -> Seq(Seg)] /\ net'["client"] = net["client"]
       /\ net'["server"] = net["server"] \o <<m>>
  BY <1>3, <1>8, <1>10, SendType
<1>12. /\ app' \in [Host -> App] /\ app'["client"].pc = "connecting"
       /\ app'["server"] = app["server"]
       /\ \A g \in Host : /\ app'[g].pc = "write" => app'[g].buf \in Seq(Byte)
                          /\ app'[g].pc = "emit" => app'[g].buf \in Seg
  BY <1>2, <1>3, GotoType
<1>13. Types'
  BY <1>2, <1>9, <1>11, <1>12 DEF Types
<1> QED
  BY <1>2, <1>6, <1>7, <1>9, <1>11, <1>12, <1>13 DEF fl

\* A step that assigns one field of a sock, of the four that are no numbers.
LEMMA ConnectField ==
    ASSUME NEW t \in Sock, NEW b \in BOOLEAN
    PROVE  LET u == [t EXCEPT !.wait_connect = b]
           IN  /\ u \in Sock /\ u.wait_connect = b
               /\ u.state = t.state /\ u.rcv_buf = t.rcv_buf /\ u.timer = t.timer
               /\ u.wait_send = t.wait_send /\ u.wait_recv = t.wait_recv
  BY DEF Sock

LEMMA SendField ==
    ASSUME NEW t \in Sock, NEW b \in BOOLEAN
    PROVE  LET u == [t EXCEPT !.wait_send = b]
           IN  /\ u \in Sock /\ u.wait_send = b
               /\ u.state = t.state /\ u.rcv_buf = t.rcv_buf /\ u.timer = t.timer
               /\ u.wait_connect = t.wait_connect /\ u.wait_recv = t.wait_recv
  BY DEF Sock

LEMMA RecvField ==
    ASSUME NEW t \in Sock, NEW b \in BOOLEAN
    PROVE  LET u == [t EXCEPT !.wait_recv = b]
           IN  /\ u \in Sock /\ u.wait_recv = b
               /\ u.state = t.state /\ u.rcv_buf = t.rcv_buf /\ u.timer = t.timer
               /\ u.wait_connect = t.wait_connect /\ u.wait_send = t.wait_send
  BY DEF Sock

LEMMA StateField ==
    ASSUME NEW t \in Sock, NEW b \in States
    PROVE  LET u == [t EXCEPT !.state = b]
           IN  /\ u \in Sock /\ u.state = b
               /\ u.rcv_buf = t.rcv_buf /\ u.timer = t.timer /\ u.wait_connect = t.wait_connect
               /\ u.wait_send = t.wait_send /\ u.wait_recv = t.wait_recv
  BY DEF Sock

LEMMA ConnectedStep ==
    ASSUME Types, Connected
    PROVE  /\ Types'
           /\ app["client"].pc = "connecting" /\ app'["client"].pc = "write"
           /\ app'["server"] = app["server"] /\ sk["client"].wait_connect
           /\ SameButSeq(sk'["client"], [sk["client"] EXCEPT !.wait_connect = FALSE])
           /\ sk'["client"].state = sk["client"].state
           /\ sk'["client"].rcv_buf = sk["client"].rcv_buf
           /\ sk'["client"].timer = sk["client"].timer
           /\ sk'["client"].wait_send = sk["client"].wait_send
           /\ sk'["server"] = sk["server"]
           /\ UNCHANGED <<backlog, main, net, wrote, got>>
<1> DEFINE u == [sk["client"] EXCEPT !.wait_connect = FALSE]
           a == [pc |-> "write", buf |-> Bulk(1), i |-> 1]
<1>1. /\ sk' = [sk EXCEPT !["client"] = u] /\ app' = [app EXCEPT !["client"] = a]
      /\ app["client"].pc = "connecting" /\ sk["client"].wait_connect
      /\ UNCHANGED <<backlog, main, net, wrote, got, early>>
  BY DEF Connected
<1>2. /\ sk \in [Host -> Sock] /\ app \in [Host -> App] /\ "client" \in Host /\ "server" \in Host
      /\ sk["client"] \in Sock
  BY DEF Types, Host
<1>3. /\ u \in Sock /\ u.state = sk["client"].state /\ u.rcv_buf = sk["client"].rcv_buf
      /\ u.timer = sk["client"].timer /\ u.wait_send = sk["client"].wait_send
      /\ u.wait_recv = sk["client"].wait_recv /\ u.wait_connect = FALSE
  BY <1>2, ConnectField
<1>4. a \in App /\ a.pc = "write" /\ a.buf \in Seq(Byte)
  <2>1. Bulk(1) \in Seq(Byte)
    BY DEF Bulk, Byte
  <2> QED
    BY <2>1 DEF App, Pc
<1>5. SameButSeq(u, u)
  BY DEF SameButSeq
<1> HIDE DEF a
<1>6. app' \in [Host -> App] /\ app'["client"] = a /\ app'["server"] = app["server"]
  BY <1>1, <1>2, <1>4
<1>7. sk' \in [Host -> Sock] /\ sk'["client"] = u /\ sk'["server"] = sk["server"]
  <2> HIDE DEF u
  <2> QED
    BY <1>1, <1>2, <1>3
<1>8. Types'
  <2>1. \A h \in Host : /\ app'[h].pc = "write" => app'[h].buf \in Seq(Byte)
                        /\ app'[h].pc = "emit" => app'[h].buf \in Seg
    BY <1>4, <1>6 DEF Types, Host
  <2> QED
    BY <1>1, <1>6, <1>7, <2>1 DEF Types
<1> QED
  BY <1>1, <1>3, <1>4, <1>5, <1>6, <1>7, <1>8

\* The two steps of accept before the dequeue change nothing but backlog.wait_accept.
LEMMA AcceptStep ==
    ASSUME Types, AcceptTest \/ AcceptWoken
    PROVE  /\ Types'
           /\ app["server"].pc \in {"accept", "accepting"}
           /\ app'["server"].pc \in {"accepting", "dequeue"} /\ app'["client"] = app["client"]
           /\ backlog'.n = backlog.n
           /\ UNCHANGED <<sk, main, net, wrote, got>>
<1>1. PICK pc \in {"accepting", "dequeue"} : Goto("server", pc)
  BY DEF AcceptTest, AcceptWoken
<1>2. /\ app["server"].pc \in {"accept", "accepting"}
      /\ UNCHANGED <<sk, main, net, wrote, got, early>>
      /\ backlog' = backlog \/ backlog' = [backlog EXCEPT !.wait_accept = FALSE]
  BY DEF AcceptTest, AcceptWoken
<1>3. /\ pc \in Pc \ {"write", "emit"} /\ "client" \in Host /\ "server" \in Host
      /\ backlog \in [n : Int, wait_accept : BOOLEAN]
  BY DEF Pc, Host, Types
<1>4. /\ app' \in [Host -> App] /\ app'["server"].pc = pc /\ app'["client"] = app["client"]
      /\ \A g \in Host : /\ app'[g].pc = "write" => app'[g].buf \in Seq(Byte)
                         /\ app'[g].pc = "emit" => app'[g].buf \in Seg
  BY <1>1, <1>3, GotoType
<1>5. backlog' \in [n : Int, wait_accept : BOOLEAN] /\ backlog'.n = backlog.n
  BY <1>2, <1>3
<1>6. Types'
  BY <1>2, <1>4, <1>5 DEF Types
<1> QED
  BY <1>2, <1>4, <1>5, <1>6

LEMMA DequeueStep ==
    ASSUME Types, Dequeue
    PROVE  /\ Types'
           /\ app["server"].pc = "dequeue" /\ app'["server"].pc = "read"
           /\ app'["client"] = app["client"] /\ backlog.n # 0
           /\ sk'["server"].state = "ESTABLISHED" /\ sk'["server"].rcv_buf = sk["server"].rcv_buf
           /\ sk'["server"].timer = sk["server"].timer
           /\ sk'["server"].wait_send = sk["server"].wait_send
           /\ sk'["client"] = sk["client"]
           /\ UNCHANGED <<main, net, wrote, got>>
<1> DEFINE u == [sk["server"] EXCEPT !.state = "ESTABLISHED"]
           n == backlog.n - 1
<1>1. /\ sk' = [sk EXCEPT !["server"] = u] /\ Goto("server", "read") /\ backlog.n # 0
      /\ backlog' = [backlog EXCEPT !.n = n] /\ app["server"].pc = "dequeue"
      /\ UNCHANGED <<main, net, wrote, got, early>>
  BY DEF Dequeue
<1>2. /\ sk \in [Host -> Sock] /\ "client" \in Host /\ "server" \in Host /\ sk["server"] \in Sock
      /\ backlog \in [n : Int, wait_accept : BOOLEAN]
      /\ "read" \in Pc \ {"write", "emit"} /\ "ESTABLISHED" \in States
  BY DEF Types, Host, Pc, States, tcp_state
<1>3. /\ u \in Sock /\ u.state = "ESTABLISHED" /\ u.rcv_buf = sk["server"].rcv_buf
      /\ u.timer = sk["server"].timer /\ u.wait_send = sk["server"].wait_send
  BY <1>2, StateField
<1>4. n \in Int
  BY <1>2
<1> HIDE DEF u, n
<1>5. backlog' \in [n : Int, wait_accept : BOOLEAN]
  BY <1>1, <1>2, <1>4
<1>6. /\ app' \in [Host -> App] /\ app'["server"].pc = "read" /\ app'["client"] = app["client"]
      /\ \A g \in Host : /\ app'[g].pc = "write" => app'[g].buf \in Seq(Byte)
                         /\ app'[g].pc = "emit" => app'[g].buf \in Seg
  BY <1>1, <1>2, GotoType
<1>7. sk' \in [Host -> Sock] /\ sk'["server"] = u /\ sk'["client"] = sk["client"]
  BY <1>1, <1>2, <1>3
<1>8. Types'
  BY <1>1, <1>5, <1>6, <1>7 DEF Types
<1> QED
  BY <1>1, <1>3, <1>6, <1>7, <1>8

LEMMA WriteStep ==
    ASSUME NEW h \in Host, Types, Write(h)
    PROVE  /\ Types'
           /\ app[h].pc = "write" /\ app[h].buf \in Seq(Byte)
           /\ app'[h].pc = "emit" /\ app'[h].buf \in Seg
           /\ app'[h].buf.flags = {TCP_PSH, TCP_ACK} /\ app'[h].buf.data = app[h].buf
           /\ app'[Peer(h)] = app[Peer(h)]
           /\ SameButSeq(sk'[h], sk[h]) /\ sk'[Peer(h)] = sk[Peer(h)]
           /\ wrote'[h] = wrote[h] \o app[h].buf /\ wrote'[Peer(h)] = wrote[Peer(h)]
           /\ UNCHANGED <<backlog, main, net, got>>
<1> DEFINE d == app[h].buf
           u == after_packet(sk[h], d)
           m == tcp_send_packet(sk[h], d)
           a == [app[h] EXCEPT !.pc = "emit", !.buf = m]
           w == wrote[h] \o d
<1>1. /\ sk \in [Host -> Sock] /\ sk[h] \in Sock /\ d \in Seq(Byte) /\ app[h] \in App
      /\ app \in [Host -> App] /\ wrote \in [Host -> Seq(Byte)] /\ app[h].pc = "write"
      /\ Peer(h) \in Host /\ Peer(h) # h /\ wrote[h] \in Seq(Byte)
  BY PeerType DEF Types, Write
<1>2. /\ sk' = [sk EXCEPT ![h] = u] /\ app' = [app EXCEPT ![h] = a]
      /\ wrote' = [wrote EXCEPT ![h] = w]
      /\ UNCHANGED <<backlog, main, net, got, early>>
  BY DEF Write
<1>3. /\ u \in Sock /\ SameButSeq(u, sk[h]) /\ m \in Seg /\ m.flags = {TCP_PSH, TCP_ACK}
      /\ m.data = d
  BY <1>1, AfterPacketType
<1>4. w \in Seq(Byte)
  BY <1>1, ConcatProperties
<1> HIDE DEF u, m, w
<1>5. a \in App /\ a.pc = "emit" /\ a.buf = m
  <2> HIDE DEF d
  <2>1. m \in Seq(Byte) \cup Seg
    BY <1>3
  <2> QED
    BY <1>1, <2>1 DEF App, Pc
<1> HIDE DEF a
<1>6. /\ sk' \in [Host -> Sock] /\ sk'[h] = u /\ sk'[Peer(h)] = sk[Peer(h)]
      /\ app' \in [Host -> App] /\ app'[h] = a /\ app'[Peer(h)] = app[Peer(h)]
      /\ \A g \in Host : g # h => app'[g] = app[g]
      /\ wrote' \in [Host -> Seq(Byte)] /\ wrote'[h] = w /\ wrote'[Peer(h)] = wrote[Peer(h)]
  BY <1>1, <1>2, <1>3, <1>4, <1>5
<1>7. Types'
  <2>1. \A g \in Host : /\ app'[g].pc = "write" => app'[g].buf \in Seq(Byte)
                        /\ app'[g].pc = "emit" => app'[g].buf \in Seg
    BY <1>3, <1>5, <1>6 DEF Types
  <2> QED
    BY <1>2, <1>6, <2>1 DEF Types
<1> QED
  BY <1>1, <1>2, <1>3, <1>5, <1>6, <1>7 DEF w

LEMMA EmitStep ==
    ASSUME NEW h \in Host, Types, Emit(h)
    PROVE  /\ Types'
           /\ app[h].pc = "emit" /\ app[h].buf \in Seg /\ app'[h].pc = "sent"
           /\ app'[Peer(h)] = app[Peer(h)]
           /\ net'[h] = net[h] /\ net'[Peer(h)] = net[Peer(h)] \o <<app[h].buf>>
           /\ UNCHANGED <<sk, backlog, main, wrote, got>>
<1> DEFINE m == app[h].buf
<1>1. /\ m \in Seg /\ net \in [Host -> Seq(Seg)] /\ Peer(h) \in Host /\ Peer(h) # h
      /\ "sent" \in Pc \ {"write", "emit"} /\ app[h].pc = "emit"
  BY PeerType DEF Types, Emit, Pc
<1>2. Send(h, <<m>>) /\ Goto(h, "sent") /\ UNCHANGED <<sk, backlog, main, wrote, got, early>>
  BY DEF Emit
<1>3. <<m>> \in {<<n>> : n \in Seg}
  BY <1>1
<1> HIDE DEF m
<1>4. /\ net' \in [Host -> Seq(Seg)] /\ net'[h] = net[h]
      /\ net'[Peer(h)] = net[Peer(h)] \o <<m>>
  BY <1>1, <1>2, <1>3, SendType
<1>5. /\ app' \in [Host -> App] /\ app'[h].pc = "sent" /\ app'[Peer(h)] = app[Peer(h)]
      /\ \A g \in Host : /\ app'[g].pc = "write" => app'[g].buf \in Seq(Byte)
                         /\ app'[g].pc = "emit" => app'[g].buf \in Seg
  BY <1>1, <1>2, GotoType
<1>6. Types'
  BY <1>2, <1>4, <1>5 DEF Types
<1> QED
  BY <1>1, <1>2, <1>4, <1>5, <1>6 DEF m

LEMMA WrittenStep ==
    ASSUME NEW h \in Host, Types, Written(h)
    PROVE  /\ Types'
           /\ app[h].pc = "sent" /\ app'[h].pc = "read" /\ app'[Peer(h)] = app[Peer(h)]
           /\ sk[h].wait_send /\ ~ sk'[h].wait_send /\ sk'[h].state = sk[h].state
           /\ sk'[h].rcv_buf = sk[h].rcv_buf /\ sk'[h].timer = sk[h].timer
           /\ sk'[h].wait_connect = sk[h].wait_connect /\ sk'[h].wait_recv = sk[h].wait_recv
           /\ sk'[Peer(h)] = sk[Peer(h)]
           /\ UNCHANGED <<backlog, main, net, wrote, got>>
<1> DEFINE u == [sk[h] EXCEPT !.wait_send = FALSE]
<1>1. /\ sk' = [sk EXCEPT ![h] = u] /\ Goto(h, "read") /\ app[h].pc = "sent" /\ sk[h].wait_send
      /\ UNCHANGED <<backlog, main, net, wrote, got, early>>
  BY DEF Written
<1>2. /\ sk \in [Host -> Sock] /\ sk[h] \in Sock /\ Peer(h) \in Host /\ Peer(h) # h
      /\ "read" \in Pc \ {"write", "emit"}
  BY PeerType DEF Types, Pc
<1>3. /\ u \in Sock /\ u.wait_send = FALSE /\ u.state = sk[h].state /\ u.rcv_buf = sk[h].rcv_buf
      /\ u.timer = sk[h].timer /\ u.wait_connect = sk[h].wait_connect
      /\ u.wait_recv = sk[h].wait_recv
  BY <1>2, SendField
<1> HIDE DEF u
<1>4. sk' \in [Host -> Sock] /\ sk'[h] = u /\ sk'[Peer(h)] = sk[Peer(h)]
  BY <1>1, <1>2, <1>3
<1>5. /\ app' \in [Host -> App] /\ app'[h].pc = "read" /\ app'[Peer(h)] = app[Peer(h)]
      /\ \A g \in Host : /\ app'[g].pc = "write" => app'[g].buf \in Seq(Byte)
                         /\ app'[g].pc = "emit" => app'[g].buf \in Seg
  BY <1>1, <1>2, GotoType
<1>6. Types'
  BY <1>1, <1>4, <1>5 DEF Types
<1> QED
  BY <1>1, <1>3, <1>4, <1>5, <1>6

LEMMA ReadWokenStep ==
    ASSUME NEW h \in Host, Types, ReadWoken(h)
    PROVE  /\ Types'
           /\ app[h].pc = "recv" /\ app'[h].pc = "take" /\ app'[Peer(h)] = app[Peer(h)]
           /\ sk[h].wait_recv /\ ~ sk'[h].wait_recv /\ sk'[h].state = sk[h].state
           /\ sk'[h].rcv_buf = sk[h].rcv_buf /\ sk'[h].timer = sk[h].timer
           /\ sk'[h].wait_connect = sk[h].wait_connect /\ sk'[h].wait_send = sk[h].wait_send
           /\ sk'[Peer(h)] = sk[Peer(h)]
           /\ UNCHANGED <<backlog, main, net, wrote, got>>
<1> DEFINE u == [sk[h] EXCEPT !.wait_recv = FALSE]
<1>1. /\ sk' = [sk EXCEPT ![h] = u] /\ Goto(h, "take") /\ app[h].pc = "recv" /\ sk[h].wait_recv
      /\ UNCHANGED <<backlog, main, net, wrote, got, early>>
  BY DEF ReadWoken
<1>2. /\ sk \in [Host -> Sock] /\ sk[h] \in Sock /\ Peer(h) \in Host /\ Peer(h) # h
      /\ "take" \in Pc \ {"write", "emit"}
  BY PeerType DEF Types, Pc
<1>3. /\ u \in Sock /\ u.wait_recv = FALSE /\ u.state = sk[h].state /\ u.rcv_buf = sk[h].rcv_buf
      /\ u.timer = sk[h].timer /\ u.wait_connect = sk[h].wait_connect
      /\ u.wait_send = sk[h].wait_send
  BY <1>2, RecvField
<1> HIDE DEF u
<1>4. sk' \in [Host -> Sock] /\ sk'[h] = u /\ sk'[Peer(h)] = sk[Peer(h)]
  BY <1>1, <1>2, <1>3
<1>5. /\ app' \in [Host -> App] /\ app'[h].pc = "take" /\ app'[Peer(h)] = app[Peer(h)]
      /\ \A g \in Host : /\ app'[g].pc = "write" => app'[g].buf \in Seq(Byte)
                         /\ app'[g].pc = "emit" => app'[g].buf \in Seg
  BY <1>1, <1>2, GotoType
<1>6. Types'
  BY <1>1, <1>4, <1>5 DEF Types
<1> QED
  BY <1>1, <1>3, <1>4, <1>5, <1>6

LEMMA TakeStep ==
    ASSUME NEW h \in Host, Types, Take(h), app[h].pc \in {"read", "take"},
           UNCHANGED <<backlog, main, net, wrote, early>>
    PROVE  /\ Types'
           /\ app'[h].pc \in {"read", "write", "close"} /\ app'[Peer(h)] = app[Peer(h)]
           /\ got'[h] = got[h] \o sk[h].rcv_buf /\ got'[Peer(h)] = got[Peer(h)]
           /\ sk'[h].rcv_buf = <<>> /\ sk'[h].state = sk[h].state /\ sk'[h].timer = sk[h].timer
           /\ sk'[h].wait_connect = sk[h].wait_connect /\ sk'[h].wait_send = sk[h].wait_send
           /\ sk'[Peer(h)] = sk[Peer(h)]
<1> DEFINE d == sk[h].rcv_buf
           u == [sk[h] EXCEPT !.rcv_buf = <<>>]
           g1 == got[h] \o d
           a == AfterRead(h, d)
<1>1. sk' = [sk EXCEPT ![h] = u] /\ got' = [got EXCEPT ![h] = g1] /\ app' = [app EXCEPT ![h] = a]
  BY DEF Take
<1>2. /\ sk \in [Host -> Sock] /\ sk[h] \in Sock /\ Peer(h) \in Host /\ Peer(h) # h
      /\ app \in [Host -> App] /\ app[h] \in App /\ got \in [Host -> Seq(Byte)]
      /\ got[h] \in Seq(Byte) /\ d \in Seq(Byte)
  BY PeerType DEF Types, Sock
<1>3. /\ u \in Sock /\ u.rcv_buf = <<>> /\ u.state = sk[h].state /\ u.timer = sk[h].timer
      /\ u.wait_connect = sk[h].wait_connect /\ u.wait_send = sk[h].wait_send
  <2> DEFINE t == sk[h]
             e == <<>>
  <2>1. t \in Sock /\ e \in Seq(Byte)
    BY <1>2
  <2> HIDE DEF t, e
  <2>2. LET v == [t EXCEPT !.rcv_buf = e]
        IN  /\ v \in Sock /\ v.rcv_buf = e /\ v.state = t.state /\ v.timer = t.timer
            /\ v.wait_connect = t.wait_connect /\ v.wait_send = t.wait_send
    BY <2>1 DEF Sock
  <2> QED
    BY <2>2 DEF t, e
<1>4. g1 \in Seq(Byte)
  BY <1>2, ConcatProperties
<1>5. /\ a \in App /\ a.pc \in {"read", "write", "close"}
      /\ a.pc = "write" => a.buf \in Seq(Byte)
  <2> DEFINE o == app[h]
             j == app[h].i + 1
             bulk == Bulk(j)
             echo == Echo(d)
             b == [pc |-> "write", buf |-> bulk, i |-> j]
  <2>1. /\ o \in App /\ j \in Int /\ bulk \in Seq(Byte)
    BY <1>2 DEF App, Bulk, Byte
  <2>2. echo \in Seq(Byte)
    <3>1. <<0>> \in Seq(Byte)
      BY DEF Byte
    <3> QED
      BY <1>2, <3>1, ConcatProperties DEF Echo
  <2>3. a \in {[o EXCEPT !.pc = "read"], [o EXCEPT !.pc = "write", !.buf = echo],
               [o EXCEPT !.pc = "close"], b}
    BY DEF AfterRead
  <2> HIDE DEF o, j, bulk, echo, a
  <2>4. /\ [o EXCEPT !.pc = "read"] \in App /\ [o EXCEPT !.pc = "read"].pc = "read"
        /\ [o EXCEPT !.pc = "close"] \in App /\ [o EXCEPT !.pc = "close"].pc = "close"
    BY <2>1 DEF App, Pc
  <2>5. /\ [o EXCEPT !.pc = "write", !.buf = echo] \in App
        /\ [o EXCEPT !.pc = "write", !.buf = echo].pc = "write"
        /\ [o EXCEPT !.pc = "write", !.buf = echo].buf = echo
    BY <2>1, <2>2 DEF App, Pc
  <2>6. b \in App /\ b.pc = "write" /\ b.buf = bulk
    BY <2>1 DEF App, Pc
  <2> HIDE DEF b
  <2> QED
    BY <2>1, <2>2, <2>3, <2>4, <2>5, <2>6
<1> HIDE DEF u, g1, a
<1>6. /\ sk' \in [Host -> Sock] /\ sk'[h] = u /\ sk'[Peer(h)] = sk[Peer(h)]
      /\ got' \in [Host -> Seq(Byte)] /\ got'[h] = g1 /\ got'[Peer(h)] = got[Peer(h)]
      /\ app' \in [Host -> App] /\ app'[h] = a /\ app'[Peer(h)] = app[Peer(h)]
      /\ \A g \in Host : g # h => app'[g] = app[g]
  BY <1>1, <1>2, <1>3, <1>4, <1>5
<1>7. Types'
  <2>1. \A g \in Host : /\ app'[g].pc = "write" => app'[g].buf \in Seq(Byte)
                        /\ app'[g].pc = "emit" => app'[g].buf \in Seg
    BY <1>5, <1>6 DEF Types
  <2> QED
    BY <1>6, <2>1 DEF Types
<1> QED
  BY <1>3, <1>5, <1>6, <1>7 DEF g1

\* A read takes all there is, or finds nothing and goes to sleep.
LEMMA ReadStep ==
    ASSUME NEW h \in Host, Types, ReadTest(h) \/ ReadTake(h)
    PROVE  /\ Types'
           /\ app[h].pc \in {"read", "take"} /\ app'[Peer(h)] = app[Peer(h)]
           /\ app'[h].pc \in {"read", "write", "close", "recv"}
           /\ app'[h].pc = "recv" => sk[h].rcv_buf = <<>>
           /\ \/ got'[h] = got[h] \o sk[h].rcv_buf /\ sk'[h].rcv_buf = <<>>
              \/ got'[h] = got[h] /\ sk'[h].rcv_buf = sk[h].rcv_buf
           /\ sk'[h].state = sk[h].state /\ sk'[h].timer = sk[h].timer
           /\ sk'[h].wait_connect = sk[h].wait_connect /\ sk'[h].wait_send = sk[h].wait_send
           /\ sk'[Peer(h)] = sk[Peer(h)] /\ got'[Peer(h)] = got[Peer(h)]
           /\ UNCHANGED <<backlog, main, net, wrote>>
<1>1. /\ app[h].pc \in {"read", "take"} /\ UNCHANGED <<backlog, main, net, wrote, early>>
      /\ \/ Take(h)
         \/ Goto(h, "recv") /\ sk[h].rcv_buf = <<>> /\ UNCHANGED <<sk, got>>
  BY DEF ReadTest, ReadTake
<1>2. CASE Take(h)
  BY <1>1, <1>2, TakeStep
<1>3. CASE Goto(h, "recv") /\ sk[h].rcv_buf = <<>> /\ UNCHANGED <<sk, got>>
  <2>1. "recv" \in Pc \ {"write", "emit"} /\ Peer(h) \in Host /\ Peer(h) # h
    BY PeerType DEF Pc
  <2>2. /\ app' \in [Host -> App] /\ app'[h].pc = "recv" /\ app'[Peer(h)] = app[Peer(h)]
        /\ \A g \in Host : /\ app'[g].pc = "write" => app'[g].buf \in Seq(Byte)
                           /\ app'[g].pc = "emit" => app'[g].buf \in Seg
    BY <1>3, <2>1, GotoType
  <2>3. Types'
    BY <1>1, <1>3, <2>2 DEF Types
  <2> QED
    BY <1>1, <1>3, <2>2, <2>3
<1> QED
  BY <1>1, <1>2, <1>3

LEMMA CloseFinStep ==
    ASSUME Types, CloseFin
    PROVE  /\ Types'
           /\ app["client"].pc = "close" /\ app'["client"].pc \in {"FIN_WAIT_1", "LAST_ACK"}
           /\ app'["server"] = app["server"]
           /\ SameButSeq(sk'["client"], sk["client"]) /\ sk'["server"] = sk["server"]
           /\ \E m \in Seg : /\ m.flags = {TCP_FIN, TCP_ACK}
                             /\ net'["client"] = net["client"]
                             /\ net'["server"] = net["server"] \o <<m>>
           /\ UNCHANGED <<backlog, main, wrote, got>>
<1> DEFINE fl == {TCP_FIN, TCP_ACK}
           u == after_control(sk["client"], fl)
           m == tcp_send_control_packet(sk["client"], fl)
<1>1. PICK pc \in {"FIN_WAIT_1", "LAST_ACK"} : Goto("client", pc)
  BY DEF CloseFin
<1>2. /\ sk' = [sk EXCEPT !["client"] = u] /\ Send("client", <<m>>)
      /\ UNCHANGED <<backlog, main, wrote, got, early>> /\ app["client"].pc = "close"
  BY DEF CloseFin
<1>3. /\ sk \in [Host -> Sock] /\ sk["client"] \in Sock /\ net \in [Host -> Seq(Seg)]
      /\ fl \in SUBSET Flag /\ "server" \in Host /\ "client" \in Host /\ Peer("client") = "server"
      /\ pc \in Pc \ {"write", "emit"}
  BY DEF Types, Host, Peer, Flag, Pc
<1>4. u \in Sock /\ SameButSeq(u, sk["client"]) /\ m \in Seg /\ m.flags = fl
  BY <1>3, AfterControlType, ControlType
<1> HIDE DEF u, m, fl
<1>5. sk' \in [Host -> Sock] /\ sk'["client"] = u /\ sk'["server"] = sk["server"]
  BY <1>2, <1>3, <1>4
<1>6. <<m>> \in {<<n>> : n \in Seg}
  BY <1>4
<1>7. /\ net' \in [Host -> Seq(Seg)] /\ net'["client"] = net["client"]
      /\ net'["server"] = net["server"] \o <<m>>
  BY <1>2, <1>3, <1>6, SendType
<1>8. /\ app' \in [Host -> App] /\ app'["client"].pc = pc /\ app'["server"] = app["server"]
      /\ \A g \in Host : /\ app'[g].pc = "write" => app'[g].buf \in Seq(Byte)
                         /\ app'[g].pc = "emit" => app'[g].buf \in Seg
  BY <1>1, <1>3, GotoType
<1>9. Types'
  BY <1>2, <1>5, <1>7, <1>8 DEF Types
<1> QED
  BY <1>2, <1>4, <1>5, <1>7, <1>8, <1>9 DEF fl

LEMMA CloseStateStep ==
    ASSUME Types, CloseState
    PROVE  /\ Types'
           /\ app["client"].pc \in {"FIN_WAIT_1", "LAST_ACK"} /\ app'["client"].pc = "done"
           /\ app'["server"] = app["server"]
           /\ sk'["client"].rcv_buf = sk["client"].rcv_buf /\ sk'["server"] = sk["server"]
           /\ UNCHANGED <<backlog, main, net, wrote, got>>
<1> DEFINE u == [sk["client"] EXCEPT !.state = app["client"].pc]
<1>1. /\ sk' = [sk EXCEPT !["client"] = u] /\ Goto("client", "done")
      /\ app["client"].pc \in {"FIN_WAIT_1", "LAST_ACK"}
      /\ UNCHANGED <<backlog, main, net, wrote, got, early>>
  BY DEF CloseState
<1>2. /\ sk \in [Host -> Sock] /\ sk["client"] \in Sock /\ "server" \in Host /\ "client" \in Host
      /\ "done" \in Pc \ {"write", "emit"} /\ app["client"].pc \in States
  BY <1>1 DEF Types, Host, Pc, States, tcp_state
<1>3. u \in Sock /\ u.rcv_buf = sk["client"].rcv_buf
  BY <1>2, StateField
<1> HIDE DEF u
<1>4. sk' \in [Host -> Sock] /\ sk'["client"] = u /\ sk'["server"] = sk["server"]
  BY <1>1, <1>2, <1>3
<1>5. /\ app' \in [Host -> App] /\ app'["client"].pc = "done" /\ app'["server"] = app["server"]
      /\ \A g \in Host : /\ app'[g].pc = "write" => app'[g].buf \in Seq(Byte)
                         /\ app'[g].pc = "emit" => app'[g].buf \in Seg
  BY <1>1, <1>2, GotoType
<1>6. Types'
  BY <1>1, <1>4, <1>5 DEF Types
<1> QED
  BY <1>1, <1>3, <1>4, <1>5, <1>6

LEMMA TimerStep ==
    ASSUME NEW h \in Host, Types, tcp_scan_timer_list(h)
    PROVE  /\ Types'
           /\ sk[h].timer = "on"
           /\ sk'[h].rcv_buf = sk[h].rcv_buf /\ sk'[h].wait_recv = sk[h].wait_recv
           /\ sk'[Peer(h)] = sk[Peer(h)]
           /\ UNCHANGED <<backlog, app, main, net, wrote, got>>
<1> DEFINE t == sk[h]
           u == [t EXCEPT !.timer = "fired", !.state = "CLOSED"]
<1>1. /\ sk' = [sk EXCEPT ![h] = u] /\ sk[h].timer = "on"
      /\ UNCHANGED <<backlog, app, main, net, wrote, got, early>>
  BY DEF tcp_scan_timer_list
<1>2. sk \in [Host -> Sock] /\ t \in Sock /\ Peer(h) \in Host /\ Peer(h) # h /\ "CLOSED" \in States
  BY PeerType DEF Types, States, tcp_state
<1>3. u \in Sock /\ u.rcv_buf = sk[h].rcv_buf /\ u.wait_recv = sk[h].wait_recv
  <2> HIDE DEF t
  <2>1. u \in Sock /\ u.rcv_buf = t.rcv_buf /\ u.wait_recv = t.wait_recv
    BY <1>2 DEF Sock
  <2> QED
    BY <2>1 DEF t
<1> HIDE DEF u
<1>4. sk' \in [Host -> Sock] /\ sk'[h] = u /\ sk'[Peer(h)] = sk[Peer(h)]
  BY <1>1, <1>2, <1>3
<1>5. Types'
  BY <1>1, <1>4 DEF Types
<1> QED
  BY <1>1, <1>3, <1>4, <1>5

\* The steps of both hosts, and of each application.
LEMMA NextCases ==
    ASSUME Next
    PROVE  \/ \E h \in Host : \/ Receive(h) \/ Process(h) \/ WakeReader(h) \/ Acknowledge(h)
                              \/ tcp_scan_timer_list(h) \/ Write(h) \/ Emit(h) \/ Written(h)
                              \/ ReadTest(h) \/ ReadTake(h) \/ ReadWoken(h)
           \/ tcp_state_listen \/ tcp_sock_connect \/ Connected \/ CloseFin \/ CloseState
           \/ AcceptTest \/ AcceptWoken \/ Dequeue
<1>1. "client" \in Host /\ "server" \in Host
  BY DEF Host
<1> QED
  BY <1>1 DEF Next, Main, tcp_client, tcp_server, ReadWrite

LEMMA NextTypes == Types /\ [Next]_vars => Types'
<1> SUFFICES ASSUME Types, [Next]_vars PROVE Types'
  OBVIOUS
<1>1. CASE UNCHANGED vars
  BY <1>1 DEF Types, vars
<1>2. CASE Next
  BY <1>2, NextCases, ReceiveStep, ProcessStep, WakeStep, AckStep, TimerStep, WriteStep, EmitStep,
     WrittenStep, ReadStep, ReadWokenStep, ListenStep, ConnectStep, ConnectedStep,
     CloseFinStep, CloseStateStep, AcceptStep, DequeueStep
<1> QED
  BY <1>1, <1>2

\* Type correctness: what the threads of both hosts keep is well formed.
THEOREM AlwaysTyped == Spec => []Types
  BY InitTypes, NextTypes, PTL DEF Spec

--------------------------------------------------------------------------------
(* No wake-up is lost.                                                         *)

\* NoLostWakeup at one host.
Woken(h) ==
    app[h].pc = "recv" /\ sk[h].rcv_buf # <<>> => sk[h].wait_recv \/ main[h].at = "wake"

LEMMA NoLostWakeupStep == Types /\ NoLostWakeup /\ [Next]_vars => NoLostWakeup'
<1> SUFFICES ASSUME Types, NoLostWakeup, [Next]_vars, NEW g \in Host PROVE Woken(g)'
  BY DEF NoLostWakeup, Woken
<1>1. Woken(g) /\ Wake.at = "wake" /\ Idle.at = "idle"
  BY DEF NoLostWakeup, Woken, Wake, Idle
<1>2. \A h \in Host : g = h \/ g = Peer(h)
  BY DEF Host, Peer
<1>3. CASE UNCHANGED vars
  BY <1>1, <1>3 DEF Woken, vars
<1>4. ASSUME NEW h \in Host, Receive(h) PROVE Woken(g)'
  BY <1>1, <1>2, <1>4, ReceiveStep DEF Woken
<1>5. ASSUME NEW h \in Host, Process(h) PROVE Woken(g)'
  <2>1. PICK r : /\ Effect(sk[h], main[h].state, main[h].cb, r)
                 /\ sk'[h] = r.tsk /\ sk'[Peer(h)] = sk[Peer(h)]
                 /\ main'[h] = IF r.stored THEN Wake ELSE Idle
                 /\ main'[Peer(h)] = main[Peer(h)]
                 /\ app' = app
    BY <1>5, ProcessStep
  <2>2. main[h].at = "process"
    BY <1>5, ProcessStep
  <2>3. r.tsk.wait_recv = sk[h].wait_recv /\ (~ r.stored => r.tsk.rcv_buf = sk[h].rcv_buf)
    BY <2>1 DEF Effect, StoreOK
  <2> QED
    BY <1>1, <1>2, <2>1, <2>2, <2>3 DEF Woken
<1>6. ASSUME NEW h \in Host, WakeReader(h) \/ Acknowledge(h) PROVE Woken(g)'
  <2>1. CASE WakeReader(h)
    BY <1>1, <1>2, <2>1, WakeStep DEF Woken
  <2>2. CASE Acknowledge(h)
    <3>1. Owe.at = "ack"
      BY DEF Owe
    <3> QED
      BY <1>1, <1>2, <2>2, <3>1, AckStep DEF Woken
  <2> QED
    BY <1>6, <2>1, <2>2
<1>7. ASSUME NEW h \in Host, tcp_scan_timer_list(h) PROVE Woken(g)'
  BY <1>1, <1>2, <1>7, TimerStep DEF Woken
<1>8. ASSUME NEW h \in Host, Write(h) PROVE Woken(g)'
  BY <1>1, <1>2, <1>8, WriteStep DEF Woken
<1>9. ASSUME NEW h \in Host, Emit(h) PROVE Woken(g)'
  BY <1>1, <1>2, <1>9, EmitStep DEF Woken
<1>10. ASSUME NEW h \in Host, Written(h) PROVE Woken(g)'
  BY <1>1, <1>2, <1>10, WrittenStep DEF Woken
<1>11. ASSUME NEW h \in Host, ReadTest(h) \/ ReadTake(h) PROVE Woken(g)'
  <2>1. /\ app'[Peer(h)] = app[Peer(h)] /\ sk'[Peer(h)] = sk[Peer(h)] /\ main' = main
        /\ app'[h].pc = "recv" => sk'[h].rcv_buf = <<>>
    BY <1>11, ReadStep
  <2> QED
    BY <1>1, <1>2, <2>1 DEF Woken
<1>12. ASSUME NEW h \in Host, ReadWoken(h) PROVE Woken(g)'
  BY <1>1, <1>2, <1>12, ReadWokenStep DEF Woken
<1>13. "client" \in Host /\ "server" \in Host /\ (g = "client" \/ g = "server")
  BY DEF Host
<1>14. CASE tcp_state_listen
  BY <1>1, <1>13, <1>14, ListenStep DEF Woken
<1>15. CASE tcp_sock_connect
  BY <1>1, <1>13, <1>15, ConnectStep DEF Woken
<1>16. CASE Connected
  BY <1>1, <1>13, <1>16, ConnectedStep DEF Woken
<1>17. CASE AcceptTest \/ AcceptWoken
  BY <1>1, <1>13, <1>17, AcceptStep DEF Woken
<1>18. CASE Dequeue
  BY <1>1, <1>13, <1>18, DequeueStep DEF Woken
<1>19. CASE CloseFin
  BY <1>1, <1>13, <1>19, CloseFinStep DEF Woken
<1>20. CASE CloseState
  BY <1>1, <1>13, <1>20, CloseStateStep DEF Woken
<1> QED
  BY <1>3, <1>4, <1>5, <1>6, <1>7, <1>8, <1>9, <1>10, <1>11, <1>12, <1>14, <1>15, <1>16, <1>17,
     <1>18, <1>19, <1>20, NextCases

\* An application that sleeps in tcp_sock_read while there is data for it has been
\* notified, or the main thread, between write_ring_buffer and wake_up, is about to: the
\* unlocked gap between the test for an empty buffer and sleep_on loses no wake-up.
THEOREM WakeupsAreNotLost == Spec => []NoLostWakeup
<1>1. Init => NoLostWakeup
  BY DEF Init, NoLostWakeup, Host
<1> QED
  BY <1>1, AlwaysTyped, NoLostWakeupStep, PTL DEF Spec

--------------------------------------------------------------------------------
(* The flight of one bulk.  A host has at most one segment with data under     *)
(* way, because tcp_sock_write sleeps until it is acknowledged.  From the wire *)
(* to the peer the bulk goes into the hands of the peer's main thread, then    *)
(* into the peer's buffer, whose wake_up and ACK are still to come; then the   *)
(* ACK is on the wire back, in the hands of the host's main thread, and at     *)
(* last it is the notification wait_send.  At most one of these holds at a     *)
(* time, and each says what the peer has stored compared with what was written.*)

IsData(m) == m.flags = {TCP_PSH, TCP_ACK}
IsAck(m) == m.flags = {TCP_ACK}
DataOf(s) == {i \in DOMAIN s : IsData(s[i])}
AckOf(s) == {i \in DOMAIN s : IsAck(s[i])}
DataAt(m) == m.at = "process" /\ IsData(m.cb)
AckAt(m) == m.at = "process" /\ IsAck(m.cb)

\* No bulk is between the writer and the ACK: np and mp are the wire to the peer and its
\* main thread, nh and mh those of the host, ws is its wait_send.
Quiet(np, mp) == DataOf(np) = {} /\ ~ DataAt(mp) /\ mp.at \notin {"wake", "ack"}
Silent(nh, mh, ws) == AckOf(nh) = {} /\ ~ AckAt(mh) /\ ~ ws

\* st is what the peer has stored, wr what the host wrote.
InFlight(np, mp, nh, mh, ws, st, wr) ==
    /\ \A i, j \in DataOf(np) : i = j
    /\ \A i, j \in AckOf(nh) : i = j
    /\ IsPrefix(st, wr)
    /\ \A i \in DataOf(np) : /\ ~ DataAt(mp) /\ mp.at \notin {"wake", "ack"} /\ Silent(nh, mh, ws)
                             /\ st \o np[i].data = wr
    /\ DataAt(mp) => Silent(nh, mh, ws) /\ st \o mp.cb.data = wr
    /\ mp.at \in {"wake", "ack"} => Silent(nh, mh, ws) /\ st = wr
    /\ \A i \in AckOf(nh) : ~ AckAt(mh) /\ ~ ws /\ st = wr
    /\ AckAt(mh) => ~ ws /\ st = wr
    /\ ws => st = wr

Bulks(pc, buf, np, mp, nh, mh, ws, st, wr) ==
    /\ pc \notin {"emit", "sent"} => Quiet(np, mp) /\ Silent(nh, mh, ws) /\ st = wr
    /\ pc = "emit" => /\ Quiet(np, mp) /\ Silent(nh, mh, ws)
                      /\ IsData(buf) /\ st \o buf.data = wr
    /\ pc = "sent" => InFlight(np, mp, nh, mh, ws, st, wr)

Thread == {Idle, Wake, Owe} \cup Busy

LEMMA PrefixRefl == ASSUME NEW s \in Seq(Byte) PROVE IsPrefix(s, s)
  BY LenProperties DEF IsPrefix

LEMMA PrefixConcat ==
    ASSUME NEW s \in Seq(Byte), NEW t \in Seq(Byte)
    PROVE  IsPrefix(s, s \o t)
<1>1. /\ Len(s) \in Nat /\ Len(t) \in Nat /\ s \o t \in Seq(Byte)
      /\ Len(s \o t) = Len(s) + Len(t)
      /\ \A i \in 1 .. Len(s) : (s \o t)[i] = s[i]
  BY LenProperties, ConcatProperties
<1>2. SubSeq(s \o t, 1, Len(s)) = SubSeq(s, 1, Len(s))
  <2>1. CASE Len(s) = 0
    BY <2>1, SubSeqEmpty
  <2>2. CASE Len(s) # 0
    BY <1>1, <2>2, SubSeqOfConcat1
  <2> QED
    BY <2>1, <2>2
<1> QED
  BY <1>1, <1>2 DEF IsPrefix

\* The elements of a prefix, and back.
LEMMA PrefixElements ==
    ASSUME NEW s \in Seq(Byte), NEW t \in Seq(Byte)
    PROVE  IsPrefix(s, t) <=> Len(s) <= Len(t) /\ \A i \in 1 .. Len(s) : s[i] = t[i]
<1>1. Len(s) \in Nat /\ Len(t) \in Nat /\ \A i \in 1 .. Len(s) : s[i] \in Byte
  BY LenProperties
<1>2. \A i \in 1 .. Len(t) : t[i] \in Byte
  BY LenProperties
<1>3. SubSeq(s, 1, Len(s)) = s
  BY SubSeqFull
<1>4. ASSUME Len(s) <= Len(t)
      PROVE  /\ SubSeq(t, 1, Len(s)) \in Seq(Byte) /\ Len(SubSeq(t, 1, Len(s))) = Len(s)
             /\ \A i \in 1 .. Len(s) : SubSeq(t, 1, Len(s))[i] = t[i]
  <2>1. \A i \in 1 .. Len(s) : t[i] \in Byte
    BY <1>1, <1>2, <1>4
  <2>2. /\ SubSeq(t, 1, Len(s)) \in Seq(Byte)
        /\ Len(SubSeq(t, 1, Len(s))) = IF 1 <= Len(s) THEN Len(s) - 1 + 1 ELSE 0
        /\ \A i \in 1 .. Len(s) - 1 + 1 : SubSeq(t, 1, Len(s))[i] = t[1 + i - 1]
    BY <1>1, <2>1, SubSeqProperties
  <2> QED
    BY <1>1, <2>2
<1>5. ASSUME Len(s) <= Len(t), \A i \in 1 .. Len(s) : s[i] = t[i]
      PROVE  s = SubSeq(t, 1, Len(s))
  <2> DEFINE q == SubSeq(t, 1, Len(s))
  <2>1. q \in Seq(Byte) /\ Len(q) = Len(s) /\ \A i \in 1 .. Len(s) : q[i] = s[i]
    BY <1>4, <1>5
  <2> HIDE DEF q
  <2>2. s = q
    BY <2>1, SeqEqual
  <2> QED
    BY <2>2 DEF q
<1> QED
  BY <1>3, <1>4, <1>5 DEF IsPrefix

LEMMA PrefixTrans ==
    ASSUME NEW s \in Seq(Byte), NEW t \in Seq(Byte), NEW u \in Seq(Byte),
           IsPrefix(s, t), IsPrefix(t, u)
    PROVE  IsPrefix(s, u)
<1>1. Len(s) \in Nat /\ Len(t) \in Nat /\ Len(u) \in Nat
  BY LenProperties
<1>2. /\ Len(s) <= Len(t) /\ \A i \in 1 .. Len(s) : s[i] = t[i]
      /\ Len(t) <= Len(u) /\ \A i \in 1 .. Len(t) : t[i] = u[i]
  BY PrefixElements
<1>3. Len(s) <= Len(u) /\ \A i \in 1 .. Len(s) : s[i] = u[i]
  BY <1>1, <1>2
<1> QED
  BY <1>3, PrefixElements

\* The first segment of a wire and the rest.
LEMMA TailOf ==
    ASSUME NEW s \in Seq(Seg), s # <<>>
    PROVE  /\ \A i \in DataOf(Tail(s)) : /\ i + 1 \in DataOf(s) /\ i + 1 # 1
                                         /\ Tail(s)[i] = s[i + 1]
           /\ \A i \in AckOf(Tail(s)) : i + 1 \in AckOf(s) /\ i + 1 # 1
           /\ \A i, j \in DataOf(Tail(s)) \cup AckOf(Tail(s)) :
                  /\ i + 1 = j + 1 => i = j
                  /\ i + 1 < j + 1 => i < j
           /\ IsData(Head(s)) => 1 \in DataOf(s) /\ s[1] = Head(s)
           /\ IsAck(Head(s)) => 1 \in AckOf(s)
           /\ \A i \in DataOf(s) \cup AckOf(s) : i \in Nat /\ ~ i < 1
<1>1. /\ Tail(s) \in Seq(Seg) /\ Len(s) \in Nat /\ Len(Tail(s)) = Len(s) - 1
      /\ \A i \in 1 .. Len(Tail(s)) : Tail(s)[i] = s[i + 1]
      /\ DOMAIN s = 1 .. Len(s) /\ DOMAIN Tail(s) = 1 .. Len(s) - 1 /\ Len(s) # 0
  BY HeadTailProperties, LenProperties, EmptySeq
<1>2. Head(s) = s[1]
  OBVIOUS
<1>3. \A i \in DOMAIN Tail(s) : i \in Nat /\ i + 1 \in DOMAIN s /\ i + 1 # 1 /\ Tail(s)[i] = s[i + 1]
  BY <1>1
<1>4. 1 \in DOMAIN s /\ \A i \in DOMAIN s : i \in Nat /\ ~ i < 1
  BY <1>1
<1>5. \A i, j \in Nat : (i + 1 = j + 1 => i = j) /\ (i + 1 < j + 1 => i < j)
  OBVIOUS
<1> QED
  BY <1>2, <1>3, <1>4, <1>5 DEF DataOf, AckOf

\* A wire with one segment more.
LEMMA SnocOf ==
    ASSUME NEW s \in Seq(Seg), NEW m \in Seg
    PROVE  /\ s \o <<m>> \in Seq(Seg)
           /\ ~ IsData(m) => DataOf(s \o <<m>>) = DataOf(s)
           /\ ~ IsAck(m) => AckOf(s \o <<m>>) = AckOf(s)
           /\ IsData(m) => DataOf(s \o <<m>>) = DataOf(s) \cup {Len(s) + 1}
           /\ IsAck(m) => AckOf(s \o <<m>>) = AckOf(s) \cup {Len(s) + 1}
           /\ \A i \in DataOf(s) \cup AckOf(s) : (s \o <<m>>)[i] = s[i] /\ i < Len(s) + 1
           /\ (s \o <<m>>)[Len(s) + 1] = m
           /\ DOMAIN (s \o <<m>>) = DOMAIN s \cup {Len(s) + 1}
           /\ \A i \in DOMAIN s : (s \o <<m>>)[i] = s[i]
<1> DEFINE t == s \o <<m>>
<1>1. <<m>> \in Seq(Seg) /\ Len(<<m>>) = 1 /\ <<m>>[1] = m
  OBVIOUS
<1>2. /\ t \in Seq(Seg) /\ Len(t) = Len(s) + 1
      /\ \A i \in 1 .. Len(s) + 1 : t[i] = IF i <= Len(s) THEN s[i] ELSE <<m>>[i - Len(s)]
  BY <1>1, ConcatProperties
<1>3. Len(s) \in Nat /\ DOMAIN s = 1 .. Len(s) /\ DOMAIN t = 1 .. Len(s) + 1
  BY <1>2, LenProperties
<1>4. t[Len(s) + 1] = m
  BY <1>1, <1>2, <1>3
<1>5. \A i \in DOMAIN s : t[i] = s[i] /\ i < Len(s) + 1
  BY <1>2, <1>3
<1>6. DOMAIN t = DOMAIN s \cup {Len(s) + 1}
  BY <1>3
<1> HIDE DEF t
<1>7. /\ ~ IsData(m) => DataOf(t) = DataOf(s)
      /\ ~ IsAck(m) => AckOf(t) = AckOf(s)
      /\ IsData(m) => DataOf(t) = DataOf(s) \cup {Len(s) + 1}
      /\ IsAck(m) => AckOf(t) = AckOf(s) \cup {Len(s) + 1}
      /\ \A i \in DataOf(s) \cup AckOf(s) : t[i] = s[i] /\ i < Len(s) + 1
  BY <1>4, <1>5, <1>6 DEF DataOf, AckOf
<1> QED
  BY <1>2, <1>4, <1>5, <1>6, <1>7 DEF t

LEMMA SnocSets ==
    ASSUME NEW s \in Seq(Seg), NEW m \in Seg
    PROVE  /\ ~ IsData(m) => DataOf(s \o <<m>>) = DataOf(s)
           /\ ~ IsAck(m) => AckOf(s \o <<m>>) = AckOf(s)
  BY SnocOf

LEMMA DataIsNotAck == \A m : ~ (IsData(m) /\ IsAck(m))
  BY DEF IsData, IsAck, TCP_PSH, TCP_ACK

\* The peer's main thread takes a segment from the wire.
LEMMA PeerReceives ==
    ASSUME NEW pc, NEW buf, NEW np \in Seq(Seg), NEW mp \in Thread, NEW nh \in Seq(Seg),
           NEW mh \in Thread, NEW ws \in BOOLEAN, NEW st \in Seq(Byte), NEW wr \in Seq(Byte),
           Bulks(pc, buf, np, mp, nh, mh, ws, st, wr),
           np # <<>>, mp.at = "idle", NEW mq \in Thread, mq.at = "process", mq.cb = Head(np)
    PROVE  Bulks(pc, buf, Tail(np), mq, nh, mh, ws, st, wr)
<1> DEFINE t == Tail(np)
<1>1. /\ \A i \in DataOf(t) : i + 1 \in DataOf(np) /\ i + 1 # 1 /\ t[i] = np[i + 1]
      /\ \A i, j \in DataOf(t) : i + 1 = j + 1 => i = j
      /\ IsData(mq.cb) => 1 \in DataOf(np) /\ np[1] = mq.cb
  BY TailOf
<1> HIDE DEF t
<1>2. Quiet(np, mp) => Quiet(t, mq)
  BY <1>1 DEF Quiet, DataAt
<1>3. ASSUME InFlight(np, mp, nh, mh, ws, st, wr)
      PROVE  InFlight(t, mq, nh, mh, ws, st, wr)
  <2>1. \A i, j \in DataOf(t) : i = j
    BY <1>1, <1>3 DEF InFlight
  <2>2. \A i \in DataOf(t) : /\ ~ DataAt(mq) /\ mq.at \notin {"wake", "ack"} /\ Silent(nh, mh, ws)
                             /\ st \o t[i].data = wr
    <3> SUFFICES ASSUME NEW i \in DataOf(t)
                 PROVE  /\ ~ DataAt(mq) /\ mq.at \notin {"wake", "ack"} /\ Silent(nh, mh, ws)
                        /\ st \o t[i].data = wr
      OBVIOUS
    <3>1. PICK k \in DataOf(np) : k # 1 /\ t[i] = np[k]
      BY <1>1
    <3>2. Silent(nh, mh, ws) /\ st \o np[k].data = wr /\ 1 \notin DataOf(np)
      BY <1>3, <3>1 DEF InFlight
    <3> QED
      BY <1>1, <3>1, <3>2 DEF DataAt
  <2>3. DataAt(mq) => Silent(nh, mh, ws) /\ st \o mq.cb.data = wr
    BY <1>1, <1>3 DEF InFlight, DataAt
  <2> QED
    BY <1>3, <2>1, <2>2, <2>3 DEF InFlight
<1>4. Bulks(pc, buf, t, mq, nh, mh, ws, st, wr)
  BY <1>2, <1>3 DEF Bulks
<1> QED
  BY <1>4 DEF t

\* The host's main thread takes a segment from the wire.
LEMMA HostReceives ==
    ASSUME NEW pc, NEW buf, NEW np \in Seq(Seg), NEW mp \in Thread, NEW nh \in Seq(Seg),
           NEW mh \in Thread, NEW ws \in BOOLEAN, NEW st \in Seq(Byte), NEW wr \in Seq(Byte),
           Bulks(pc, buf, np, mp, nh, mh, ws, st, wr),
           nh # <<>>, NEW mq \in Thread, mh.at = "idle", mq.at = "process", mq.cb = Head(nh)
    PROVE  Bulks(pc, buf, np, mp, Tail(nh), mq, ws, st, wr)
  BY TailOf DEF Bulks, InFlight, Quiet, Silent, DataAt, AckAt

\* The peer's main thread is done with a segment and stored nothing.
LEMMA PeerDrops ==
    ASSUME NEW pc, NEW buf, NEW np \in Seq(Seg), NEW mp \in Thread, NEW nh \in Seq(Seg),
           NEW mh \in Thread, NEW ws \in BOOLEAN, NEW st \in Seq(Byte), NEW wr \in Seq(Byte),
           Bulks(pc, buf, np, mp, nh, mh, ws, st, wr),
           mp.at = "process"
    PROVE  Bulks(pc, buf, np, Idle, nh, mh, ws, st, wr)
<1>1. Idle.at = "idle"
  BY DEF Idle
<1> QED
  BY <1>1 DEF Bulks, InFlight, Quiet, Silent, DataAt, AckAt

\* The peer's main thread put the bulk into the buffer.
LEMMA PeerStores ==
    ASSUME NEW pc, NEW buf, NEW np \in Seq(Seg), NEW mp \in Thread, NEW nh \in Seq(Seg),
           NEW mh \in Thread, NEW ws \in BOOLEAN, NEW st \in Seq(Byte), NEW wr \in Seq(Byte),
           Bulks(pc, buf, np, mp, nh, mh, ws, st, wr),
           DataAt(mp)
    PROVE  Bulks(pc, buf, np, Wake, nh, mh, ws, st \o mp.cb.data, wr)
<1>1. Wake.at = "wake"
  BY DEF Wake
<1>2. IsPrefix(wr, wr)
  BY PrefixRefl
<1> QED
  BY <1>1, <1>2 DEF Bulks, InFlight, Quiet, Silent, DataAt, AckAt

\* The host's main thread is done with a segment; a bare ACK may wake the writer.
LEMMA HostProcesses ==
    ASSUME NEW pc, NEW buf, NEW np \in Seq(Seg), NEW mp \in Thread, NEW nh \in Seq(Seg),
           NEW mh \in Thread, NEW ws \in BOOLEAN, NEW st \in Seq(Byte), NEW wr \in Seq(Byte),
           Bulks(pc, buf, np, mp, nh, mh, ws, st, wr),
           mh.at # "idle", NEW mq \in Thread, mq.at # "process", NEW wq \in BOOLEAN, wq = ws \/ AckAt(mh)
    PROVE  Bulks(pc, buf, np, mp, nh, mq, wq, st, wr)
  BY DEF Bulks, InFlight, Quiet, Silent, DataAt, AckAt

\* The peer tells its reader; the ACK is still to come.
LEMMA PeerTells ==
    ASSUME NEW pc, NEW buf, NEW np \in Seq(Seg), NEW mp \in Thread, NEW nh \in Seq(Seg),
           NEW mh \in Thread, NEW ws \in BOOLEAN, NEW st \in Seq(Byte), NEW wr \in Seq(Byte),
           Bulks(pc, buf, np, mp, nh, mh, ws, st, wr), mp.at = "wake"
    PROVE  Bulks(pc, buf, np, Owe, nh, mh, ws, st, wr)
<1>1. Owe.at = "ack"
  BY DEF Owe
<1> QED
  BY <1>1 DEF Bulks, InFlight, Quiet, Silent, DataAt, AckAt

\* The peer acknowledges what it stored.
LEMMA PeerAcks ==
    ASSUME NEW pc, NEW buf, NEW np \in Seq(Seg), NEW mp \in Thread, NEW nh \in Seq(Seg),
           NEW mh \in Thread, NEW ws \in BOOLEAN, NEW st \in Seq(Byte), NEW wr \in Seq(Byte),
           Bulks(pc, buf, np, mp, nh, mh, ws, st, wr),
           mp.at = "ack", NEW m \in Seg, IsAck(m)
    PROVE  Bulks(pc, buf, np, Idle, nh \o <<m>>, mh, ws, st, wr)
<1>1. Idle.at = "idle"
  BY DEF Idle
<1> QED
  <2> DEFINE t == nh \o <<m>>
  <2>1. AckOf(t) = AckOf(nh) \cup {Len(nh) + 1}
    BY SnocOf
  <2> HIDE DEF t
  <2>2. pc = "sent" /\ InFlight(np, mp, nh, mh, ws, st, wr)
    BY DEF Bulks, Quiet
  <2>3. InFlight(np, Idle, t, mh, ws, st, wr)
    BY <1>1, <2>1, <2>2 DEF InFlight, Silent, DataAt
  <2>4. Bulks(pc, buf, np, Idle, t, mh, ws, st, wr)
    BY <2>2, <2>3 DEF Bulks
  <2> QED
    BY <2>4 DEF t

\* A segment without data on the way to the peer.
LEMMA NoDataSent ==
    ASSUME NEW pc, NEW buf, NEW np \in Seq(Seg), NEW mp \in Thread, NEW nh \in Seq(Seg),
           NEW mh \in Thread, NEW ws \in BOOLEAN, NEW st \in Seq(Byte), NEW wr \in Seq(Byte),
           Bulks(pc, buf, np, mp, nh, mh, ws, st, wr),
           NEW m \in Seg, ~ IsData(m)
    PROVE  Bulks(pc, buf, np \o <<m>>, mp, nh, mh, ws, st, wr)
<1> DEFINE t == np \o <<m>>
<1>a. DataOf(t) = DataOf(np)
  BY SnocOf
<1>b. \A i \in DataOf(np) \cup AckOf(np) : t[i] = np[i]
  BY SnocOf
<1>1. DataOf(t) = DataOf(np) /\ \A i \in DataOf(np) : t[i] = np[i]
  BY <1>a, <1>b
<1> HIDE DEF t
<1>2. Quiet(np, mp) => Quiet(t, mp)
  BY <1>1 DEF Quiet
<1>3. InFlight(np, mp, nh, mh, ws, st, wr) => InFlight(t, mp, nh, mh, ws, st, wr)
  BY <1>1 DEF InFlight
<1>4. Bulks(pc, buf, t, mp, nh, mh, ws, st, wr)
  BY <1>2, <1>3 DEF Bulks
<1> QED
  BY <1>4 DEF t

\* A segment that is no bare ACK on the way back.
LEMMA NoAckSent ==
    ASSUME NEW pc, NEW buf, NEW np \in Seq(Seg), NEW mp \in Thread, NEW nh \in Seq(Seg),
           NEW mh \in Thread, NEW ws \in BOOLEAN, NEW st \in Seq(Byte), NEW wr \in Seq(Byte),
           Bulks(pc, buf, np, mp, nh, mh, ws, st, wr),
           NEW m \in Seg, ~ IsAck(m)
    PROVE  Bulks(pc, buf, np, mp, nh \o <<m>>, mh, ws, st, wr)
  BY SnocOf DEF Bulks, InFlight, Quiet, Silent, DataAt, AckAt

\* The application writes a bulk.
LEMMA HostWrites ==
    ASSUME NEW pc, NEW buf, NEW np \in Seq(Seg), NEW mp \in Thread, NEW nh \in Seq(Seg),
           NEW mh \in Thread, NEW ws \in BOOLEAN, NEW st \in Seq(Byte), NEW wr \in Seq(Byte),
           Bulks(pc, buf, np, mp, nh, mh, ws, st, wr),
           pc = "write", NEW d \in Seq(Byte), NEW m \in Seg, IsData(m), m.data = d
    PROVE  Bulks("emit", m, np, mp, nh, mh, ws, st, wr \o d)
  BY DEF Bulks, InFlight, Quiet, Silent, DataAt, AckAt

\* The bulk goes out.
LEMMA HostEmits ==
    ASSUME NEW pc, NEW buf, NEW np \in Seq(Seg), NEW mp \in Thread, NEW nh \in Seq(Seg),
           NEW mh \in Thread, NEW ws \in BOOLEAN, NEW st \in Seq(Byte), NEW wr \in Seq(Byte),
           Bulks(pc, buf, np, mp, nh, mh, ws, st, wr),
           pc = "emit", buf \in Seg
    PROVE  \A b : Bulks("sent", b, np \o <<buf>>, mp, nh, mh, ws, st, wr)
<1>1. IsPrefix(st, st \o buf.data)
  BY PrefixConcat DEF Seg
<1> QED
  <2> DEFINE t == np \o <<buf>>
  <2>1. /\ IsData(buf) /\ st \o buf.data = wr /\ Quiet(np, mp) /\ Silent(nh, mh, ws)
    BY DEF Bulks
  <2>2. DataOf(t) = DataOf(np) \cup {Len(np) + 1} /\ t[Len(np) + 1] = buf
    BY <2>1, SnocOf
  <2> HIDE DEF t
  <2>3. InFlight(t, mp, nh, mh, ws, st, wr)
    BY <1>1, <2>1, <2>2 DEF InFlight, Quiet, Silent
  <2>4. \A b : Bulks("sent", b, t, mp, nh, mh, ws, st, wr)
    BY <2>3 DEF Bulks
  <2> QED
    BY <2>4 DEF t

\* The application has been told that the bulk is acknowledged.
LEMMA HostWritten ==
    ASSUME NEW pc, NEW buf, NEW np \in Seq(Seg), NEW mp \in Thread, NEW nh \in Seq(Seg),
           NEW mh \in Thread, NEW ws \in BOOLEAN, NEW st \in Seq(Byte), NEW wr \in Seq(Byte),
           Bulks(pc, buf, np, mp, nh, mh, ws, st, wr),
           pc = "sent", ws
    PROVE  \A b : Bulks("read", b, np, mp, nh, mh, FALSE, st, wr)
  BY DEF Bulks, InFlight, Quiet, Silent, DataAt, AckAt

\* The application does something else.
LEMMA HostElsewhere ==
    ASSUME NEW pc, NEW buf, NEW np \in Seq(Seg), NEW mp \in Thread, NEW nh \in Seq(Seg),
           NEW mh \in Thread, NEW ws \in BOOLEAN, NEW st \in Seq(Byte), NEW wr \in Seq(Byte),
           Bulks(pc, buf, np, mp, nh, mh, ws, st, wr),
           pc \notin {"emit", "sent"}, NEW q, q \notin {"emit", "sent"}
    PROVE  \A b : Bulks(q, b, np, mp, nh, mh, ws, st, wr)
  BY DEF Bulks, InFlight, Quiet, Silent, DataAt, AckAt

LEMMA BulksPrefix ==
    ASSUME NEW pc, NEW buf, NEW np \in Seq(Seg), NEW mp \in Thread, NEW nh \in Seq(Seg),
           NEW mh \in Thread, NEW ws \in BOOLEAN, NEW st \in Seq(Byte), NEW wr \in Seq(Byte),
           buf \in Seg \/ pc # "emit",
           Bulks(pc, buf, np, mp, nh, mh, ws, st, wr)
    PROVE  IsPrefix(st, wr)
<1>1. CASE pc = "sent"
  BY <1>1 DEF Bulks, InFlight
<1>2. CASE pc = "emit"
  <2>1. IsPrefix(st, st \o buf.data)
    BY <1>2, PrefixConcat DEF Seg
  <2> QED
    BY <1>2, <2>1 DEF Bulks
<1>3. CASE pc \notin {"emit", "sent"}
  BY <1>3, PrefixRefl DEF Bulks
<1> QED
  BY <1>1, <1>2, <1>3

--------------------------------------------------------------------------------
(* The bulks of each host, and the steps of the hosts.                         *)

\* What the application of h has read and what it may still read.
Stored(h) == got[h] \o sk[h].rcv_buf

Flight(h) ==
    LET p == Peer(h)
    IN  Bulks(app[h].pc, app[h].buf, net[p], main[p], net[h], main[h],
              sk[h].wait_send, Stored(p), wrote[h])

LEMMA FlightTypes ==
    ASSUME Types, NEW h \in Host
    PROVE  /\ net[h] \in Seq(Seg) /\ main[h] \in Thread /\ sk[h].wait_send \in BOOLEAN
           /\ got[h] \in Seq(Byte) /\ sk[h].rcv_buf \in Seq(Byte)
           /\ Stored(h) \in Seq(Byte) /\ wrote[h] \in Seq(Byte)
<1>1. /\ net[h] \in Seq(Seg) /\ main[h] \in Thread /\ sk[h].wait_send \in BOOLEAN
      /\ got[h] \in Seq(Byte) /\ sk[h].rcv_buf \in Seq(Byte) /\ wrote[h] \in Seq(Byte)
  BY DEF Types, Sock, Thread
<1> QED
  BY <1>1, ConcatProperties DEF Stored

LEMMA ReceiveFlight ==
    ASSUME NEW h \in Host, NEW p \in Host, p = Peer(h), h = Peer(p), Types, Receive(h)
    PROVE  (Flight(h) => Flight(h)') /\ (Flight(p) => Flight(p)')
<1>1. /\ net[h] # <<>> /\ main[h].at = "idle" /\ net'[h] = Tail(net[h]) /\ net'[p] = net[p]
      /\ main'[h].cb = Head(net[h]) /\ main'[h].at = "process" /\ main'[p] = main[p]
      /\ UNCHANGED <<sk, app, wrote, got>> /\ main'[h] \in Thread
  BY ReceiveStep DEF Idle, Thread
<1>2. Stored(h)' = Stored(h) /\ Stored(p)' = Stored(p)
  BY <1>1 DEF Stored
<1>3. ASSUME Flight(h) PROVE Flight(h)'
  <2>1. Bulks(app[h].pc, app[h].buf, net[p], main[p], Tail(net[h]), main'[h],
              sk[h].wait_send, Stored(p), wrote[h])
    BY <1>1, <1>3, FlightTypes, HostReceives DEF Flight
  <2> QED
    BY <1>1, <1>2, <2>1 DEF Flight
<1>4. ASSUME Flight(p) PROVE Flight(p)'
  <2>1. Bulks(app[p].pc, app[p].buf, Tail(net[h]), main'[h], net[p], main[p],
              sk[p].wait_send, Stored(h), wrote[p])
    BY <1>1, <1>4, FlightTypes, PeerReceives DEF Flight
  <2> QED
    BY <1>1, <1>2, <2>1 DEF Flight
<1> QED
  BY <1>3, <1>4

LEMMA ProcessFlight ==
    ASSUME NEW h \in Host, NEW p \in Host, p = Peer(h), h = Peer(p), Types, Process(h)
    PROVE  /\ Flight(h) => Flight(h)'
           /\ /\ Flight(p) /\ TCP_FIN \notin main[h].cb.flags
              /\ main[h].state \in {"CLOSED", "SYN_RECV", "ESTABLISHED"}
              => Flight(p)'
<1>1. PICK r : /\ Effect(sk[h], main[h].state, main[h].cb, r)
               /\ sk'[h] = r.tsk /\ sk'[p] = sk[p]
               /\ net'[h] = net[h] /\ net'[p] = net[p] \o r.out
               /\ main'[h] = IF r.stored THEN Wake ELSE Idle
               /\ main'[p] = main[p]
               /\ UNCHANGED <<app, wrote, got>>
  BY ProcessStep
<1>2. main[h].at = "process" /\ main[h].cb \in Seg
  BY ProcessStep
<1> DEFINE tsk == sk[h]
           state == main[h].state
           cb == main[h].cb
<1>3. /\ r \in Results /\ r.tsk \in Sock /\ r.stored \in BOOLEAN
      /\ r.out \in {<<>>} \cup {<<m>> : m \in Seg}
      /\ AnswerOK(state, cb, r) /\ StoreOK(tsk, state, cb, r)
  BY <1>1 DEF Effect, Results
<1>4. Stored(p)' = Stored(p)
  BY <1>1 DEF Stored
<1>5. r.tsk.wait_send \in BOOLEAN
  BY <1>3 DEF Sock
<1>6. \A n \in Seq(Seg) : n \o <<>> = n
  BY ConcatEmptySeq
<1>7. net[h] \in Seq(Seg) /\ net[p] \in Seq(Seg)
  BY FlightTypes
<1>8. ASSUME Flight(h) PROVE Flight(h)'
  <2>1. main'[h] \in {Idle, Wake}
    BY <1>1
  <2>2. r.tsk.wait_send = sk[h].wait_send \/ AckAt(main[h])
    BY <1>2, <1>3 DEF StoreOK, AckAt, IsAck
  <2>3. Bulks(app[h].pc, app[h].buf, net[p], main[p], net[h], main'[h],
              r.tsk.wait_send, Stored(p), wrote[h])
    <3>1. Bulks(app[h].pc, app[h].buf, net[p], main[p], net[h], main[h],
                sk[h].wait_send, Stored(p), wrote[h])
      BY <1>8 DEF Flight
    <3>2. /\ net[h] \in Seq(Seg) /\ net[p] \in Seq(Seg) /\ main[h] \in Thread /\ main[p] \in Thread
          /\ sk[h].wait_send \in BOOLEAN /\ Stored(p) \in Seq(Byte) /\ wrote[h] \in Seq(Byte)
          /\ main[h].at # "idle"
      BY <1>2, FlightTypes
    <3> DEFINE mq == main'[h]
               wq == r.tsk.wait_send
               mh == main[h]
               ws == sk[h].wait_send
    <3>3. /\ mq \in Thread /\ mq.at # "process" /\ wq \in BOOLEAN /\ mh \in Thread /\ ws \in BOOLEAN
          /\ mh.at # "idle" /\ (wq = ws \/ AckAt(mh))
      BY <1>5, <2>1, <2>2, <3>2 DEF Thread, Idle, Wake
    <3>4. Bulks(app[h].pc, app[h].buf, net[p], main[p], net[h], mh, ws, Stored(p), wrote[h])
      BY <3>1
    <3> HIDE DEF mq, wq, mh, ws
    <3>5. Bulks(app[h].pc, app[h].buf, net[p], main[p], net[h], mq, wq, Stored(p), wrote[h])
      BY <3>2, <3>3, <3>4, HostProcesses
    <3> QED
      BY <3>5 DEF mq, wq
  <2>4. CASE r.out = <<>>
    BY <1>1, <1>4, <1>6, <1>7, <2>3, <2>4 DEF Flight
  <2>5. ASSUME NEW m \in Seg, r.out = <<m>> PROVE Flight(h)'
    <3>1. ~ IsData(m)
      BY <1>3, <2>5 DEF AnswerOK, IsData
    <3>2. main'[h] \in Thread
      BY <2>1 DEF Thread
    <3>3. Bulks(app[h].pc, app[h].buf, net[p] \o <<m>>, main[p], net[h], main'[h],
                r.tsk.wait_send, Stored(p), wrote[h])
      BY <1>5, <2>3, <3>1, <3>2, FlightTypes, NoDataSent
    <3> QED
      BY <1>1, <1>4, <2>5, <3>3 DEF Flight
  <2> QED
    BY <1>3, <2>4, <2>5
<1>9. ASSUME Flight(p), TCP_FIN \notin cb.flags, state \in {"CLOSED", "SYN_RECV", "ESTABLISHED"}
      PROVE  Flight(p)'
  <2>1. CASE r.stored
    <3>1. /\ main'[h] = Wake /\ r.out = <<>> /\ IsData(cb) /\ DataAt(main[h])
          /\ r.tsk.rcv_buf = sk[h].rcv_buf \o cb.data
      BY <1>1, <1>2, <1>3, <2>1 DEF StoreOK, IsData, DataAt
    <3>2. Stored(h)' = Stored(h) \o cb.data
      <4>1. got[h] \in Seq(Byte) /\ sk[h].rcv_buf \in Seq(Byte) /\ cb.data \in Seq(Byte)
        BY <1>2, FlightTypes DEF Seg
      <4>2. Stored(h)' = got[h] \o (sk[h].rcv_buf \o cb.data)
        BY <1>1, <3>1 DEF Stored
      <4> QED
        <5> DEFINE x == got[h]
                   y == sk[h].rcv_buf
                   z == cb.data
        <5>1. x \in Seq(Byte) /\ y \in Seq(Byte) /\ z \in Seq(Byte)
          BY <4>1
        <5>2. Stored(h)' = x \o (y \o z) /\ Stored(h) = x \o y
          BY <4>2 DEF Stored
        <5> HIDE DEF x, y, z
        <5>3. (x \o y) \o z = x \o (y \o z)
          BY <5>1, ConcatAssociative
        <5> QED
          BY <5>2, <5>3 DEF z
    <3>3. Bulks(app[p].pc, app[p].buf, net[h], Wake, net[p], main[p],
                sk[p].wait_send, Stored(h) \o cb.data, wrote[p])
      BY <1>9, <3>1, FlightTypes, PeerStores DEF Flight
    <3>4. net'[p] = net[p]
      BY <1>1, <1>6, <1>7, <3>1
    <3> QED
      BY <1>1, <3>1, <3>2, <3>3, <3>4 DEF Flight
  <2>2. CASE ~ r.stored
    <3>1. main'[h] = Idle /\ r.tsk.rcv_buf = sk[h].rcv_buf
      BY <1>1, <1>3, <2>2 DEF StoreOK
    <3>2. Stored(h)' = Stored(h)
      BY <1>1, <3>1 DEF Stored
    <3>3. Bulks(app[p].pc, app[p].buf, net[h], Idle, net[p], main[p],
                sk[p].wait_send, Stored(h), wrote[p])
      BY <1>2, <1>9, FlightTypes, PeerDrops DEF Flight
    <3>4. CASE r.out = <<>>
      BY <1>1, <1>6, <1>7, <3>1, <3>2, <3>3, <3>4 DEF Flight
    <3>5. ASSUME NEW m \in Seg, r.out = <<m>> PROVE Flight(p)'
      <4>1. ~ IsAck(m)
        BY <1>3, <1>9, <3>5 DEF AnswerOK, IsAck
      <4>2. Idle \in Thread
        BY DEF Thread
      <4>3. Bulks(app[p].pc, app[p].buf, net[h], Idle, net[p] \o <<m>>, main[p],
                  sk[p].wait_send, Stored(h), wrote[p])
        BY <3>3, <4>1, <4>2, FlightTypes, NoAckSent
      <4> QED
        BY <1>1, <3>1, <3>2, <3>5, <4>3 DEF Flight
    <3> QED
      BY <1>3, <3>4, <3>5
  <2> QED
    BY <1>3, <2>1, <2>2
<1> QED
  BY <1>8, <1>9

LEMMA WakeFlight ==
    ASSUME NEW h \in Host, NEW p \in Host, p = Peer(h), h = Peer(p), Types, WakeReader(h)
    PROVE  (Flight(h) => Flight(h)') /\ (Flight(p) => Flight(p)')
<1>1. /\ main[h] = Wake /\ main'[h] = Owe /\ main'[p] = main[p] /\ sk'[p] = sk[p]
      /\ sk'[h].rcv_buf = sk[h].rcv_buf /\ sk'[h].wait_send = sk[h].wait_send
      /\ UNCHANGED <<app, net, wrote, got>>
  BY WakeStep
<1>2. Stored(h)' = Stored(h) /\ Stored(p)' = Stored(p)
  BY <1>1 DEF Stored
<1>3. Wake.at = "wake" /\ Wake.at # "idle" /\ Owe \in Thread /\ Owe.at # "process"
  BY DEF Wake, Thread, Owe
<1>4. ASSUME Flight(h) PROVE Flight(h)'
  <2>1. Bulks(app[h].pc, app[h].buf, net[p], main[p], net[h], Owe,
              sk[h].wait_send, Stored(p), wrote[h])
    BY <1>1, <1>3, <1>4, FlightTypes, HostProcesses DEF Flight
  <2> QED
    BY <1>1, <1>2, <2>1 DEF Flight
<1>5. ASSUME Flight(p) PROVE Flight(p)'
  <2>1. Bulks(app[p].pc, app[p].buf, net[h], Owe, net[p], main[p],
              sk[p].wait_send, Stored(h), wrote[p])
    BY <1>1, <1>3, <1>5, FlightTypes, PeerTells DEF Flight
  <2> QED
    BY <1>1, <1>2, <2>1 DEF Flight
<1> QED
  BY <1>4, <1>5

LEMMA AckFlight ==
    ASSUME NEW h \in Host, NEW p \in Host, p = Peer(h), h = Peer(p), Types, Acknowledge(h)
    PROVE  (Flight(h) => Flight(h)') /\ (Flight(p) => Flight(p)')
<1>1. PICK m \in Seg : /\ m.flags = {TCP_ACK}
                       /\ net'[h] = net[h] /\ net'[p] = net[p] \o <<m>>
  BY AckStep
<1>2. /\ main[h] = Owe /\ main'[h] = Idle /\ main'[p] = main[p] /\ sk'[p] = sk[p]
      /\ sk'[h].rcv_buf = sk[h].rcv_buf /\ sk'[h].wait_send = sk[h].wait_send
      /\ UNCHANGED <<app, wrote, got>>
  BY AckStep
<1>3. Stored(h)' = Stored(h) /\ Stored(p)' = Stored(p)
  BY <1>2 DEF Stored
<1>4. Owe.at = "ack" /\ Idle \in Thread /\ Idle.at # "process"
  BY DEF Owe, Thread, Idle
<1>5. IsAck(m) /\ ~ IsData(m)
  BY <1>1, DataIsNotAck DEF IsAck
<1>6. ASSUME Flight(h) PROVE Flight(h)'
  <2>1. Bulks(app[h].pc, app[h].buf, net[p], main[p], net[h], Idle,
              sk[h].wait_send, Stored(p), wrote[h])
    BY <1>2, <1>4, <1>6, FlightTypes, HostProcesses DEF Flight
  <2>2. Bulks(app[h].pc, app[h].buf, net[p] \o <<m>>, main[p], net[h], Idle,
              sk[h].wait_send, Stored(p), wrote[h])
    BY <1>4, <1>5, <2>1, FlightTypes, NoDataSent
  <2> QED
    BY <1>1, <1>2, <1>3, <2>2 DEF Flight
<1>7. ASSUME Flight(p) PROVE Flight(p)'
  <2>1. Bulks(app[p].pc, app[p].buf, net[h], Idle, net[p] \o <<m>>, main[p],
              sk[p].wait_send, Stored(h), wrote[p])
    BY <1>2, <1>4, <1>5, <1>7, FlightTypes, PeerAcks DEF Flight
  <2> QED
    BY <1>1, <1>2, <1>3, <2>1 DEF Flight
<1> QED
  BY <1>6, <1>7

LEMMA WriteFlight ==
    ASSUME NEW h \in Host, NEW p \in Host, p = Peer(h), h = Peer(p), Types, Write(h)
    PROVE  (Flight(h) => Flight(h)') /\ (Flight(p) => Flight(p)')
<1>1. /\ app[h].pc = "write" /\ app[h].buf \in Seq(Byte)
      /\ app'[h].pc = "emit" /\ app'[h].buf \in Seg
      /\ IsData(app'[h].buf) /\ app'[h].buf.data = app[h].buf
      /\ app'[p] = app[p] /\ sk'[p] = sk[p]
      /\ sk'[h].rcv_buf = sk[h].rcv_buf /\ sk'[h].wait_send = sk[h].wait_send
      /\ wrote'[h] = wrote[h] \o app[h].buf /\ wrote'[p] = wrote[p]
      /\ UNCHANGED <<main, net, got>>
  BY WriteStep DEF SameButSeq, IsData
<1>2. Stored(h)' = Stored(h) /\ Stored(p)' = Stored(p)
  BY <1>1 DEF Stored
<1>3. ASSUME Flight(h) PROVE Flight(h)'
  <2>1. Bulks("emit", app'[h].buf, net[p], main[p], net[h], main[h],
              sk[h].wait_send, Stored(p), wrote[h] \o app[h].buf)
    BY <1>1, <1>3, FlightTypes, HostWrites DEF Flight
  <2> QED
    BY <1>1, <1>2, <2>1 DEF Flight
<1>4. ASSUME Flight(p) PROVE Flight(p)'
  BY <1>1, <1>2, <1>4 DEF Flight
<1> QED
  BY <1>3, <1>4

LEMMA EmitFlight ==
    ASSUME NEW h \in Host, NEW p \in Host, p = Peer(h), h = Peer(p), Types, Emit(h)
    PROVE  (Flight(h) => Flight(h)') /\ (Flight(h) /\ Flight(p) => Flight(p)')
<1>1. /\ app[h].pc = "emit" /\ app[h].buf \in Seg /\ app'[h].pc = "sent"
      /\ app'[p] = app[p]
      /\ net'[h] = net[h] /\ net'[p] = net[p] \o <<app[h].buf>>
      /\ UNCHANGED <<sk, main, wrote, got>>
  BY EmitStep
<1>2. Stored(h)' = Stored(h) /\ Stored(p)' = Stored(p)
  BY <1>1 DEF Stored
<1>3. ASSUME Flight(h) PROVE Flight(h)'
  <2>1. Bulks("sent", app'[h].buf, net[p] \o <<app[h].buf>>, main[p], net[h], main[h],
              sk[h].wait_send, Stored(p), wrote[h])
    BY <1>1, <1>3, FlightTypes, HostEmits DEF Flight
  <2> QED
    BY <1>1, <1>2, <2>1 DEF Flight
<1>4. ASSUME Flight(h), Flight(p) PROVE Flight(p)'
  <2>1. ~ IsAck(app[h].buf)
    BY <1>1, <1>4, DataIsNotAck DEF Flight, Bulks
  <2>2. Bulks(app[p].pc, app[p].buf, net[h], main[h], net[p] \o <<app[h].buf>>, main[p],
              sk[p].wait_send, Stored(h), wrote[p])
    BY <1>1, <1>4, <2>1, FlightTypes, NoAckSent DEF Flight
  <2> QED
    BY <1>1, <1>2, <2>2 DEF Flight
<1> QED
  BY <1>3, <1>4

LEMMA WrittenFlight ==
    ASSUME NEW h \in Host, NEW p \in Host, p = Peer(h), h = Peer(p), Types, Written(h)
    PROVE  (Flight(h) => Flight(h)') /\ (Flight(p) => Flight(p)')
<1>1. /\ app[h].pc = "sent" /\ app'[h].pc = "read" /\ app'[p] = app[p]
      /\ sk[h].wait_send /\ sk'[h].wait_send = FALSE
      /\ sk'[h].rcv_buf = sk[h].rcv_buf /\ sk'[p] = sk[p]
      /\ UNCHANGED <<main, net, wrote, got>>
  <2>1. sk'[h].wait_send \in BOOLEAN
    BY WrittenStep DEF Types, Sock
  <2> QED
    BY <2>1, WrittenStep
<1>2. Stored(h)' = Stored(h) /\ Stored(p)' = Stored(p)
  BY <1>1 DEF Stored
<1>3. ASSUME Flight(h) PROVE Flight(h)'
  <2>1. Bulks("read", app'[h].buf, net[p], main[p], net[h], main[h],
              FALSE, Stored(p), wrote[h])
    <3>1. Bulks("sent", app[h].buf, net[p], main[p], net[h], main[h],
                TRUE, Stored(p), wrote[h])
      <4>1. sk[h].wait_send = TRUE
        BY <1>1, FlightTypes
      <4> QED
        BY <1>1, <1>3, <4>1 DEF Flight
    <3>2. /\ net[h] \in Seq(Seg) /\ net[p] \in Seq(Seg) /\ main[h] \in Thread /\ main[p] \in Thread
          /\ Stored(p) \in Seq(Byte) /\ wrote[h] \in Seq(Byte)
      BY FlightTypes
    <3> QED
      BY <3>1, <3>2, HostWritten
  <2> QED
    BY <1>1, <1>2, <2>1 DEF Flight
<1>4. ASSUME Flight(p) PROVE Flight(p)'
  BY <1>1, <1>2, <1>4 DEF Flight
<1> QED
  BY <1>3, <1>4

\* The application of h goes on, and nothing that the bulks depend on changes.
LEMMA ElsewhereFlight ==
    ASSUME NEW h \in Host, NEW p \in Host, p = Peer(h), h = Peer(p), Types,
           app[h].pc \notin {"emit", "sent"}, app'[h].pc \notin {"emit", "sent"},
           app'[p] = app[p], sk'[h].wait_send = sk[h].wait_send, sk'[p].wait_send = sk[p].wait_send,
           Stored(h)' = Stored(h), Stored(p)' = Stored(p),
           UNCHANGED <<main, net, wrote>>
    PROVE  (Flight(h) => Flight(h)') /\ (Flight(p) => Flight(p)')
<1>1. ASSUME Flight(h) PROVE Flight(h)'
  <2>1. Bulks(app'[h].pc, app'[h].buf, net[p], main[p], net[h], main[h],
              sk[h].wait_send, Stored(p), wrote[h])
    BY <1>1, FlightTypes, HostElsewhere DEF Flight
  <2> QED
    BY <2>1 DEF Flight
<1>2. ASSUME Flight(p) PROVE Flight(p)'
  BY <1>2 DEF Flight
<1> QED
  BY <1>1, <1>2

\* Reading moves bytes from the buffer to the application.
LEMMA ReadStored ==
    ASSUME NEW h \in Host, NEW p \in Host, p = Peer(h), h = Peer(p), Types,
           ReadTest(h) \/ ReadTake(h) \/ ReadWoken(h)
    PROVE  /\ app[h].pc \in {"read", "take", "recv"} /\ app'[p] = app[p]
           /\ app'[h].pc \in {"read", "write", "close", "recv", "take"}
           /\ sk'[h].state = sk[h].state /\ sk'[h].timer = sk[h].timer
           /\ sk'[h].wait_connect = sk[h].wait_connect /\ sk'[h].wait_send = sk[h].wait_send
           /\ sk'[p] = sk[p] /\ Stored(h)' = Stored(h) /\ Stored(p)' = Stored(p)
           /\ got'[p] = got[p]
           /\ UNCHANGED <<backlog, main, net, wrote>>
<1>1. \A s, t \in Seq(Byte) : (s \o t) \o <<>> = s \o t
  BY ConcatProperties, ConcatEmptySeq
<1>2. got[h] \in Seq(Byte) /\ sk[h].rcv_buf \in Seq(Byte)
  BY FlightTypes
<1>3. CASE ReadTest(h) \/ ReadTake(h)
  <2>1. /\ \/ got'[h] = got[h] \o sk[h].rcv_buf /\ sk'[h].rcv_buf = <<>>
           \/ got'[h] = got[h] /\ sk'[h].rcv_buf = sk[h].rcv_buf
        /\ sk'[p] = sk[p] /\ got'[p] = got[p]
    BY <1>3, ReadStep
  <2>2. Stored(h)' = Stored(h) /\ Stored(p)' = Stored(p)
    BY <1>1, <1>2, <2>1 DEF Stored
  <2>3. /\ app[h].pc \in {"read", "take"} /\ app'[p] = app[p]
        /\ app'[h].pc \in {"read", "write", "close", "recv"}
        /\ sk'[h].state = sk[h].state /\ sk'[h].timer = sk[h].timer
        /\ sk'[h].wait_connect = sk[h].wait_connect /\ sk'[h].wait_send = sk[h].wait_send
        /\ UNCHANGED <<backlog, main, net, wrote>>
    BY <1>3, ReadStep
  <2> QED
    BY <2>1, <2>2, <2>3
<1>4. CASE ReadWoken(h)
  <2>1. /\ app[h].pc = "recv" /\ app'[h].pc = "take" /\ app'[p] = app[p]
        /\ sk'[h].state = sk[h].state
        /\ sk'[h].rcv_buf = sk[h].rcv_buf /\ sk'[h].timer = sk[h].timer
        /\ sk'[h].wait_connect = sk[h].wait_connect /\ sk'[h].wait_send = sk[h].wait_send
        /\ sk'[p] = sk[p]
        /\ UNCHANGED <<backlog, main, net, wrote, got>>
    BY <1>4, ReadWokenStep
  <2>2. Stored(h)' = Stored(h) /\ Stored(p)' = Stored(p)
    BY <2>1 DEF Stored
  <2> QED
    BY <2>1, <2>2
<1> QED
  BY <1>3, <1>4

--------------------------------------------------------------------------------
(* The connection.  While it is open nobody has sent a FIN, and the client's   *)
(* bulks are as Flight says.  So are the server's once accept has returned;    *)
(* before, the ACK of the handshake is a bare ACK that no bulk caused, and     *)
(* Greeting keeps it away from the server's first write: it must have been     *)
(* processed for the connection to be in the accept queue.                     *)

Open == app["client"].pc \notin {"FIN_WAIT_1", "LAST_ACK", "done"}
PreAccept == app["server"].pc \in {"accept", "accepting", "dequeue"}

NoFinOn(s) == \A i \in DOMAIN s : TCP_FIN \notin s[i].flags
NoFin ==
    \A h \in Host : /\ NoFinOn(net[h])
                    /\ main[h].at = "process" => TCP_FIN \notin main[h].cb.flags

\* The states of the socks, and the state each main thread has read.
ClientStates ==
    /\ sk["client"].state \in {"CLOSED", "SYN_SENT", "ESTABLISHED"}
    /\ sk["client"].timer = "off"
    /\ main["client"].at = "process" =>
           /\ main["client"].state \in {"CLOSED", "SYN_SENT", "ESTABLISHED"}
           /\ main["client"].state = "SYN_SENT" => sk["client"].state = "SYN_SENT"

ServerStates ==
    /\ sk["server"].state \in {"NONE", "SYN_RECV", "CLOSED", "ESTABLISHED"}
    /\ sk["server"].timer = "off"
    /\ sk["server"].state = "NONE" => PreAccept
    /\ main["server"].at = "process" =>
           /\ main["server"].state \in {"NONE", "SYN_RECV", "CLOSED", "ESTABLISHED"}
           /\ main["server"].state = "NONE" => PreAccept

\* Before the ACK of the handshake, and before anything.
Connecting ==
    /\ sk["client"].state = "SYN_SENT" =>
           /\ PreAccept /\ AckOf(net["server"]) = {} /\ ~ AckAt(main["server"]) /\ backlog.n = 0
           /\ app["client"].pc = "connecting" /\ ~ sk["client"].wait_connect
    /\ app["client"].pc = "connect" =>
           /\ net["client"] = <<>> /\ net["server"] = <<>>
           /\ main["client"].at = "idle" /\ main["server"].at = "idle"
           /\ PreAccept /\ backlog.n = 0

\* What no step of the client changes until accept returns ...
Blank ==
    /\ ~ sk["server"].wait_send /\ wrote["server"] = <<>>
    /\ Stored("client") = <<>> /\ Stored("server") = <<>>
    /\ main["server"].at \notin {"wake", "ack"} /\ Quiet(net["client"], main["client"])

\* ... the server's sock until then ...
Child ==
    /\ sk["server"].state \in {"NONE", "SYN_RECV", "CLOSED"}
    /\ sk["server"].state = "NONE" => backlog.n = 0
    /\ main["server"].at = "process" =>
           /\ main["server"].state \in {"NONE", "SYN_RECV", "CLOSED"}
           /\ main["server"].state = "NONE" <=> sk["server"].state = "NONE"

\* ... and the ACK of the handshake: one, ahead of the data.
HandshakeAck ==
    /\ \A i, j \in AckOf(net["server"]) : i = j
    /\ \/ AckAt(main["server"]) \/ DataAt(main["server"]) \/ backlog.n # 0
       => AckOf(net["server"]) = {}
    /\ backlog.n # 0 => ~ AckAt(main["server"])
    /\ \A i \in DataOf(net["server"]), j \in AckOf(net["server"]) : j < i

OpenInv ==
    /\ NoFin /\ ClientStates /\ ServerStates /\ Connecting /\ Flight("client")
    /\ PreAccept => Blank /\ Child /\ HandshakeAck
    /\ ~ PreAccept => Flight("server")

\* After the FIN of the client no data is on its way to the server.
ClosedInv ==
    /\ DataOf(net["server"]) = {} /\ ~ DataAt(main["server"])
    /\ IsPrefix(Stored("server"), wrote["client"])
    /\ IsPrefix(got["client"], wrote["server"])

StreamInv == IF Open THEN OpenInv ELSE ClosedInv

LEMMA FinTail ==
    ASSUME NEW s \in Seq(Seg), s # <<>>, NoFinOn(s)
    PROVE  NoFinOn(Tail(s)) /\ TCP_FIN \notin Head(s).flags
<1>1. /\ Tail(s) \in Seq(Seg) /\ Len(s) \in Nat /\ Len(Tail(s)) = Len(s) - 1
      /\ \A i \in 1 .. Len(Tail(s)) : Tail(s)[i] = s[i + 1]
      /\ DOMAIN s = 1 .. Len(s) /\ DOMAIN Tail(s) = 1 .. Len(s) - 1 /\ Len(s) # 0
  BY HeadTailProperties, LenProperties, EmptySeq
<1>2. Head(s) = s[1]
  OBVIOUS
<1>3. \A i \in DOMAIN Tail(s) : i + 1 \in DOMAIN s /\ Tail(s)[i] = s[i + 1]
  BY <1>1
<1>4. 1 \in DOMAIN s
  BY <1>1
<1> QED
  BY <1>2, <1>3, <1>4 DEF NoFinOn

LEMMA FinSnoc ==
    ASSUME NEW s \in Seq(Seg), NEW m \in Seg, NoFinOn(s), TCP_FIN \notin m.flags
    PROVE  NoFinOn(s \o <<m>>)
<1> DEFINE t == s \o <<m>>
<1>1. DOMAIN t = DOMAIN s \cup {Len(s) + 1} /\ t[Len(s) + 1] = m
  BY SnocOf
<1>2. \A i \in DOMAIN s : t[i] = s[i]
  BY SnocOf
<1> HIDE DEF t
<1>3. NoFinOn(t)
  BY <1>1, <1>2 DEF NoFinOn
<1> QED
  BY <1>3 DEF t

LEMMA QuietTail ==
    ASSUME NEW n \in Seq(Seg), n # <<>>, NEW m, Quiet(n, m), NEW q, q.at = "process",
           q.cb = Head(n)
    PROVE  Quiet(Tail(n), q)
<1> DEFINE t == Tail(n)
<1>1. /\ \A i \in DataOf(t) : i + 1 \in DataOf(n)
      /\ IsData(q.cb) => 1 \in DataOf(n)
  BY TailOf
<1> HIDE DEF t
<1>2. Quiet(t, q)
  BY <1>1 DEF Quiet, DataAt
<1> QED
  BY <1>2 DEF t

LEMMA FlagSets ==
    /\ {TCP_SYN, TCP_ACK} # {TCP_PSH, TCP_ACK} /\ {TCP_SYN, TCP_ACK} # {TCP_ACK}
    /\ {TCP_FIN, TCP_ACK} # {TCP_PSH, TCP_ACK} /\ {TCP_SYN} # {TCP_PSH, TCP_ACK}
    /\ {TCP_SYN} # {TCP_ACK} /\ {TCP_ACK} # {TCP_PSH, TCP_ACK}
    /\ TCP_FIN \notin {TCP_SYN, TCP_ACK} /\ TCP_FIN \notin {TCP_SYN} /\ TCP_FIN \notin {TCP_ACK}
<1>1. /\ TCP_SYN \notin {TCP_PSH, TCP_ACK} /\ TCP_SYN \notin {TCP_ACK}
      /\ TCP_FIN \notin {TCP_PSH, TCP_ACK} /\ TCP_PSH \notin {TCP_ACK}
      /\ TCP_FIN \notin {TCP_SYN, TCP_ACK} /\ TCP_FIN \notin {TCP_SYN} /\ TCP_FIN \notin {TCP_ACK}
  BY DEF TCP_FIN, TCP_SYN, TCP_PSH, TCP_ACK
<1> QED
  BY <1>1

LEMMA Hosts == /\ "client" \in Host /\ "server" \in Host
               /\ Peer("client") = "server" /\ Peer("server") = "client"
               /\ \A h \in Host : h = "client" \/ h = "server"
  BY DEF Host, Peer

\* In every state of the invariant, what is stored is a prefix of what was written.
LEMMA StoredIsPrefix ==
    ASSUME Types, Open, OpenInv
    PROVE  \A h \in Host : IsPrefix(Stored(h), wrote[Peer(h)])
<1>1. IsPrefix(Stored("server"), wrote["client"])
  <2>1. app["client"].buf \in Seg \/ app["client"].pc # "emit"
    BY Hosts DEF Types
  <2>2. Bulks(app["client"].pc, app["client"].buf, net["server"], main["server"], net["client"],
              main["client"], sk["client"].wait_send, Stored("server"), wrote["client"])
    BY Hosts DEF OpenInv, Flight
  <2> QED
    BY <2>1, <2>2, Hosts, FlightTypes, BulksPrefix
<1>2. CASE PreAccept
  <2>1. Stored("client") = <<>> /\ wrote["server"] = <<>>
    BY <1>2 DEF OpenInv, Blank
  <2>2. <<>> \in Seq(Byte)
    OBVIOUS
  <2>3. IsPrefix(Stored("client"), wrote["server"])
    BY <2>1, <2>2, PrefixRefl
  <2> QED
    BY <1>1, <2>3, Hosts
<1>3. CASE ~ PreAccept
  <2>1. app["server"].buf \in Seg \/ app["server"].pc # "emit"
    BY Hosts DEF Types
  <2>2. Bulks(app["server"].pc, app["server"].buf, net["client"], main["client"], net["server"],
              main["server"], sk["server"].wait_send, Stored("client"), wrote["server"])
    BY <1>3, Hosts DEF OpenInv, Flight
  <2>3. IsPrefix(Stored("client"), wrote["server"])
    BY <2>1, <2>2, Hosts, FlightTypes, BulksPrefix
  <2> QED
    BY <1>1, <2>3, Hosts
<1> QED
  BY <1>2, <1>3

LEMMA GotIsPrefix ==
    ASSUME Types, NEW h \in Host, NEW w \in Seq(Byte), IsPrefix(Stored(h), w)
    PROVE  IsPrefix(got[h], w)
<1>1. got[h] \in Seq(Byte) /\ sk[h].rcv_buf \in Seq(Byte) /\ Stored(h) \in Seq(Byte)
  BY FlightTypes
<1>2. IsPrefix(got[h], Stored(h))
  BY <1>1, PrefixConcat DEF Stored
<1> QED
  BY <1>1, <1>2, PrefixTrans

\* Steps of the applications that leave wires, main threads and states alone.
LEMMA FrameInv ==
    ASSUME Open, OpenInv, main' = main, net' = net, backlog'.n = backlog.n,
           \A h \in Host : /\ sk'[h].state = sk[h].state /\ sk'[h].timer = sk[h].timer
                           /\ Stored(h)' = Stored(h),
           PreAccept' = PreAccept,
           PreAccept => /\ sk'["server"].wait_send = sk["server"].wait_send
                        /\ wrote'["server"] = wrote["server"],
           \/ /\ app'["client"] = app["client"]
              /\ sk'["client"].wait_connect = sk["client"].wait_connect
           \/ sk["client"].state # "SYN_SENT" /\ app'["client"].pc # "connect"
    PROVE  /\ NoFin' /\ ClientStates' /\ ServerStates' /\ Connecting'
           /\ PreAccept' => Blank' /\ Child' /\ HandshakeAck'
<1>1. NoFin /\ ClientStates /\ ServerStates /\ Connecting
      /\ (PreAccept => Blank /\ Child /\ HandshakeAck)
  BY DEF OpenInv
<1>2. NoFin' /\ ClientStates' /\ ServerStates'
  BY <1>1, Hosts DEF NoFin, ClientStates, ServerStates
<1>3. Connecting'
  BY <1>1, Hosts DEF Connecting
<1>4. PreAccept => Blank' /\ Child' /\ HandshakeAck'
  BY <1>1, Hosts DEF Blank, Child, HandshakeAck
<1> QED
  BY <1>2, <1>3, <1>4

LEMMA ReadWriteInv ==
    ASSUME Types, Open, OpenInv, NEW h \in Host,
           \/ Write(h) \/ Written(h) \/ ReadTest(h) \/ ReadTake(h) \/ ReadWoken(h)
    PROVE  Open' /\ OpenInv'
<1> DEFINE p == Peer(h)
<1>1. p \in Host /\ p = Peer(h) /\ h = Peer(p) /\ (h = "server" => p = "client")
      /\ (h = "client" => p = "server")
  BY PeerType, Hosts
<1> HIDE DEF p
<1>2. /\ app'[p] = app[p] /\ sk'[p] = sk[p]
      /\ app[h].pc \in {"write", "sent", "read", "take", "recv"}
      /\ app'[h].pc \in {"emit", "read", "write", "close", "recv", "take"}
      /\ sk'[h].state = sk[h].state /\ sk'[h].timer = sk[h].timer
      /\ sk'[h].wait_connect = sk[h].wait_connect
      /\ Stored(h)' = Stored(h) /\ Stored(p)' = Stored(p)
      /\ wrote'[p] = wrote[p] /\ UNCHANGED <<backlog, main, net>>
      /\ (Flight(h) => Flight(h)') /\ (Flight(p) => Flight(p)')
  <2>1. CASE Write(h)
    <3>1. /\ app'[p] = app[p] /\ sk'[p] = sk[p] /\ app[h].pc = "write" /\ app'[h].pc = "emit"
          /\ sk'[h].state = sk[h].state /\ sk'[h].timer = sk[h].timer
          /\ sk'[h].wait_connect = sk[h].wait_connect /\ sk'[h].rcv_buf = sk[h].rcv_buf
          /\ wrote'[p] = wrote[p] /\ UNCHANGED <<backlog, main, net, got>>
      BY <1>1, <2>1, WriteStep DEF SameButSeq
    <3>2. Stored(h)' = Stored(h) /\ Stored(p)' = Stored(p)
      BY <3>1 DEF Stored
    <3>3. (Flight(h) => Flight(h)') /\ (Flight(p) => Flight(p)')
      BY <1>1, <2>1, WriteFlight
    <3> QED
      BY <3>1, <3>2, <3>3
  <2>2. CASE Written(h)
    <3>1. /\ app'[p] = app[p] /\ sk'[p] = sk[p] /\ app[h].pc = "sent" /\ app'[h].pc = "read"
          /\ sk'[h].state = sk[h].state /\ sk'[h].timer = sk[h].timer
          /\ sk'[h].wait_connect = sk[h].wait_connect /\ sk'[h].rcv_buf = sk[h].rcv_buf
          /\ UNCHANGED <<backlog, main, net, wrote, got>>
      BY <1>1, <2>2, WrittenStep
    <3>2. Stored(h)' = Stored(h) /\ Stored(p)' = Stored(p)
      BY <3>1 DEF Stored
    <3>3. (Flight(h) => Flight(h)') /\ (Flight(p) => Flight(p)')
      BY <1>1, <2>2, WrittenFlight
    <3> QED
      BY <3>1, <3>2, <3>3
  <2>3. CASE ReadTest(h) \/ ReadTake(h) \/ ReadWoken(h)
    <3>1. /\ app[h].pc \in {"read", "take", "recv"} /\ app'[p] = app[p]
          /\ app'[h].pc \in {"read", "write", "close", "recv", "take"}
          /\ sk'[h].state = sk[h].state /\ sk'[h].timer = sk[h].timer
          /\ sk'[h].wait_connect = sk[h].wait_connect /\ sk'[h].wait_send = sk[h].wait_send
          /\ sk'[p] = sk[p] /\ Stored(h)' = Stored(h) /\ Stored(p)' = Stored(p)
          /\ UNCHANGED <<backlog, main, net, wrote>>
      BY <1>1, <2>3, ReadStored
    <3>2. (Flight(h) => Flight(h)') /\ (Flight(p) => Flight(p)')
      BY <1>1, <3>1, ElsewhereFlight
    <3> QED
      BY <3>1, <3>2
  <2> QED
    BY <2>1, <2>2, <2>3
<1>3. PreAccept' = PreAccept /\ (PreAccept => h = "client" /\ p = "server")
  BY <1>1, <1>2, Hosts DEF PreAccept
<1>4. Open'
  BY <1>1, <1>2, Hosts DEF Open
<1>5. /\ NoFin' /\ ClientStates' /\ ServerStates' /\ Connecting'
      /\ PreAccept' => Blank' /\ Child' /\ HandshakeAck'
  <2>1. \A g \in Host : /\ sk'[g].state = sk[g].state /\ sk'[g].timer = sk[g].timer
                        /\ Stored(g)' = Stored(g)
    BY <1>1, <1>2, Hosts
  <2>2. PreAccept => /\ sk'["server"].wait_send = sk["server"].wait_send
                     /\ wrote'["server"] = wrote["server"]
    BY <1>2, <1>3
  <2>3. \/ /\ app'["client"] = app["client"]
           /\ sk'["client"].wait_connect = sk["client"].wait_connect
        \/ sk["client"].state # "SYN_SENT" /\ app'["client"].pc # "connect"
    BY <1>1, <1>2, Hosts DEF OpenInv, Connecting
  <2> QED
    BY <1>2, <1>3, <2>1, <2>2, <2>3, FrameInv
<1>6. Flight("client")' /\ (~ PreAccept' => Flight("server")')
  BY <1>1, <1>2, <1>3, Hosts DEF OpenInv
<1> QED
  BY <1>4, <1>5, <1>6 DEF OpenInv

LEMMA EmitInv ==
    ASSUME Types, Open, OpenInv, NEW h \in Host, Emit(h)
    PROVE  Open' /\ OpenInv'
<1> DEFINE p == Peer(h)
           m == app[h].buf
<1>1. p \in Host /\ p = Peer(h) /\ h = Peer(p) /\ (h = "server" => p = "client")
      /\ (h = "client" => p = "server")
  BY PeerType, Hosts
<1> HIDE DEF p
<1>2. /\ app[h].pc = "emit" /\ m \in Seg /\ app'[h].pc = "sent" /\ app'[p] = app[p]
      /\ net'[h] = net[h] /\ net'[p] = net[p] \o <<m>>
      /\ UNCHANGED <<sk, backlog, main, wrote, got>>
  BY <1>1, EmitStep
<1>3. (Flight(h) => Flight(h)') /\ (Flight(h) /\ Flight(p) => Flight(p)')
  BY <1>1, EmitFlight
<1>4. PreAccept' = PreAccept /\ (PreAccept => h = "client" /\ p = "server")
  BY <1>1, <1>2, Hosts DEF PreAccept
<1>5. Open'
  BY <1>1, <1>2, Hosts DEF Open
<1>6. Flight("client") /\ (~ PreAccept => Flight("server")) /\ NoFin /\ ClientStates
      /\ ServerStates /\ Connecting /\ (PreAccept => Blank /\ Child /\ HandshakeAck)
  BY DEF OpenInv
<1>7. Flight("client")' /\ (~ PreAccept' => Flight("server")')
  BY <1>1, <1>3, <1>4, <1>6, Hosts
<1>8. IsData(m) /\ ~ IsAck(m) /\ TCP_FIN \notin m.flags
  <2>1. Flight(h)
    BY <1>1, <1>4, <1>6, Hosts
  <2>2. IsData(m)
    BY <1>2, <2>1 DEF Flight, Bulks
  <2> HIDE DEF m
  <2> QED
    BY <2>2, DataIsNotAck DEF IsData, TCP_FIN, TCP_PSH, TCP_ACK
<1> HIDE DEF m
<1>9. net[h] \in Seq(Seg) /\ net[p] \in Seq(Seg)
  BY <1>1, FlightTypes
<1>10. NoFin'
  <2>1. NoFinOn(net'[p])
    BY <1>1, <1>2, <1>6, <1>8, <1>9, FinSnoc DEF NoFin
  <2> QED
    BY <1>1, <1>2, <1>6, <2>1, Hosts DEF NoFin
<1>11. ClientStates' /\ ServerStates'
  BY <1>2, <1>4, <1>6 DEF ClientStates, ServerStates
<1>12. Connecting'
  BY <1>1, <1>2, <1>4, <1>6, Hosts DEF Connecting, ServerStates, Blank
<1>13. ASSUME PreAccept PROVE Blank' /\ Child' /\ HandshakeAck'
  <2>1. h = "client" /\ p = "server" /\ Blank /\ Child /\ HandshakeAck
    BY <1>4, <1>6, <1>13
  <2>2. Stored("client")' = Stored("client") /\ Stored("server")' = Stored("server")
    BY <1>2 DEF Stored
  <2>3. Blank' /\ Child'
    BY <1>2, <2>1, <2>2 DEF Blank, Child
  <2> DEFINE t == net[p] \o <<m>>
  <2>4. AckOf(t) = AckOf(net[p]) /\ DataOf(t) = DataOf(net[p]) \cup {Len(net[p]) + 1}
    BY <1>2, <1>8, <1>9, SnocOf
  <2>5. \A i \in DataOf(net[p]) \cup AckOf(net[p]) : i < Len(net[p]) + 1
    BY <1>2, <1>9, SnocOf
  <2> HIDE DEF t
  <2>6. net'["server"] = t
    BY <1>2, <2>1 DEF t
  <2>7. HandshakeAck'
    BY <1>2, <2>1, <2>4, <2>5, <2>6 DEF HandshakeAck
  <2> QED
    BY <2>3, <2>7
<1> QED
  BY <1>4, <1>5, <1>7, <1>10, <1>11, <1>12, <1>13 DEF OpenInv

LEMMA ConnectedInv ==
    ASSUME Types, Open, OpenInv, Connected
    PROVE  Open' /\ OpenInv'
<1>1. /\ app["client"].pc = "connecting" /\ app'["client"].pc = "write"
      /\ app'["server"] = app["server"] /\ sk["client"].wait_connect
      /\ sk'["client"].state = sk["client"].state
      /\ sk'["client"].rcv_buf = sk["client"].rcv_buf
      /\ sk'["client"].timer = sk["client"].timer
      /\ sk'["client"].wait_send = sk["client"].wait_send
      /\ sk'["server"] = sk["server"]
      /\ UNCHANGED <<backlog, main, net, wrote, got>>
  BY ConnectedStep
<1>2. Stored("client")' = Stored("client") /\ Stored("server")' = Stored("server")
  BY <1>1 DEF Stored
<1>3. Open' /\ PreAccept' = PreAccept
  BY <1>1 DEF Open, PreAccept
<1>4. /\ NoFin' /\ ClientStates' /\ ServerStates' /\ Connecting'
      /\ PreAccept' => Blank' /\ Child' /\ HandshakeAck'
  <2>1. \A g \in Host : /\ sk'[g].state = sk[g].state /\ sk'[g].timer = sk[g].timer
                        /\ Stored(g)' = Stored(g)
    BY <1>1, <1>2, Hosts
  <2>2. sk["client"].state # "SYN_SENT" /\ app'["client"].pc # "connect"
    BY <1>1 DEF OpenInv, Connecting
  <2> QED
    BY <1>1, <1>3, <2>1, <2>2, FrameInv
<1>5. (Flight("client") => Flight("client")') /\ (Flight("server") => Flight("server")')
  BY <1>1, <1>2, Hosts, ElsewhereFlight
<1> QED
  BY <1>3, <1>4, <1>5 DEF OpenInv

LEMMA AcceptInv ==
    ASSUME Types, Open, OpenInv, AcceptTest \/ AcceptWoken
    PROVE  Open' /\ OpenInv'
<1>1. /\ app["server"].pc \in {"accept", "accepting"}
      /\ app'["server"].pc \in {"accepting", "dequeue"} /\ app'["client"] = app["client"]
      /\ backlog'.n = backlog.n
      /\ UNCHANGED <<sk, main, net, wrote, got>>
  BY AcceptStep
<1>2. Stored("client")' = Stored("client") /\ Stored("server")' = Stored("server")
  BY <1>1 DEF Stored
<1>3. Open' /\ PreAccept' = PreAccept /\ PreAccept
  BY <1>1 DEF Open, PreAccept
<1>4. /\ NoFin' /\ ClientStates' /\ ServerStates' /\ Connecting'
      /\ PreAccept' => Blank' /\ Child' /\ HandshakeAck'
  <2>1. \A g \in Host : /\ sk'[g].state = sk[g].state /\ sk'[g].timer = sk[g].timer
                        /\ Stored(g)' = Stored(g)
    BY <1>1, <1>2, Hosts
  <2> QED
    BY <1>1, <1>3, <2>1, FrameInv
<1>5. Flight("client") => Flight("client")'
  BY <1>1, <1>2, Hosts DEF Flight
<1> QED
  BY <1>3, <1>4, <1>5 DEF OpenInv

LEMMA DequeueInv ==
    ASSUME Types, Open, OpenInv, Dequeue
    PROVE  Open' /\ OpenInv'
<1>1. /\ app["server"].pc = "dequeue" /\ app'["server"].pc = "read"
      /\ app'["client"] = app["client"] /\ backlog.n # 0
      /\ sk'["server"].state = "ESTABLISHED" /\ sk'["server"].rcv_buf = sk["server"].rcv_buf
      /\ sk'["server"].timer = sk["server"].timer
      /\ sk'["server"].wait_send = sk["server"].wait_send
      /\ sk'["client"] = sk["client"]
      /\ UNCHANGED <<main, net, wrote, got>>
  BY DequeueStep
<1>2. Stored("client")' = Stored("client") /\ Stored("server")' = Stored("server")
  BY <1>1 DEF Stored
<1>3. Open' /\ PreAccept /\ ~ PreAccept'
  BY <1>1 DEF Open, PreAccept
<1>4. Blank /\ Child /\ HandshakeAck /\ NoFin /\ ClientStates /\ ServerStates /\ Connecting
      /\ Flight("client")
  BY <1>3 DEF OpenInv
<1>5. NoFin' /\ ClientStates'
  BY <1>1, <1>4 DEF NoFin, ClientStates
<1>6. ServerStates'
  BY <1>1, <1>4 DEF ServerStates, Child
<1>7. Connecting'
  BY <1>1, <1>4 DEF Connecting
<1>8. Flight("client")'
  BY <1>1, <1>2, <1>4, Hosts DEF Flight
<1>9. Flight("server")'
  <2>1. Quiet(net["client"], main["client"]) /\ Silent(net["server"], main["server"], sk["server"].wait_send)
        /\ Stored("client") = wrote["server"]
    BY <1>1, <1>4 DEF Blank, HandshakeAck, Silent
  <2>2. \A b : Bulks("read", b, net["client"], main["client"], net["server"], main["server"],
              sk["server"].wait_send, Stored("client"), wrote["server"])
    BY <2>1 DEF Bulks
  <2> QED
    BY <1>1, <1>2, <2>2, Hosts DEF Flight
<1> QED
  BY <1>3, <1>5, <1>6, <1>7, <1>8, <1>9 DEF OpenInv

LEMMA ListenInv ==
    ASSUME Types, Open, OpenInv, tcp_state_listen
    PROVE  Open' /\ OpenInv'
<1>1. PICK m \in Seg : /\ m.flags = {TCP_SYN, TCP_ACK}
                       /\ net'["server"] = net["server"]
                       /\ net'["client"] = net["client"] \o <<m>>
  BY ListenStep
<1>2. /\ main["server"].at = "process" /\ main["server"].state = "NONE"
      /\ main'["server"] = Idle /\ main'["client"] = main["client"]
      /\ sk'["server"].state = "SYN_RECV" /\ sk'["server"].rcv_buf = <<>>
      /\ sk'["server"].timer = "off" /\ ~ sk'["server"].wait_send
      /\ sk'["client"] = sk["client"]
      /\ UNCHANGED <<backlog, app, wrote, got>>
  BY ListenStep
<1>3. /\ NoFin /\ ClientStates /\ ServerStates /\ Connecting /\ Flight("client")
      /\ PreAccept => Blank /\ Child /\ HandshakeAck
  BY DEF OpenInv
<1>4. PreAccept /\ PreAccept' /\ Open'
  BY <1>2, <1>3 DEF ServerStates, PreAccept, Open
<1>5. ~ IsData(m) /\ ~ IsAck(m) /\ TCP_FIN \notin m.flags
  BY <1>1, FlagSets DEF IsData, IsAck
<1>6. /\ net["client"] \in Seq(Seg) /\ net["server"] \in Seq(Seg)
      /\ got["server"] \in Seq(Byte) /\ sk["server"].rcv_buf \in Seq(Byte)
      /\ Idle.at = "idle" /\ Idle \in Thread
  BY FlightTypes, Hosts DEF Idle, Thread
<1>7. Stored("client")' = Stored("client") /\ Stored("server")' = <<>> /\ Stored("server") = <<>>
  <2>1. Stored("server") = <<>>
    BY <1>3, <1>4 DEF Blank
  <2>2. got["server"] = <<>>
    BY <1>6, <2>1, ConcatEqualIffEmpty DEF Stored
  <2>3. \A e : e = <<>> => e \o <<>> = <<>>
    OBVIOUS
  <2> QED
    BY <1>2, <2>1, <2>2, <2>3 DEF Stored
<1>8. NoFin'
  <2>1. NoFinOn(net'["client"])
    BY <1>1, <1>3, <1>5, <1>6, Hosts, FinSnoc DEF NoFin
  <2> QED
    BY <1>1, <1>2, <1>3, <1>6, <2>1, Hosts DEF NoFin
<1>9. ClientStates' /\ ServerStates'
  BY <1>2, <1>3, <1>4, <1>6 DEF ClientStates, ServerStates
<1>10. Connecting'
  BY <1>1, <1>2, <1>3, <1>4, <1>6 DEF Connecting, AckAt
<1>11. Flight("client")'
  <2>1. Bulks(app["client"].pc, app["client"].buf, net["server"], Idle, net["client"],
              main["client"], sk["client"].wait_send, Stored("server"), wrote["client"])
    BY <1>2, <1>3, Hosts, FlightTypes, PeerDrops DEF Flight
  <2>2. Bulks(app["client"].pc, app["client"].buf, net["server"], Idle, net["client"] \o <<m>>,
              main["client"], sk["client"].wait_send, Stored("server"), wrote["client"])
    BY <1>5, <1>6, <2>1, Hosts, FlightTypes, NoAckSent
  <2> QED
    BY <1>1, <1>2, <1>7, <2>2, Hosts DEF Flight
<1>12. Blank'
  <2>1. Blank
    BY <1>3, <1>4
  <2>2. DataOf(net'["client"]) = DataOf(net["client"])
    BY <1>1, <1>5, <1>6, SnocSets
  <2> QED
    BY <1>2, <1>6, <1>7, <2>1, <2>2 DEF Blank, Quiet
<1>13. Child' /\ HandshakeAck'
  BY <1>1, <1>2, <1>3, <1>4, <1>6 DEF Child, HandshakeAck, AckAt, DataAt
<1> QED
  BY <1>4, <1>8, <1>9, <1>10, <1>11, <1>12, <1>13 DEF OpenInv

LEMMA ConnectInv ==
    ASSUME Types, Open, OpenInv, tcp_sock_connect
    PROVE  Open' /\ OpenInv'
<1>1. PICK m \in Seg : /\ m.flags = {TCP_SYN}
                       /\ net'["client"] = net["client"]
                       /\ net'["server"] = net["server"] \o <<m>>
  BY ConnectStep
<1>2. /\ app["client"].pc = "connect" /\ app'["client"].pc = "connecting"
      /\ app'["server"] = app["server"]
      /\ sk'["client"].state = "SYN_SENT" /\ sk'["client"].rcv_buf = <<>>
      /\ sk'["client"].timer = "off" /\ ~ sk'["client"].wait_send
      /\ ~ sk'["client"].wait_connect /\ sk'["server"] = sk["server"]
      /\ UNCHANGED <<backlog, main, wrote, got>>
  BY ConnectStep
<1>3. /\ NoFin /\ ClientStates /\ ServerStates /\ Connecting /\ Flight("client")
      /\ PreAccept => Blank /\ Child /\ HandshakeAck
  BY DEF OpenInv
<1>4. /\ net["client"] = <<>> /\ net["server"] = <<>> /\ PreAccept /\ PreAccept' /\ Open'
      /\ main["client"].at = "idle" /\ main["server"].at = "idle" /\ backlog.n = 0
  BY <1>2, <1>3 DEF Connecting, PreAccept, Open
<1>5. ~ IsData(m) /\ ~ IsAck(m) /\ TCP_FIN \notin m.flags
  BY <1>1, FlagSets DEF IsData, IsAck
<1>6. /\ net["client"] \in Seq(Seg) /\ net["server"] \in Seq(Seg)
      /\ got["client"] \in Seq(Byte) /\ sk["client"].rcv_buf \in Seq(Byte)
      /\ sk'["client"].wait_send = FALSE
  <2>1. sk'["client"].wait_send \in BOOLEAN
    BY ConnectStep, Hosts DEF Types, Sock
  <2> QED
    BY <1>2, <2>1, FlightTypes, Hosts
<1>7. Stored("server")' = Stored("server") /\ Stored("client")' = <<>> /\ Stored("client") = <<>>
  <2>1. Stored("client") = <<>>
    BY <1>3, <1>4 DEF Blank
  <2>2. got["client"] = <<>>
    BY <1>6, <2>1, ConcatEqualIffEmpty DEF Stored
  <2>3. \A e : e = <<>> => e \o <<>> = <<>>
    OBVIOUS
  <2> QED
    BY <1>2, <2>1, <2>2, <2>3 DEF Stored
<1>8. NoFin'
  <2>1. NoFinOn(net'["server"])
    BY <1>1, <1>3, <1>5, <1>6, Hosts, FinSnoc DEF NoFin
  <2> QED
    BY <1>1, <1>2, <1>3, <2>1, Hosts DEF NoFin
<1>9. ClientStates' /\ ServerStates'
  BY <1>2, <1>3, <1>4 DEF ClientStates, ServerStates
<1>10. AckOf(net'["server"]) = {} /\ DataOf(net'["server"]) = {}
  <2>1. AckOf(net["server"]) = {} /\ DataOf(net["server"]) = {}
    <3>1. \A e : e = <<>> => DOMAIN e = {}
      OBVIOUS
    <3> QED
      BY <1>4, <3>1 DEF AckOf, DataOf
  <2>2. AckOf(net'["server"]) = AckOf(net["server"]) /\ DataOf(net'["server"]) = DataOf(net["server"])
    BY <1>1, <1>5, <1>6, SnocSets
  <2> QED
    BY <2>1, <2>2
<1>11. Connecting'
  BY <1>2, <1>4, <1>10 DEF Connecting, AckAt
<1>12. Flight("client")'
  <2>1. sk["client"].wait_send = FALSE
    <3>1. ~ sk["client"].wait_send
      BY <1>2, <1>3 DEF Flight, Bulks, Silent
    <3> QED
      BY <3>1, FlightTypes, Hosts
  <2>2. Bulks(app'["client"].pc, app'["client"].buf, net["server"], main["server"], net["client"],
              main["client"], sk["client"].wait_send, Stored("server"), wrote["client"])
    <3>1. Bulks("connect", app["client"].buf, net["server"], main["server"], net["client"],
                main["client"], sk["client"].wait_send, Stored("server"), wrote["client"])
      BY <1>2, <1>3, Hosts DEF Flight
    <3>2. \A b : Bulks("connecting", b, net["server"], main["server"], net["client"],
                main["client"], sk["client"].wait_send, Stored("server"), wrote["client"])
      BY <3>1 DEF Bulks
    <3> QED
      BY <1>2, <3>2
  <2>3. Bulks(app'["client"].pc, app'["client"].buf, net["server"] \o <<m>>, main["server"],
              net["client"], main["client"], sk["client"].wait_send, Stored("server"), wrote["client"])
    BY <1>5, <2>2, Hosts, FlightTypes, NoDataSent
  <2> QED
    BY <1>1, <1>2, <1>6, <1>7, <2>1, <2>3, Hosts DEF Flight
<1>13. Blank' /\ Child'
  BY <1>1, <1>2, <1>3, <1>4, <1>7 DEF Blank, Child
<1>14. HandshakeAck'
  BY <1>2, <1>4, <1>10 DEF HandshakeAck, AckAt
<1> QED
  BY <1>4, <1>8, <1>9, <1>11, <1>12, <1>13, <1>14 DEF OpenInv

LEMMA CloseFinInv ==
    ASSUME Types, Open, OpenInv, CloseFin
    PROVE  ~ Open' /\ ClosedInv'
<1>1. PICK m \in Seg : /\ m.flags = {TCP_FIN, TCP_ACK}
                       /\ net'["server"] = net["server"] \o <<m>>
  BY CloseFinStep
<1>2. /\ app["client"].pc = "close" /\ app'["client"].pc \in {"FIN_WAIT_1", "LAST_ACK"}
      /\ sk'["client"].rcv_buf = sk["client"].rcv_buf /\ sk'["server"] = sk["server"]
      /\ UNCHANGED <<main, wrote, got>>
  BY CloseFinStep DEF SameButSeq
<1>3. Quiet(net["server"], main["server"])
  BY <1>2, Hosts DEF OpenInv, Flight, Bulks
<1>4. ~ IsData(m)
  BY <1>1, FlagSets DEF IsData
<1>5. DataOf(net'["server"]) = DataOf(net["server"])
  BY <1>1, <1>4, Hosts, FlightTypes, SnocSets
<1>6. IsPrefix(Stored("server"), wrote["client"]) /\ IsPrefix(Stored("client"), wrote["server"])
  BY StoredIsPrefix, Hosts
<1>7. IsPrefix(got["client"], wrote["server"])
  BY <1>6, Hosts, FlightTypes, GotIsPrefix
<1>8. Stored("server")' = Stored("server")
  BY <1>2 DEF Stored
<1> QED
  BY <1>2, <1>3, <1>5, <1>6, <1>7, <1>8 DEF ClosedInv, Open, Quiet

LEMMA WakeInv ==
    ASSUME Types, Open, OpenInv, NEW h \in Host, WakeReader(h)
    PROVE  Open' /\ OpenInv'
<1> DEFINE p == Peer(h)
<1>1. p \in Host /\ p = Peer(h) /\ h = Peer(p)
  BY PeerType
<1> HIDE DEF p
<1>2. /\ main[h] = Wake /\ main'[h] = Owe /\ main'[p] = main[p]
      /\ sk'[h].state = sk[h].state /\ sk'[h].timer = sk[h].timer /\ sk'[p] = sk[p]
      /\ UNCHANGED <<backlog, app, net, wrote, got>>
  BY <1>1, WakeStep
<1>3. /\ NoFin /\ ClientStates /\ ServerStates /\ Connecting /\ Flight("client")
      /\ PreAccept => Blank /\ Child /\ HandshakeAck
      /\ ~ PreAccept => Flight("server")
  BY DEF OpenInv
<1>4. Wake.at = "wake" /\ Owe.at = "ack"
  BY DEF Wake, Owe
<1>5. ~ PreAccept /\ ~ PreAccept' /\ Open'
  <2>1. ~ PreAccept
    BY <1>2, <1>3, <1>4, Hosts DEF Blank, Quiet
  <2> QED
    BY <1>2, <2>1 DEF PreAccept, Open
<1>6. Flight("client")' /\ Flight("server")'
  BY <1>1, <1>3, <1>5, Hosts, WakeFlight
<1>7. NoFin'
  BY <1>1, <1>2, <1>3, <1>4, Hosts DEF NoFin
<1>8. ClientStates' /\ ServerStates'
  BY <1>1, <1>2, <1>3, <1>4, <1>5, Hosts DEF ClientStates, ServerStates
<1>9. Connecting'
  BY <1>1, <1>2, <1>3, <1>5, Hosts DEF Connecting
<1> QED
  BY <1>5, <1>6, <1>7, <1>8, <1>9 DEF OpenInv

LEMMA AckInv ==
    ASSUME Types, Open, OpenInv, NEW h \in Host, Acknowledge(h)
    PROVE  Open' /\ OpenInv'
<1> DEFINE p == Peer(h)
<1>1. p \in Host /\ p = Peer(h) /\ h = Peer(p)
  BY PeerType
<1> HIDE DEF p
<1>2. PICK m \in Seg : /\ m.flags = {TCP_ACK}
                       /\ net'[h] = net[h] /\ net'[p] = net[p] \o <<m>>
  BY <1>1, AckStep
<1>3. /\ main[h] = Owe /\ main'[h] = Idle /\ main'[p] = main[p]
      /\ sk'[h].state = sk[h].state /\ sk'[h].timer = sk[h].timer /\ sk'[p] = sk[p]
      /\ UNCHANGED <<backlog, app, wrote, got>>
  BY <1>1, AckStep
<1>4. /\ NoFin /\ ClientStates /\ ServerStates /\ Connecting /\ Flight("client")
      /\ PreAccept => Blank /\ Child /\ HandshakeAck
      /\ ~ PreAccept => Flight("server")
  BY DEF OpenInv
<1>5. Owe.at = "ack" /\ Idle.at = "idle"
  BY DEF Owe, Idle
<1>6. ~ PreAccept /\ ~ PreAccept' /\ Open'
  <2>1. ~ PreAccept
    BY <1>3, <1>4, <1>5, Hosts DEF Blank, Quiet
  <2> QED
    BY <1>3, <2>1 DEF PreAccept, Open
<1>7. Flight("client")' /\ Flight("server")'
  BY <1>1, <1>4, <1>6, Hosts, AckFlight
<1>8. NoFin'
  <2>1. TCP_FIN \notin m.flags
    BY <1>2, FlagSets
  <2>2. NoFinOn(net'[p])
    <3>1. net[p] \in Seq(Seg) /\ NoFinOn(net[p])
      BY <1>1, <1>4, FlightTypes DEF NoFin
    <3> QED
      BY <1>2, <2>1, <3>1, FinSnoc
  <2> QED
    BY <1>1, <1>2, <1>3, <1>4, <1>5, <2>2, Hosts DEF NoFin
<1>9. ClientStates' /\ ServerStates'
  BY <1>1, <1>3, <1>4, <1>5, <1>6, Hosts DEF ClientStates, ServerStates
<1>10. Connecting'
  BY <1>1, <1>3, <1>4, <1>6, Hosts DEF Connecting
<1> QED
  BY <1>6, <1>7, <1>8, <1>9, <1>10 DEF OpenInv

LEMMA ReceiveInv ==
    ASSUME Types, Open, OpenInv, NEW h \in Host, Receive(h)
    PROVE  Open' /\ OpenInv'
<1> DEFINE p == Peer(h)
<1>1. p \in Host /\ p = Peer(h) /\ h = Peer(p) /\ p # h
  BY PeerType
<1> HIDE DEF p
<1>2. /\ net[h] \in Seq(Seg) /\ net[h] # <<>> /\ main[h].at = "idle"
      /\ net'[h] = Tail(net[h]) /\ net'[p] = net[p]
      /\ main'[h].cb = Head(net[h]) /\ main'[h].state = sk[h].state
      /\ main'[h].at = "process" /\ main'[p] = main[p]
      /\ UNCHANGED <<sk, backlog, app, wrote, got>>
  BY <1>1, ReceiveStep DEF Idle
<1>3. /\ NoFin /\ ClientStates /\ ServerStates /\ Connecting /\ Flight("client")
      /\ PreAccept => Blank /\ Child /\ HandshakeAck
      /\ ~ PreAccept => Flight("server")
  BY DEF OpenInv
<1>4. PreAccept' = PreAccept /\ Open'
  BY <1>2 DEF PreAccept, Open
<1>5. Flight("client")' /\ (~ PreAccept => Flight("server")')
  BY <1>1, <1>3, Hosts, ReceiveFlight
<1>6. NoFin'
  <2>1. NoFinOn(net'[h]) /\ TCP_FIN \notin main'[h].cb.flags
    BY <1>2, <1>3, FinTail DEF NoFin
  <2> QED
    BY <1>1, <1>2, <1>3, <2>1, Hosts DEF NoFin
<1>7. ClientStates' /\ ServerStates'
  BY <1>1, <1>2, <1>3, <1>4, Hosts DEF ClientStates, ServerStates
<1>8. \A i \in AckOf(net'[h]) : i + 1 \in AckOf(net[h]) /\ i + 1 # 1
  BY <1>2, TailOf
<1>9. IsAck(main'[h].cb) => 1 \in AckOf(net[h])
  BY <1>2, TailOf
<1>10. Connecting'
  BY <1>1, <1>2, <1>3, <1>4, <1>8, <1>9, Hosts DEF Connecting, AckAt
<1>11. ASSUME PreAccept PROVE Blank' /\ Child' /\ HandshakeAck'
  <2>1. Blank /\ Child /\ HandshakeAck
    BY <1>3, <1>11
  <2>2. Stored("client")' = Stored("client") /\ Stored("server")' = Stored("server")
    BY <1>2 DEF Stored
  <2>3. CASE h = "client"
    <3>1. Quiet(net'["client"], main'["client"])
      BY <1>2, <2>1, <2>3, QuietTail DEF Blank
    <3>2. Blank'
      BY <1>1, <1>2, <2>1, <2>2, <2>3, <3>1, Hosts DEF Blank
    <3>3. Child' /\ HandshakeAck'
      BY <1>1, <1>2, <2>1, <2>3, Hosts DEF Child, HandshakeAck
    <3> QED
      BY <3>2, <3>3
  <2>4. CASE h = "server"
    <3>1. Blank'
      BY <1>1, <1>2, <2>1, <2>2, <2>4, Hosts DEF Blank
    <3>2. Child'
      BY <1>2, <2>1, <2>4 DEF Child
    <3>3. HandshakeAck'
      <4> DEFINE t == net'["server"]
                 s == net["server"]
      <4>1. /\ \A i \in AckOf(t) : i + 1 \in AckOf(s) /\ i + 1 # 1
            /\ \A i \in DataOf(t) : i + 1 \in DataOf(s) /\ i + 1 # 1
            /\ IsAck(main'["server"].cb) => 1 \in AckOf(s)
            /\ IsData(main'["server"].cb) => 1 \in DataOf(s)
        BY <1>2, <2>4, TailOf
      <4>2. /\ \A i, j \in DataOf(t) \cup AckOf(t) : /\ i + 1 = j + 1 => i = j
                                                     /\ i + 1 < j + 1 => i < j
            /\ \A i \in DataOf(s) \cup AckOf(s) : ~ i < 1
        BY <1>2, <2>4, TailOf
      <4>3. /\ \A i, j \in AckOf(s) : i = j
            /\ \A i \in DataOf(s), j \in AckOf(s) : j < i
            /\ backlog.n # 0 => AckOf(s) = {}
        BY <2>1 DEF HandshakeAck
      <4> HIDE DEF s, t
      <4>4. /\ \A i, j \in AckOf(t) : i = j
            /\ \A i \in DataOf(t), j \in AckOf(t) : j < i
        BY <4>1, <4>2, <4>3
      <4>5. IsAck(main'["server"].cb) \/ IsData(main'["server"].cb) \/ backlog.n # 0 => AckOf(t) = {}
        <5>1. CASE IsAck(main'["server"].cb)
          BY <4>1, <4>3, <5>1
        <5>2. CASE IsData(main'["server"].cb)
          BY <4>1, <4>2, <4>3, <5>2
        <5>3. CASE backlog.n # 0
          BY <4>1, <4>3, <5>3
        <5> QED
          BY <5>1, <5>2, <5>3
      <4>6. backlog.n # 0 => ~ IsAck(main'["server"].cb)
        BY <4>1, <4>3
      <4> QED
        BY <1>2, <4>4, <4>5, <4>6 DEF HandshakeAck, AckAt, DataAt, t
    <3> QED
      BY <3>1, <3>2, <3>3
  <2> QED
    BY <2>3, <2>4, Hosts
<1> QED
  BY <1>4, <1>5, <1>6, <1>7, <1>10, <1>11 DEF OpenInv

Processed(h, p, r) ==
    /\ Effect(sk[h], main[h].state, main[h].cb, r)
    /\ sk'[h] = r.tsk /\ sk'[p] = sk[p]
    /\ net'[h] = net[h] /\ net'[p] = net[p] \o r.out
    /\ main'[h] = IF r.stored THEN Wake ELSE Idle
    /\ main'[p] = main[p]
    /\ ~ r.enqueue => backlog' = backlog
    /\ UNCHANGED <<app, wrote, got>>

LEMMA ProcessStepAt ==
    ASSUME NEW h \in Host, NEW p, p = Peer(h), Types, Process(h)
    PROVE  \E r : Processed(h, p, r)
  BY ProcessStep DEF Processed

LEMMA ProcessClientInv ==
    ASSUME Types, Open, OpenInv, Process("client")
    PROVE  Open' /\ OpenInv'
<1>0. PICK r : Processed("client", "server", r)
  BY Hosts, ProcessStepAt
<1>1. /\ Effect(sk["client"], main["client"].state, main["client"].cb, r)
      /\ sk'["client"] = r.tsk /\ sk'["server"] = sk["server"]
      /\ net'["client"] = net["client"] /\ net'["server"] = net["server"] \o r.out
      /\ main'["client"] = IF r.stored THEN Wake ELSE Idle
      /\ main'["server"] = main["server"]
      /\ ~ r.enqueue => backlog' = backlog
      /\ UNCHANGED <<app, wrote, got>>
  BY <1>0 DEF Processed
<1>2. /\ main["client"].at = "process" /\ main["client"].state # "NONE"
      /\ main["client"].cb \in Seg
  BY Hosts, ProcessStep
<1>3. /\ NoFin /\ ClientStates /\ ServerStates /\ Connecting /\ Flight("client")
      /\ PreAccept => Blank /\ Child /\ HandshakeAck
      /\ ~ PreAccept => Flight("server")
  BY DEF OpenInv
<1> DEFINE tsk == sk["client"]
           state == main["client"].state
           cb == main["client"].cb
<1>4. /\ PreAccept' = PreAccept /\ Open'
  BY <1>1 DEF PreAccept, Open
<1>5. TCP_FIN \notin cb.flags
  BY <1>2, <1>3, Hosts DEF NoFin
<1>6. /\ r \in Results /\ r.out \in {<<>>} \cup {<<m>> : m \in Seg} /\ r.stored \in BOOLEAN
      /\ AnswerOK(state, cb, r) /\ StateOK(tsk, state, cb, r) /\ StoreOK(tsk, state, cb, r)
  BY <1>1 DEF Effect, Results
<1>7. main'["client"].at # "process" /\ Idle.at = "idle" /\ (~ r.stored => main'["client"] = Idle)
  BY <1>1, <1>6 DEF Idle, Wake
<1>8. net["client"] \in Seq(Seg) /\ net["server"] \in Seq(Seg) /\ \A n \in Seq(Seg) : n \o <<>> = n
  BY Hosts, FlightTypes, ConcatEmptySeq
<1>9. state \in {"CLOSED", "SYN_SENT", "ESTABLISHED"} /\ (state = "SYN_SENT" => tsk.state = "SYN_SENT")
  BY <1>2, <1>3 DEF ClientStates
<1>10. NoFin'
  <2>1. NoFinOn(net'["server"])
    <3>1. NoFinOn(net["server"])
      BY <1>3, Hosts DEF NoFin
    <3>2. CASE r.out = <<>>
      BY <1>1, <1>8, <3>1, <3>2
    <3>3. ASSUME NEW m \in Seg, r.out = <<m>> PROVE NoFinOn(net'["server"])
      <4>1. TCP_FIN \notin m.flags
        BY <1>6, <1>9, <3>3 DEF AnswerOK
      <4> QED
        BY <1>1, <1>8, <3>1, <3>3, <4>1, FinSnoc
    <3> QED
      BY <1>6, <3>2, <3>3
  <2> QED
    BY <1>1, <1>3, <1>7, <2>1, Hosts DEF NoFin
<1>11. ClientStates'
  BY <1>1, <1>3, <1>5, <1>6, <1>7, <1>9 DEF ClientStates, StateOK
<1>12. ServerStates'
  BY <1>1, <1>3, <1>4 DEF ServerStates
<1>13. backlog' = backlog
  BY <1>1, <1>6, <1>9 DEF StoreOK
\* What goes to the server: no data, and a bare ACK only for the SYN|ACK.
<1>14. /\ DataOf(net'["server"]) = DataOf(net["server"])
       /\ \/ AckOf(net'["server"]) = AckOf(net["server"])
          \/ /\ AckOf(net'["server"]) = AckOf(net["server"]) \cup {Len(net["server"]) + 1}
             /\ state = "SYN_SENT" /\ r.tsk.state = "ESTABLISHED"
  <2>1. CASE r.out = <<>>
    BY <1>1, <1>8, <2>1
  <2>2. ASSUME NEW m \in Seg, r.out = <<m>>, IsAck(m)
        PROVE  /\ DataOf(net'["server"]) = DataOf(net["server"])
               /\ AckOf(net'["server"]) = AckOf(net["server"]) \cup {Len(net["server"]) + 1}
               /\ state = "SYN_SENT" /\ r.tsk.state = "ESTABLISHED"
    <3>1. state = "SYN_SENT" /\ r.tsk.state = "ESTABLISHED"
      BY <1>5, <1>6, <1>9, <2>2 DEF AnswerOK, IsAck
    <3>2. ~ IsData(m)
      BY <2>2, DataIsNotAck
    <3>3. net'["server"] = net["server"] \o <<m>>
      BY <1>1, <2>2
    <3>4. /\ DataOf(net'["server"]) = DataOf(net["server"])
          /\ AckOf(net'["server"]) = AckOf(net["server"]) \cup {Len(net["server"]) + 1}
      <4> DEFINE n == net["server"]
      <4>1. n \in Seq(Seg)
        BY <1>8
      <4> HIDE DEF n
      <4>2. DataOf(n \o <<m>>) = DataOf(n)
        BY <3>2, <4>1, SnocSets
      <4>3. AckOf(n \o <<m>>) = AckOf(n) \cup {Len(n) + 1}
        BY <2>2, <4>1, SnocOf
      <4> QED
        BY <3>3, <4>2, <4>3 DEF n
    <3> QED
      BY <3>1, <3>4
  <2>3. ASSUME NEW m \in Seg, r.out = <<m>>, ~ IsAck(m)
        PROVE  /\ DataOf(net'["server"]) = DataOf(net["server"])
               /\ AckOf(net'["server"]) = AckOf(net["server"])
    <3>1. ~ IsData(m)
      BY <1>6, <2>3 DEF AnswerOK, IsData
    <3> QED
      BY <1>1, <1>8, <2>3, <3>1, SnocSets
  <2> QED
    BY <1>6, <2>1, <2>2, <2>3
<1>15. Connecting'
  <2>1. ASSUME sk'["client"].state = "SYN_SENT"
        PROVE  /\ PreAccept' /\ AckOf(net'["server"]) = {} /\ ~ AckAt(main'["server"])
               /\ backlog'.n = 0 /\ app'["client"].pc = "connecting" /\ ~ sk'["client"].wait_connect
    <3>1. tsk.state = "SYN_SENT" /\ r.tsk.state = "SYN_SENT"
      BY <1>1, <1>5, <1>6, <1>9, <2>1 DEF StateOK
    <3>2. r.tsk.wait_connect = tsk.wait_connect
      BY <1>6, <3>1 DEF StateOK
    <3> QED
      BY <1>1, <1>3, <1>4, <1>13, <1>14, <3>1, <3>2 DEF Connecting
  <2>2. app'["client"].pc # "connect"
    BY <1>1, <1>2, <1>3 DEF Connecting
  <2> QED
    BY <2>1, <2>2 DEF Connecting
<1>16. Flight("client")'
  BY <1>3, Hosts, ProcessFlight
<1>17. ~ PreAccept => Flight("server")'
  <2>1. ~ PreAccept => state \in {"CLOSED", "SYN_RECV", "ESTABLISHED"}
    BY <1>3, <1>9 DEF Connecting
  <2> QED
    BY <1>3, <1>5, <2>1, Hosts, ProcessFlight
<1>18. ASSUME PreAccept PROVE Blank' /\ Child' /\ HandshakeAck'
  <2>1. Blank /\ Child /\ HandshakeAck
    BY <1>3, <1>18
  <2>2. ~ r.stored
    BY <1>2, <1>6, <2>1 DEF StoreOK, Blank, Quiet, DataAt, IsData
  <2>3. Stored("client")' = Stored("client") /\ Stored("server")' = Stored("server")
    BY <1>1, <1>6, <2>2 DEF Stored, StoreOK
  <2>4. Quiet(net'["client"], main'["client"])
    BY <1>1, <1>7, <2>1, <2>2 DEF Blank, Quiet, DataAt
  <2>5. Blank' /\ Child'
    BY <1>1, <1>13, <2>1, <2>3, <2>4 DEF Blank, Child
  <2>6. CASE AckOf(net'["server"]) = AckOf(net["server"])
    BY <1>1, <1>13, <1>14, <2>1, <2>5, <2>6 DEF HandshakeAck
  <2>7. CASE /\ AckOf(net'["server"]) = AckOf(net["server"]) \cup {Len(net["server"]) + 1}
             /\ state = "SYN_SENT"
    <3>1. /\ AckOf(net["server"]) = {} /\ ~ AckAt(main["server"]) /\ backlog.n = 0
          /\ app["client"].pc = "connecting"
      BY <1>3, <1>9, <2>7 DEF Connecting
    <3>2. Quiet(net["server"], main["server"])
      BY <1>3, <3>1, Hosts DEF Flight, Bulks
    <3>3. HandshakeAck'
      BY <1>1, <1>13, <1>14, <2>7, <3>1, <3>2 DEF HandshakeAck, Quiet
    <3> QED
      BY <2>5, <3>3
  <2> QED
    BY <1>14, <2>6, <2>7
<1> QED
  BY <1>4, <1>10, <1>11, <1>12, <1>15, <1>16, <1>17, <1>18 DEF OpenInv

LEMMA OnlyAckOrData ==
    ASSUME NEW m \in Seg, TCP_ACK \in m.flags, TCP_SYN \notin m.flags, TCP_RST \notin m.flags,
           TCP_FIN \notin m.flags
    PROVE  IsAck(m) \/ IsData(m)
<1>1. m.flags \subseteq {TCP_PSH, TCP_ACK}
  BY DEF Seg, Flag
<1> QED
  BY <1>1 DEF IsAck, IsData

LEMMA ProcessServerInv ==
    ASSUME Types, Open, OpenInv, Process("server")
    PROVE  Open' /\ OpenInv'
<1>0. PICK r : Processed("server", "client", r)
  BY Hosts, ProcessStepAt
<1>1. /\ Effect(sk["server"], main["server"].state, main["server"].cb, r)
      /\ sk'["server"] = r.tsk /\ sk'["client"] = sk["client"]
      /\ net'["server"] = net["server"] /\ net'["client"] = net["client"] \o r.out
      /\ main'["server"] = IF r.stored THEN Wake ELSE Idle
      /\ main'["client"] = main["client"]
      /\ ~ r.enqueue => backlog' = backlog
      /\ UNCHANGED <<app, wrote, got>>
  BY <1>0 DEF Processed
<1>2. /\ main["server"].at = "process" /\ main["server"].state # "NONE"
      /\ main["server"].cb \in Seg
  BY Hosts, ProcessStep
<1>3. /\ NoFin /\ ClientStates /\ ServerStates /\ Connecting /\ Flight("client")
      /\ PreAccept => Blank /\ Child /\ HandshakeAck
      /\ ~ PreAccept => Flight("server")
  BY DEF OpenInv
<1> DEFINE tsk == sk["server"]
           state == main["server"].state
           cb == main["server"].cb
<1>4. /\ PreAccept' = PreAccept /\ Open'
  BY <1>1 DEF PreAccept, Open
<1>5. TCP_FIN \notin cb.flags
  BY <1>2, <1>3, Hosts DEF NoFin
<1>6. /\ r \in Results /\ r.out \in {<<>>} \cup {<<m>> : m \in Seg} /\ r.stored \in BOOLEAN
      /\ AnswerOK(state, cb, r) /\ StateOK(tsk, state, cb, r) /\ StoreOK(tsk, state, cb, r)
  BY <1>1 DEF Effect, Results
<1>7. main'["server"].at # "process" /\ Idle.at = "idle" /\ (~ r.stored => main'["server"] = Idle)
  BY <1>1, <1>6 DEF Idle, Wake
<1>8. net["client"] \in Seq(Seg) /\ net["server"] \in Seq(Seg) /\ \A n \in Seq(Seg) : n \o <<>> = n
  BY Hosts, FlightTypes, ConcatEmptySeq
<1>9. state \in {"SYN_RECV", "CLOSED", "ESTABLISHED"}
  BY <1>2, <1>3 DEF ServerStates
<1>10. NoFin'
  <2>1. NoFinOn(net'["client"])
    <3>1. NoFinOn(net["client"])
      BY <1>3, Hosts DEF NoFin
    <3>2. CASE r.out = <<>>
      BY <1>1, <1>8, <3>1, <3>2
    <3>3. ASSUME NEW m \in Seg, r.out = <<m>> PROVE NoFinOn(net'["client"])
      <4>1. TCP_FIN \notin m.flags
        BY <1>6, <1>9, <3>3 DEF AnswerOK
      <4> QED
        BY <1>1, <1>8, <3>1, <3>3, <4>1, FinSnoc
    <3> QED
      BY <1>6, <3>2, <3>3
  <2> QED
    BY <1>1, <1>3, <1>7, <2>1, Hosts DEF NoFin
<1>11. ServerStates'
  BY <1>1, <1>3, <1>4, <1>5, <1>6, <1>7, <1>9 DEF ServerStates, StateOK
<1>12. ClientStates'
  BY <1>1, <1>3 DEF ClientStates
<1>13. r.enqueue => AckAt(main["server"]) \/ DataAt(main["server"])
  BY <1>2, <1>5, <1>6, OnlyAckOrData DEF StoreOK, AckAt, DataAt
<1>14. Connecting'
  <2>1. ASSUME sk'["client"].state = "SYN_SENT"
        PROVE  /\ PreAccept' /\ AckOf(net'["server"]) = {} /\ ~ AckAt(main'["server"])
               /\ backlog'.n = 0 /\ app'["client"].pc = "connecting" /\ ~ sk'["client"].wait_connect
    <3>1. /\ PreAccept /\ AckOf(net["server"]) = {} /\ ~ AckAt(main["server"]) /\ backlog.n = 0
          /\ app["client"].pc = "connecting" /\ ~ sk["client"].wait_connect
      BY <1>1, <1>3, <2>1 DEF Connecting
    <3>2. ~ DataAt(main["server"])
      BY <1>3, <3>1, Hosts DEF Flight, Bulks, Quiet
    <3> QED
      BY <1>1, <1>4, <1>7, <1>13, <3>1, <3>2 DEF AckAt
  <2>2. app'["client"].pc # "connect"
    BY <1>1, <1>2, <1>3 DEF Connecting
  <2> QED
    BY <2>1, <2>2 DEF Connecting
<1>15. Flight("client")'
  BY <1>3, <1>5, <1>9, Hosts, ProcessFlight
<1>16. ~ PreAccept => Flight("server")'
  BY <1>3, Hosts, ProcessFlight
<1>17. ASSUME PreAccept PROVE Blank' /\ Child' /\ HandshakeAck'
  <2>1. Blank /\ Child /\ HandshakeAck
    BY <1>3, <1>17
  <2>2. state \in {"SYN_RECV", "CLOSED"} /\ tsk.state # "NONE"
    BY <1>2, <1>9, <2>1 DEF Child
  <2>3. ~ r.stored /\ r.tsk.rcv_buf = tsk.rcv_buf /\ r.tsk.wait_send = tsk.wait_send
    BY <1>6, <2>2 DEF StoreOK
  <2>4. Stored("client")' = Stored("client") /\ Stored("server")' = Stored("server")
    BY <1>1, <2>3 DEF Stored
  <2>5. DataOf(net'["client"]) = DataOf(net["client"])
    <3>1. CASE r.out = <<>>
      BY <1>1, <1>8, <3>1
    <3>2. ASSUME NEW m \in Seg, r.out = <<m>>
          PROVE  DataOf(net'["client"]) = DataOf(net["client"])
      <4>1. ~ IsData(m)
        BY <1>6, <3>2 DEF AnswerOK, IsData
      <4> QED
        BY <1>1, <1>8, <3>2, <4>1, SnocSets
    <3> QED
      BY <1>6, <3>1, <3>2
  <2>6. Blank'
    BY <1>1, <1>7, <2>1, <2>3, <2>4, <2>5 DEF Blank, Quiet
  <2>7. Child'
    <3>1. r.tsk.state \in {tsk.state, "CLOSED"}
      BY <1>5, <1>6, <2>2 DEF StateOK
    <3> QED
      BY <1>1, <1>7, <2>1, <2>2, <3>1 DEF Child
  <2>8. HandshakeAck'
    <3>1. ~ AckAt(main'["server"]) /\ ~ DataAt(main'["server"])
      BY <1>7 DEF AckAt, DataAt
    <3>2. backlog'.n # 0 => AckOf(net["server"]) = {}
      BY <1>1, <1>13, <2>1 DEF HandshakeAck
    <3> QED
      BY <1>1, <2>1, <3>1, <3>2 DEF HandshakeAck
  <2> QED
    BY <2>6, <2>7, <2>8
<1> QED
  BY <1>4, <1>10, <1>11, <1>12, <1>14, <1>15, <1>16, <1>17 DEF OpenInv

LEMMA TimerInv ==
    ASSUME Open, OpenInv, NEW h \in Host
    PROVE  ~ tcp_scan_timer_list(h)
<1>1. sk[h].timer = "off"
  BY Hosts DEF OpenInv, ClientStates, ServerStates
<1> QED
  BY <1>1 DEF tcp_scan_timer_list

LEMMA OpenStep ==
    ASSUME Types, Open, OpenInv, Next
    PROVE  StreamInv'
<1>1. CASE CloseFin
  BY <1>1, CloseFinInv DEF StreamInv
<1>2. CASE CloseState
  BY <1>2, CloseStateStep DEF Open
<1>3. ASSUME NEW h \in Host, Process(h) PROVE StreamInv'
  BY <1>3, Hosts, ProcessClientInv, ProcessServerInv DEF StreamInv
<1>4. ASSUME NEW h \in Host, Receive(h) \/ tcp_scan_timer_list(h) PROVE StreamInv'
  BY <1>4, ReceiveInv, TimerInv DEF StreamInv
<1>5. ASSUME NEW h \in Host, WakeReader(h) \/ Acknowledge(h) PROVE StreamInv'
  BY <1>5, WakeInv, AckInv DEF StreamInv
<1>6. ASSUME NEW h \in Host, \/ Write(h) \/ Emit(h) \/ Written(h)
                             \/ ReadTest(h) \/ ReadTake(h) \/ ReadWoken(h)
      PROVE  StreamInv'
  BY <1>6, ReadWriteInv, EmitInv DEF StreamInv
<1>7. CASE tcp_state_listen \/ tcp_sock_connect \/ Connected
  BY <1>7, ListenInv, ConnectInv, ConnectedInv DEF StreamInv
<1>8. CASE AcceptTest \/ AcceptWoken \/ Dequeue
  BY <1>8, AcceptInv, DequeueInv DEF StreamInv
<1> QED
  BY <1>1, <1>2, <1>3, <1>4, <1>5, <1>6, <1>7, <1>8, NextCases

\* After the FIN nothing more is stored at the server, and the client does not read.
LEMMA ClosedFrame ==
    ASSUME Types, ~ Open, ClosedInv, app'["client"].pc \in {"FIN_WAIT_1", "LAST_ACK", "done"},
           DataOf(net'["server"]) = {}, ~ DataAt(main'["server"]),
           Stored("server")' = Stored("server"), got'["client"] = got["client"],
           wrote'["client"] = wrote["client"], wrote'["server"] = wrote["server"]
    PROVE  StreamInv'
  BY DEF ClosedInv, StreamInv, Open

LEMMA ClosedStep ==
    ASSUME Types, ~ Open, ClosedInv, Next
    PROVE  StreamInv'
<1>1. app["client"].pc \in {"FIN_WAIT_1", "LAST_ACK", "done"}
  BY DEF Open
<1>2. DataOf(net["server"]) = {} /\ ~ DataAt(main["server"])
  BY DEF ClosedInv
<1>3. /\ net["server"] \in Seq(Seg) /\ \A n \in Seq(Seg) : n \o <<>> = n
      /\ got["server"] \in Seq(Byte) /\ sk["server"].rcv_buf \in Seq(Byte)
      /\ wrote["server"] \in Seq(Byte) /\ wrote["client"] \in Seq(Byte)
      /\ got["client"] \in Seq(Byte)
  BY Hosts, FlightTypes, ConcatEmptySeq
<1>4. CASE CloseFin \/ tcp_sock_connect \/ Connected
  BY <1>1, <1>4 DEF CloseFin, tcp_sock_connect, Connected
<1>5. CASE CloseState
  <2>1. /\ app'["client"].pc = "done" /\ sk'["server"] = sk["server"]
        /\ UNCHANGED <<backlog, main, net, wrote, got>>
    BY <1>5, CloseStateStep
  <2> QED
    BY <1>2, <2>1, ClosedFrame DEF Stored
<1>6. ASSUME NEW h \in Host, Receive(h) PROVE StreamInv'
  <2>1. /\ UNCHANGED <<sk, app, wrote, got>>
        /\ net[h] # <<>> /\ net'[h] = Tail(net[h]) /\ net'[Peer(h)] = net[Peer(h)]
        /\ main'[h].cb = Head(net[h]) /\ main'[h].at = "process"
        /\ main'[Peer(h)] = main[Peer(h)]
    BY <1>6, ReceiveStep
  <2>2. DataOf(net'["server"]) = {} /\ ~ DataAt(main'["server"])
    <3>1. CASE h = "server"
      <4>1. /\ \A i \in DataOf(net'["server"]) : i + 1 \in DataOf(net["server"])
            /\ IsData(main'["server"].cb) => 1 \in DataOf(net["server"])
        BY <1>3, <2>1, <3>1, TailOf
      <4> QED
        BY <1>2, <4>1 DEF DataAt
    <3>2. CASE h = "client"
      BY <1>2, <2>1, <3>2, Hosts
    <3> QED
      BY <3>1, <3>2, Hosts
  <2> QED
    BY <1>1, <2>1, <2>2, ClosedFrame DEF Stored
<1>7. ASSUME NEW h \in Host, Process(h) PROVE StreamInv'
  <2>1. Peer(h) \in Host /\ (h = "server" \/ (h = "client" /\ Peer(h) = "server"))
    BY Hosts, PeerType DEF Peer
  <2>2. PICK r : Processed(h, Peer(h), r)
    BY <1>7, ProcessStepAt
  <2>3. main[h].at = "process"
    BY <1>7, ProcessStep
  <2>4. /\ r.out \in {<<>>} \cup {<<m>> : m \in Seg} /\ r.stored \in BOOLEAN
        /\ AnswerOK(main[h].state, main[h].cb, r)
        /\ StoreOK(sk[h], main[h].state, main[h].cb, r)
    BY <2>2 DEF Processed, Effect, Results
  <2>5. /\ sk'[h] = r.tsk /\ sk'[Peer(h)] = sk[Peer(h)]
        /\ net'[h] = net[h] /\ net'[Peer(h)] = net[Peer(h)] \o r.out
        /\ main'[h] = IF r.stored THEN Wake ELSE Idle
        /\ main'[Peer(h)] = main[Peer(h)]
        /\ UNCHANGED <<app, wrote, got>>
    BY <2>2 DEF Processed
  <2>6. DataOf(net'["server"]) = {}
    <3>1. CASE h = "server" \/ r.out = <<>>
      BY <1>2, <1>3, <2>1, <2>5, <3>1
    <3>2. ASSUME NEW m \in Seg, r.out = <<m>>, h = "client" PROVE DataOf(net'["server"]) = {}
      <4>1. ~ IsData(m)
        BY <2>4, <3>2 DEF AnswerOK, IsData
      <4>2. net'["server"] = net["server"] \o <<m>>
        BY <2>1, <2>5, <3>2
      <4> QED
        BY <1>2, <1>3, <4>1, <4>2, SnocSets
    <3> QED
      BY <2>1, <2>4, <3>1, <3>2
  <2>7. ~ DataAt(main'["server"])
    BY <1>2, <2>1, <2>4, <2>5 DEF DataAt, Idle, Wake
  <2>8. Stored("server")' = Stored("server")
    <3>1. h = "server" => r.tsk.rcv_buf = sk[h].rcv_buf
      BY <1>2, <2>3, <2>4 DEF StoreOK, DataAt, IsData
    <3> QED
      BY <2>1, <2>5, <3>1 DEF Stored
  <2> QED
    BY <1>1, <2>5, <2>6, <2>7, <2>8, ClosedFrame
<1>8. ASSUME NEW h \in Host, WakeReader(h) \/ Acknowledge(h) PROVE StreamInv'
  <2>1. Peer(h) \in Host /\ (h = "server" \/ (h = "client" /\ Peer(h) = "server"))
    BY Hosts, PeerType DEF Peer
  <2>2. CASE WakeReader(h)
    <3>1. /\ main'[h] = Owe /\ main'[Peer(h)] = main[Peer(h)]
          /\ sk'[h].rcv_buf = sk[h].rcv_buf /\ sk'[Peer(h)] = sk[Peer(h)]
          /\ UNCHANGED <<app, net, wrote, got>>
      BY <2>2, WakeStep
    <3>2. ~ DataAt(main'["server"])
      BY <1>2, <2>1, <3>1 DEF DataAt, Owe
    <3>3. Stored("server")' = Stored("server")
      BY <2>1, <3>1 DEF Stored
    <3> QED
      BY <1>1, <1>2, <3>1, <3>2, <3>3, ClosedFrame
  <2>3. CASE Acknowledge(h)
    <3>1. PICK m \in Seg : /\ m.flags = {TCP_ACK}
                           /\ net'[h] = net[h] /\ net'[Peer(h)] = net[Peer(h)] \o <<m>>
      BY <2>3, AckStep
    <3>2. /\ main'[h] = Idle /\ main'[Peer(h)] = main[Peer(h)]
          /\ sk'[h].rcv_buf = sk[h].rcv_buf /\ sk'[Peer(h)] = sk[Peer(h)]
          /\ UNCHANGED <<app, wrote, got>>
      BY <2>3, AckStep
    <3>3. DataOf(net'["server"]) = {}
      <4>1. ~ IsData(m)
        BY <3>1, FlagSets DEF IsData
      <4>2. h = "client" => net'["server"] = net["server"] \o <<m>>
        BY <2>1, <3>1
      <4>3. DataOf(net["server"] \o <<m>>) = DataOf(net["server"])
        BY <1>3, <4>1, SnocSets
      <4> QED
        BY <1>2, <2>1, <3>1, <4>2, <4>3
    <3>4. ~ DataAt(main'["server"])
      BY <1>2, <2>1, <3>2 DEF DataAt, Idle
    <3>5. Stored("server")' = Stored("server")
      BY <2>1, <3>2 DEF Stored
    <3> QED
      BY <1>1, <3>2, <3>3, <3>4, <3>5, ClosedFrame
  <2> QED
    BY <1>8, <2>2, <2>3
<1>9. ASSUME NEW h \in Host, tcp_scan_timer_list(h) PROVE StreamInv'
  <2>1. /\ sk'[h].rcv_buf = sk[h].rcv_buf /\ sk'[Peer(h)] = sk[Peer(h)]
        /\ UNCHANGED <<app, main, net, wrote, got>>
    BY <1>9, TimerStep
  <2>2. Stored("server")' = Stored("server")
    BY <2>1, Hosts DEF Stored
  <2> QED
    BY <1>1, <1>2, <2>1, <2>2, ClosedFrame
<1>10. CASE tcp_state_listen
  <2>1. /\ main'["server"] = Idle /\ sk'["server"].rcv_buf = <<>>
        /\ net'["server"] = net["server"] /\ UNCHANGED <<app, wrote, got>>
    BY <1>10, ListenStep
  <2>2. Stored("server")' = got["server"]
    BY <1>3, <2>1, ConcatEmptySeq DEF Stored
  <2>3. IsPrefix(got["server"], wrote["client"])
    BY <1>3, Hosts, GotIsPrefix DEF ClosedInv
  <2>4. ~ DataAt(main'["server"])
    BY <2>1 DEF DataAt, Idle
  <2> QED
    BY <1>1, <1>2, <2>1, <2>2, <2>3, <2>4 DEF ClosedInv, StreamInv, Open
<1>11. CASE AcceptTest \/ AcceptWoken
  <2>1. app'["client"] = app["client"] /\ UNCHANGED <<sk, main, net, wrote, got>>
    BY <1>11, AcceptStep
  <2> QED
    BY <1>1, <1>2, <2>1, ClosedFrame DEF Stored
<1>12. CASE Dequeue
  <2>1. /\ app'["client"] = app["client"] /\ sk'["server"].rcv_buf = sk["server"].rcv_buf
        /\ UNCHANGED <<main, net, wrote, got>>
    BY <1>12, DequeueStep
  <2> QED
    BY <1>1, <1>2, <2>1, ClosedFrame DEF Stored
<1>13. ASSUME NEW h \in Host, Write(h) PROVE StreamInv'
  <2>1. h = "server" /\ Peer(h) = "client"
    BY <1>1, <1>13, Hosts DEF Write
  <2>2. /\ app'["client"] = app["client"] /\ app["server"].buf \in Seq(Byte)
        /\ sk'["server"].rcv_buf = sk["server"].rcv_buf
        /\ wrote'["server"] = wrote["server"] \o app["server"].buf
        /\ wrote'["client"] = wrote["client"]
        /\ UNCHANGED <<main, net, got>>
    BY ZenonT(60), <1>13, <2>1, WriteStep DEF SameButSeq
  <2>3. Stored("server")' = Stored("server")
    BY <2>2 DEF Stored
  <2>4. IsPrefix(got["client"], wrote'["server"])
    <3> DEFINE w == wrote["server"]
               d == app["server"].buf
               g == got["client"]
    <3>1. w \in Seq(Byte) /\ d \in Seq(Byte) /\ g \in Seq(Byte) /\ IsPrefix(g, w)
      BY <1>3, <2>2 DEF ClosedInv
    <3> HIDE DEF w, d, g
    <3>2. IsPrefix(w, w \o d) /\ w \o d \in Seq(Byte)
      BY <3>1, PrefixConcat, ConcatProperties
    <3>3. IsPrefix(g, w \o d)
      BY <3>1, <3>2, PrefixTrans
    <3> QED
      BY <2>2, <3>3 DEF w, d, g
  <2> QED
    BY <1>1, <1>2, <2>2, <2>3, <2>4 DEF ClosedInv, StreamInv, Open
<1>14. ASSUME NEW h \in Host, Emit(h) PROVE StreamInv'
  <2>1. h = "server" /\ Peer(h) = "client"
    BY <1>1, <1>14, Hosts DEF Emit
  <2>2. /\ app'["client"] = app["client"] /\ net'["server"] = net["server"]
        /\ UNCHANGED <<sk, main, wrote, got>>
    BY <1>14, <2>1, EmitStep
  <2> QED
    BY <1>1, <1>2, <2>2, ClosedFrame DEF Stored
<1>15. ASSUME NEW h \in Host, Written(h) PROVE StreamInv'
  <2>1. h = "server" /\ Peer(h) = "client"
    BY <1>1, <1>15, Hosts DEF Written
  <2>2. /\ app'["client"] = app["client"] /\ sk'["server"].rcv_buf = sk["server"].rcv_buf
        /\ UNCHANGED <<main, net, wrote, got>>
    BY <1>15, <2>1, WrittenStep
  <2> QED
    BY <1>1, <1>2, <2>2, ClosedFrame DEF Stored
<1>16. ASSUME NEW h \in Host, ReadTest(h) \/ ReadTake(h) \/ ReadWoken(h) PROVE StreamInv'
  <2>1. h = "server" /\ Peer(h) = "client"
    BY <1>1, <1>16, Hosts DEF ReadTest, ReadTake, ReadWoken
  <2>2. /\ app'["client"] = app["client"] /\ Stored("server")' = Stored("server")
        /\ got'["client"] = got["client"] /\ UNCHANGED <<main, net, wrote>>
    BY <1>16, <2>1, Hosts, ReadStored
  <2> QED
    BY <1>1, <1>2, <2>2, ClosedFrame
<1> QED
  BY <1>4, <1>5, <1>6, <1>7, <1>8, <1>9, <1>10, <1>11, <1>12, <1>13, <1>14, <1>15, <1>16, NextCases

LEMMA InitStream == Init => StreamInv
<1> SUFFICES ASSUME Init PROVE StreamInv
  OBVIOUS
<1>1. /\ app["client"].pc = "connect" /\ app["server"].pc = "accept" /\ backlog.n = 0
      /\ \A h \in Host : /\ main[h] = Idle /\ net[h] = <<>> /\ wrote[h] = <<>> /\ got[h] = <<>>
                         /\ sk[h].rcv_buf = <<>> /\ sk[h].timer = "off" /\ ~ sk[h].wait_send
      /\ sk["client"].state = "CLOSED" /\ sk["server"].state = "NONE"
  BY DEF Init, Host, alloc_tcp_sock
<1>2. Idle.at = "idle"
  BY DEF Idle
<1>3. \A e : e = <<>> => DOMAIN e = {} /\ e \o <<>> = <<>>
  OBVIOUS
<1>4. \A h \in Host : /\ AckOf(net[h]) = {} /\ DataOf(net[h]) = {} /\ NoFinOn(net[h])
                      /\ Stored(h) = <<>>
  BY <1>1, <1>3 DEF AckOf, DataOf, NoFinOn, Stored
<1>5. \A h \in Host : /\ Quiet(net[h], main[h]) /\ Silent(net[h], main[h], sk[h].wait_send)
                      /\ ~ AckAt(main[h]) /\ ~ DataAt(main[h])
  BY <1>1, <1>2, <1>4 DEF Quiet, Silent, AckAt, DataAt
<1>6. Open /\ PreAccept
  BY <1>1 DEF Open, PreAccept
<1>7. NoFin /\ ClientStates /\ ServerStates
  BY <1>1, <1>2, <1>4, <1>6, Hosts DEF NoFin, ClientStates, ServerStates
<1>8. Connecting
  BY <1>1, <1>2, <1>6, Hosts DEF Connecting
<1>9. Flight("client")
  BY <1>1, <1>4, <1>5, Hosts DEF Flight, Bulks
<1>10. Blank /\ Child /\ HandshakeAck
  BY <1>1, <1>2, <1>4, <1>5, Hosts DEF Blank, Child, HandshakeAck
<1> QED
  BY <1>6, <1>7, <1>8, <1>9, <1>10 DEF StreamInv, OpenInv

LEMMA StreamStep == Types /\ StreamInv /\ [Next]_vars => StreamInv'
<1> SUFFICES ASSUME Types, StreamInv, [Next]_vars PROVE StreamInv'
  OBVIOUS
<1>1. CASE UNCHANGED vars
  BY <1>1 DEF vars, StreamInv, Open, OpenInv, ClosedInv, NoFin, ClientStates, ServerStates,
     Connecting, Flight, Stored, PreAccept, Blank, Child, HandshakeAck
<1>2. CASE Next
  BY <1>2, OpenStep, ClosedStep DEF StreamInv
<1> QED
  BY <1>1, <1>2

LEMMA StreamMeans == Types /\ StreamInv => StreamIntegrity
<1> SUFFICES ASSUME Types, StreamInv, NEW h \in Host PROVE IsPrefix(got[h], wrote[Peer(h)])
  BY DEF StreamIntegrity
<1>1. wrote[Peer(h)] \in Seq(Byte)
  BY PeerType, FlightTypes
<1>2. CASE Open
  <2>1. IsPrefix(Stored(h), wrote[Peer(h)])
    BY <1>2, StoredIsPrefix DEF StreamInv
  <2> QED
    BY <1>1, <2>1, GotIsPrefix
<1>3. CASE ~ Open
  <2>1. IsPrefix(Stored("server"), wrote["client"]) /\ IsPrefix(got["client"], wrote["server"])
    BY <1>3 DEF StreamInv, ClosedInv
  <2>2. IsPrefix(got["server"], wrote["client"])
    BY <2>1, Hosts, FlightTypes, GotIsPrefix
  <2> QED
    BY <2>1, <2>2, Hosts
<1> QED
  BY <1>2, <1>3

\* What an application reads with tcp_sock_read is a prefix of what the other one gave to
\* tcp_sock_write: for every window, every initial sequence number and any number of
\* rounds no byte is read twice, out of order or after a gap, although the stack sends
\* nothing again and drops what comes before accept has returned.
THEOREM StreamsAreIntact == Spec => []StreamIntegrity
<1>1. Spec => []StreamInv
  BY InitStream, StreamStep, AlwaysTyped, PTL DEF Spec
<1> QED
  BY <1>1, AlwaysTyped, StreamMeans, PTL

--------------------------------------------------------------------------------
(* Numbers on the circle.                                                      *)

LEMMA Division ==
    ASSUME NEW m \in Nat, m > 0, NEW x \in Int
    PROVE  x = m * (x \div m) + (x % m) /\ x \div m \in Int /\ x % m \in 0 .. m - 1
<1>1. \A n \in Nat : n > 0 => \A a \in Int : a = n * (a \div n) + (a % n)
  OBVIOUS
<1>2. \A n \in Nat : n > 0 => \A a \in Int : a \div n \in Int /\ a % n \in 0 .. n - 1
  OBVIOUS
<1> QED
  BY <1>1, <1>2

\* Numbers that are whole turns apart are at the same place.
LEMMA WholeTurns ==
    ASSUME NEW m \in Nat, m > 0, NEW x \in Int, NEW y \in Int, NEW q \in Int, x = y + m * q
    PROVE  x % m = y % m
<1> DEFINE d == y \div m
           r == y % m
<1>1. y = m * d + r /\ d \in Int /\ r \in 0 .. m - 1
  BY Division
<1> HIDE DEF d, r
<1>2. m * (d + q) = m * d + m * q /\ d + q \in Int
  BY <1>1
<1> DEFINE e == d + q
<1>3. x = m * e + r /\ e \in Int
  BY <1>1, <1>2
<1> HIDE DEF e
<1>4. \A n \in Nat : n > 0 => \A a \in Int : \A b \in 0 .. n - 1 : (n * a + b) % n = b
  OBVIOUS
<1>5. (m * e + r) % m = r
  BY <1>1, <1>3, <1>4
<1> QED
  BY <1>3, <1>5 DEF r

LEMMA PlusPlus ==
    ASSUME NEW a \in Int, NEW b \in Int, NEW c \in Int
    PROVE  Plus(Plus(a, b), c) = Plus(a, b + c)
<1> DEFINE m == SEQ_MOD
           x == a + b
           d == x \div m
           r == x % m
           u == a + (b + c)
           v == r + c
<1>1. m \in Nat /\ m > 0 /\ x \in Int
  BY SeqModAssumption
<1> HIDE DEF x
<1>2. x = m * d + r /\ d \in Int /\ r \in Int
  BY <1>1, Division
<1> HIDE DEF m, d, r
<1>3. u = v + m * d /\ u \in Int /\ v \in Int
  BY <1>1, <1>2 DEF x
<1> HIDE DEF u, v
<1>4. u % m = v % m
  BY <1>1, <1>2, <1>3, WholeTurns
<1> QED
  BY <1>4 DEF Plus, u, v, r, m, x

\* A number at most half a turn behind is not after.
LEMMA PlusBehind ==
    ASSUME NEW a \in Int, NEW k \in Int, NEW n \in Int, k <= n, n - k <= SEQ_MOD \div 2
    PROVE  less_or_equal_32b(Plus(a, k), Plus(a, n))
<1>1. CASE k = n
  BY <1>1 DEF less_or_equal_32b
<1>2. CASE k < n
  <2> DEFINE m == SEQ_MOD
             x == a + k
             y == a + n
             c == x \div m
             d == y \div m
             r == x % m
             s == y % m
             e == d - c
             u == r - s
             v == k - n
  <2>1. m \in Nat /\ m > 0 /\ x \in Int /\ y \in Int /\ v \in Int
    BY SeqModAssumption
  <2>2. x = m * c + r /\ c \in Int /\ r \in Int /\ y = m * d + s /\ d \in Int /\ s \in Int
    <3> HIDE DEF x, y
    <3> QED
      BY <2>1, Division
  <2> HIDE DEF m, c, d, r, s
  <2>3. m * e = m * d - m * c /\ e \in Int
    BY <2>1, <2>2
  <2> HIDE DEF e
  <2>4. u = v + m * e /\ u \in Int
    BY <2>1, <2>2, <2>3
  <2>5. v < 0 /\ - v <= m \div 2
    BY <1>2 DEF m
  <2>6. u = r - s
    OBVIOUS
  <2> HIDE DEF u, v
  <2>7. u % m = v % m
    BY <2>1, <2>3, <2>4, WholeTurns
  <2>8. v % m >= m \div 2
    <3>1. \A w \in Nat : w > 0 => \A z \in Int : z < 0 /\ - z < w => z % w = w + z
      OBVIOUS
    <3>2. \A w \in Nat : w > 0 => w \div 2 < w /\ w - (w \div 2) >= w \div 2 /\ w \div 2 \in Int
      OBVIOUS
    <3>3. v % m = m + v
      BY <2>1, <2>5, <3>1, <3>2
    <3> QED
      BY <2>1, <2>5, <3>2, <3>3
  <2>9. (r - s) % m >= m \div 2
    BY <2>6, <2>7, <2>8
  <2> QED
    BY <2>9 DEF less_or_equal_32b, less_than_32b, Plus, r, s, m
<1> QED
  BY <1>1, <1>2

\* The number x is one of those from i on to i + n.
Past(x, i, n) == \E k \in 0 .. n : x = Plus(i, k)

LEMMA PastSelf ==
    ASSUME NEW i \in Int, NEW n \in Nat
    PROVE  Past(Plus(i, n), i, n)
  BY DEF Past

LEMMA PastMore ==
    ASSUME NEW i \in Int, NEW n \in Nat, NEW m \in Nat, n <= m, NEW x, Past(x, i, n)
    PROVE  Past(x, i, m)
  BY DEF Past

LEMMA PastBehind ==
    ASSUME NEW i \in Int, NEW n \in Nat, n <= SEQ_MOD \div 2, NEW x, Past(x, i, n)
    PROVE  less_or_equal_32b(x, Plus(i, n))
<1>1. PICK k \in 0 .. n : x = Plus(i, k)
  BY DEF Past
<1>2. SEQ_MOD \div 2 \in Int
  BY SeqModAssumption
<1>3. k \in Int /\ k <= n /\ n - k <= SEQ_MOD \div 2
  BY <1>2
<1> QED
  BY <1>1, <1>3, PlusBehind

--------------------------------------------------------------------------------
(* The numbers of segments and socks.                                          *)

\* A segment without payload ends at its number, or one after it; snd_nxt follows.
Taken(flags) == IF flags \cap {TCP_SYN, TCP_FIN} # {} THEN 1 ELSE 0

LEMMA EmptyData == Len(<<>>) = 0
  OBVIOUS

LEMMA ControlNumbers ==
    ASSUME NEW t \in Sock, NEW flags
    PROVE  /\ seq_end(tcp_send_control_packet(t, flags)) = Plus(t.snd_nxt, Taken(flags))
           /\ after_control(t, flags).rcv_nxt = t.rcv_nxt
           /\ after_control(t, flags).snd_nxt =
                  IF Taken(flags) = 1 THEN Plus(t.snd_nxt, 1) ELSE t.snd_nxt
<1> DEFINE m == tcp_send_control_packet(t, flags)
           k == Taken(flags)
           v == IF flags \cap {TCP_SYN, TCP_FIN} # {} THEN Plus(t.snd_nxt, 1) ELSE t.snd_nxt
<1>1. m.flags = flags /\ m.seq = t.snd_nxt /\ m.data = <<>>
  BY DEF tcp_send_control_packet, tcp_cb
<1>2. k \in Int /\ k = IF flags \cap {TCP_SYN, TCP_FIN} # {} THEN 1 ELSE 0
  BY DEF Taken
<1>3. seq_end(m) = Plus(t.snd_nxt, 0 + k)
  <2> HIDE DEF m, k
  <2> QED
    BY <1>1, <1>2, EmptyData DEF seq_end
<1>4. 0 + k = k
  <2> HIDE DEF k
  <2> QED
    BY <1>2
<1>5. after_control(t, flags) = [t EXCEPT !.snd_nxt = v]
  BY DEF after_control
<1>6. v = IF k = 1 THEN Plus(t.snd_nxt, 1) ELSE t.snd_nxt
  BY DEF Taken
<1> HIDE DEF v, m, k
<1>7. [t EXCEPT !.snd_nxt = v].snd_nxt = v /\ [t EXCEPT !.snd_nxt = v].rcv_nxt = t.rcv_nxt
  BY DEF Sock
<1> QED
  BY <1>3, <1>4, <1>5, <1>6, <1>7 DEF m, k

\* What tcp_process sends moves snd_nxt by one if it is a FIN.
Sends(tsk, r, k) ==
    \/ k = 0 /\ r.out = <<>> /\ r.tsk.snd_nxt = tsk.snd_nxt
    \/ /\ k = 0 /\ r.tsk.snd_nxt = tsk.snd_nxt
       /\ \E m \in Seg : r.out = <<m>> /\ TCP_RST \in m.flags
    \/ /\ k \in {0, 1} /\ r.tsk.snd_nxt = IF k = 1 THEN Plus(tsk.snd_nxt, 1) ELSE tsk.snd_nxt
       /\ \E m \in Seg : /\ r.out = <<m>> /\ TCP_RST \notin m.flags
                         /\ seq_end(m) = Plus(tsk.snd_nxt, k)

\* The states it sets, and those it sends a FIN with.
Turn(state, new) ==
    \/ state = "SYN_SENT" /\ new = "ESTABLISHED"
    \/ state = "ESTABLISHED" /\ new = "CLOSE_WAIT"
    \/ state = "FIN_WAIT_1" /\ new = "FIN_WAIT_2"
FinTurn(state, new) ==
    \/ state = "FIN_WAIT_2" /\ new = "TIME_WAIT"
    \/ state = "CLOSE_WAIT" /\ new = "LAST_ACK"

\* It takes rcv_nxt from the segment or leaves it; from a reset only in SYN_SENT.
Hears(tsk, state, cb, r) ==
    \/ r.tsk.rcv_nxt = tsk.rcv_nxt /\ (state = "SYN_SENT" => r.tsk.state = tsk.state)
    \/ r.tsk.rcv_nxt = seq_end(cb) /\ (state # "SYN_SENT" => TCP_RST \notin cb.flags)

Moves(tsk, state, cb, r) ==
    /\ Hears(tsk, state, cb, r)
    /\ \/ /\ Sends(tsk, r, 0)
          /\ r.tsk.state \in {tsk.state, "CLOSED"} \/ Turn(state, r.tsk.state)
       \/ Sends(tsk, r, 1) /\ FinTurn(state, r.tsk.state)

\* An answer with the sock u that tcp_process has made of tsk, and none.
LEMMA AnswerMoves ==
    ASSUME NEW tsk \in Sock, NEW u \in Sock, NEW state, NEW cb, NEW flags \in SUBSET Flag,
           TCP_RST \notin flags, u.snd_nxt = tsk.snd_nxt, u.rcv_nxt = seq_end(cb),
           state # "SYN_SENT" => TCP_RST \notin cb.flags,
           IF Taken(flags) = 1 THEN FinTurn(state, u.state) ELSE Turn(state, u.state)
    PROVE  Moves(tsk, state, cb, Answer(u, flags))
<1> DEFINE r == Answer(u, flags)
           m == tcp_send_control_packet(u, flags)
           t == after_control(u, flags)
           k == Taken(flags)
<1>1. m \in Seg /\ m.flags = flags /\ t \in Sock /\ t.state = u.state
  BY ControlType, AfterControlType DEF SameButSeq
<1>2. /\ seq_end(m) = Plus(tsk.snd_nxt, k) /\ t.rcv_nxt = seq_end(cb)
      /\ t.snd_nxt = IF k = 1 THEN Plus(tsk.snd_nxt, 1) ELSE tsk.snd_nxt
  BY ControlNumbers
<1>3. r = Result(t, <<m>>)
  BY DEF Answer
<1>4. k \in {0, 1}
  BY DEF Taken
<1> HIDE DEF r, m, t, k
<1>5. r.tsk = t /\ r.out = <<m>>
  BY <1>1, <1>3 DEF Result
<1>6. Sends(tsk, r, k)
  BY <1>1, <1>2, <1>4, <1>5 DEF Sends
<1>7. Hears(tsk, state, cb, r)
  BY <1>2, <1>5 DEF Hears
<1>8. Moves(tsk, state, cb, r)
  <2>1. CASE k = 1
    BY <1>1, <1>5, <1>6, <1>7, <2>1 DEF Moves, k
  <2>2. CASE k = 0
    BY <1>1, <1>5, <1>6, <1>7, <2>2 DEF Moves, k
  <2> QED
    BY <1>4, <2>1, <2>2
<1> QED
  BY <1>8 DEF r

LEMMA ResultMoves ==
    ASSUME NEW tsk \in Sock, NEW u \in Sock, NEW state, NEW cb, NEW r,
           r.tsk = u, r.out = <<>> \/ \E m \in Seg : r.out = <<m>> /\ TCP_RST \in m.flags,
           u.snd_nxt = tsk.snd_nxt, u.state \in {tsk.state, "CLOSED"},
           \/ u.rcv_nxt = tsk.rcv_nxt /\ (state = "SYN_SENT" => u.state = tsk.state)
           \/ u.rcv_nxt = seq_end(cb) /\ TCP_RST \notin cb.flags
    PROVE  Moves(tsk, state, cb, r)
<1>1. Sends(tsk, r, 0)
  BY DEF Sends
<1>2. Hears(tsk, state, cb, r)
  BY DEF Hears
<1> QED
  BY <1>1, <1>2 DEF Moves

\* The fields that matter here, of a sock with others set.
LEMMA SetNumbers ==
    ASSUME NEW t \in Sock, NEW s \in States
    PROVE  /\ Set(t, s) \in Sock /\ Set(t, s).state = s
           /\ Set(t, s).snd_nxt = t.snd_nxt /\ Set(t, s).rcv_nxt = t.rcv_nxt
  BY DEF Set, Sock

LEMMA TimerNumbers ==
    ASSUME NEW t \in Sock, NEW s \in States, NEW b \in {"off", "on", "fired"}
    PROVE  LET u == [t EXCEPT !.state = s, !.timer = b]
           IN  u \in Sock /\ u.state = s /\ u.snd_nxt = t.snd_nxt /\ u.rcv_nxt = t.rcv_nxt
  BY DEF Sock

LEMMA SendNumbers ==
    ASSUME NEW t \in Sock, NEW b \in BOOLEAN
    PROVE  LET u == [t EXCEPT !.wait_send = b]
           IN  u \in Sock /\ u.state = t.state /\ u.snd_nxt = t.snd_nxt /\ u.rcv_nxt = t.rcv_nxt
  BY DEF Sock

LEMMA AckedNumbers ==
    ASSUME NEW tsk \in Sock, NEW cb \in Seg
    PROVE  LET t == [tsk EXCEPT !.snd_una = cb.ack, !.rcv_nxt = seq_end(cb)]
           IN  /\ t \in Sock /\ t.state = tsk.state
               /\ t.snd_nxt = tsk.snd_nxt /\ t.rcv_nxt = seq_end(cb)
<1> DEFINE v == seq_end(cb)
           a == cb.ack
<1>1. v \in Int /\ a \in Int
  BY SeqEndType DEF Seg
<1> HIDE DEF v, a
<1>2. LET t == [tsk EXCEPT !.snd_una = a, !.rcv_nxt = v]
      IN  t \in Sock /\ t.state = tsk.state /\ t.snd_nxt = tsk.snd_nxt /\ t.rcv_nxt = v
  BY <1>1 DEF Sock
<1> QED
  BY <1>2 DEF v, a

LEMMA AnswerFlags ==
    /\ {TCP_ACK} \in SUBSET Flag /\ {TCP_ACK, TCP_FIN} \in SUBSET Flag
    /\ {TCP_RST, TCP_ACK} \in SUBSET Flag
    /\ TCP_RST \notin {TCP_ACK} /\ TCP_FIN \notin {TCP_ACK} /\ TCP_RST \notin {TCP_ACK, TCP_FIN}
    /\ Taken({TCP_ACK}) = 0 /\ Taken({TCP_ACK, TCP_FIN}) = 1 /\ Taken({TCP_FIN, TCP_ACK}) = 1
    /\ Taken({TCP_SYN}) = 1 /\ Taken({TCP_SYN, TCP_ACK}) = 1
  BY DEF Flag, TCP_ACK, TCP_FIN, TCP_RST, TCP_SYN, TCP_PSH, Taken

LEMMA ProcessAckMoves ==
    ASSUME NEW tsk \in Sock, NEW state \in States \ {"NONE", "CLOSED", "SYN_SENT"}, NEW cb \in Seg,
           TCP_RST \notin cb.flags
    PROVE  Moves(tsk, state, cb, ProcessAck(tsk, state, cb))
<1> DEFINE r == ProcessAck(tsk, state, cb)
           t == [tsk EXCEPT !.snd_una = cb.ack, !.rcv_nxt = seq_end(cb)]
           acked == cb.ack = t.snd_nxt
<1> SUFFICES Moves(tsk, state, cb, r)
  OBVIOUS
<1>1. t \in Sock /\ t.state = tsk.state /\ t.snd_nxt = tsk.snd_nxt /\ t.rcv_nxt = seq_end(cb)
  BY AckedNumbers
<1>2. r = CASE state = "SYN_RECV" /\ acked -> [Result(t, <<>>) EXCEPT !.enqueue = TRUE]
            [] state = "FIN_WAIT_1" /\ acked -> Answer(Set(t, "FIN_WAIT_2"), {TCP_ACK})
            [] state = "FIN_WAIT_2" ->
                  Answer([t EXCEPT !.state = "TIME_WAIT", !.timer = "on"], {TCP_ACK, TCP_FIN})
            [] state = "ESTABLISHED" /\ TCP_FIN \in cb.flags -> Answer(Set(t, "CLOSE_WAIT"), {TCP_ACK})
            [] state = "CLOSE_WAIT" -> Answer(Set(t, "LAST_ACK"), {TCP_ACK, TCP_FIN})
            [] state = "LAST_ACK" /\ acked -> Result(Set(t, "CLOSED"), <<>>)
            [] state = "ESTABLISHED" /\ cb.flags = {TCP_ACK} ->
                  Result([t EXCEPT !.wait_send = TRUE], <<>>)
            [] OTHER -> Result(t, <<>>)
  BY DEF ProcessAck
<1> HIDE DEF r, t, acked
<1>3. /\ "FIN_WAIT_2" \in States /\ "CLOSE_WAIT" \in States /\ "LAST_ACK" \in States
      /\ "CLOSED" \in States /\ "TIME_WAIT" \in States
  BY DEF States, tcp_state
<1>4. ASSUME NEW u \in Sock, NEW flags \in SUBSET Flag, r = Answer(u, flags), TCP_RST \notin flags,
             u.snd_nxt = t.snd_nxt, u.rcv_nxt = t.rcv_nxt,
             IF Taken(flags) = 1 THEN FinTurn(state, u.state) ELSE Turn(state, u.state)
      PROVE  Moves(tsk, state, cb, r)
  <2>1. u.snd_nxt = tsk.snd_nxt /\ u.rcv_nxt = seq_end(cb)
    BY <1>1, <1>4
  <2>2. Moves(tsk, state, cb, Answer(u, flags))
    BY <1>4, <2>1, AnswerMoves
  <2> QED
    BY <1>4, <2>2
<1>5. ASSUME NEW u \in Sock, r.tsk = u, r.out = <<>>, u.state \in {tsk.state, "CLOSED"},
             u.snd_nxt = t.snd_nxt, u.rcv_nxt = t.rcv_nxt
      PROVE  Moves(tsk, state, cb, r)
  <2>1. u.snd_nxt = tsk.snd_nxt /\ u.rcv_nxt = seq_end(cb)
    BY <1>1, <1>5
  <2> QED
    BY <1>5, <2>1, ResultMoves
<1>6. \A u : Result(u, <<>>).tsk = u /\ Result(u, <<>>).out = <<>>
  BY DEF Result
<1>7. CASE state = "SYN_RECV" /\ acked
  <2>1. r = [Result(t, <<>>) EXCEPT !.enqueue = TRUE]
    BY <1>2, <1>7
  <2>2. r.tsk = t /\ r.out = <<>>
    BY <2>1 DEF Result
  <2> QED
    BY <1>1, <1>5, <2>2
<1>8. CASE state = "FIN_WAIT_1" /\ acked
  <2> DEFINE u == Set(t, "FIN_WAIT_2")
  <2>1. r = Answer(u, {TCP_ACK})
    BY <1>2, <1>8
  <2>2. u \in Sock /\ u.state = "FIN_WAIT_2" /\ u.snd_nxt = t.snd_nxt /\ u.rcv_nxt = t.rcv_nxt
    BY <1>1, <1>3, SetNumbers
  <2> HIDE DEF u
  <2>3. Turn(state, u.state)
    BY <1>8, <2>2 DEF Turn
  <2> QED
    BY <1>4, <2>1, <2>2, <2>3, AnswerFlags
<1>9. CASE state = "FIN_WAIT_2"
  <2> DEFINE u == [t EXCEPT !.state = "TIME_WAIT", !.timer = "on"]
  <2>1. r = Answer(u, {TCP_ACK, TCP_FIN})
    BY <1>2, <1>9
  <2>2. u \in Sock /\ u.state = "TIME_WAIT" /\ u.snd_nxt = t.snd_nxt /\ u.rcv_nxt = t.rcv_nxt
    BY <1>1, <1>3, TimerNumbers
  <2> HIDE DEF u
  <2>3. FinTurn(state, u.state)
    BY <1>9, <2>2 DEF FinTurn
  <2> QED
    BY <1>4, <2>1, <2>2, <2>3, AnswerFlags
<1>10. CASE state = "ESTABLISHED" /\ TCP_FIN \in cb.flags
  <2> DEFINE u == Set(t, "CLOSE_WAIT")
  <2>1. r = Answer(u, {TCP_ACK})
    BY <1>2, <1>10, AnswerFlags
  <2>2. u \in Sock /\ u.state = "CLOSE_WAIT" /\ u.snd_nxt = t.snd_nxt /\ u.rcv_nxt = t.rcv_nxt
    BY <1>1, <1>3, SetNumbers
  <2> HIDE DEF u
  <2>3. Turn(state, u.state)
    BY <1>10, <2>2 DEF Turn
  <2> QED
    BY <1>4, <2>1, <2>2, <2>3, AnswerFlags
<1>11. CASE state = "CLOSE_WAIT"
  <2> DEFINE u == Set(t, "LAST_ACK")
  <2>1. r = Answer(u, {TCP_ACK, TCP_FIN})
    BY <1>2, <1>11
  <2>2. u \in Sock /\ u.state = "LAST_ACK" /\ u.snd_nxt = t.snd_nxt /\ u.rcv_nxt = t.rcv_nxt
    BY <1>1, <1>3, SetNumbers
  <2> HIDE DEF u
  <2>3. FinTurn(state, u.state)
    BY <1>11, <2>2 DEF FinTurn
  <2> QED
    BY <1>4, <2>1, <2>2, <2>3, AnswerFlags
<1>12. CASE state = "LAST_ACK" /\ acked
  <2> DEFINE u == Set(t, "CLOSED")
  <2>1. r = Result(u, <<>>)
    BY <1>2, <1>12
  <2>2. u \in Sock /\ u.state = "CLOSED" /\ u.snd_nxt = t.snd_nxt /\ u.rcv_nxt = t.rcv_nxt
    BY <1>1, <1>3, SetNumbers
  <2> HIDE DEF u
  <2> QED
    BY <1>1, <1>5, <1>6, <2>1, <2>2
<1>13. CASE state = "ESTABLISHED" /\ TCP_FIN \notin cb.flags /\ cb.flags = {TCP_ACK}
  <2> DEFINE u == [t EXCEPT !.wait_send = TRUE]
  <2>1. r = Result(u, <<>>)
    BY <1>2, <1>13
  <2>2. u \in Sock /\ u.state = t.state /\ u.snd_nxt = t.snd_nxt /\ u.rcv_nxt = t.rcv_nxt
    BY <1>1, SendNumbers
  <2> HIDE DEF u
  <2> QED
    BY <1>1, <1>5, <1>6, <2>1, <2>2
<1>14. CASE ~ \/ state = "SYN_RECV" /\ acked
              \/ state = "FIN_WAIT_1" /\ acked
              \/ state = "FIN_WAIT_2"
              \/ state = "ESTABLISHED" /\ TCP_FIN \in cb.flags
              \/ state = "CLOSE_WAIT"
              \/ state = "LAST_ACK" /\ acked
              \/ state = "ESTABLISHED" /\ cb.flags = {TCP_ACK}
  <2>1. r = Result(t, <<>>)
    BY <1>2, <1>14
  <2> QED
    BY <1>1, <1>5, <1>6, <2>1
<1> QED
  BY <1>7, <1>8, <1>9, <1>10, <1>11, <1>12, <1>13, <1>14

\* What tcp_process does to the numbers and the state of a sock, whatever the segment.
LEMMA ProcessMoves ==
    ASSUME NEW tsk \in Sock, NEW state \in States \ {"NONE"}, NEW cb \in Seg
    PROVE  Moves(tsk, state, cb, tcp_process(tsk, state, cb))
<1> DEFINE r == tcp_process(tsk, state, cb)
           reset == tcp_send_reset(cb)
<1> SUFFICES Moves(tsk, state, cb, r)
  OBVIOUS
<1>1. reset \in Seg /\ TCP_RST \in reset.flags /\ "CLOSED" \in States
  BY ResetType DEF States, tcp_state
<1>2. CASE /\ \E u \in {tsk, Set(tsk, "CLOSED")}, out \in {<<>>, <<reset>>} : r = Result(u, out)
           /\ state = "SYN_SENT" => r.tsk = tsk
  <2>1. PICK u \in {tsk, Set(tsk, "CLOSED")}, out \in {<<>>, <<reset>>} : r = Result(u, out)
    BY <1>2
  <2>2. /\ u \in Sock /\ u.state \in {tsk.state, "CLOSED"}
        /\ u.snd_nxt = tsk.snd_nxt /\ u.rcv_nxt = tsk.rcv_nxt
    BY <1>1, <2>1, SetNumbers
  <2> HIDE DEF r, reset
  <2>3. r.tsk = u /\ r.out = out
    BY <2>1 DEF Result
  <2> QED
    BY <1>1, <1>2, <2>2, <2>3, ResultMoves
<1>3. CASE state = "SYN_SENT"
  <2>1. r = tcp_state_syn_sent(tsk, cb)
    BY <1>3 DEF tcp_process
  <2>2. CASE cb.flags \cap {TCP_SYN, TCP_ACK} # {}
    <3> DEFINE v == seq_end(cb)
               a == cb.ack
               t == [tsk EXCEPT !.rcv_nxt = v, !.snd_una = a,
                                !.state = "ESTABLISHED", !.wait_connect = TRUE]
    <3>1. v \in Int /\ a \in Int
      BY SeqEndType DEF Seg
    <3>2. r = Answer(t, {TCP_ACK})
      BY <2>1, <2>2 DEF tcp_state_syn_sent
    <3> HIDE DEF v, a, r
    <3>3. t \in Sock /\ t.state = "ESTABLISHED" /\ t.snd_nxt = tsk.snd_nxt /\ t.rcv_nxt = v
      BY <3>1 DEF Sock, States, tcp_state
    <3> HIDE DEF t
    <3>4. Turn(state, t.state) /\ t.rcv_nxt = seq_end(cb)
      BY <1>3, <3>3 DEF Turn, v
    <3>5. Moves(tsk, state, cb, Answer(t, {TCP_ACK}))
      BY <1>3, <3>3, <3>4, AnswerFlags, AnswerMoves
    <3> QED
      BY <3>2, <3>5
  <2>3. CASE cb.flags \cap {TCP_SYN, TCP_ACK} = {}
    <3>1. r = Result(tsk, <<reset>>)
      BY <2>1, <2>3 DEF tcp_state_syn_sent
    <3>2. r.tsk = tsk
      BY <3>1 DEF Result
    <3> QED
      BY <1>2, <3>1, <3>2
  <2> QED
    BY <2>2, <2>3
<1>4. CASE r = [Result(tcp_rcv_data_packet(tsk, cb), <<>>) EXCEPT !.stored = TRUE]
  <2> DEFINE b == tsk.rcv_buf \o cb.data
             w == tsk.rcv_wnd - Len(cb.data)
             u == [tsk EXCEPT !.rcv_buf = b, !.rcv_wnd = w]
  <2>1. b \in Seq(Byte) /\ w \in Int
    BY LenProperties, ConcatProperties DEF Sock, Seg
  <2>2. r = [Result(u, <<>>) EXCEPT !.stored = TRUE]
    BY <1>4 DEF tcp_rcv_data_packet
  <2> HIDE DEF b, w, r
  <2>3. u \in Sock /\ u.state = tsk.state /\ u.snd_nxt = tsk.snd_nxt /\ u.rcv_nxt = tsk.rcv_nxt
    BY <2>1 DEF Sock
  <2> HIDE DEF u
  <2>4. r.tsk = u /\ r.out = <<>>
    BY <2>2 DEF Result
  <2> QED
    BY <2>3, <2>4, ResultMoves
<1>5. CASE state = "CLOSED"
  <2>1. r = Result(tsk, <<reset>>)
    BY <1>5 DEF tcp_process
  <2> QED
    BY <1>2, <1>5, <2>1
<1>6. CASE state \notin {"CLOSED", "SYN_SENT"}
  <2>1. r = IF ~ is_tcp_seq_valid(tsk, cb) THEN Result(tsk, <<>>)
            ELSE IF TCP_RST \in cb.flags THEN Result(Set(tsk, "CLOSED"), <<>>)
            ELSE IF TCP_SYN \in cb.flags THEN Result(Set(tsk, "CLOSED"), <<reset>>)
            ELSE IF TCP_ACK \notin cb.flags THEN Result(tsk, <<reset>>)
            ELSE IF state = "ESTABLISHED" /\ cb.flags = {TCP_PSH, TCP_ACK}
                 THEN [Result(tcp_rcv_data_packet(tsk, cb), <<>>) EXCEPT !.stored = TRUE]
            ELSE ProcessAck(tsk, state, cb)
    BY <1>6 DEF tcp_process
  <2>2. CASE TCP_RST \notin cb.flags /\ r = ProcessAck(tsk, state, cb)
    BY <1>6, <2>2, ProcessAckMoves
  <2> HIDE DEF r, reset
  <2> QED
    BY <1>2, <1>4, <1>6, <2>1, <2>2
<1> QED
  BY <1>3, <1>5, <1>6

--------------------------------------------------------------------------------
(* How many bytes are written.                                                 *)

Pending(h) == IF app[h].pc = "write" THEN Len(app[h].buf) ELSE 0

\* The client writes a byte a round, the server at most two for each byte it has read.
Lengths ==
    /\ app["client"].pc \in {"connect", "connecting"} => wrote["client"] = <<>>
    /\ PreAccept => wrote["server"] = <<>>
    /\ Len(wrote["client"]) + Pending("client") <= app["client"].i
    /\ app["client"].i <= Rounds
    /\ Len(wrote["server"]) + Pending("server") <= 2 * Len(got["server"])

LEMMA LengthTypes ==
    ASSUME Types, NEW h \in Host
    PROVE  /\ Len(wrote[h]) \in Nat /\ Len(got[h]) \in Nat /\ Len(sk[h].rcv_buf) \in Nat
           /\ Pending(h) \in Nat /\ app[h].i \in Int /\ app[h] \in App
           /\ wrote[h] \in Seq(Byte) /\ got[h] \in Seq(Byte) /\ sk[h].rcv_buf \in Seq(Byte)
<1>1. /\ wrote[h] \in Seq(Byte) /\ got[h] \in Seq(Byte) /\ sk[h].rcv_buf \in Seq(Byte)
      /\ app[h].i \in Int /\ app[h] \in App
      /\ app[h].pc = "write" => app[h].buf \in Seq(Byte)
  BY DEF Types, Sock, App
<1>2. Pending(h) \in Nat
  BY <1>1, LenProperties DEF Pending
<1>3. \A s \in Seq(Byte) : Len(s) \in Nat
  BY LenProperties
<1> QED
  BY <1>1, <1>2, <1>3

\* The applications neither write nor take bytes to write.
LEMMA LengthsFrame ==
    ASSUME Types, Types', Lengths, wrote' = wrote, got' = got,
           \A h \in Host : app'[h].i = app[h].i /\ (app'[h] = app[h] \/ app'[h].pc # "write"),
           app'["client"].pc \in {"connect", "connecting"}
               => app["client"].pc \in {"connect", "connecting"},
           PreAccept' => PreAccept
    PROVE  Lengths'
<1>1. \A h \in Host : Pending(h)' <= Pending(h)
  <2> TAKE h \in Host
  <2>1. Pending(h) \in Nat
    BY LengthTypes
  <2>2. app'[h] = app[h] => Pending(h)' = Pending(h)
    BY DEF Pending
  <2>3. app'[h].pc # "write" => Pending(h)' = 0
    BY DEF Pending
  <2> QED
    BY <2>1, <2>2, <2>3
<1>2. \A h \in Host : /\ Pending(h) \in Nat /\ Pending(h)' \in Nat
                      /\ Len(wrote[h]) \in Nat /\ Len(got[h]) \in Nat /\ app[h].i \in Int
  <2>1. \A h \in Host : Pending(h)' \in Nat
    <3> TAKE h \in Host
    <3>1. app'[h].pc = "write" => app'[h].buf \in Seq(Byte)
      BY DEF Types
    <3> QED
      BY <3>1, LenProperties DEF Pending
  <2> QED
    BY <2>1, LengthTypes
<1>3. /\ Len(wrote["client"]) + Pending("client")' <= app'["client"].i
      /\ app'["client"].i <= Rounds
      /\ Len(wrote["server"]) + Pending("server")' <= 2 * Len(got["server"])
  <2>1. Rounds \in Int
    BY StreamAssumption
  <2> DEFINE c == Pending("client")
             d == Pending("client")'
             e == Pending("server")
             f == Pending("server")'
             j == app["client"].i
  <2>2. d <= c /\ f <= e /\ app'["client"].i = j
    BY <1>1, Hosts
  <2>3. /\ c \in Nat /\ d \in Nat /\ e \in Nat /\ f \in Nat /\ j \in Int
        /\ Len(wrote["client"]) \in Nat /\ Len(wrote["server"]) \in Nat /\ Len(got["server"]) \in Nat
    BY <1>2, Hosts
  <2>4. /\ Len(wrote["client"]) + c <= j /\ j <= Rounds
        /\ Len(wrote["server"]) + e <= 2 * Len(got["server"])
    BY DEF Lengths
  <2> HIDE DEF c, d, e, f, j
  <2>5. /\ Len(wrote["client"]) + d <= j /\ j <= Rounds
        /\ Len(wrote["server"]) + f <= 2 * Len(got["server"])
    BY ONLY <2>1, <2>2, <2>3, <2>4
  <2> QED
    BY <2>2, <2>5 DEF d, f, j
<1> QED
  BY <1>3 DEF Lengths

\* Where a step leaves the application of h, and the one of its peer where it was.
LEMMA GotoLengths ==
    ASSUME NEW h \in Host, NEW pc \in Pc \ {"write", "emit"}, Types, Types', Goto(h, pc),
           Lengths, wrote' = wrote, got' = got,
           h = "client" /\ pc \in {"connect", "connecting"}
               => app["client"].pc \in {"connect", "connecting"},
           h = "server" /\ pc \in {"accept", "accepting", "dequeue"} => PreAccept
    PROVE  Lengths'
<1>1. /\ app'[h].pc = pc /\ app'[h].i = app[h].i
      /\ \A g \in Host : g # h => app'[g] = app[g]
  BY GotoType
<1>2. \A g \in Host : app'[g].i = app[g].i /\ (app'[g] = app[g] \/ app'[g].pc # "write")
  BY <1>1
<1>3. /\ app'["client"].pc \in {"connect", "connecting"}
             => app["client"].pc \in {"connect", "connecting"}
      /\ PreAccept' => PreAccept
  BY <1>1, Hosts DEF PreAccept
<1> QED
  BY <1>2, <1>3, LengthsFrame

LEMMA WriteLengths ==
    ASSUME NEW h \in Host, Types, Lengths, Write(h)
    PROVE  Lengths'
<1> DEFINE p == Peer(h)
           b == app[h].buf
           m == tcp_send_packet(sk[h], b)
           a == [app[h] EXCEPT !.pc = "emit", !.buf = m]
<1>1. /\ app[h].pc = "write" /\ b \in Seq(Byte) /\ app'[h].pc = "emit" /\ app'[p] = app[p]
      /\ wrote'[h] = wrote[h] \o b /\ wrote'[p] = wrote[p] /\ got' = got
  BY WriteStep
<1>2. app'[h].i = app[h].i
  <2>1. app \in [Host -> App] /\ app[h] \in App
    BY DEF Types
  <2>2. app' = [app EXCEPT ![h] = a]
    BY DEF Write
  <2> HIDE DEF m
  <2>3. a.i = app[h].i
    BY <2>1 DEF App
  <2> HIDE DEF a
  <2> QED
    BY <2>1, <2>2, <2>3
<1>3. Pending(h) = Len(b) /\ Pending(h)' = 0 /\ Pending(p)' = Pending(p)
  BY <1>1 DEF Pending
<1>4. Len(wrote'[h]) = Len(wrote[h]) + Len(b) /\ Len(b) \in Nat
  <2>1. wrote[h] \in Seq(Byte)
    BY LengthTypes
  <2> QED
    BY <1>1, <2>1, ConcatProperties, LenProperties
<1>5. p \in Host /\ ((h = "client" /\ p = "server") \/ (h = "server" /\ p = "client"))
  BY Hosts DEF Host
<1>6. \A g \in Host : Len(wrote[g]) \in Nat /\ Len(got[g]) \in Nat /\ app[g].i \in Int
                      /\ Pending(g) \in Nat
  BY LengthTypes
<1>7. Rounds \in Int
  BY StreamAssumption
<1> HIDE DEF b, p
<1>8. /\ Len(wrote'["client"]) + Pending("client")' = Len(wrote["client"]) + Pending("client")
      /\ Len(wrote'["server"]) + Pending("server")' = Len(wrote["server"]) + Pending("server")
      /\ app'["client"].i = app["client"].i
  <2>1. Len(wrote'[h]) + Pending(h)' = Len(wrote[h]) + Pending(h)
    BY <1>3, <1>4, <1>6
  <2>2. Len(wrote'[p]) + Pending(p)' = Len(wrote[p]) + Pending(p)
    BY <1>1, <1>3
  <2>3. CASE h = "client" /\ p = "server"
    BY <1>2, <2>1, <2>2, <2>3
  <2>4. CASE h = "server" /\ p = "client"
    BY <1>1, <2>1, <2>2, <2>4
  <2> QED
    BY <1>5, <2>3, <2>4
<1>9. /\ app'["client"].pc \in {"connect", "connecting"} => wrote'["client"] = <<>>
      /\ PreAccept' => wrote'["server"] = <<>>
  BY <1>1, <1>5 DEF Lengths, PreAccept
<1> QED
  BY <1>1, <1>8, <1>9 DEF Lengths

LEMMA ConnectedLengths ==
    ASSUME Types, Lengths, Connected
    PROVE  Lengths'
<1> DEFINE a == [pc |-> "write", buf |-> Bulk(1), i |-> 1]
<1>1. app' = [app EXCEPT !["client"] = a] /\ app \in [Host -> App]
  BY DEF Connected, Types
<1>2. /\ app["client"].pc = "connecting" /\ app'["server"] = app["server"]
      /\ wrote' = wrote /\ got' = got
  BY ConnectedStep
<1>3. a.pc = "write" /\ a.i = 1 /\ Len(a.buf) = 1
  BY DEF Bulk
<1> HIDE DEF a
<1>4. app'["client"] = a
  BY <1>1, Hosts
<1>5. Len(wrote["client"]) = 0
  BY <1>2, EmptyData DEF Lengths
<1>6. Pending("client")' = 1 /\ Pending("server")' = Pending("server")
  BY <1>2, <1>3, <1>4 DEF Pending
<1>7. 1 <= Rounds
  BY StreamAssumption
<1>8. Len(wrote["client"]) + Pending("client")' <= app'["client"].i
  BY <1>3, <1>4, <1>5, <1>6
<1> QED
  BY <1>2, <1>3, <1>4, <1>6, <1>7, <1>8 DEF Lengths, PreAccept

LEMMA TakeLengths ==
    ASSUME NEW h \in Host, Types, Lengths, Take(h), app[h].pc \in {"read", "take"},
           UNCHANGED <<backlog, main, net, wrote, early>>
    PROVE  Lengths'
<1> DEFINE d == sk[h].rcv_buf
           o == app[h]
           a == AfterRead(h, d)
           e == Echo(d)
           b == [pc |-> "write", buf |-> Bulk(o.i + 1), i |-> o.i + 1]
           p == Peer(h)
<1>1. /\ app'[p] = app[p] /\ got'[h] = got[h] \o d /\ got'[p] = got[p] /\ wrote' = wrote
  BY TakeStep
<1>2. app'[h] = a
  <2>1. app' = [app EXCEPT ![h] = a] /\ app \in [Host -> App]
    BY DEF Take, Types
  <2> HIDE DEF a
  <2> QED
    BY <2>1
<1>3. /\ d \in Seq(Byte) /\ Len(d) \in Nat /\ o \in App /\ o.i \in Int
      /\ got[h] \in Seq(Byte)
  BY LengthTypes
<1>4. Len(got'[h]) = Len(got[h]) + Len(d)
  BY <1>1, <1>3, ConcatProperties
<1>5. d # <<>> => Len(d) >= 1
  BY <1>3, EmptySeq
<1>6. Len(e) = 1 + Len(d)
  <2>1. <<0>> \in Seq(Byte) /\ Len(<<0>>) = 1
    BY DEF Byte
  <2> QED
    BY <1>3, <2>1, ConcatProperties DEF Echo
<1>7. p \in Host /\ ((h = "client" /\ p = "server") \/ (h = "server" /\ p = "client"))
  BY Hosts DEF Host
<1>8. a = IF h = "server"
          THEN IF d = <<>> THEN [o EXCEPT !.pc = "read"]
                           ELSE [o EXCEPT !.pc = "write", !.buf = e]
          ELSE IF o.i = Rounds THEN [o EXCEPT !.pc = "close"] ELSE b
  BY DEF AfterRead
<1>9. \A g \in Host : Len(wrote[g]) \in Nat /\ Len(got[g]) \in Nat /\ app[g].i \in Int
                      /\ Pending(g) \in Nat
  BY LengthTypes
<1>10. Rounds \in Int
  BY StreamAssumption
<1>11. b.pc = "write" /\ b.i = o.i + 1 /\ Len(b.buf) = 1
  BY DEF Bulk
<1>12. Pending(h) = 0 /\ Pending(p)' = Pending(p)
  BY <1>1 DEF Pending
<1>13. Pending(h)' = IF a.pc = "write" THEN Len(a.buf) ELSE 0
  BY <1>2 DEF Pending
<1> HIDE DEF a, e, b, d
<1>14. CASE h = "server"
  <2>1. /\ d = <<>> => a.pc = "read"
        /\ d # <<>> => a.pc = "write" /\ a.buf = e
    <3> HIDE DEF o
    <3>1. /\ [o EXCEPT !.pc = "read"].pc = "read"
          /\ [o EXCEPT !.pc = "write", !.buf = e].pc = "write"
          /\ [o EXCEPT !.pc = "write", !.buf = e].buf = e
      BY <1>3 DEF App
    <3> QED
      BY <1>8, <1>14, <3>1
  <2>2. Pending("server")' <= 2 * Len(d)
    BY <1>3, <1>5, <1>6, <1>13, <1>14, <2>1
  <2>3. Pending("server")' \in Int
    BY <1>3, <1>6, <1>13, <1>14, <2>1
  <2>4. Len(wrote["server"]) + Pending("server")' <= 2 * Len(got'["server"])
    BY SMTT(30), <1>3, <1>4, <1>7, <1>9, <1>12, <1>14, <2>2, <2>3 DEF Lengths
  <2>5. ~ PreAccept'
    BY <1>2, <1>14, <2>1 DEF PreAccept
  <2> QED
    BY <1>1, <1>7, <1>12, <1>14, <2>4, <2>5 DEF Lengths
<1>15. CASE h = "client"
  <2>1. \/ a.pc = "close" /\ a.i = o.i
        \/ a = b /\ o.i # Rounds
    <3> HIDE DEF o
    <3>1. [o EXCEPT !.pc = "close"].pc = "close" /\ [o EXCEPT !.pc = "close"].i = o.i
      BY <1>3 DEF App
    <3> QED
      BY <1>8, <1>15, <3>1
  <2>2. /\ Len(wrote["client"]) + Pending("client")' <= app'["client"].i
        /\ app'["client"].i <= Rounds
    <3>1. Len(wrote["client"]) <= o.i /\ o.i <= Rounds
      BY <1>9, <1>12, <1>15 DEF Lengths
    <3> HIDE DEF o
    <3>2. CASE a.pc = "close" /\ a.i = o.i
      BY <1>2, <1>3, <1>9, <1>10, <1>13, <1>15, <3>1, <3>2, Hosts
    <3>3. CASE a = b /\ o.i # Rounds
      <4>1. /\ app'["client"].i = o.i + 1 /\ Pending("client")' = 1
            /\ Len(wrote["client"]) \in Nat
        BY <1>2, <1>9, <1>11, <1>13, <1>15, <3>3, Hosts
      <4>2. Len(wrote["client"]) + 1 <= o.i + 1 /\ o.i + 1 <= Rounds
        BY <1>3, <1>10, <3>1, <3>3, <4>1
      <4> QED
        BY <4>1, <4>2
    <3> QED
      BY <2>1, <3>2, <3>3
  <2>3. app'["client"].pc \in {"write", "close"}
    BY <1>2, <1>11, <1>15, <2>1
  <2>4. PreAccept' = PreAccept /\ Pending("server")' = Pending("server")
    BY <1>1, <1>7, <1>12, <1>15 DEF PreAccept
  <2> QED
    BY <1>1, <1>7, <1>15, <2>2, <2>3, <2>4 DEF Lengths
<1> QED
  BY <1>7, <1>14, <1>15

LEMMA InitLengths == Init => Lengths
<1> SUFFICES ASSUME Init PROVE Lengths
  OBVIOUS
<1>1. \A h \in Host : /\ wrote[h] = <<>> /\ got[h] = <<>> /\ app[h].i = 0 /\ app[h].pc # "write"
  BY DEF Init, Host
<1>2. \A h \in Host : Len(wrote[h]) = 0 /\ Len(got[h]) = 0 /\ Pending(h) = 0
  BY <1>1, EmptyData DEF Pending
<1>3. 0 <= Rounds
  BY StreamAssumption
<1> QED
  BY <1>1, <1>2, <1>3, Hosts DEF Lengths

LEMMA LengthsStep == Types /\ Lengths /\ [Next]_vars => Lengths'
<1> SUFFICES ASSUME Types, Lengths, [Next]_vars PROVE Lengths'
  OBVIOUS
<1>1. Types'
  BY NextTypes
<1>2. CASE UNCHANGED <<app, wrote, got>>
  BY <1>2 DEF Lengths, Pending, PreAccept
<1>3. CASE Next
  <2>1. ASSUME NEW h \in Host, \/ Receive(h) \/ Process(h) \/ WakeReader(h) \/ Acknowledge(h)
                                \/ tcp_scan_timer_list(h)
        PROVE  Lengths'
    BY <1>2, <2>1 DEF Receive, Process, WakeReader, Acknowledge, tcp_scan_timer_list
  <2>2. ASSUME NEW h \in Host, Write(h) PROVE Lengths'
    BY <2>2, WriteLengths
  <2>3. ASSUME NEW h \in Host, Emit(h) \/ Written(h) \/ ReadWoken(h) PROVE Lengths'
    <3>1. PICK pc \in {"sent", "read", "take"} : Goto(h, pc) /\ wrote' = wrote /\ got' = got
      BY <2>3 DEF Emit, Written, ReadWoken
    <3>2. pc \in Pc \ {"write", "emit"}
      BY DEF Pc
    <3> QED
      BY <1>1, <3>1, <3>2, GotoLengths
  <2>4. ASSUME NEW h \in Host, ReadTest(h) \/ ReadTake(h) PROVE Lengths'
    <3>1. CASE /\ Take(h) /\ app[h].pc \in {"read", "take"}
               /\ UNCHANGED <<backlog, main, net, wrote, early>>
      BY <3>1, TakeLengths
    <3>2. CASE Goto(h, "recv") /\ wrote' = wrote /\ got' = got
      <4>1. "recv" \in Pc \ {"write", "emit"}
        BY DEF Pc
      <4> QED
        BY <1>1, <3>2, <4>1, GotoLengths
    <3> QED
      BY <2>4, <3>1, <3>2 DEF ReadTest, ReadTake
  <2>5. CASE tcp_state_listen
    BY <1>2, <2>5 DEF tcp_state_listen
  <2>6. CASE tcp_sock_connect
    <3>1. Goto("client", "connecting") /\ wrote' = wrote /\ got' = got /\ app["client"].pc = "connect"
      BY <2>6 DEF tcp_sock_connect
    <3>2. "connecting" \in Pc \ {"write", "emit"}
      BY DEF Pc
    <3> QED
      BY <1>1, <3>1, <3>2, Hosts, GotoLengths
  <2>7. CASE Connected
    BY <2>7, ConnectedLengths
  <2>8. CASE CloseFin \/ CloseState
    <3>1. PICK pc \in {"FIN_WAIT_1", "LAST_ACK", "done"} :
              Goto("client", pc) /\ wrote' = wrote /\ got' = got
      BY <2>8 DEF CloseFin, CloseState
    <3>2. pc \in Pc \ {"write", "emit"}
      BY DEF Pc
    <3> QED
      BY <1>1, <3>1, <3>2, Hosts, GotoLengths
  <2>9. CASE AcceptTest \/ AcceptWoken
    <3>1. PICK pc \in {"accepting", "dequeue"} :
              Goto("server", pc) /\ wrote' = wrote /\ got' = got
      BY <2>9 DEF AcceptTest, AcceptWoken
    <3>2. pc \in Pc \ {"write", "emit"}
      BY DEF Pc
    <3>3. PreAccept
      BY <2>9 DEF AcceptTest, AcceptWoken, PreAccept
    <3> QED
      BY <1>1, <3>1, <3>2, <3>3, Hosts, GotoLengths
  <2>10. CASE Dequeue
    <3>1. Goto("server", "read") /\ wrote' = wrote /\ got' = got
      BY <2>10 DEF Dequeue
    <3>2. "read" \in Pc \ {"write", "emit"}
      BY DEF Pc
    <3> QED
      BY <1>1, <3>1, <3>2, Hosts, GotoLengths
  <2> QED
    BY <1>3, <2>1, <2>2, <2>3, <2>4, <2>5, <2>6, <2>7, <2>8, <2>9, <2>10, NextCases
<1> QED
  BY <1>2, <1>3 DEF vars

--------------------------------------------------------------------------------
(* The handshake: nothing; the SYN on its way; the SYN|ACK; and everything     *)
(* after it.                                                                   *)

Before ==
    /\ app["client"].pc = "connect" /\ PreAccept
    /\ sk["client"].state = "CLOSED" /\ sk["server"].state = "NONE"
    /\ \A h \in Host : net[h] = <<>> /\ main[h] = Idle

Called ==
    app["client"].pc = "connecting" /\ sk["client"].state = "SYN_SENT" /\ PreAccept

\* The host h has one segment to process, which has these flags, and its peer none.
OneTo(h, p, flags) ==
    /\ net[p] = <<>> /\ main[p] = Idle
    /\ \/ main[h] = Idle /\ (\E m \in Seg : net[h] = <<m>> /\ m.flags = flags)
       \/ /\ net[h] = <<>> /\ main[h].at = "process"
          /\ main[h].state = sk[h].state /\ main[h].cb.flags = flags

SynOut == Called /\ sk["server"].state = "NONE" /\ OneTo("server", "client", {TCP_SYN})
SynAcked == Called /\ sk["server"].state = "SYN_RECV" /\ OneTo("client", "server", {TCP_SYN, TCP_ACK})

Synced(state) == state \notin {"NONE", "SYN_SENT"}
Later ==
    /\ app["client"].pc # "connect"
    /\ \A h \in Host : /\ Synced(sk[h].state)
                       /\ main[h].at = "process" => Synced(main[h].state)

Greeting == Before \/ SynOut \/ SynAcked \/ Later

LEMMA OneSegment ==
    ASSUME NEW m \in Seg
    PROVE  /\ Head(<<m>>) = m /\ Tail(<<m>>) = <<>> /\ <<>> \o <<m>> = <<m>>
           /\ <<m>> # <<>> /\ DOMAIN <<m>> = {1} /\ <<m>>[1] = m
<1>1. <<m>> \in Seq(Seg)
  OBVIOUS
<1> QED
  OBVIOUS

LEMMA IdleAt == Idle.at = "idle" /\ Wake.at = "wake" /\ Owe.at = "ack"
  BY DEF Idle, Wake, Owe

\* Before the connection is there these steps are not possible.
LEMMA EarlySteps ==
    ASSUME Types, StreamInv, Before \/ Called
    PROVE  /\ \A h \in Host : ~ (\/ tcp_scan_timer_list(h) \/ Write(h) \/ Emit(h) \/ Written(h)
                                 \/ ReadTest(h) \/ ReadTake(h) \/ ReadWoken(h))
           /\ ~ (Connected \/ CloseFin \/ CloseState \/ Dequeue)
<1>1. /\ app["client"].pc \in {"connect", "connecting"}
      /\ app["server"].pc \in {"accept", "accepting", "dequeue"}
  BY DEF Before, Called, PreAccept
<1>2. OpenInv
  BY <1>1 DEF StreamInv, Open
<1>3. sk["client"].timer = "off" /\ sk["server"].timer = "off"
  BY <1>2 DEF OpenInv, ClientStates, ServerStates
<1>4. backlog.n = 0 /\ (app["client"].pc = "connecting" => ~ sk["client"].wait_connect)
  BY <1>2 DEF OpenInv, Connecting, Before, Called
<1>5. ASSUME NEW h \in Host
      PROVE  ~ (Write(h) \/ Emit(h) \/ Written(h) \/ ReadTest(h) \/ ReadTake(h) \/ ReadWoken(h))
  <2>1. app[h].pc \notin {"write", "emit", "sent", "read", "take", "recv"}
    BY <1>1, Hosts
  <2> QED
    BY <2>1 DEF Write, Emit, Written, ReadTest, ReadTake, ReadWoken
<1>6. \A h \in Host : ~ tcp_scan_timer_list(h)
  BY <1>3, Hosts DEF tcp_scan_timer_list
<1>7. ~ (Connected \/ CloseFin \/ CloseState \/ Dequeue)
  BY <1>1, <1>4 DEF Connected, CloseFin, CloseState, Dequeue
<1> QED
  BY <1>5, <1>6, <1>7

LEMMA AcceptGreeting ==
    ASSUME Types, Greeting, AcceptTest \/ AcceptWoken
    PROVE  Greeting'
<1>1. /\ app'["client"] = app["client"] /\ UNCHANGED <<sk, main, net>>
      /\ app'["server"].pc \in {"accepting", "dequeue"}
  BY AcceptStep
<1>2. PreAccept'
  BY <1>1 DEF PreAccept
<1>3. (Before => Before') /\ (Called => Called') /\ (Later => Later')
  BY <1>1, <1>2 DEF Before, Called, Later
<1>4. \A h, p, flags : OneTo(h, p, flags) => OneTo(h, p, flags)'
  BY <1>1 DEF OneTo
<1> QED
  BY <1>1, <1>3, <1>4 DEF Greeting, SynOut, SynAcked

LEMMA ConnectGreeting ==
    ASSUME Types, Before, tcp_sock_connect
    PROVE  SynOut'
<1>1. /\ app'["client"].pc = "connecting" /\ app'["server"] = app["server"]
      /\ sk'["client"].state = "SYN_SENT" /\ sk'["server"] = sk["server"] /\ main' = main
      /\ net'["client"] = net["client"]
  BY ConnectStep
<1>2. PICK m \in Seg : m.flags = {TCP_SYN} /\ net'["server"] = net["server"] \o <<m>>
  BY ConnectStep
<1>3. net'["server"] = <<m>> /\ net'["client"] = <<>> /\ main'["client"] = Idle /\ main'["server"] = Idle
  BY <1>1, <1>2, OneSegment, Hosts DEF Before
<1>4. Called' /\ sk'["server"].state = "NONE"
  BY <1>1 DEF Called, Before, PreAccept
<1>5. OneTo("server", "client", {TCP_SYN})'
  BY <1>2, <1>3 DEF OneTo
<1> QED
  BY <1>4, <1>5 DEF SynOut

LEMMA ReceiveOne ==
    ASSUME NEW h \in Host, NEW p \in Host, p = Peer(h), NEW g \in Host, NEW flags,
           Types, OneTo(h, p, flags), Receive(g)
    PROVE  OneTo(h, p, flags)' /\ UNCHANGED <<sk, app>>
<1>1. /\ net[g] # <<>> /\ main[g] = Idle /\ net'[g] = Tail(net[g]) /\ net'[Peer(g)] = net[Peer(g)]
      /\ main'[g].cb = Head(net[g]) /\ main'[g].state = sk[g].state /\ main'[g].at = "process"
      /\ main'[Peer(g)] = main[Peer(g)] /\ UNCHANGED <<sk, app>>
  BY ReceiveStep
<1>2. g = h
  <2>1. g # p
    BY <1>1 DEF OneTo
  <2> QED
    BY <2>1, Hosts
<1>3. PICK m \in Seg : net[h] = <<m>> /\ m.flags = flags
  BY <1>1, <1>2 DEF OneTo
<1>4. net'[h] = <<>> /\ main'[h].cb = m
  BY <1>1, <1>2, <1>3, OneSegment
<1>5. net'[p] = <<>> /\ main'[p] = Idle
  BY <1>1, <1>2 DEF OneTo
<1> QED
  BY <1>1, <1>2, <1>3, <1>4, <1>5 DEF OneTo

LEMMA ListenGreeting ==
    ASSUME Types, SynOut, tcp_state_listen
    PROVE  SynAcked'
<1>1. /\ main["server"].at = "process" /\ main'["server"] = Idle /\ main'["client"] = main["client"]
      /\ sk'["server"].state = "SYN_RECV" /\ sk'["client"] = sk["client"] /\ app' = app
      /\ net'["server"] = net["server"]
  BY ListenStep
<1>2. PICK m \in Seg : m.flags = {TCP_SYN, TCP_ACK} /\ net'["client"] = net["client"] \o <<m>>
  BY ListenStep
<1>3. net["server"] = <<>> /\ net["client"] = <<>> /\ main["client"] = Idle
  BY <1>1, IdleAt DEF SynOut, OneTo
<1>4. net'["client"] = <<m>>
  BY <1>2, <1>3, OneSegment
<1>5. OneTo("client", "server", {TCP_SYN, TCP_ACK})'
  BY <1>1, <1>2, <1>3, <1>4 DEF OneTo
<1>6. Called'
  BY <1>1 DEF SynOut, Called, PreAccept
<1> QED
  BY <1>1, <1>5, <1>6 DEF SynAcked

\* The step of tcp_process, with what it does to numbers and states.
LEMMA ProcessNumbers ==
    ASSUME NEW h \in Host, Types, Process(h)
    PROVE  \E r : /\ Moves(sk[h], main[h].state, main[h].cb, r)
                  /\ r = tcp_process(sk[h], main[h].state, main[h].cb)
                  /\ r.out \in {<<>>} \cup {<<m>> : m \in Seg}
                  /\ sk'[h] = r.tsk /\ sk'[Peer(h)] = sk[Peer(h)]
                  /\ net'[h] = net[h] /\ net'[Peer(h)] = net[Peer(h)] \o r.out
                  /\ main'[h] \in {Idle, Wake} /\ main'[Peer(h)] = main[Peer(h)]
                  /\ UNCHANGED <<app, wrote>>
<1> DEFINE m == main[h]
           r == tcp_process(sk[h], m.state, m.cb)
           b == IF r.stored THEN [at |-> "wake"] ELSE Idle
<1>1. /\ m.at = "process" /\ m.state \in States \ {"NONE"} /\ m.cb \in Seg
      /\ sk \in [Host -> Sock] /\ sk[h] \in Sock /\ net \in [Host -> Seq(Seg)]
      /\ main \in [Host -> {Idle, Wake, Owe} \cup Busy] /\ Peer(h) \in Host /\ Peer(h) # h
  BY MainCases, PeerType DEF Types, Process
<1>2. Moves(sk[h], m.state, m.cb, r) /\ Effect(sk[h], m.state, m.cb, r)
  BY <1>1, ProcessMoves, ProcessEffect
<1>3. /\ sk' = [sk EXCEPT ![h] = r.tsk] /\ Send(h, r.out) /\ main' = [main EXCEPT ![h] = b]
      /\ UNCHANGED <<app, wrote>>
  BY DEF Process
<1>4. b \in {Idle, Wake}
  BY DEF Wake
<1> HIDE DEF r, b
<1>5. r.out \in {<<>>} \cup {<<n>> : n \in Seg}
  BY <1>2 DEF Effect, Results
<1>6. net'[h] = net[h] /\ net'[Peer(h)] = net[Peer(h)] \o r.out
  BY <1>1, <1>3, <1>5, SendType
<1>7. /\ sk'[h] = r.tsk /\ sk'[Peer(h)] = sk[Peer(h)]
      /\ main'[h] = b /\ main'[Peer(h)] = main[Peer(h)]
  BY <1>1, <1>3
<1> QED
  BY <1>2, <1>3, <1>4, <1>5, <1>6, <1>7 DEF r

\* The SYN|ACK makes the connection of the client.
LEMMA SynAckTurns ==
    ASSUME NEW tsk \in Sock, NEW cb \in Seg, cb.flags = {TCP_SYN, TCP_ACK}
    PROVE  tcp_process(tsk, "SYN_SENT", cb).tsk.state = "ESTABLISHED"
<1> DEFINE v == seq_end(cb)
           a == cb.ack
           t == [tsk EXCEPT !.rcv_nxt = v, !.snd_una = a,
                            !.state = "ESTABLISHED", !.wait_connect = TRUE]
           r == tcp_process(tsk, "SYN_SENT", cb)
<1>1. v \in Int /\ a \in Int
  BY SeqEndType DEF Seg
<1>2. r = Answer(t, {TCP_ACK})
  BY DEF tcp_process, tcp_state_syn_sent
<1> HIDE DEF v, a, r
<1>3. t \in Sock /\ t.state = "ESTABLISHED"
  BY <1>1 DEF Sock, States, tcp_state
<1> HIDE DEF t
<1>4. r.tsk = after_control(t, {TCP_ACK})
  BY <1>2 DEF Answer, Result
<1>5. r.tsk.state = "ESTABLISHED"
  BY <1>3, <1>4, AfterControlType DEF SameButSeq
<1> QED
  BY <1>5 DEF r

LEMMA SynAckGreeting ==
    ASSUME NEW h \in Host, Types, SynAcked, Process(h)
    PROVE  Later' /\ h = "client" /\ main[h].state = "SYN_SENT"
<1>1. main[h].at = "process" /\ main[h].cb \in Seg /\ sk[h] \in Sock
  BY ProcessStep DEF Types
<1>2. h = "client" /\ main["server"] = Idle
  BY <1>1, IdleAt, Hosts DEF SynAcked, OneTo
<1>3. main[h].state = "SYN_SENT" /\ main[h].cb.flags = {TCP_SYN, TCP_ACK}
  BY <1>1, <1>2, IdleAt DEF SynAcked, OneTo, Called
<1>4. PICK r : /\ r = tcp_process(sk[h], main[h].state, main[h].cb)
               /\ sk'[h] = r.tsk /\ sk'[Peer(h)] = sk[Peer(h)]
               /\ main'[h] \in {Idle, Wake} /\ main'[Peer(h)] = main[Peer(h)] /\ app' = app
  BY ProcessNumbers
<1>5. sk'[h].state = "ESTABLISHED"
  BY <1>1, <1>3, <1>4, SynAckTurns
<1>6. /\ sk'["client"].state = "ESTABLISHED" /\ sk'["server"].state = "SYN_RECV"
      /\ main'["client"].at # "process" /\ main'["server"].at # "process"
      /\ app'["client"].pc = "connecting"
  BY <1>2, <1>4, <1>5, IdleAt, Hosts DEF SynAcked, Called
<1>7. Later'
  BY <1>6, Hosts DEF Later, Synced
<1> QED
  BY <1>2, <1>3, <1>7

LEMMA MovesSynced ==
    ASSUME NEW tsk, NEW state, NEW cb, NEW r, Moves(tsk, state, cb, r), Synced(tsk.state)
    PROVE  Synced(r.tsk.state)
  BY DEF Moves, Turn, FinTurn, Synced

\* The state of a sock after the steps that set it.
LEMMA StateSet ==
    ASSUME Types
    PROVE  /\ CloseState => sk'["client"].state = app["client"].pc /\ sk'["server"] = sk["server"]
           /\ Dequeue => sk'["server"].state = "ESTABLISHED" /\ sk'["client"] = sk["client"]
           /\ \A h \in Host : tcp_scan_timer_list(h) =>
                  sk'[h].state = "CLOSED" /\ sk'[Peer(h)] = sk[Peer(h)]
<1>1. sk \in [Host -> Sock]
  BY DEF Types
<1>2. ASSUME CloseState
      PROVE  sk'["client"].state = app["client"].pc /\ sk'["server"] = sk["server"]
  <2> DEFINE t == sk["client"]
             s == app["client"].pc
             u == [t EXCEPT !.state = s]
  <2>1. sk' = [sk EXCEPT !["client"] = u]
    BY <1>2 DEF CloseState
  <2>2. t \in Sock
    BY <1>1, Hosts
  <2> HIDE DEF t, s
  <2>3. u.state = s
    BY <2>2 DEF Sock
  <2> HIDE DEF u
  <2> QED
    BY <1>1, <2>1, <2>3, Hosts DEF s
<1>3. ASSUME NEW h \in Host, tcp_scan_timer_list(h)
      PROVE  sk'[h].state = "CLOSED" /\ sk'[Peer(h)] = sk[Peer(h)]
  <2> DEFINE t == sk[h]
             u == [t EXCEPT !.timer = "fired", !.state = "CLOSED"]
  <2>1. sk' = [sk EXCEPT ![h] = u]
    BY <1>3 DEF tcp_scan_timer_list
  <2>2. t \in Sock
    BY <1>1
  <2> HIDE DEF t
  <2>3. u.state = "CLOSED"
    BY <2>2 DEF Sock
  <2> HIDE DEF u
  <2> QED
    BY <1>1, <2>1, <2>3, PeerType
<1> QED
  BY <1>2, <1>3, DequeueStep

LEMMA LaterStep ==
    ASSUME Types, Later, Next
    PROVE  Later'
<1>1. ASSUME app'["client"].pc # "connect",
             \A h \in Host : Synced(sk'[h].state),
             \A h \in Host : main'[h] = main[h] \/ main'[h].at # "process"
                                \/ main'[h].state = sk[h].state
      PROVE  Later'
  BY <1>1 DEF Later
<1>2. ASSUME NEW h \in Host, app'[Peer(h)] = app[Peer(h)], app'[h].pc # "connect"
      PROVE  app'["client"].pc # "connect"
  BY <1>2, Hosts DEF Later
<1>3. ASSUME NEW h \in Host, sk'[Peer(h)] = sk[Peer(h)], Synced(sk'[h].state)
      PROVE  \A g \in Host : Synced(sk'[g].state)
  BY <1>3, Hosts DEF Later
<1>4. ASSUME NEW h \in Host, sk'[Peer(h)] = sk[Peer(h)], sk'[h].state = sk[h].state
      PROVE  \A g \in Host : Synced(sk'[g].state)
  BY <1>4, Hosts DEF Later
<1>5. ASSUME NEW h \in Host, Receive(h) PROVE Later'
  <2>1. /\ main'[h].state = sk[h].state /\ main'[Peer(h)] = main[Peer(h)]
        /\ UNCHANGED <<sk, app>>
    BY <1>5, ReceiveStep
  <2> QED
    BY <1>1, <2>1, Hosts DEF Later
<1>6. ASSUME NEW h \in Host, Process(h) PROVE Later'
  <2>1. PICK r : /\ Moves(sk[h], main[h].state, main[h].cb, r)
                 /\ sk'[h] = r.tsk /\ sk'[Peer(h)] = sk[Peer(h)]
                 /\ main'[h] \in {Idle, Wake} /\ main'[Peer(h)] = main[Peer(h)] /\ app' = app
    BY <1>6, ProcessNumbers
  <2>2. Synced(sk'[h].state)
    BY <2>1, MovesSynced DEF Later
  <2>3. \A g \in Host : main'[g] = main[g] \/ main'[g].at # "process"
    BY <2>1, IdleAt, Hosts
  <2> QED
    BY <1>1, <1>3, <2>1, <2>2, <2>3 DEF Later
<1>7. ASSUME NEW h \in Host, WakeReader(h) \/ Acknowledge(h) PROVE Later'
  <2>1. /\ main'[h] \in {Idle, Owe} /\ main'[Peer(h)] = main[Peer(h)] /\ app' = app
        /\ sk'[h].state = sk[h].state /\ sk'[Peer(h)] = sk[Peer(h)]
    BY <1>7, WakeStep, AckStep
  <2>2. \A g \in Host : main'[g] = main[g] \/ main'[g].at # "process"
    BY <2>1, IdleAt, Hosts
  <2> QED
    BY <1>1, <1>4, <2>1, <2>2 DEF Later
<1>8. ASSUME NEW h \in Host, tcp_scan_timer_list(h) PROVE Later'
  <2>1. main' = main /\ app' = app
    BY <1>8, TimerStep
  <2>2. sk'[h].state = "CLOSED" /\ sk'[Peer(h)] = sk[Peer(h)]
    BY <1>8, StateSet
  <2> QED
    BY <1>1, <1>3, <2>1, <2>2 DEF Later, Synced
<1>9. ASSUME NEW h \in Host, Write(h) \/ Emit(h) \/ Written(h) \/ ReadWoken(h)
      PROVE  Later'
  <2>1. /\ main' = main /\ app'[Peer(h)] = app[Peer(h)] /\ app'[h].pc # "connect"
        /\ sk'[h].state = sk[h].state /\ sk'[Peer(h)] = sk[Peer(h)]
    BY <1>9, WriteStep, EmitStep, WrittenStep, ReadWokenStep DEF SameButSeq
  <2> QED
    BY <1>1, <1>2, <1>4, <2>1
<1>10. ASSUME NEW h \in Host, ReadTest(h) \/ ReadTake(h) PROVE Later'
  <2>1. /\ main' = main /\ app'[Peer(h)] = app[Peer(h)] /\ app'[h].pc # "connect"
        /\ sk'[h].state = sk[h].state /\ sk'[Peer(h)] = sk[Peer(h)]
    BY <1>10, ReadStep
  <2> QED
    BY <1>1, <1>2, <1>4, <2>1
<1>11. CASE tcp_state_listen \/ tcp_sock_connect
  BY <1>11, ListenStep, ConnectStep, Hosts DEF Later, Synced
<1>12. CASE Connected \/ CloseFin
  <2>1. /\ main' = main /\ app'["client"].pc # "connect"
        /\ sk'["client"].state = sk["client"].state /\ sk'["server"] = sk["server"]
    BY <1>12, ConnectedStep, CloseFinStep DEF SameButSeq
  <2> QED
    BY <1>1, <1>4, <2>1, Hosts
<1>13. CASE CloseState
  <2>1. /\ main' = main /\ app'["client"].pc # "connect"
        /\ app["client"].pc \in {"FIN_WAIT_1", "LAST_ACK"}
    BY <1>13, CloseStateStep
  <2>2. sk'["client"].state = app["client"].pc /\ sk'["server"] = sk["server"]
    BY <1>13, StateSet
  <2>3. Synced(sk'["client"].state)
    BY <2>1, <2>2 DEF Synced
  <2> QED
    BY <1>1, <1>3, <2>1, <2>2, <2>3, Hosts
<1>14. CASE AcceptTest \/ AcceptWoken
  BY <1>14, AcceptStep DEF Later
<1>15. CASE Dequeue
  <2>1. /\ main' = main /\ app'["client"] = app["client"]
        /\ sk'["server"].state = "ESTABLISHED" /\ sk'["client"] = sk["client"]
    BY <1>15, DequeueStep
  <2> QED
    BY <1>1, <1>3, <2>1, Hosts DEF Later, Synced
<1> QED
  BY <1>5, <1>6, <1>7, <1>8, <1>9, <1>10, <1>11, <1>12, <1>13, <1>14, <1>15, NextCases

\* The phases follow each other, and every step keeps or ends the one it is taken in.
LEMMA GreetingStep == Types /\ StreamInv /\ Greeting /\ [Next]_vars => Greeting'
<1> SUFFICES ASSUME Types, StreamInv, Greeting, [Next]_vars PROVE Greeting'
  OBVIOUS
<1>1. CASE UNCHANGED vars
  BY <1>1 DEF vars, Greeting, Before, SynOut, SynAcked, Later, Called, OneTo, PreAccept
<1>2. CASE Next /\ Later
  BY <1>2, LaterStep DEF Greeting
<1>3. CASE Next /\ Before
  <2>1. \A h \in Host : ~ (Receive(h) \/ Process(h) \/ WakeReader(h) \/ Acknowledge(h))
    BY <1>3, IdleAt DEF Before, Receive, Process, WakeReader, Acknowledge
  <2>2. ~ tcp_state_listen
    BY <1>3, IdleAt, Hosts DEF Before, tcp_state_listen
  <2> QED
    BY <1>3, <2>1, <2>2, EarlySteps, NextCases, AcceptGreeting, ConnectGreeting DEF Greeting
<1>4. CASE Next /\ (SynOut \/ SynAcked)
  <2>1. ~ tcp_sock_connect /\ Called
    BY <1>4 DEF SynOut, SynAcked, Called, tcp_sock_connect
  <2>2. ASSUME NEW h \in Host, Receive(h) PROVE Greeting'
    <3>1. /\ SynOut => OneTo("server", "client", {TCP_SYN})' /\ UNCHANGED <<sk, app>>
          /\ SynAcked => OneTo("client", "server", {TCP_SYN, TCP_ACK})' /\ UNCHANGED <<sk, app>>
      BY <2>2, ReceiveOne, Hosts DEF SynOut, SynAcked
    <3>2. Called'
      BY <1>4, <2>1, <3>1 DEF Called, PreAccept
    <3> QED
      BY <1>4, <3>1, <3>2 DEF Greeting, SynOut, SynAcked
  <2>3. ASSUME NEW h \in Host, Process(h) PROVE Greeting'
    <3>1. CASE SynOut
      <4>1. main[h].at = "process" /\ main[h].state # "NONE"
        BY <2>3, ProcessStep
      <4> QED
        BY <3>1, <4>1, IdleAt, Hosts DEF SynOut, OneTo
    <3>2. CASE SynAcked
      BY <2>3, <3>2, SynAckGreeting DEF Greeting
    <3> QED
      BY <1>4, <3>1, <3>2
  <2>4. \A h \in Host : ~ (WakeReader(h) \/ Acknowledge(h))
    BY <1>4, IdleAt, Hosts DEF SynOut, SynAcked, OneTo, WakeReader, Acknowledge
  <2>5. CASE tcp_state_listen
    <3>1. SynOut
      <4>1. main["server"].at = "process"
        BY <2>5, ListenStep
      <4> QED
        BY <1>4, <4>1, IdleAt DEF SynAcked, OneTo
    <3> QED
      BY <2>5, <3>1, ListenGreeting DEF Greeting
  <2> QED
    BY <1>4, <2>1, <2>2, <2>3, <2>4, <2>5, EarlySteps, NextCases, AcceptGreeting
<1> QED
  BY <1>1, <1>2, <1>3, <1>4 DEF Greeting

LEMMA InitGreeting == Init => Greeting
<1> SUFFICES ASSUME Init PROVE Before
  BY DEF Greeting
<1>1. /\ app["client"].pc = "connect" /\ app["server"].pc = "accept"
      /\ sk["client"].state = "CLOSED" /\ sk["server"].state = "NONE"
  BY DEF Init, Host, alloc_tcp_sock
<1>2. \A h \in Host : net[h] = <<>> /\ main[h] = Idle
  BY DEF Init
<1> QED
  BY <1>1, <1>2 DEF Before, PreAccept

--------------------------------------------------------------------------------
(* The numbers each step leaves behind.                                        *)

SameNumbers(t, u) == t.snd_nxt = u.snd_nxt /\ t.rcv_nxt = u.rcv_nxt

\* Setting other fields of the sock of h.
LEMMA SkSet ==
    ASSUME NEW h \in Host, Types, NEW u, sk' = [sk EXCEPT ![h] = u], SameNumbers(u, sk[h])
    PROVE  \A g \in Host : SameNumbers(sk'[g], sk[g])
<1>1. sk \in [Host -> Sock]
  BY DEF Types
<1> QED
  BY <1>1 DEF SameNumbers

LEMMA FieldNumbers ==
    ASSUME NEW t \in Sock, NEW b
    PROVE  /\ SameNumbers([t EXCEPT !.wait_connect = b], t)
           /\ SameNumbers([t EXCEPT !.wait_send = b], t)
           /\ SameNumbers([t EXCEPT !.wait_recv = b], t)
           /\ SameNumbers([t EXCEPT !.rcv_buf = b], t)
           /\ SameNumbers([t EXCEPT !.state = b], t)
           /\ SameNumbers([t EXCEPT !.timer = "fired", !.state = "CLOSED"], t)
  BY DEF Sock, SameNumbers

\* The steps that send nothing, and Emit, which sends what was numbered before.
LEMMA NumbersKept ==
    ASSUME NEW h \in Host, Types,
           \/ Receive(h) \/ Emit(h) \/ Written(h) \/ ReadTest(h) \/ ReadTake(h) \/ ReadWoken(h)
           \/ WakeReader(h) \/ tcp_scan_timer_list(h) \/ Connected \/ CloseState
           \/ AcceptTest \/ AcceptWoken \/ Dequeue
    PROVE  \A g \in Host : SameNumbers(sk'[g], sk[g])
<1>1. \A g \in Host : sk[g] \in Sock
  BY DEF Types
<1>2. CASE sk' = sk
  BY <1>2 DEF SameNumbers
<1>3. CASE Receive(h) \/ Emit(h) \/ AcceptTest \/ AcceptWoken
  BY <1>2, <1>3 DEF Receive, Emit, AcceptTest, AcceptWoken
<1>4. CASE Written(h)
  BY <1>1, <1>4, FieldNumbers, SkSet DEF Written
<1>5. CASE ReadWoken(h) \/ WakeReader(h)
  BY <1>1, <1>5, FieldNumbers, SkSet DEF ReadWoken, WakeReader
<1>6. CASE ReadTest(h) \/ ReadTake(h)
  <2>1. CASE Take(h)
    BY <1>1, <2>1, FieldNumbers, SkSet DEF Take
  <2> QED
    BY <1>2, <1>6, <2>1 DEF ReadTest, ReadTake
<1>7. CASE tcp_scan_timer_list(h)
  <2> DEFINE t == sk[h]
             u == [t EXCEPT !.timer = "fired", !.state = "CLOSED"]
  <2>1. sk' = [sk EXCEPT ![h] = u]
    BY <1>7 DEF tcp_scan_timer_list
  <2>2. t \in Sock
    BY <1>1
  <2> HIDE DEF t
  <2>3. SameNumbers(u, t)
    BY <2>2, FieldNumbers
  <2> HIDE DEF u
  <2> QED
    BY <2>1, <2>3, SkSet DEF t
<1>8. CASE Connected
  BY <1>1, <1>8, FieldNumbers, SkSet, Hosts DEF Connected
<1>9. CASE CloseState
  BY <1>1, <1>9, FieldNumbers, SkSet, Hosts DEF CloseState
<1>10. CASE Dequeue
  BY <1>1, <1>10, FieldNumbers, SkSet, Hosts DEF Dequeue
<1> QED
  BY <1>3, <1>4, <1>5, <1>6, <1>7, <1>8, <1>9, <1>10

LEMMA AckNumbers ==
    ASSUME NEW h \in Host, Types, Acknowledge(h)
    PROVE  /\ \A g \in Host : SameNumbers(sk'[g], sk[g])
           /\ \E m \in Seg : /\ net'[Peer(h)] = net[Peer(h)] \o <<m>> /\ net'[h] = net[h]
                             /\ seq_end(m) = Plus(sk[h].snd_nxt, 0)
<1> DEFINE t == after_control(sk[h], {TCP_ACK})
           m == tcp_send_control_packet(sk[h], {TCP_ACK})
<1>1. sk[h] \in Sock /\ net \in [Host -> Seq(Seg)]
  BY DEF Types
<1>2. t \in Sock /\ m \in Seg
  BY <1>1, AnswerFlags, AfterControlType, ControlType
<1>3. SameNumbers(t, sk[h]) /\ seq_end(m) = Plus(sk[h].snd_nxt, 0)
  BY <1>1, AnswerFlags, ControlNumbers DEF SameNumbers
<1>4. sk' = [sk EXCEPT ![h] = t] /\ Send(h, <<m>>)
  BY DEF Acknowledge
<1> HIDE DEF t, m
<1>5. <<m>> \in {<<n>> : n \in Seg}
  BY <1>2
<1>6. net'[Peer(h)] = net[Peer(h)] \o <<m>> /\ net'[h] = net[h]
  BY <1>1, <1>4, <1>5, SendType
<1> QED
  BY <1>2, <1>3, <1>4, <1>6, SkSet

LEMMA WriteNumbers ==
    ASSUME NEW h \in Host, Types, Write(h)
    PROVE  /\ Len(app[h].buf) \in Nat
           /\ sk'[h].snd_nxt = Plus(sk[h].snd_nxt, Len(app[h].buf))
           /\ sk'[h].rcv_nxt = sk[h].rcv_nxt /\ sk'[Peer(h)] = sk[Peer(h)]
           /\ seq_end(app'[h].buf) = sk'[h].snd_nxt
<1> DEFINE b == app[h].buf
           l == Len(b)
           v == Plus(sk[h].snd_nxt, l)
           t == sk[h]
           u == [t EXCEPT !.snd_nxt = v]
           m == tcp_send_packet(sk[h], b)
           a == [app[h] EXCEPT !.pc = "emit", !.buf = m]
<1>1. sk \in [Host -> Sock] /\ t \in Sock /\ app \in [Host -> App] /\ app[h] \in App
  BY DEF Types
<1>2. b \in Seq(Byte) /\ sk'[Peer(h)] = sk[Peer(h)]
  BY WriteStep
<1>3. l \in Nat
  BY <1>2, LenProperties
<1>4. sk' = [sk EXCEPT ![h] = u] /\ app' = [app EXCEPT ![h] = a]
  BY DEF Write, after_packet
<1>5. m.flags = {TCP_PSH, TCP_ACK} /\ m.seq = t.snd_nxt /\ m.data = b
  BY DEF tcp_send_packet, tcp_cb
<1>6. {TCP_PSH, TCP_ACK} \cap {TCP_SYN, TCP_FIN} = {}
  BY DEF TCP_PSH, TCP_ACK, TCP_SYN, TCP_FIN
<1> HIDE DEF m
<1>7. a.buf = m
  BY <1>1 DEF App
<1> HIDE DEF a, l, b
<1>8. seq_end(m) = v
  <2>1. l + 0 = l
    BY <1>3
  <2>2. seq_end(m) = Plus(m.seq, l + 0)
    BY <1>5, <1>6 DEF seq_end, l
  <2> QED
    BY <1>5, <2>1, <2>2
<1> HIDE DEF v, t
<1>9. u.snd_nxt = v /\ u.rcv_nxt = t.rcv_nxt
  BY <1>1 DEF Sock
<1> HIDE DEF u
<1>10. sk'[h] = u /\ app'[h] = a
  BY <1>1, <1>4
<1> QED
  BY <1>2, <1>3, <1>7, <1>8, <1>9, <1>10 DEF v, t, l, b

LEMMA CloseNumbers ==
    ASSUME Types, CloseFin
    PROVE  /\ sk'["client"].snd_nxt = Plus(sk["client"].snd_nxt, 1)
           /\ sk'["client"].rcv_nxt = sk["client"].rcv_nxt
           /\ \E m \in Seg : /\ net'["server"] = net["server"] \o <<m>>
                             /\ net'["client"] = net["client"]
                             /\ seq_end(m) = Plus(sk["client"].snd_nxt, 1)
<1> DEFINE fl == {TCP_FIN, TCP_ACK}
           t == sk["client"]
           u == after_control(t, fl)
           m == tcp_send_control_packet(t, fl)
<1>1. sk \in [Host -> Sock] /\ t \in Sock /\ net \in [Host -> Seq(Seg)]
  BY Hosts DEF Types
<1>2. fl \in SUBSET Flag /\ Taken(fl) = 1
  BY AnswerFlags DEF Flag
<1>3. sk' = [sk EXCEPT !["client"] = u] /\ Send("client", <<m>>)
  BY DEF CloseFin
<1> HIDE DEF fl, t
<1>4. m \in Seg /\ seq_end(m) = Plus(t.snd_nxt, 1)
  BY <1>1, <1>2, ControlType, ControlNumbers
<1>5. u.snd_nxt = Plus(t.snd_nxt, 1) /\ u.rcv_nxt = t.rcv_nxt
  BY <1>1, <1>2, ControlNumbers
<1> HIDE DEF m, u
<1>6. <<m>> \in {<<n>> : n \in Seg}
  BY <1>4
<1>7. net'["server"] = net["server"] \o <<m>> /\ net'["client"] = net["client"]
  BY <1>1, <1>3, <1>6, SendType, Hosts
<1>8. sk'["client"] = u
  BY <1>1, <1>3, Hosts
<1> QED
  BY <1>4, <1>5, <1>7, <1>8 DEF t

\* A new sock, which has sent a segment with a SYN.
LEMMA ConnectNumbers ==
    ASSUME Types, tcp_sock_connect
    PROVE  \E iss \in Int, m \in Seg :
               /\ sk'["client"].snd_nxt = Plus(iss, 1) /\ seq_end(m) = Plus(iss, 1)
               /\ net'["server"] = net["server"] \o <<m>>
<1> DEFINE fl == {TCP_SYN}
           new(iss) == [alloc_tcp_sock EXCEPT !.snd_nxt = iss, !.state = "SYN_SENT"]
           mm(iss) == tcp_send_control_packet(new(iss), fl)
<1>1. PICK iss \in ISS : /\ sk' = [sk EXCEPT !["client"] = after_control(new(iss), fl)]
                         /\ Send("client", <<mm(iss)>>)
  BY DEF tcp_sock_connect
<1> DEFINE t == alloc_tcp_sock
           n == [t EXCEPT !.snd_nxt = iss, !.state = "SYN_SENT"]
<1>2. iss \in Int /\ sk \in [Host -> Sock] /\ net \in [Host -> Seq(Seg)]
  BY StreamAssumption, SeqModAssumption DEF Types
<1>3. t \in Sock /\ n = new(iss)
  BY AllocType
<1>4. fl \in SUBSET Flag /\ Taken(fl) = 1
  BY AnswerFlags DEF Flag
<1> HIDE DEF t, fl, new
<1>5. n \in Sock /\ n.snd_nxt = iss
  BY <1>2, <1>3 DEF Sock, States, tcp_state
<1> HIDE DEF n
<1> DEFINE m == tcp_send_control_packet(n, fl)
           u == after_control(n, fl)
<1>6. m \in Seg /\ seq_end(m) = Plus(iss, 1) /\ u.snd_nxt = Plus(iss, 1)
  BY <1>4, <1>5, ControlType, ControlNumbers
<1>7. Send("client", <<m>>) /\ sk' = [sk EXCEPT !["client"] = u]
  BY <1>1, <1>3
<1> HIDE DEF m, u
<1>8. <<m>> \in {<<x>> : x \in Seg}
  BY <1>6
<1>9. net'["server"] = net["server"] \o <<m>> /\ sk'["client"] = u
  BY <1>2, <1>7, <1>8, SendType, Hosts
<1> QED
  BY <1>2, <1>6, <1>9

LEMMA ListenNumbers ==
    ASSUME Types, tcp_state_listen
    PROVE  \E iss \in Int, m \in Seg :
               /\ sk'["server"].snd_nxt = Plus(iss, 1) /\ seq_end(m) = Plus(iss, 1)
               /\ net'["client"] = net["client"] \o <<m>>
               /\ sk'["server"].rcv_nxt = seq_end(main["server"].cb)
<1> DEFINE fl == {TCP_SYN, TCP_ACK}
           e == seq_end(main["server"].cb)
           new(iss) == [alloc_tcp_sock EXCEPT !.rcv_nxt = e, !.snd_nxt = iss, !.state = "SYN_RECV"]
           mm(iss) == tcp_send_control_packet(new(iss), fl)
<1>1. PICK iss \in ISS : /\ sk' = [sk EXCEPT !["server"] = after_control(new(iss), fl)]
                         /\ Send("server", <<mm(iss)>>)
  BY DEF tcp_state_listen
<1> DEFINE t == alloc_tcp_sock
           n == [t EXCEPT !.rcv_nxt = e, !.snd_nxt = iss, !.state = "SYN_RECV"]
<1>2. iss \in Int /\ sk \in [Host -> Sock] /\ net \in [Host -> Seq(Seg)]
  BY StreamAssumption, SeqModAssumption DEF Types
<1>3. t \in Sock /\ n = new(iss)
  BY AllocType
<1>4. fl \in SUBSET Flag /\ Taken(fl) = 1
  BY AnswerFlags DEF Flag
<1>e. e \in Int
  <2>1. main["server"] \in {Idle, Wake, Owe} \cup Busy /\ main["server"].at = "process"
    BY ListenStep, Hosts DEF Types
  <2> QED
    BY <2>1, MainCases, SeqEndType
<1> HIDE DEF t, fl, new, e
<1>5. n \in Sock /\ n.snd_nxt = iss /\ n.rcv_nxt = e
  BY <1>2, <1>3, <1>e DEF Sock, States, tcp_state
<1> HIDE DEF n
<1> DEFINE m == tcp_send_control_packet(n, fl)
           u == after_control(n, fl)
<1>6. m \in Seg /\ seq_end(m) = Plus(iss, 1) /\ u.snd_nxt = Plus(iss, 1) /\ u.rcv_nxt = e
  BY <1>4, <1>5, ControlType, ControlNumbers
<1>7. Send("server", <<m>>) /\ sk' = [sk EXCEPT !["server"] = u]
  BY <1>1, <1>3
<1> HIDE DEF m, u
<1>8. <<m>> \in {<<x>> : x \in Seg}
  BY <1>6
<1>9. net'["client"] = net["client"] \o <<m>> /\ sk'["server"] = u
  BY <1>2, <1>7, <1>8, SendType, Hosts
<1> QED
  BY <1>2, <1>6, <1>9 DEF e

--------------------------------------------------------------------------------
(* The numbers of an end: what it has sent runs from i, the number after its   *)
(* SYN, over its bytes and its FINs.                                           *)

\* Host h has heard the SYN of its peer.
Heard(h) ==
    IF h = "server" THEN sk[h].state # "NONE"
    ELSE app[h].pc # "connect" /\ sk[h].state # "SYN_SENT"

\* A segment ends at a number that was sent; a reset has none.
Known(m, i, n) == TCP_RST \in m.flags \/ Past(seq_end(m), i, n)

\* Host h has used n numbers from i on, and its peer p knows only those.
Track(h, p, i, n) ==
    /\ sk[h].snd_nxt = Plus(i, n)
    /\ \A j \in DOMAIN net[p] : Known(net[p][j], i, n)
    /\ main[p].at = "process" => Known(main[p].cb, i, n)
    /\ app[h].pc = "emit" => Past(seq_end(app[h].buf), i, n)
    /\ Heard(p) => Past(sk[p].rcv_nxt, i, n)

\* The FINs: one of tcp_sock_close, and one when tcp_process enters LAST_ACK or
\* TIME_WAIT.  Since it decides on a state it read before, the client may send all three.
LatePc == {"FIN_WAIT_1", "LAST_ACK", "done"}
Late(h) == IF app[h].pc \in LatePc THEN 1 ELSE 0
Budget(state) ==
    IF state \in {"LAST_ACK", "FIN_WAIT_1", "FIN_WAIT_2"} THEN 1
    ELSE IF state \in {"TIME_WAIT", "CLOSED"} THEN 2
    ELSE 0

FinsIn(h, f, state) ==
    /\ f <= Budget(state) + Late(h)
    /\ app[h].pc # "done" => state \notin {"FIN_WAIT_1", "FIN_WAIT_2", "TIME_WAIT"}
    /\ h = "server" /\ PreAccept => state \in {"NONE", "SYN_RECV", "CLOSED"}
Fins(h, f) ==
    /\ FinsIn(h, f, sk[h].state)
    /\ main[h].at = "process" => FinsIn(h, f, main[h].state)
    /\ app[h].pc # "done" => f <= 1 + Late(h)
    /\ h = "server" /\ PreAccept => f = 0
    /\ h = "server" => app[h].pc \notin LatePc

Counted(h) ==
    \E i \in Int, f \in Nat : Track(h, Peer(h), i, Len(wrote[h]) + f) /\ Fins(h, f)
Numbers == \A h \in Host : Counted(h)

LEMMA KnownMore ==
    ASSUME NEW i \in Int, NEW n \in Nat, NEW m \in Nat, n <= m, NEW s, Known(s, i, n)
    PROVE  Known(s, i, m)
  BY PastMore DEF Known

LEMMA KnownSnoc ==
    ASSUME NEW q \in Seq(Seg), NEW m \in Seg, NEW i, NEW n,
           \A j \in DOMAIN q : Known(q[j], i, n), Known(m, i, n)
    PROVE  \A j \in DOMAIN (q \o <<m>>) : Known((q \o <<m>>)[j], i, n)
<1> DEFINE t == q \o <<m>>
<1>1. /\ DOMAIN t = DOMAIN q \cup {Len(q) + 1} /\ t[Len(q) + 1] = m
      /\ \A j \in DOMAIN q : t[j] = q[j]
  BY SnocOf
<1> HIDE DEF t
<1>2. \A j \in DOMAIN t : Known(t[j], i, n)
  BY <1>1
<1> QED
  BY <1>2 DEF t

LEMMA KnownTail ==
    ASSUME NEW q \in Seq(Seg), q # <<>>, NEW i, NEW n, \A j \in DOMAIN q : Known(q[j], i, n)
    PROVE  Known(Head(q), i, n) /\ \A j \in DOMAIN Tail(q) : Known(Tail(q)[j], i, n)
<1>1. /\ Tail(q) \in Seq(Seg) /\ Len(q) \in Nat /\ Len(Tail(q)) = Len(q) - 1
      /\ \A j \in 1 .. Len(Tail(q)) : Tail(q)[j] = q[j + 1]
      /\ DOMAIN q = 1 .. Len(q) /\ DOMAIN Tail(q) = 1 .. Len(q) - 1 /\ Len(q) # 0
  BY HeadTailProperties, LenProperties, EmptySeq
<1>2. Head(q) = q[1]
  OBVIOUS
<1>3. \A j \in DOMAIN Tail(q) : j + 1 \in DOMAIN q /\ Tail(q)[j] = q[j + 1]
  BY <1>1
<1>4. 1 \in DOMAIN q
  BY <1>1
<1> QED
  BY <1>2, <1>3, <1>4

\* The end uses no or some more numbers; everything else is old or within them.
LEMMA TrackStep ==
    ASSUME NEW h \in Host, NEW p \in Host, NEW i \in Int, NEW n \in Nat, NEW m \in Nat, n <= m,
           Track(h, p, i, n),
           sk'[h].snd_nxt = Plus(i, m),
           net'[p] = net[p] \/ \A j \in DOMAIN net'[p] : Known(net'[p][j], i, m),
           main'[p] = main[p] \/ main'[p].at # "process" \/ Known(main'[p].cb, i, m),
           app'[h].pc = "emit" =>
               (app[h].pc = "emit" /\ app'[h].buf = app[h].buf) \/ Past(seq_end(app'[h].buf), i, m),
           Heard(p)' => (Heard(p) /\ sk'[p].rcv_nxt = sk[p].rcv_nxt) \/ Past(sk'[p].rcv_nxt, i, m)
    PROVE  Track(h, p, i, m)'
<1>1. \A j \in DOMAIN net'[p] : Known(net'[p][j], i, m)
  <2>1. \A j \in DOMAIN net[p] : Known(net[p][j], i, m)
    BY KnownMore DEF Track
  <2> QED
    BY <2>1
<1>2. main'[p].at = "process" => Known(main'[p].cb, i, m)
  BY KnownMore DEF Track
<1>3. app'[h].pc = "emit" => Past(seq_end(app'[h].buf), i, m)
  BY PastMore DEF Track
<1>4. Heard(p)' => Past(sk'[p].rcv_nxt, i, m)
  BY PastMore DEF Track
<1> QED
  BY <1>1, <1>2, <1>3, <1>4 DEF Track

\* Nothing that Track speaks of is new.
LEMMA TrackFrame ==
    ASSUME NEW h \in Host, NEW p \in Host, NEW i \in Int, NEW n \in Nat, Track(h, p, i, n),
           sk'[h].snd_nxt = sk[h].snd_nxt, net'[p] = net[p],
           main'[p] = main[p] \/ main'[p].at # "process",
           app'[h] = app[h] \/ app'[h].pc # "emit",
           Heard(p)' => Heard(p) /\ sk'[p].rcv_nxt = sk[p].rcv_nxt
    PROVE  Track(h, p, i, n)'
<1>1. sk'[h].snd_nxt = Plus(i, n) /\ n <= n
  BY DEF Track
<1> QED
  BY <1>1, TrackStep

LEMMA FinsTypes ==
    /\ \A s : Budget(s) \in 0 .. 2
    /\ \A h : Late(h) \in 0 .. 1
  BY DEF Budget, Late

LEMMA FinsFrame ==
    ASSUME NEW h \in Host, NEW f \in Nat, Fins(h, f), sk'[h].state = sk[h].state,
           main'[h] = main[h] \/ main'[h].at # "process" \/ main'[h].state = sk[h].state,
           app'[h] = app[h] \/ (app[h].pc \notin LatePc /\ app'[h].pc \notin LatePc),
           PreAccept' => PreAccept
    PROVE  Fins(h, f)'
<1>1. /\ Late(h)' = Late(h) /\ (app'[h].pc = "done" <=> app[h].pc = "done")
  BY DEF Late, LatePc
<1>2. \A s : FinsIn(h, f, s) => FinsIn(h, f, s)'
  BY <1>1 DEF FinsIn
<1> QED
  BY <1>1, <1>2 DEF Fins

--------------------------------------------------------------------------------
(* Every step keeps the numbers.                                               *)

LEMMA LaterHeard == Later => \A h \in Host : Heard(h)
  BY Hosts DEF Later, Heard, Synced

\* These steps come after the handshake.
LEMMA LateSteps ==
    ASSUME Types, StreamInv, Greeting,
           \/ \E h \in Host : \/ tcp_scan_timer_list(h) \/ Write(h) \/ Emit(h) \/ Written(h)
                              \/ ReadTest(h) \/ ReadTake(h) \/ ReadWoken(h)
           \/ Connected \/ CloseFin \/ CloseState \/ Dequeue
    PROVE  Later
  BY EarlySteps DEF Greeting, SynOut, SynAcked

\* The numbers of h and how many they are.
LEMMA Count ==
    ASSUME NEW h \in Host, Types, Numbers
    PROVE  \E i \in Int, f \in Nat, n \in Nat :
               n = Len(wrote[h]) + f /\ Track(h, Peer(h), i, n) /\ Fins(h, f)
<1>1. PICK i \in Int, f \in Nat : Track(h, Peer(h), i, Len(wrote[h]) + f) /\ Fins(h, f)
  BY DEF Numbers, Counted
<1>2. Len(wrote[h]) \in Nat
  BY LengthTypes
<1>3. PICK n \in Nat : n = Len(wrote[h]) + f
  BY <1>2
<1> QED
  BY <1>1, <1>3

LEMMA Recount ==
    ASSUME NEW h \in Host, NEW i \in Int, NEW f \in Nat, NEW n \in Nat,
           n = Len(wrote'[h]) + f, Track(h, Peer(h), i, n)', Fins(h, f)'
    PROVE  Counted(h)'
<1>1. Track(h, Peer(h), i, Len(wrote[h]) + f)'
  OBVIOUS
<1> QED
  BY <1>1 DEF Counted

\* A step that changes no number of h, and none that its peer knows.
LEMMA SameCount ==
    ASSUME NEW h \in Host, NEW p \in Host, p = Peer(h), Types, Numbers,
           wrote'[h] = wrote[h], sk'[h].snd_nxt = sk[h].snd_nxt,
           net'[p] = net[p], main'[p] = main[p] \/ main'[p].at # "process",
           app'[h] = app[h] \/ app'[h].pc # "emit",
           Heard(p)' => Heard(p) /\ sk'[p].rcv_nxt = sk[p].rcv_nxt,
           \A f \in Nat : Fins(h, f) => Fins(h, f)'
    PROVE  Counted(h)'
<1>1. PICK i \in Int, f \in Nat, n \in Nat :
          n = Len(wrote[h]) + f /\ Track(h, p, i, n) /\ Fins(h, f)
  BY Count
<1>2. Track(h, p, i, n)'
  BY <1>1, TrackFrame
<1>3. Fins(h, f)' /\ n = Len(wrote'[h]) + f
  BY <1>1
<1> QED
  BY <1>2, <1>3, Recount

\* The end sends one more segment, and uses k more numbers.
LEMMA SentTrack ==
    ASSUME NEW h \in Host, NEW p \in Host, NEW i \in Int, NEW n \in Nat, NEW k \in Nat,
           NEW m \in Seg, net[p] \in Seq(Seg), Track(h, p, i, n),
           sk'[h].snd_nxt = IF k = 0 THEN sk[h].snd_nxt ELSE Plus(sk[h].snd_nxt, k),
           net'[p] = net[p] \o <<m>>,
           TCP_RST \in m.flags \/ seq_end(m) = Plus(sk[h].snd_nxt, k),
           main'[p] = main[p], app'[h] = app[h] \/ app'[h].pc # "emit",
           Heard(p)' => Heard(p) /\ sk'[p].rcv_nxt = sk[p].rcv_nxt
    PROVE  Track(h, p, i, n + k)'
<1>1. PICK l \in Nat : l = n + k
  OBVIOUS
<1>2. sk[h].snd_nxt = Plus(i, n)
  BY DEF Track
<1>3. Plus(sk[h].snd_nxt, k) = Plus(i, l)
  BY <1>1, <1>2, PlusPlus
<1>4. n <= l /\ (k = 0 => l = n)
  BY <1>1
<1>5. sk'[h].snd_nxt = Plus(i, l)
  BY <1>2, <1>3, <1>4
<1>6. Known(m, i, l)
  BY <1>3, PastSelf DEF Known
<1>7. \A j \in DOMAIN net[p] : Known(net[p][j], i, l)
  BY <1>4, KnownMore DEF Track
<1>8. \A j \in DOMAIN net'[p] : Known(net'[p][j], i, l)
  BY <1>6, <1>7, KnownSnoc
<1>9. Track(h, p, i, l)'
  BY <1>4, <1>5, <1>8, TrackStep
<1> QED
  BY <1>1, <1>9

\* The steps of an application that only move it on, and read.
LEMMA QuietNumbers ==
    ASSUME NEW h \in Host, Types, Later, Numbers,
           \/ Written(h) \/ ReadWoken(h) \/ ReadTest(h) \/ ReadTake(h)
           \/ h = "client" /\ Connected
    PROVE  Numbers'
<1>1. /\ main' = main /\ net' = net /\ wrote' = wrote /\ app'[Peer(h)] = app[Peer(h)]
      /\ app[h].pc \notin LatePc /\ app'[h].pc \notin LatePc /\ app'[h].pc # "emit"
      /\ app'[h].pc \notin {"accept", "accepting", "dequeue"}
      /\ sk'[h].state = sk[h].state /\ sk'[Peer(h)] = sk[Peer(h)]
  <2>1. CASE Written(h) \/ ReadWoken(h)
    BY <2>1, WrittenStep, ReadWokenStep DEF LatePc
  <2>2. CASE ReadTest(h) \/ ReadTake(h)
    BY <2>2, ReadStep DEF LatePc
  <2>3. CASE h = "client" /\ Connected
    BY <2>3, ConnectedStep, Hosts DEF LatePc
  <2> QED
    BY <2>1, <2>2, <2>3
<1>2. \A g \in Host : SameNumbers(sk'[g], sk[g]) /\ Heard(g) /\ Peer(g) \in Host
  BY NumbersKept, LaterHeard, PeerType
<1>3. \A g \in Host : sk'[g].state = sk[g].state
  BY <1>1, Hosts
<1>4. PreAccept' => PreAccept
  BY <1>1, Hosts DEF PreAccept
<1>5. ASSUME NEW g \in Host PROVE Counted(g)'
  <2>1. \/ app'[g] = app[g]
        \/ app[g].pc \notin LatePc /\ app'[g].pc \notin LatePc /\ app'[g].pc # "emit"
    BY <1>1, Hosts
  <2>2. \A f \in Nat : Fins(g, f) => Fins(g, f)'
    BY <1>1, <1>3, <1>4, <2>1, FinsFrame
  <2> QED
    BY <1>1, <1>2, <2>1, <2>2, SameCount DEF SameNumbers
<1> QED
  BY <1>5 DEF Numbers

LEMMA AcceptNumbers ==
    ASSUME Types, Numbers, AcceptTest \/ AcceptWoken
    PROVE  Numbers'
<1>1. /\ app'["client"] = app["client"] /\ UNCHANGED <<sk, main, net, wrote>>
      /\ app["server"].pc \in {"accept", "accepting"}
      /\ app'["server"].pc \in {"accepting", "dequeue"}
  BY AcceptStep
<1>2. PreAccept' => PreAccept
  BY <1>1 DEF PreAccept
<1>3. ASSUME NEW g \in Host PROVE Counted(g)'
  <2>1. \/ app'[g] = app[g]
        \/ app[g].pc \notin LatePc /\ app'[g].pc \notin LatePc /\ app'[g].pc # "emit"
    BY <1>1, Hosts DEF LatePc
  <2>2. \A f \in Nat : Fins(g, f) => Fins(g, f)'
    BY <1>1, <1>2, <2>1, FinsFrame
  <2>3. Heard(Peer(g))' => Heard(Peer(g))
    BY <1>1, Hosts DEF Heard
  <2> QED
    BY <1>1, <2>1, <2>2, <2>3, SameCount, PeerType
<1> QED
  BY <1>3 DEF Numbers

\* The steps that only set the state of the sock of h.
LEMMA StateNumbers ==
    ASSUME NEW h \in Host, Types, Later, Numbers, main' = main, net' = net, wrote' = wrote,
           \A g \in Host : SameNumbers(sk'[g], sk[g]), sk'[Peer(h)] = sk[Peer(h)],
           app'[Peer(h)] = app[Peer(h)], app'[h] = app[h] \/ app'[h].pc # "emit",
           PreAccept' => PreAccept, \A f \in Nat : Fins(h, f) => Fins(h, f)'
    PROVE  Numbers'
<1>1. \A g \in Host : Heard(g) /\ Peer(g) \in Host
  BY LaterHeard, PeerType
<1>2. ASSUME NEW g \in Host PROVE Counted(g)'
  <2>1. app'[g] = app[g] \/ app'[g].pc # "emit"
    BY Hosts
  <2>2. \A f \in Nat : Fins(g, f) => Fins(g, f)'
    BY FinsFrame, Hosts
  <2> QED
    BY <1>1, <2>1, <2>2, SameCount DEF SameNumbers
<1> QED
  BY <1>2 DEF Numbers

LEMMA TimerNumbersKept ==
    ASSUME NEW h \in Host, Types, Later, Numbers, tcp_scan_timer_list(h)
    PROVE  Numbers'
<1>1. /\ app' = app /\ main' = main /\ net' = net /\ wrote' = wrote
      /\ sk'[Peer(h)] = sk[Peer(h)] /\ sk'[h].state = "CLOSED"
  BY TimerStep, StateSet
<1>2. ASSUME NEW f \in Nat, Fins(h, f) PROVE Fins(h, f)'
  <2>1. Late(h)' = Late(h) /\ PreAccept' = PreAccept
    BY <1>1 DEF Late, PreAccept
  <2>2. \A s : FinsIn(h, f, s) => FinsIn(h, f, s)'
    BY <1>1, <2>1 DEF FinsIn
  <2>3. FinsIn(h, f, "CLOSED")'
    <3>1. f <= Budget(sk[h].state) + Late(h)
      BY <1>2 DEF Fins, FinsIn
    <3>2. Budget("CLOSED") = 2
      BY DEF Budget
    <3>3. Budget(sk[h].state) \in 0 .. 2 /\ Late(h) \in 0 .. 1
      BY FinsTypes
    <3>4. f <= Budget("CLOSED") + Late(h)
      BY <3>1, <3>2, <3>3
    <3> QED
      BY <2>1, <3>4 DEF FinsIn
  <2> QED
    BY <1>1, <1>2, <2>1, <2>2, <2>3 DEF Fins
<1>3. PreAccept' => PreAccept
  BY <1>1 DEF PreAccept
<1> QED
  BY <1>1, <1>2, <1>3, NumbersKept, StateNumbers

LEMMA CloseStateNumbers ==
    ASSUME Types, Later, Numbers, CloseState
    PROVE  Numbers'
<1> DEFINE c == "client"
<1>1. /\ main' = main /\ net' = net /\ wrote' = wrote
      /\ app[c].pc \in {"FIN_WAIT_1", "LAST_ACK"} /\ app'[c].pc = "done"
      /\ app'["server"] = app["server"] /\ sk'["server"] = sk["server"]
      /\ sk'[c].state = app[c].pc
  BY CloseStateStep, StateSet
<1>2. ASSUME NEW f \in Nat, Fins(c, f) PROVE Fins(c, f)'
  <2>1. Late(c) = 1 /\ Late(c)' = 1
    BY <1>1 DEF Late, LatePc
  <2>2. ASSUME NEW s, f <= Budget(s) + 1 PROVE FinsIn(c, f, s)'
    BY <1>1, <2>1, <2>2 DEF FinsIn
  <2>3. f <= 1 + 1
    BY <1>1, <1>2, <2>1 DEF Fins
  <2>4. Budget(sk'[c].state) = 1
    BY <1>1 DEF Budget
  <2>5. FinsIn(c, f, sk[c].state)'
    BY <2>2, <2>3, <2>4
  <2>6. main[c].at = "process" => f <= Budget(main[c].state) + 1
    BY <1>2, <2>1 DEF Fins, FinsIn
  <2>7. main'[c].at = "process" => FinsIn(c, f, main[c].state)'
    BY <1>1, <2>2, <2>6
  <2> QED
    BY <1>1, <2>5, <2>7 DEF Fins
<1>3. PreAccept' => PreAccept
  BY <1>1 DEF PreAccept
<1>4. \A g \in Host : SameNumbers(sk'[g], sk[g])
  BY NumbersKept, Hosts
<1> QED
  BY <1>1, <1>2, <1>3, <1>4, StateNumbers, Hosts

LEMMA DequeueNumbers ==
    ASSUME Types, Later, Numbers, Dequeue
    PROVE  Numbers'
<1> DEFINE s == "server"
<1>1. /\ main' = main /\ net' = net /\ wrote' = wrote
      /\ app[s].pc = "dequeue" /\ app'[s].pc = "read"
      /\ app'["client"] = app["client"] /\ sk'["client"] = sk["client"]
      /\ sk'[s].state = "ESTABLISHED"
  BY DequeueStep
<1>2. PreAccept /\ ~ PreAccept'
  BY <1>1 DEF PreAccept
<1>3. ASSUME NEW f \in Nat, Fins(s, f) PROVE Fins(s, f)'
  <2>1. f = 0
    BY <1>2, <1>3 DEF Fins
  <2>2. ASSUME NEW st, st \notin {"FIN_WAIT_1", "FIN_WAIT_2", "TIME_WAIT"} PROVE FinsIn(s, f, st)'
    <3>1. Budget(st) \in 0 .. 2 /\ Late(s)' \in 0 .. 1
      BY FinsTypes DEF Late
    <3>2. f <= Budget(st) + Late(s)'
      BY <2>1, <3>1
    <3> QED
      BY <1>2, <2>2, <3>2 DEF FinsIn
  <2>3. f <= 1 + Late(s)'
    BY <2>1 DEF Late
  <2>4. main[s].at = "process" => main[s].state \notin {"FIN_WAIT_1", "FIN_WAIT_2", "TIME_WAIT"}
    BY <1>1, <1>3 DEF Fins, FinsIn
  <2> QED
    BY <1>1, <1>2, <2>2, <2>3, <2>4 DEF Fins, LatePc
<1>4. \A g \in Host : SameNumbers(sk'[g], sk[g])
  BY NumbersKept, Hosts
<1> QED
  BY <1>1, <1>2, <1>3, <1>4, StateNumbers, Hosts

LEMMA ReceiveNumbers ==
    ASSUME NEW h \in Host, Types, Numbers, Receive(h)
    PROVE  Numbers'
<1> DEFINE p == Peer(h)
<1>1. /\ net[h] \in Seq(Seg) /\ net[h] # <<>> /\ net'[h] = Tail(net[h]) /\ net'[p] = net[p]
      /\ main'[h].cb = Head(net[h]) /\ main'[h].state = sk[h].state /\ main'[p] = main[p]
      /\ UNCHANGED <<sk, app, wrote>>
  BY ReceiveStep
<1>2. p \in Host /\ p # h /\ Peer(p) = h /\ (\A g \in Host : g = h \/ g = p)
  BY PeerType, Hosts
<1>3. (PreAccept' => PreAccept) /\ (Heard(h)' => Heard(h)) /\ (Heard(p)' => Heard(p))
  BY <1>1 DEF PreAccept, Heard
<1> HIDE DEF p
<1>4. Counted(h)'
  <2>1. \A f \in Nat : Fins(h, f) => Fins(h, f)'
    BY <1>1, <1>3, FinsFrame
  <2> QED
    BY <1>1, <1>2, <1>3, <2>1, SameCount DEF p
<1>5. Counted(p)'
  <2>1. PICK i \in Int, f \in Nat, n \in Nat :
            n = Len(wrote[p]) + f /\ Track(p, h, i, n) /\ Fins(p, f)
    BY <1>2, Count
  <2>2. Known(main'[h].cb, i, n) /\ \A j \in DOMAIN net'[h] : Known(net'[h][j], i, n)
    BY <1>1, <2>1, KnownTail DEF Track
  <2>3. sk'[p].snd_nxt = Plus(i, n) /\ n <= n
    BY <1>1, <2>1 DEF Track
  <2>4. Track(p, h, i, n)'
    BY <1>1, <1>2, <1>3, <2>1, <2>2, <2>3, TrackStep
  <2>5. Fins(p, f)'
    BY <1>1, <1>2, <1>3, <2>1, FinsFrame
  <2> QED
    BY <1>1, <1>2, <2>1, <2>4, <2>5, Recount
<1> QED
  BY <1>2, <1>4, <1>5 DEF Numbers

\* The segment that was numbered in Write goes out.
LEMMA EmitNumbers ==
    ASSUME NEW h \in Host, Types, Later, Numbers, Emit(h)
    PROVE  Numbers'
<1> DEFINE p == Peer(h)
           m == app[h].buf
<1>1. /\ app[h].pc = "emit" /\ m \in Seg /\ app'[h].pc = "sent" /\ app'[p] = app[p]
      /\ net'[h] = net[h] /\ net'[p] = net[p] \o <<m>>
      /\ UNCHANGED <<sk, main, wrote>>
  BY EmitStep
<1>2. p \in Host /\ p # h /\ Peer(p) = h /\ (\A g \in Host : g = h \/ g = p)
  BY PeerType, Hosts
<1>3. /\ PreAccept' => PreAccept
      /\ Heard(h) /\ Heard(p) /\ net[p] \in Seq(Seg)
  BY <1>1, <1>2, LaterHeard, Hosts DEF PreAccept, Types
<1>4. app[h].pc \notin LatePc /\ app'[h].pc \notin LatePc
  BY <1>1 DEF LatePc
<1> HIDE DEF p, m
<1>5. Counted(p)'
  <2>1. \A f \in Nat : Fins(p, f) => Fins(p, f)'
    BY <1>1, <1>2, <1>3, FinsFrame
  <2> QED
    BY <1>1, <1>2, <1>3, <2>1, SameCount
<1>6. Counted(h)'
  <2>1. PICK i \in Int, f \in Nat, n \in Nat :
            n = Len(wrote[h]) + f /\ Track(h, p, i, n) /\ Fins(h, f)
    BY Count DEF p
  <2>2. Known(m, i, n)
    BY <1>1, <2>1 DEF Track, Known, m
  <2>3. \A j \in DOMAIN net'[p] : Known(net'[p][j], i, n)
    BY <1>1, <1>3, <2>1, <2>2, KnownSnoc DEF Track
  <2>4. sk'[h].snd_nxt = Plus(i, n) /\ n <= n
    BY <1>1, <2>1 DEF Track
  <2>5. Track(h, p, i, n)'
    BY <1>1, <1>2, <1>3, <2>1, <2>3, <2>4, TrackStep
  <2>6. Fins(h, f)'
    BY <1>1, <1>3, <1>4, <2>1, FinsFrame
  <2> QED
    BY <1>1, <2>1, <2>5, <2>6, Recount DEF p
<1> QED
  BY <1>2, <1>5, <1>6 DEF Numbers

LEMMA WakeNumbersKept ==
    ASSUME NEW h \in Host, Types, Numbers, WakeReader(h)
    PROVE  Numbers'
<1>1. /\ main'[h] = Owe /\ main'[Peer(h)] = main[Peer(h)] /\ sk'[h].state = sk[h].state
      /\ sk'[Peer(h)] = sk[Peer(h)] /\ UNCHANGED <<app, net, wrote>>
  BY WakeStep
<1>2. \A g \in Host : /\ SameNumbers(sk'[g], sk[g]) /\ Peer(g) \in Host
                      /\ sk'[g].state = sk[g].state
                      /\ main'[g] = main[g] \/ main'[g].at # "process"
  BY <1>1, NumbersKept, PeerType, IdleAt, Hosts
<1>3. (PreAccept' => PreAccept) /\ \A g \in Host : Heard(g)' => Heard(g)
  BY <1>1, <1>2 DEF PreAccept, Heard
<1>4. ASSUME NEW g \in Host PROVE Counted(g)'
  <2>1. \A f \in Nat : Fins(g, f) => Fins(g, f)'
    BY <1>1, <1>2, <1>3, FinsFrame
  <2> QED
    BY <1>1, <1>2, <1>3, <2>1, SameCount DEF SameNumbers
<1> QED
  BY <1>4 DEF Numbers

LEMMA AckNumbersKept ==
    ASSUME NEW h \in Host, Types, Numbers, Acknowledge(h)
    PROVE  Numbers'
<1> DEFINE p == Peer(h)
<1>1. /\ main'[h] = Idle /\ main'[p] = main[p] /\ sk'[h].state = sk[h].state
      /\ sk'[p] = sk[p] /\ UNCHANGED <<app, wrote>>
  BY AckStep
<1>2. p \in Host /\ p # h /\ Peer(p) = h /\ (\A g \in Host : g = h \/ g = p)
  BY PeerType, Hosts
<1>3. PICK m \in Seg : /\ net'[p] = net[p] \o <<m>> /\ net'[h] = net[h]
                       /\ seq_end(m) = Plus(sk[h].snd_nxt, 0)
  BY AckNumbers
<1>4. /\ sk'[h].snd_nxt = sk[h].snd_nxt /\ sk'[h].rcv_nxt = sk[h].rcv_nxt
      /\ net[p] \in Seq(Seg) /\ main'[h].at # "process"
  BY <1>1, <1>2, AckNumbers, IdleAt DEF SameNumbers, Types
<1>5. (PreAccept' => PreAccept) /\ (Heard(h)' => Heard(h)) /\ (Heard(p)' => Heard(p))
  BY <1>1 DEF PreAccept, Heard
<1> HIDE DEF p
<1>6. Counted(p)'
  <2>1. \A f \in Nat : Fins(p, f) => Fins(p, f)'
    BY <1>1, <1>2, <1>5, FinsFrame
  <2> QED
    BY <1>1, <1>2, <1>3, <1>4, <1>5, <2>1, SameCount
<1>7. Counted(h)'
  <2>1. PICK i \in Int, f \in Nat, n \in Nat :
            n = Len(wrote[h]) + f /\ Track(h, p, i, n) /\ Fins(h, f)
    BY Count DEF p
  <2>2. Track(h, p, i, n + 0)'
    BY <1>1, <1>2, <1>3, <1>4, <1>5, <2>1, SentTrack
  <2>3. Track(h, p, i, n)'
    BY <2>2
  <2>4. Fins(h, f)'
    BY <1>1, <1>4, <1>5, <2>1, FinsFrame
  <2> QED
    BY <1>1, <2>1, <2>3, <2>4, Recount DEF p
<1> QED
  BY <1>2, <1>6, <1>7 DEF Numbers

LEMMA WriteNumbersKept ==
    ASSUME NEW h \in Host, Types, Later, Numbers, Write(h)
    PROVE  Numbers'
<1> DEFINE p == Peer(h)
           b == app[h].buf
           l == Len(b)
<1>1. /\ app[h].pc = "write" /\ app'[h].pc = "emit" /\ app'[p] = app[p] /\ b \in Seq(Byte)
      /\ wrote'[h] = wrote[h] \o b /\ wrote'[p] = wrote[p]
      /\ sk'[h].state = sk[h].state /\ sk'[p] = sk[p] /\ UNCHANGED <<main, net>>
  BY WriteStep DEF SameButSeq
<1>2. p \in Host /\ p # h /\ Peer(p) = h /\ (\A g \in Host : g = h \/ g = p)
  BY PeerType, Hosts
<1>3. /\ l \in Nat /\ sk'[h].snd_nxt = Plus(sk[h].snd_nxt, l)
      /\ sk'[h].rcv_nxt = sk[h].rcv_nxt /\ seq_end(app'[h].buf) = sk'[h].snd_nxt
  BY WriteNumbers
<1>4. (PreAccept' => PreAccept) /\ Heard(h) /\ Heard(p)
  BY <1>1, <1>2, LaterHeard, Hosts DEF PreAccept
<1>5. app[h].pc \notin LatePc /\ app'[h].pc \notin LatePc
  BY <1>1 DEF LatePc
<1>6. Len(wrote'[h]) = Len(wrote[h]) + l /\ Len(wrote[h]) \in Nat
  <2>1. wrote[h] \in Seq(Byte)
    BY LengthTypes
  <2> QED
    BY <1>1, <2>1, ConcatProperties, LenProperties
<1> HIDE DEF p, l, b
<1>7. Counted(p)'
  <2>1. \A f \in Nat : Fins(p, f) => Fins(p, f)'
    BY <1>1, <1>2, <1>4, FinsFrame
  <2> QED
    BY <1>1, <1>2, <1>3, <1>4, <2>1, SameCount
<1>8. Counted(h)'
  <2>1. PICK i \in Int, f \in Nat, n \in Nat :
            n = Len(wrote[h]) + f /\ Track(h, p, i, n) /\ Fins(h, f)
    BY Count DEF p
  <2>2. PICK k \in Nat : k = n + l
    BY <1>3
  <2>3. n <= k /\ k = Len(wrote'[h]) + f
    BY <1>3, <1>6, <2>1, <2>2
  <2>4. sk[h].snd_nxt = Plus(i, n)
    BY <2>1 DEF Track
  <2>5. sk'[h].snd_nxt = Plus(i, k)
    BY <1>3, <2>2, <2>4, PlusPlus
  <2>6. Past(seq_end(app'[h].buf), i, k)
    BY <1>3, <2>5, PastSelf
  <2>7. Track(h, p, i, k)'
    BY <1>1, <1>2, <1>4, <2>1, <2>3, <2>5, <2>6, TrackStep
  <2>8. Fins(h, f)'
    BY <1>1, <1>4, <1>5, <2>1, FinsFrame
  <2> QED
    BY <2>3, <2>7, <2>8, Recount DEF p
<1> QED
  BY <1>2, <1>7, <1>8 DEF Numbers

LEMMA CloseFinNumbers ==
    ASSUME Types, Later, Numbers, CloseFin
    PROVE  Numbers'
<1>1. PICK h \in Host : h = "client"
  BY Hosts
<1>2. PICK p \in Host : p = "server" /\ p # h /\ Peer(p) = h /\ Peer(h) = p
  BY <1>1, Hosts
<1>3. /\ app[h].pc = "close" /\ app'[h].pc \in {"FIN_WAIT_1", "LAST_ACK"} /\ app'[p] = app[p]
      /\ sk'[h].state = sk[h].state /\ sk'[p] = sk[p] /\ UNCHANGED <<main, wrote>>
  BY <1>1, <1>2, CloseFinStep DEF SameButSeq
<1>4. PICK m \in Seg : /\ net'[p] = net[p] \o <<m>> /\ net'[h] = net[h]
                       /\ seq_end(m) = Plus(sk[h].snd_nxt, 1)
  BY <1>1, <1>2, CloseNumbers
<1>5. sk'[h].snd_nxt = Plus(sk[h].snd_nxt, 1) /\ sk'[h].rcv_nxt = sk[h].rcv_nxt
  BY <1>1, CloseNumbers
<1>6. /\ PreAccept' => PreAccept
      /\ Heard(h) /\ Heard(p) /\ net[p] \in Seq(Seg)
  BY <1>2, <1>3, LaterHeard DEF PreAccept, Types
<1>7. Counted(p)'
  <2>1. \A f \in Nat : Fins(p, f) => Fins(p, f)'
    BY <1>3, <1>6, FinsFrame
  <2> QED
    BY <1>2, <1>3, <1>4, <1>5, <1>6, <2>1, SameCount
<1>8. Counted(h)'
  <2>1. PICK i \in Int, f \in Nat, n \in Nat :
            n = Len(wrote[h]) + f /\ Track(h, p, i, n) /\ Fins(h, f)
    BY <1>2, Count
  <2>2. Track(h, p, i, n + 1)'
    <3>1. PICK k \in Nat : k = 1
      OBVIOUS
    <3>2. sk'[h].snd_nxt = IF k = 0 THEN sk[h].snd_nxt ELSE Plus(sk[h].snd_nxt, k)
      BY <1>5, <3>1
    <3>3. seq_end(m) = Plus(sk[h].snd_nxt, k) /\ app'[h].pc # "emit"
      BY <1>3, <1>4, <3>1
    <3>4. Track(h, p, i, n + k)'
      BY <1>3, <1>4, <1>5, <1>6, <2>1, <3>2, <3>3, SentTrack
    <3> QED
      BY <3>1, <3>4
  <2>3. Late(h) = 0 /\ Late(h)' = 1
    BY <1>3 DEF Late, LatePc
  <2>4. PICK e \in Nat : e = f + 1
    OBVIOUS
  <2>5. ASSUME NEW s, FinsIn(h, f, s) PROVE FinsIn(h, e, s)'
    <3>1. Budget(s) \in 0 .. 2 /\ f <= Budget(s) + 0
      BY <2>3, <2>5, FinsTypes DEF FinsIn
    <3>2. e <= Budget(s) + 1
      BY <2>4, <3>1
    <3>3. s \notin {"FIN_WAIT_1", "FIN_WAIT_2", "TIME_WAIT"}
      BY <1>3, <2>5 DEF FinsIn
    <3> QED
      BY <1>1, <2>3, <3>2, <3>3 DEF FinsIn
  <2>6. e <= 1 + Late(h)'
    <3>1. f <= 1 + 0
      BY <1>3, <2>1, <2>3 DEF Fins
    <3> QED
      BY <2>3, <2>4, <3>1
  <2>7. Fins(h, e)'
    <3>1. FinsIn(h, e, sk[h].state)'
      BY <1>3, <2>1, <2>5 DEF Fins
    <3>2. main'[h].at = "process" => FinsIn(h, e, main[h].state)'
      BY <1>3, <2>1, <2>5 DEF Fins
    <3> QED
      BY <1>1, <2>6, <3>1, <3>2 DEF Fins
  <2>8. n + 1 \in Nat /\ n + 1 = Len(wrote'[h]) + e
    <3> DEFINE w == Len(wrote[h])
    <3>1. w \in Nat /\ Len(wrote'[h]) = w
      BY <1>3, LengthTypes
    <3>2. n = w + f
      BY <2>1
    <3> HIDE DEF w
    <3>3. n + 1 \in Nat /\ n + 1 = w + e
      BY ONLY <2>4, <3>1, <3>2, f \in Nat, n \in Nat
    <3> QED
      BY <3>1, <3>3
  <2> QED
    BY <1>2, <2>2, <2>7, <2>8, Recount
<1> QED
  BY <1>1, <1>2, <1>7, <1>8, Hosts DEF Numbers

\* What the segment in hand and the state read at the entry are, in each phase.
LEMMA ProcessPhase ==
    ASSUME NEW h \in Host, Types, Greeting, Process(h)
    PROVE  \/ Later
           \/ /\ h = "client" /\ main[h].state = "SYN_SENT" /\ sk[h].state = "SYN_SENT"
              /\ TCP_RST \notin main[h].cb.flags
<1>1. main[h].at = "process" /\ main[h].state # "NONE"
  BY ProcessStep
<1>2. CASE Before
  BY <1>1, <1>2, IdleAt DEF Before
<1>3. CASE SynOut
  BY <1>1, <1>3, IdleAt, Hosts DEF SynOut, OneTo
<1>4. CASE SynAcked
  <2>1. h = "client" /\ main[h].cb.flags = {TCP_SYN, TCP_ACK} /\ main[h].state = sk[h].state
    BY <1>1, <1>4, IdleAt, Hosts DEF SynAcked, OneTo
  <2>2. TCP_RST \notin {TCP_SYN, TCP_ACK}
    BY DEF TCP_RST, TCP_SYN, TCP_ACK
  <2> QED
    BY <1>4, <2>1, <2>2 DEF SynAcked, Called
<1> QED
  BY <1>2, <1>3, <1>4 DEF Greeting

\* The FINs after tcp_process has sent k of them.
LEMMA MoveFins ==
    ASSUME NEW h \in Host, NEW f \in Nat, Fins(h, f), main[h].at = "process", app' = app,
           main'[h].at # "process", NEW k \in {0, 1},
           \/ k = 0 /\ (sk'[h].state \in {sk[h].state, "CLOSED"} \/ Turn(main[h].state, sk'[h].state))
           \/ k = 1 /\ FinTurn(main[h].state, sk'[h].state)
    PROVE  Fins(h, f + k)'
<1> DEFINE s == sk[h].state
           t == main[h].state
           u == sk'[h].state
           l == Late(h)
<1>1. /\ FinsIn(h, f, s) /\ FinsIn(h, f, t)
      /\ app[h].pc # "done" => f <= 1 + l
      /\ h = "server" /\ PreAccept => f = 0
      /\ h = "server" => app[h].pc \notin LatePc
  BY DEF Fins
<1>2. Late(h)' = l /\ PreAccept' = PreAccept
  BY DEF Late, PreAccept
<1>3. l \in 0 .. 1 /\ \A x : Budget(x) \in 0 .. 2
  BY FinsTypes
<1>4. /\ f <= Budget(s) + l /\ f <= Budget(t) + l
      /\ app[h].pc # "done" => s \notin {"FIN_WAIT_1", "FIN_WAIT_2", "TIME_WAIT"}
      /\ app[h].pc # "done" => t \notin {"FIN_WAIT_1", "FIN_WAIT_2", "TIME_WAIT"}
      /\ h = "server" /\ PreAccept => s \in {"NONE", "SYN_RECV", "CLOSED"}
      /\ h = "server" /\ PreAccept => t \in {"NONE", "SYN_RECV", "CLOSED"}
  BY <1>1 DEF FinsIn
<1>5. \/ k = 0 /\ (u \in {s, "CLOSED"} \/ Turn(t, u))
      \/ k = 1 /\ FinTurn(t, u)
  OBVIOUS
<1>6. PICK e \in Nat : e = f + k
  OBVIOUS
<1>7. SUFFICES /\ e <= Budget(u) + l
               /\ app[h].pc # "done" => u \notin {"FIN_WAIT_1", "FIN_WAIT_2", "TIME_WAIT"}
               /\ h = "server" /\ PreAccept => u \in {"NONE", "SYN_RECV", "CLOSED"}
               /\ app[h].pc # "done" => e <= 1 + l
               /\ h = "server" /\ PreAccept => e = 0
  <2>1. FinsIn(h, e, sk[h].state)'
    BY <1>2, <1>7 DEF FinsIn
  <2>2. Fins(h, e)'
    BY <1>1, <1>2, <1>7, <2>1 DEF Fins
  <2> QED
    BY <1>6, <2>2
<1>8. /\ Budget("CLOSED") = 2 /\ Budget("TIME_WAIT") = 2 /\ Budget("LAST_ACK") = 1
      /\ Budget("FIN_WAIT_1") = 1 /\ Budget("FIN_WAIT_2") = 1 /\ Budget("SYN_SENT") = 0
      /\ Budget("ESTABLISHED") = 0 /\ Budget("CLOSE_WAIT") = 0
  BY DEF Budget
<1> HIDE DEF s, t, u, l
<1>9. CASE k = 0 /\ u = s
  BY <1>1, <1>4, <1>6, <1>9
<1>10. CASE k = 0 /\ u = "CLOSED"
  <2>1. e <= Budget(u) + l
    BY <1>3, <1>4, <1>6, <1>8, <1>10
  <2> QED
    BY <1>1, <1>6, <1>10, <2>1
<1>11. CASE k = 0 /\ Turn(t, u)
  <2>1. e = f /\ Budget(u) = Budget(t)
    BY <1>6, <1>8, <1>11 DEF Turn
  <2>2. ~ (h = "server" /\ PreAccept)
    BY <1>4, <1>11 DEF Turn
  <2>3. app[h].pc # "done" => u \notin {"FIN_WAIT_1", "FIN_WAIT_2", "TIME_WAIT"}
    BY <1>4, <1>11 DEF Turn
  <2> QED
    BY <1>1, <1>4, <2>1, <2>2, <2>3
<1>12. CASE k = 1 /\ FinTurn(t, u)
  <2>1. ~ (h = "server" /\ PreAccept)
    BY <1>4, <1>12 DEF FinTurn
  <2>2. CASE t = "FIN_WAIT_2" /\ u = "TIME_WAIT"
    <3>1. app[h].pc = "done"
      BY <1>4, <2>2
    <3>2. e <= Budget(u) + l
      BY <1>3, <1>4, <1>6, <1>8, <1>12, <2>2
    <3> QED
      BY <2>1, <3>1, <3>2
  <2>3. CASE t = "CLOSE_WAIT" /\ u = "LAST_ACK"
    <3>1. e <= Budget(u) + l /\ e <= 1 + l
      BY <1>3, <1>4, <1>6, <1>8, <1>12, <2>3
    <3> QED
      BY <2>1, <2>3, <3>1
  <2> QED
    BY <1>12, <2>2, <2>3 DEF FinTurn
<1> QED
  BY <1>5, <1>9, <1>10, <1>11, <1>12

LEMMA ProcessNumbersKept ==
    ASSUME NEW h \in Host, Types, Greeting, Numbers, Process(h)
    PROVE  Numbers'
<1> DEFINE p == Peer(h)
           cb == main[h].cb
           st == main[h].state
<1>1. PICK r : /\ Moves(sk[h], st, cb, r) /\ sk'[h] = r.tsk /\ sk'[p] = sk[p]
               /\ r.out \in {<<>>} \cup {<<m>> : m \in Seg}
               /\ net'[h] = net[h] /\ net'[p] = net[p] \o r.out
               /\ main'[h] \in {Idle, Wake} /\ main'[p] = main[p] /\ UNCHANGED <<app, wrote>>
  BY ProcessNumbers
<1>2. p \in Host /\ p # h /\ Peer(p) = h /\ (\A g \in Host : g = h \/ g = p)
  BY PeerType, Hosts
<1>3. main[h].at = "process" /\ main'[h].at # "process" /\ net[p] \in Seq(Seg)
  BY <1>1, <1>2, ProcessStep, IdleAt DEF Types
<1>4. (PreAccept' => PreAccept) /\ (Heard(p)' => Heard(p))
  BY <1>1 DEF PreAccept, Heard
<1>5. Heard(h)' => \/ Heard(h) /\ sk'[h].rcv_nxt = sk[h].rcv_nxt
                   \/ sk'[h].rcv_nxt = seq_end(cb) /\ TCP_RST \notin cb.flags
  <2>1. Hears(sk[h], st, cb, r)
    BY <1>1 DEF Moves
  <2>2. CASE Later
    <3>1. Heard(h) /\ st # "SYN_SENT"
      BY <1>3, <2>2, LaterHeard DEF Later, Synced
    <3> QED
      BY <1>1, <2>1, <3>1 DEF Hears
  <2>3. CASE h = "client" /\ st = "SYN_SENT" /\ sk[h].state = "SYN_SENT" /\ TCP_RST \notin cb.flags
    <3>1. Heard(h)' => r.tsk.state # sk[h].state
      BY <1>1, <2>3 DEF Heard
    <3> QED
      BY <1>1, <2>1, <2>3, <3>1 DEF Hears
  <2> QED
    BY <2>2, <2>3, ProcessPhase
<1> HIDE DEF p, cb, st
<1>6. Counted(p)'
  <2>1. PICK i \in Int, f \in Nat, n \in Nat :
            n = Len(wrote[p]) + f /\ Track(p, h, i, n) /\ Fins(p, f)
    BY <1>2, Count
  <2>2. Known(cb, i, n) /\ sk[p].snd_nxt = Plus(i, n)
    BY <1>3, <2>1 DEF Track, cb
  <2>3. Heard(h)' => \/ Heard(h) /\ sk'[h].rcv_nxt = sk[h].rcv_nxt
                     \/ Past(sk'[h].rcv_nxt, i, n)
    BY <1>5, <2>2 DEF Known
  <2>4. sk'[p].snd_nxt = Plus(i, n) /\ n <= n
    BY <1>1, <2>2
  <2>5. Track(p, h, i, n)'
    BY <1>1, <1>2, <1>3, <2>1, <2>3, <2>4, TrackStep
  <2>6. Fins(p, f)'
    BY <1>1, <1>2, <1>4, <2>1, FinsFrame
  <2> QED
    BY <1>1, <1>2, <2>1, <2>5, <2>6, Recount
<1>7. Counted(h)'
  <2>1. PICK i \in Int, f \in Nat, n \in Nat :
            n = Len(wrote[h]) + f /\ Track(h, p, i, n) /\ Fins(h, f)
    BY Count DEF p
  <2>2. PICK k \in {0, 1} :
            /\ Sends(sk[h], r, k)
            /\ \/ k = 0 /\ (sk'[h].state \in {sk[h].state, "CLOSED"} \/ Turn(st, sk'[h].state))
               \/ k = 1 /\ FinTurn(st, sk'[h].state)
    BY <1>1 DEF Moves
  <2>3. Fins(h, f + k)'
    BY <1>1, <1>3, <2>1, <2>2, MoveFins DEF st
  <2>4. Track(h, p, i, n + k)'
    <3>1. CASE r.out = <<>>
      <4>1. net'[p] = net[p]
        BY <1>1, <1>3, <3>1
      <4>2. k = 0 /\ r.tsk.snd_nxt = sk[h].snd_nxt
        BY <2>2, <3>1, NoOut DEF Sends
      <4>3. Track(h, p, i, n)'
        BY <1>1, <1>2, <1>4, <2>1, <4>1, <4>2, TrackFrame
      <4> QED
        BY <4>2, <4>3
    <3>2. ASSUME NEW m \in Seg, r.out = <<m>>,
                 TCP_RST \in m.flags \/ seq_end(m) = Plus(sk[h].snd_nxt, k),
                 r.tsk.snd_nxt = IF k = 1 THEN Plus(sk[h].snd_nxt, 1) ELSE sk[h].snd_nxt
          PROVE  Track(h, p, i, n + k)'
      <4>1. k \in Nat /\ net'[p] = net[p] \o <<m>>
        BY <1>1, <3>2
      <4>2. sk'[h].snd_nxt = IF k = 0 THEN sk[h].snd_nxt ELSE Plus(sk[h].snd_nxt, k)
        BY <1>1, <3>2
      <4> QED
        BY <1>1, <1>2, <1>3, <1>4, <2>1, <3>2, <4>1, <4>2, SentTrack
    <3> QED
      BY <2>2, <3>1, <3>2 DEF Sends
  <2>5. n + k \in Nat /\ f + k \in Nat /\ n + k = Len(wrote'[h]) + (f + k)
    <3> DEFINE w == Len(wrote[h])
    <3>1. w \in Nat /\ Len(wrote'[h]) = w
      BY <1>1, LengthTypes
    <3>2. n = w + f
      BY <2>1
    <3> HIDE DEF w
    <3>3. n + k \in Nat /\ f + k \in Nat /\ n + k = w + (f + k)
      BY ONLY <3>1, <3>2, f \in Nat, n \in Nat, k \in {0, 1}
    <3> QED
      BY <3>1, <3>3
  <2> QED
    BY <2>3, <2>4, <2>5, Recount DEF p
<1> QED
  BY <1>2, <1>6, <1>7 DEF Numbers

\* connect numbers the SYN; the server knows nothing of the client yet.
LEMMA ConnectNumbersKept ==
    ASSUME Types, Greeting, Lengths, Numbers, tcp_sock_connect
    PROVE  Numbers'
<1>1. PICK h \in Host : h = "client"
  BY Hosts
<1>2. PICK p \in Host : p = "server" /\ p # h /\ Peer(p) = h /\ Peer(h) = p
  BY <1>1, Hosts
<1>3. /\ app[h].pc = "connect" /\ app'[h].pc = "connecting" /\ app'[p] = app[p]
      /\ sk'[h].state = "SYN_SENT" /\ sk'[p] = sk[p] /\ UNCHANGED <<main, wrote>>
      /\ net'[h] = net[h]
  BY <1>1, <1>2, ConnectStep
<1>4. sk[p].state = "NONE" /\ net[p] = <<>> /\ main[h] = Idle /\ main[p] = Idle
  <2>1. Before
    BY <1>1, <1>3 DEF Greeting, SynOut, SynAcked, Called, Later
  <2> QED
    BY <1>2, <2>1 DEF Before
<1>5. PICK iss \in Int, m \in Seg :
          /\ sk'[h].snd_nxt = Plus(iss, 1) /\ seq_end(m) = Plus(iss, 1)
          /\ net'[p] = net[p] \o <<m>>
  BY <1>1, <1>2, ConnectNumbers
<1>6. PreAccept' => PreAccept
  BY <1>2, <1>3 DEF PreAccept
<1>7. Counted(p)'
  <2>1. ~ Heard(h)'
    BY <1>1, <1>3 DEF Heard
  <2>2. \A f \in Nat : Fins(p, f) => Fins(p, f)'
    BY <1>3, <1>6, FinsFrame
  <2> QED
    BY <1>2, <1>3, <2>1, <2>2, SameCount
<1>8. Counted(h)'
  <2>1. PICK i \in Int : i = iss + 1
    BY <1>5
  <2>2. Plus(i, 0) = Plus(iss, 1)
    <3>1. i + 0 = iss + 1
      BY <2>1
    <3> QED
      BY <3>1 DEF Plus
  <2>3. /\ net'[p] = <<m>> /\ DOMAIN net'[p] = {1} /\ net'[p][1] = m
        /\ main'[p].at # "process" /\ main'[h].at # "process"
    BY <1>3, <1>4, <1>5, OneSegment, IdleAt
  <2>4. Known(m, i, 0)
    BY <1>5, <2>2, PastSelf DEF Known
  <2>5. ~ Heard(p)'
    BY <1>2, <1>3, <1>4 DEF Heard
  <2>6. Track(h, p, i, 0)'
    BY <1>3, <1>5, <2>2, <2>3, <2>4, <2>5 DEF Track
  <2>7. Fins(h, 0)'
    <3>1. Late(h)' \in 0 .. 1 /\ Budget("SYN_SENT") = 0
      BY DEF Late, Budget
    <3> QED
      BY <1>1, <1>3, <2>3, <3>1 DEF Fins, FinsIn
  <2>8. 0 = Len(wrote'[h]) + 0
    BY <1>1, <1>3, EmptyData DEF Lengths
  <2> QED
    BY <1>2, <2>6, <2>7, <2>8, Recount
<1> QED
  BY <1>1, <1>2, <1>7, <1>8, Hosts DEF Numbers

\* The listening sock makes the sock of the server, which has heard the SYN.
LEMMA ListenNumbersKept ==
    ASSUME Types, Greeting, Lengths, Numbers, tcp_state_listen
    PROVE  Numbers'
<1>1. PICK h \in Host : h = "server"
  BY Hosts
<1>2. PICK p \in Host : p = "client" /\ p # h /\ Peer(p) = h /\ Peer(h) = p
  BY <1>1, Hosts
<1>3. /\ main[h].at = "process" /\ main[h].state = "NONE" /\ main'[h] = Idle /\ main'[p] = main[p]
      /\ sk'[h].state = "SYN_RECV" /\ sk'[p] = sk[p] /\ UNCHANGED <<app, wrote>>
      /\ net'[h] = net[h]
  BY <1>1, <1>2, ListenStep
<1>4. SynOut
  BY <1>1, <1>3, IdleAt DEF Greeting, Before, SynAcked, OneTo, Later, Synced
<1>5. /\ main[p] = Idle /\ net[p] = <<>> /\ sk[p].state = "SYN_SENT" /\ PreAccept
      /\ main[h].cb.flags = {TCP_SYN}
  BY <1>1, <1>2, <1>3, <1>4, IdleAt DEF SynOut, OneTo, Called
<1>6. PICK iss \in Int, m \in Seg :
          /\ sk'[h].snd_nxt = Plus(iss, 1) /\ seq_end(m) = Plus(iss, 1)
          /\ net'[p] = net[p] \o <<m>> /\ sk'[h].rcv_nxt = seq_end(main[h].cb)
  BY <1>1, <1>2, ListenNumbers
<1>7. PreAccept'
  BY <1>3, <1>5 DEF PreAccept
<1>8. Counted(p)'
  <2>1. PICK i \in Int, f \in Nat, n \in Nat :
            n = Len(wrote[p]) + f /\ Track(p, h, i, n) /\ Fins(p, f)
    BY <1>2, Count
  <2>2. TCP_RST \notin {TCP_SYN}
    BY DEF TCP_RST, TCP_SYN
  <2>3. Past(sk'[h].rcv_nxt, i, n)
    BY <1>3, <1>5, <1>6, <2>1, <2>2 DEF Track, Known
  <2>4. sk'[p].snd_nxt = Plus(i, n) /\ n <= n /\ main'[h].at # "process"
    BY <1>3, <2>1, IdleAt DEF Track
  <2>5. Track(p, h, i, n)'
    BY <1>3, <2>1, <2>3, <2>4, TrackStep
  <2>6. Fins(p, f)'
    BY <1>3, <1>5, <2>1, FinsFrame
  <2> QED
    BY <1>2, <1>3, <2>1, <2>5, <2>6, Recount
<1>9. Counted(h)'
  <2>1. PICK i \in Int : i = iss + 1
    BY <1>6
  <2>2. Plus(i, 0) = Plus(iss, 1)
    <3>1. i + 0 = iss + 1
      BY <2>1
    <3> QED
      BY <3>1 DEF Plus
  <2>3. /\ net'[p] = <<m>> /\ DOMAIN net'[p] = {1} /\ net'[p][1] = m
        /\ main'[p].at # "process" /\ main'[h].at # "process"
    BY <1>3, <1>5, <1>6, OneSegment, IdleAt
  <2>4. Known(m, i, 0)
    BY <1>6, <2>2, PastSelf DEF Known
  <2>5. ~ Heard(p)'
    BY <1>2, <1>3, <1>5 DEF Heard
  <2>6. app'[h].pc \notin {"emit", "done"} \cup LatePc
    BY <1>1, <1>3, <1>5 DEF PreAccept, LatePc
  <2>7. Track(h, p, i, 0)'
    BY <1>6, <2>2, <2>3, <2>4, <2>5, <2>6 DEF Track
  <2>8. Fins(h, 0)'
    <3>1. Late(h)' \in 0 .. 1 /\ Budget("SYN_RECV") = 0
      BY DEF Late, Budget
    <3> QED
      BY <1>3, <2>3, <2>6, <3>1 DEF Fins, FinsIn
  <2>9. 0 = Len(wrote'[h]) + 0
    BY <1>1, <1>3, <1>5, EmptyData DEF Lengths
  <2> QED
    BY <1>2, <2>7, <2>8, <2>9, Recount
<1> QED
  BY <1>1, <1>2, <1>8, <1>9, Hosts DEF Numbers

\* At first no number is in use.
LEMMA InitNumbers == Init => Numbers
<1> SUFFICES ASSUME Init, NEW h \in Host PROVE Counted(h)
  BY DEF Numbers
<1>1. /\ net[Peer(h)] = <<>> /\ main[Peer(h)] = Idle /\ main[h] = Idle /\ wrote[h] = <<>>
      /\ sk[h].snd_nxt = 0 /\ app[h].pc \in {"connect", "accept"}
      /\ sk[h].state = IF h = "server" THEN "NONE" ELSE "CLOSED"
  BY PeerType DEF Init, alloc_tcp_sock
<1>2. ~ Heard(Peer(h))
  <2>1. app["client"].pc = "connect" /\ sk["server"].state = "NONE"
    BY Hosts DEF Init, alloc_tcp_sock
  <2> QED
    BY <2>1, Hosts DEF Heard
<1>3. Plus(0, 0) = 0
  <2>1. \A m \in Nat : m > 0 => 0 % m = 0
    OBVIOUS
  <2> QED
    BY <2>1, SeqModAssumption DEF Plus
<1>4. DOMAIN <<>> = {}
  OBVIOUS
<1>5. Track(h, Peer(h), 0, 0)
  BY <1>1, <1>2, <1>3, <1>4, IdleAt DEF Track
<1>6. Fins(h, 0)
  <2>1. Late(h) \in 0 .. 1 /\ Budget(sk[h].state) \in 0 .. 2
    BY FinsTypes
  <2> QED
    BY <1>1, <2>1, IdleAt DEF Fins, FinsIn, LatePc
<1>7. Len(wrote[h]) + 0 = 0
  BY <1>1, EmptyData
<1> QED
  BY <1>5, <1>6, <1>7 DEF Counted

\* The numbers of both ends stay within what each has used, one action at a time.
LEMMA NumbersStep ==
    Types /\ StreamInv /\ Greeting /\ Lengths /\ Numbers /\ [Next]_vars => Numbers'
<1> SUFFICES ASSUME Types, StreamInv, Greeting, Lengths, Numbers, [Next]_vars PROVE Numbers'
  OBVIOUS
<1>1. CASE UNCHANGED vars
  BY <1>1 DEF vars, Numbers, Counted, Track, Known, Heard, Fins, FinsIn, Late, PreAccept
<1>2. ASSUME NEW h \in Host, Receive(h) PROVE Numbers'
  BY <1>2, ReceiveNumbers
<1>3. ASSUME NEW h \in Host, Process(h) PROVE Numbers'
  BY <1>3, ProcessNumbersKept
<1>4. ASSUME NEW h \in Host, WakeReader(h) \/ Acknowledge(h) PROVE Numbers'
  BY <1>4, WakeNumbersKept, AckNumbersKept
<1>5. ASSUME NEW h \in Host, tcp_scan_timer_list(h) PROVE Numbers'
  BY <1>5, LateSteps, TimerNumbersKept
<1>6. ASSUME NEW h \in Host, Write(h) PROVE Numbers'
  BY <1>6, LateSteps, WriteNumbersKept
<1>7. ASSUME NEW h \in Host, Emit(h) PROVE Numbers'
  BY <1>7, LateSteps, EmitNumbers
<1>8. ASSUME NEW h \in Host, Written(h) \/ ReadTest(h) \/ ReadTake(h) \/ ReadWoken(h)
      PROVE  Numbers'
  BY <1>8, LateSteps, QuietNumbers
<1>9. CASE Connected
  BY <1>9, LateSteps, QuietNumbers, Hosts
<1>10. CASE CloseFin
  BY <1>10, LateSteps, CloseFinNumbers
<1>11. CASE CloseState
  BY <1>11, LateSteps, CloseStateNumbers
<1>12. CASE Dequeue
  BY <1>12, LateSteps, DequeueNumbers
<1> QED
  BY <1>1, <1>2, <1>3, <1>4, <1>5, <1>6, <1>7, <1>8, <1>9, <1>10, <1>11, <1>12,
     NextCases, AcceptNumbers, ConnectNumbersKept, ListenNumbersKept

\* Neither end uses half of the circle: the bytes are bounded by the rounds, which fit in
\* the window, the FINs by the states they are sent in.
LEMMA FewNumbers ==
    ASSUME Types, StreamInv, Lengths, NEW h \in Host, NEW f \in Nat, Fins(h, f)
    PROVE  Len(wrote[h]) + f <= SEQ_MOD \div 2
<1>1. /\ Rounds \in Nat /\ Rounds >= 1 /\ TCP_DEFAULT_WINDOW \in Nat /\ SEQ_MOD \div 2 \in Int
      /\ 3 * Rounds < TCP_DEFAULT_WINDOW /\ TCP_DEFAULT_WINDOW <= SEQ_MOD \div 2
  BY StreamAssumption, WindowAssumption, SeqModAssumption
<1>2. 3 * Rounds + 1 <= SEQ_MOD \div 2
  BY <1>1
<1>3. \A g \in Host : Len(wrote[g]) \in Nat /\ Len(got[g]) \in Nat /\ Pending(g) \in Nat /\ app[g].i \in Int
  BY LengthTypes
<1>4. f <= Budget(sk[h].state) + Late(h)
  BY DEF Fins, FinsIn
<1> DEFINE c == Len(wrote["client"])
           s == Len(wrote["server"])
           g == Len(got["server"])
           i == app["client"].i
           pc == Pending("client")
           ps == Pending("server")
           half == SEQ_MOD \div 2
<1>t. /\ c \in Nat /\ s \in Nat /\ g \in Nat /\ i \in Int /\ pc \in Nat /\ ps \in Nat
      /\ half \in Int
  BY <1>1, <1>3, Hosts
<1>l. c + pc <= i /\ i <= Rounds /\ s + ps <= 2 * g
  BY DEF Lengths
<1>w. (h = "client" => Len(wrote[h]) = c) /\ (h = "server" => Len(wrote[h]) = s)
  OBVIOUS
<1>h. 3 * Rounds + 1 <= half
  BY <1>2
<1> HIDE DEF c, s, g, i, pc, ps, half
<1>5. c <= Rounds /\ s <= 2 * g
  BY ONLY <1>1, <1>t, <1>l
<1>6. CASE h = "client"
  <2> DEFINE b == Budget(sk[h].state)
             l == Late(h)
  <2>1. b \in 0 .. 2 /\ l \in 0 .. 1 /\ f <= b + l
    BY <1>4, FinsTypes
  <2> HIDE DEF b, l
  <2>2. c + f <= half
    BY ONLY <1>1, <1>t, <1>h, <1>5, <2>1, f \in Nat
  <2> QED
    BY <1>w, <1>6, <2>2 DEF half
<1>7. CASE h = "server"
  <2>1. g <= c
    <3>1. IsPrefix(got["server"], wrote["client"])
      BY StreamMeans, Hosts DEF StreamIntegrity
    <3> QED
      BY <3>1 DEF IsPrefix, g, c
  <2>2. f <= 1
    <3>1. Late(h) = 0 /\ app[h].pc # "done"
      BY <1>7 DEF Fins, Late, LatePc
    <3> QED
      BY <3>1 DEF Fins
  <2>3. s + f <= half
    BY ONLY <1>1, <1>t, <1>h, <1>5, <2>1, <2>2, f \in Nat
  <2> QED
    BY <1>w, <1>7, <2>3 DEF half
<1> QED
  BY <1>6, <1>7, Hosts

\* A number within the last half turn is not after snd_nxt.
LEMMA NumbersMean ==
    Types /\ StreamInv /\ Greeting /\ Lengths /\ Numbers => AcksOnlyWhatWasSent
<1> SUFFICES ASSUME Types, StreamInv, Greeting, Lengths, Numbers,
                    sk["client"].state \notin {"CLOSED", "SYN_SENT"}, NEW h \in Host
             PROVE  less_or_equal_32b(sk[h].rcv_nxt, sk[Peer(h)].snd_nxt)
  BY DEF AcksOnlyWhatWasSent
<1>1. PICK p \in Host : p = Peer(h) /\ Peer(p) = h
  BY PeerType
<1>2. Heard(h)
  BY LaterHeard DEF Greeting, Before, SynOut, SynAcked, Called
<1>3. PICK i \in Int, f \in Nat, n \in Nat :
          n = Len(wrote[p]) + f /\ Track(p, h, i, n) /\ Fins(p, f)
  <2>1. \E i \in Int, f \in Nat, n \in Nat :
            n = Len(wrote[p]) + f /\ Track(p, Peer(p), i, n) /\ Fins(p, f)
    BY Count
  <2> QED
    BY <1>1, <2>1
<1>4. n <= SEQ_MOD \div 2
  BY <1>3, FewNumbers
<1>5. Past(sk[h].rcv_nxt, i, n) /\ sk[p].snd_nxt = Plus(i, n)
  BY <1>2, <1>3 DEF Track
<1> QED
  BY <1>1, <1>3, <1>4, <1>5, PastBehind

\* Once the client has its connection neither sock acknowledges a sequence number that the
\* other has not used: rcv_nxt, which tcp_process takes from every segment it accepts, is
\* never beyond snd_nxt of the peer, for every modulus, window, initial sequence number and
\* any number of rounds, and whatever FINs tcp_process sends because the state it decides
\* on has changed since it was read.
THEOREM AcksAreHonest == Spec => []AcksOnlyWhatWasSent
<1>1. Spec => []StreamInv
  BY InitStream, StreamStep, AlwaysTyped, PTL DEF Spec
<1>2. Spec => []Greeting
  BY <1>1, InitGreeting, GreetingStep, AlwaysTyped, PTL DEF Spec
<1>3. Spec => []Lengths
  BY InitLengths, LengthsStep, AlwaysTyped, PTL DEF Spec
<1>4. Spec => []Numbers
  BY <1>1, <1>2, <1>3, InitNumbers, NumbersStep, AlwaysTyped, PTL DEF Spec
<1> QED
  BY <1>1, <1>2, <1>3, <1>4, AlwaysTyped, NumbersMean, PTL
================================================================================
