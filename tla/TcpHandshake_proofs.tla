-------------------------- MODULE TcpHandshake_proofs --------------------------
(***************************************************************************)
(* Proofs about opening and closing connections in lab 15, for every       *)
(* window and all initial sequence numbers: the reference count of every   *)
(* sock is exact after any number of restarts, and without restarts no     *)
(* side acknowledges what was not sent and no connection closes half-way.  *)
(***************************************************************************)
EXTENDS TcpHandshake, SequenceTheorems, TLAPS

Seg == [flags : SUBSET Flag, seq : Int, ack : Int, data : {<<>>}]
Sock == [state : tcp_state, snd_nxt : Int, snd_una : Int, rcv_nxt : Int, rcv_wnd : Int,
         ref_cnt : Int, hashed : BOOLEAN, wait_connect : BOOLEAN,
         timer : {"off", "on", "fired"}]
Listener == [open : BOOLEAN, listen_queue : Seq(Nat), accept_queue : Seq(Nat),
             accept_backlog : Int, wait_accept : BOOLEAN]
Busy == [busy : {TRUE}, cb : Seg, tsk : Nat, state : tcp_state]
BeforeAccept == {"listen", "accept", "accepting", "dequeue"}
WithSock == {"connecting", "open", "FIN_WAIT_1", "LAST_ACK", "done"}
App == [pc : {"connect"} \cup BeforeAccept \cup WithSock, tsk : Nat]

Types ==
    /\ sk \in [Host -> Seq(Sock)]
    /\ lsn \in Listener
    /\ app \in [Host -> App]
    /\ main \in [Host -> {Idle} \cup Busy]
    /\ net \in [Host -> Seq(Seg)]
    /\ up \in [Host -> BOOLEAN]

Closing == {"FIN_WAIT_1", "FIN_WAIT_2"}

--------------------------------------------------------------------------------
(* The invariant sock by sock.                                                 *)

Exact(h, t) ==
    t.ref_cnt = (IF h = "client" /\ t.timer = "fired" THEN 0 ELSE 1)
                + (IF t.hashed THEN 1 ELSE 0) + (IF t.timer = "on" THEN 1 ELSE 0)

\* A sock of h when the application of h is at pc.  The TIME_WAIT timer starts once: only
\* the application puts a sock in FIN_WAIT_1, as the last thing it does, and a sock whose
\* timer was started has left the states from which the main thread starts it, here and
\* in the main thread's own copy of the state (MainOK).
SockOK(h, t, pc) ==
    /\ t \in Sock
    /\ Exact(h, t)
    /\ h = "client" => t.state # "SYN_RECV"
    /\ t.state \in Closing => pc = "done"
    /\ t.timer # "off" => pc = "done" /\ t.state \notin Closing

SocksOK == \A h \in Host : \A i \in DOMAIN sk[h] : SockOK(h, sk[h][i], app[h].pc)

\* What the main thread of h works on, when the application is at pc.
MainOK(h, m, s, pc) ==
    m.busy /\ m.tsk # 0 => /\ m.tsk \in DOMAIN s
                           /\ h = "client" => m.state # "SYN_RECV"
                           /\ m.state \in Closing => pc = "done" /\ s[m.tsk].timer = "off"

\* The accept queue holds allocated socks, and is not empty when accept_backlog says so.
ListenOK ==
    /\ \A k \in DOMAIN lsn.accept_queue : lsn.accept_queue[k] \in DOMAIN sk["server"]
    /\ app["server"].pc \in BeforeAccept /\ lsn.accept_backlog # 0 =>
           lsn.accept_queue # <<>>

\* An application past connect or accept has a sock.
AppOK ==
    /\ \A h \in Host : app[h].pc \in WithSock => app[h].tsk \in DOMAIN sk[h]
    /\ app["client"].pc = "connect" => sk["client"] = <<>>

\* The inductive invariant.
Parts == Types /\ SocksOK /\ (\A h \in Host : MainOK(h, main[h], sk[h], app[h].pc))
               /\ ListenOK /\ AppOK

LEMMA Hosts == /\ "client" \in Host /\ "server" \in Host
               /\ \A h \in Host : h = "client" \/ h = "server"
               /\ \A h \in Host : Peer(h) \in Host /\ Peer(h) # h
  BY DEF Host, Peer

LEMMA PartsMean == Parts => RefCountExact
  BY DEF Parts, SocksOK, SockOK, Exact, RefCountExact

--------------------------------------------------------------------------------
(* Sequence numbers, segments and socks.                                       *)

LEMMA PlusType == ASSUME NEW a \in Int, NEW n \in Int PROVE Plus(a, n) \in Int
<1>1. SEQ_MOD \in Nat /\ SEQ_MOD > 0
  BY SeqModAssumption
<1>2. \A x \in Int, m \in Nat : m > 0 => x % m \in Int
  OBVIOUS
<1> DEFINE x == a + n
<1>3. x \in Int
  OBVIOUS
<1> HIDE DEF x
<1>4. x % SEQ_MOD \in Int
  BY <1>1, <1>2, <1>3
<1> QED
  BY <1>4 DEF Plus, x

LEMMA SeqEndType == ASSUME NEW cb \in Seg PROVE seq_end(cb) \in Int
<1> DEFINE k == Len(cb.data) + IF cb.flags \cap {TCP_SYN, TCP_FIN} # {} THEN 1 ELSE 0
<1>1. cb.seq \in Int /\ cb.data = <<>>
  BY DEF Seg
<1>2. k \in Int
  BY <1>1
<1>3. seq_end(cb) = Plus(cb.seq, k)
  BY DEF seq_end
<1> HIDE DEF k
<1> QED
  BY <1>1, <1>2, <1>3, PlusType

Out == {<<>>} \cup {<<m>> : m \in Seg}

LEMMA FlagSets == /\ {TCP_ACK} \in SUBSET Flag /\ {TCP_SYN} \in SUBSET Flag
                  /\ {TCP_SYN, TCP_ACK} \in SUBSET Flag /\ {TCP_FIN, TCP_ACK} \in SUBSET Flag
  BY DEF Flag

LEMMA ControlType ==
    ASSUME NEW tsk \in Sock, NEW flags \in SUBSET Flag
    PROVE  <<tcp_send_control_packet(tsk, flags)>> \in Out
<1>1. tcp_send_control_packet(tsk, flags) \in Seg
  BY DEF tcp_send_control_packet, tcp_cb, Seg, Sock
<1> QED
  BY <1>1 DEF Out

LEMMA ResetType == ASSUME NEW cb \in Seg PROVE <<tcp_send_reset(cb)>> \in Out
<1>1. tcp_send_reset(cb) \in Seg
  BY SeqEndType DEF tcp_send_reset, tcp_cb, Seg, Flag
<1> QED
  BY <1>1 DEF Out

\* The socks agree on what the references depend on.
SameRefs(t, u) == t.ref_cnt = u.ref_cnt /\ t.hashed = u.hashed /\ t.timer = u.timer

LEMMA AfterControlType ==
    ASSUME NEW tsk \in Sock, NEW flags
    PROVE  /\ after_control(tsk, flags) \in Sock
           /\ SameRefs(after_control(tsk, flags), tsk)
           /\ after_control(tsk, flags).state = tsk.state
<1> DEFINE v == IF flags \cap {TCP_SYN, TCP_FIN} # {} THEN Plus(tsk.snd_nxt, 1) ELSE tsk.snd_nxt
<1>1. v \in Int
  BY PlusType DEF Sock
<1>2. after_control(tsk, flags) = [tsk EXCEPT !.snd_nxt = v]
  BY DEF after_control
<1> HIDE DEF v
<1>3. /\ [tsk EXCEPT !.snd_nxt = v] \in Sock /\ SameRefs([tsk EXCEPT !.snd_nxt = v], tsk)
      /\ [tsk EXCEPT !.snd_nxt = v].state = tsk.state
  BY <1>1 DEF Sock, SameRefs
<1> QED
  BY <1>2, <1>3

\* A sock stays what it should be while its references stay and its state stays or
\* leaves the states of closing.
LEMMA SockFrame ==
    ASSUME NEW h, NEW pc, NEW t, SockOK(h, t, pc), NEW u \in Sock, SameRefs(u, t),
           u.state = t.state \/ u.state \notin Closing \cup {"SYN_RECV"}
    PROVE  SockOK(h, u, pc)
  BY DEF SockOK, SameRefs, Exact

LEMMA SetType ==
    ASSUME NEW t \in Sock, NEW s \in tcp_state
    PROVE  Set(t, s) \in Sock /\ Set(t, s).state = s /\ SameRefs(Set(t, s), t)
  BY DEF Set, Sock, SameRefs

--------------------------------------------------------------------------------
(* What tcp_process can do.                                                    *)

Effect(h, state, r, pc) ==
    /\ SockOK(h, r.tsk, pc)
    /\ r.out \in Out
    /\ r.enqueue \in BOOLEAN
    /\ r.enqueue => state = "SYN_RECV"

LEMMA ResultEffect ==
    ASSUME NEW h, NEW state, NEW pc, NEW t, SockOK(h, t, pc), NEW out \in Out, NEW e \in BOOLEAN,
           e => state = "SYN_RECV"
    PROVE  Effect(h, state, Result(t, out, e), pc)
  BY DEF Effect, Result

LEMMA SilentEffect ==
    ASSUME NEW h, NEW state, NEW pc, NEW t, SockOK(h, t, pc)
    PROVE  Effect(h, state, Silent(t), pc)
<1>1. <<>> \in Out
  BY DEF Out
<1> QED
  BY <1>1, ResultEffect DEF Silent

LEMMA AnswerEffect ==
    ASSUME NEW h, NEW state, NEW pc, NEW t, SockOK(h, t, pc), NEW flags \in SUBSET Flag
    PROVE  Effect(h, state, Answer(t, flags), pc)
<1> DEFINE u == after_control(t, flags)
           m == tcp_send_control_packet(t, flags)
<1>0. t \in Sock
  BY DEF SockOK
<1>1. u \in Sock /\ SameRefs(u, t) /\ u.state = t.state
  BY <1>0, AfterControlType
<1>2. <<m>> \in Out
  BY <1>0, ControlType
<1>3. Answer(t, flags) = Result(u, <<m>>, FALSE)
  BY DEF Answer
<1> HIDE DEF u, m
<1>4. SockOK(h, u, pc)
  BY <1>1, SockFrame
<1> QED
  BY <1>2, <1>3, <1>4, ResultEffect

LEMMA SynSentEffect ==
    ASSUME NEW h, NEW pc, NEW tsk, SockOK(h, tsk, pc), NEW cb \in Seg
    PROVE  Effect(h, "SYN_SENT", tcp_state_syn_sent(tsk, cb), pc)
<1>1. CASE cb.flags \cap {TCP_SYN, TCP_ACK} # {}
  <2> DEFINE v == seq_end(cb)
             a == cb.ack
             t == [tsk EXCEPT !.rcv_nxt = v, !.snd_una = a,
                              !.state = "ESTABLISHED", !.wait_connect = TRUE]
  <2>1. v \in Int /\ a \in Int
    BY SeqEndType DEF Seg
  <2>2. tcp_state_syn_sent(tsk, cb) = Answer(t, {TCP_ACK})
    BY <1>1 DEF tcp_state_syn_sent
  <2> HIDE DEF v, a
  <2>3. t \in Sock /\ SameRefs(t, tsk) /\ t.state = "ESTABLISHED"
    BY <2>1 DEF SockOK, Sock, tcp_state, SameRefs
  <2> HIDE DEF t
  <2>4. SockOK(h, t, pc)
    BY <2>3, SockFrame DEF Closing
  <2> QED
    BY <2>2, <2>4, FlagSets, AnswerEffect
<1>2. CASE cb.flags \cap {TCP_SYN, TCP_ACK} = {}
  <2>1. tcp_state_syn_sent(tsk, cb) = Result(tsk, <<tcp_send_reset(cb)>>, FALSE)
    BY <1>2 DEF tcp_state_syn_sent
  <2> QED
    BY <2>1, ResetType, ResultEffect
<1> QED
  BY <1>1, <1>2

\* Steps 8 to 11, case by case; t is the sock with the numbers of the segment.
AckCase(t, r, state, cb) ==
    \/ r = Result(t, <<>>, TRUE) /\ state = "SYN_RECV"
    \/ r = Silent(Set(t, "FIN_WAIT_2")) /\ state = "FIN_WAIT_1" /\ cb.ack = t.snd_nxt
    \/ /\ r = Answer(tcp_set_timewait_timer(Set(t, "TIME_WAIT")), {TCP_ACK})
       /\ state = "FIN_WAIT_2" /\ TCP_FIN \in cb.flags
    \/ r = Answer(Set(t, "CLOSE_WAIT"), {TCP_ACK}) /\ TCP_FIN \in cb.flags
    \/ r = Silent(Set(t, "CLOSED")) /\ state = "LAST_ACK" /\ cb.ack = t.snd_nxt
    \/ r = Answer(t, {TCP_ACK})
    \/ r = Silent(t)

LEMMA AckCases ==
    ASSUME NEW tsk, NEW state, NEW cb, NEW t,
           t = [tsk EXCEPT !.snd_una = cb.ack, !.rcv_nxt = seq_end(cb)]
    PROVE  AckCase(t, ProcessAck(tsk, state, cb), state, cb)
<1> DEFINE acked == cb.ack = t.snd_nxt
           fin == TCP_FIN \in cb.flags
           r == ProcessAck(tsk, state, cb)
<1> SUFFICES AckCase(t, r, state, cb)
  OBVIOUS
<1>1. r = CASE state = "SYN_RECV" /\ acked   -> Result(t, <<>>, TRUE)
            [] state = "FIN_WAIT_1" /\ acked -> Silent(Set(t, "FIN_WAIT_2"))
            [] state = "FIN_WAIT_2" /\ fin   ->
                  Answer(tcp_set_timewait_timer(Set(t, "TIME_WAIT")), {TCP_ACK})
            [] state = "ESTABLISHED" /\ fin  -> Answer(Set(t, "CLOSE_WAIT"), {TCP_ACK})
            [] state = "LAST_ACK" /\ acked   -> Silent(Set(t, "CLOSED"))
            [] state = "ESTABLISHED" /\ cb.flags = {TCP_ACK} -> Answer(t, {TCP_ACK})
            [] OTHER -> Silent(t)
  BY DEF ProcessAck
<1>2. cb.flags = {TCP_ACK} => ~ fin
  BY DEF TCP_ACK, TCP_FIN
<1>3. (acked => cb.ack = t.snd_nxt) /\ (fin => TCP_FIN \in cb.flags)
  OBVIOUS
<1> HIDE DEF acked, fin, r
<1>4. CASE state = "SYN_RECV" /\ acked
  BY <1>1, <1>4 DEF AckCase
<1>5. CASE state = "FIN_WAIT_1" /\ acked
  BY <1>1, <1>3, <1>5 DEF AckCase
<1>6. CASE state = "FIN_WAIT_2" /\ fin
  BY <1>1, <1>3, <1>6 DEF AckCase
<1>7. CASE state = "ESTABLISHED" /\ fin
  BY <1>1, <1>2, <1>3, <1>7 DEF AckCase
<1>8. CASE state = "LAST_ACK" /\ acked
  BY <1>1, <1>3, <1>8 DEF AckCase
<1>9. CASE state = "ESTABLISHED" /\ cb.flags = {TCP_ACK}
  BY <1>1, <1>2, <1>9 DEF AckCase
<1>10. CASE ~ \/ state = "SYN_RECV" /\ acked
              \/ state = "FIN_WAIT_1" /\ acked
              \/ state = "FIN_WAIT_2" /\ fin
              \/ state = "ESTABLISHED" /\ fin
              \/ state = "LAST_ACK" /\ acked
              \/ state = "ESTABLISHED" /\ cb.flags = {TCP_ACK}
  BY <1>1, <1>10 DEF AckCase
<1> QED
  BY <1>4, <1>5, <1>6, <1>7, <1>8, <1>9, <1>10

\* Steps 8 to 11.  Only from FIN_WAIT_2 is the timer started.
LEMMA ProcessAckEffect ==
    ASSUME NEW h, NEW pc, NEW tsk, SockOK(h, tsk, pc), NEW state \in tcp_state, NEW cb \in Seg,
           h = "client" => state # "SYN_RECV",
           state \in Closing => pc = "done" /\ tsk.timer = "off"
    PROVE  Effect(h, state, ProcessAck(tsk, state, cb), pc)
<1> DEFINE v == seq_end(cb)
           a == cb.ack
           t == [tsk EXCEPT !.snd_una = a, !.rcv_nxt = v]
           r == ProcessAck(tsk, state, cb)
<1> SUFFICES Effect(h, state, r, pc)
  OBVIOUS
<1>1. v \in Int /\ a \in Int
  BY SeqEndType DEF Seg
<1>2. AckCase(t, r, state, cb)
  BY AckCases
<1> HIDE DEF v, a, r
<1>3. t \in Sock /\ SameRefs(t, tsk) /\ t.state = tsk.state
  BY <1>1 DEF SockOK, Sock, SameRefs
<1> HIDE DEF t
<1>4. SockOK(h, t, pc)
  BY <1>3, SockFrame
<1>5. /\ "FIN_WAIT_2" \in tcp_state /\ "CLOSE_WAIT" \in tcp_state /\ "CLOSED" \in tcp_state
      /\ "TIME_WAIT" \in tcp_state
  BY DEF tcp_state
<1>6. <<>> \in Out
  BY DEF Out
<1>7. CASE r = Result(t, <<>>, TRUE) /\ state = "SYN_RECV"
  BY <1>4, <1>6, <1>7, ResultEffect
<1>8. CASE r = Silent(Set(t, "FIN_WAIT_2")) /\ state = "FIN_WAIT_1"
  <2> DEFINE u == Set(t, "FIN_WAIT_2")
  <2>1. u \in Sock /\ u.state = "FIN_WAIT_2" /\ SameRefs(u, t)
    BY <1>3, <1>5, SetType
  <2> HIDE DEF u
  <2>2. SockOK(h, u, pc)
    BY <1>3, <1>4, <1>8, <2>1 DEF SockOK, SameRefs, Exact, Closing
  <2> QED
    BY <1>8, <2>2, SilentEffect DEF u
<1>9. CASE r = Answer(tcp_set_timewait_timer(Set(t, "TIME_WAIT")), {TCP_ACK}) /\ state = "FIN_WAIT_2"
  <2> DEFINE u == Set(t, "TIME_WAIT")
             c == u.ref_cnt + 1
             w == [u EXCEPT !.timer = "on", !.ref_cnt = c]
  <2>1. u \in Sock /\ u.state = "TIME_WAIT" /\ SameRefs(u, t)
    BY <1>3, <1>5, SetType
  <2>2. r = Answer(w, {TCP_ACK})
    BY <1>9 DEF tcp_set_timewait_timer
  <2>3. pc = "done" /\ t.timer = "off"
    BY <1>3, <1>9 DEF SameRefs, Closing
  <2> HIDE DEF u
  <2>4. c \in Int /\ c = u.ref_cnt + 1
    BY <2>1 DEF Sock
  <2> HIDE DEF c
  <2>5. /\ w \in Sock /\ w.state = "TIME_WAIT" /\ w.timer = "on" /\ w.ref_cnt = c
        /\ w.hashed = u.hashed
    BY <2>1, <2>4 DEF Sock
  <2> HIDE DEF w
  <2>6. Exact(h, w)
    BY <1>4, <2>1, <2>3, <2>4, <2>5 DEF SockOK, Exact, SameRefs, Sock
  <2>7. SockOK(h, w, pc)
    BY <2>3, <2>5, <2>6 DEF SockOK, Closing
  <2> QED
    BY <2>2, <2>7, FlagSets, AnswerEffect
<1>10. CASE r = Answer(Set(t, "CLOSE_WAIT"), {TCP_ACK})
  <2> DEFINE u == Set(t, "CLOSE_WAIT")
  <2>1. u \in Sock /\ u.state = "CLOSE_WAIT" /\ SameRefs(u, t)
    BY <1>3, <1>5, SetType
  <2> HIDE DEF u
  <2>2. SockOK(h, u, pc)
    BY <1>4, <2>1, SockFrame DEF Closing
  <2> QED
    BY <1>10, <2>2, FlagSets, AnswerEffect DEF u
<1>11. CASE r = Silent(Set(t, "CLOSED"))
  <2> DEFINE u == Set(t, "CLOSED")
  <2>1. u \in Sock /\ u.state = "CLOSED" /\ SameRefs(u, t)
    BY <1>3, <1>5, SetType
  <2> HIDE DEF u
  <2>2. SockOK(h, u, pc)
    BY <1>4, <2>1, SockFrame DEF Closing
  <2> QED
    BY <1>11, <2>2, SilentEffect DEF u
<1>12. CASE r = Answer(t, {TCP_ACK})
  BY <1>4, <1>12, FlagSets, AnswerEffect
<1>13. CASE r = Silent(t)
  BY <1>4, <1>13, SilentEffect
<1> QED
  BY <1>2, <1>7, <1>8, <1>9, <1>10, <1>11, <1>12, <1>13 DEF AckCase

LEMMA UnhashEffect ==
    ASSUME NEW h, NEW pc, NEW t, SockOK(h, t, pc)
    PROVE  SockOK(h, tcp_unhash(t), pc)
<1> DEFINE c == t.ref_cnt - 1
           u == [t EXCEPT !.hashed = FALSE, !.ref_cnt = c]
<1>1. t \in Sock /\ c \in Int /\ c = t.ref_cnt - 1
  BY DEF SockOK, Sock
<1>2. tcp_unhash(t) = IF t.hashed THEN u ELSE t
  BY DEF tcp_unhash
<1> HIDE DEF c
<1>3. /\ u \in Sock /\ u.state = t.state /\ u.timer = t.timer /\ u.ref_cnt = c /\ ~ u.hashed
  BY <1>1 DEF Sock
<1> HIDE DEF u
<1>4. t.hashed => Exact(h, u)
  BY <1>1, <1>3 DEF SockOK, Exact, Sock
<1> QED
  BY <1>2, <1>3, <1>4 DEF SockOK

LEMMA ProcessEffect ==
    ASSUME NEW h, NEW pc, NEW tsk, SockOK(h, tsk, pc), NEW state \in tcp_state, NEW cb \in Seg,
           h = "client" => state # "SYN_RECV",
           state \in Closing => pc = "done" /\ tsk.timer = "off"
    PROVE  Effect(h, state, tcp_process(tsk, state, cb), pc)
<1> DEFINE r == tcp_process(tsk, state, cb)
           c == Set(tsk, "CLOSED")
<1>1. \/ r = Result(tsk, <<tcp_send_reset(cb)>>, FALSE)
      \/ state = "SYN_SENT" /\ r = tcp_state_syn_sent(tsk, cb)
      \/ r = Silent(tsk)
      \/ r = Silent(tcp_unhash(c))
      \/ r = Result(c, <<tcp_send_reset(cb)>>, FALSE)
      \/ r = ProcessAck(tsk, state, cb)
  BY DEF tcp_process
<1>2. c \in Sock /\ c.state = "CLOSED" /\ SameRefs(c, tsk)
  BY SetType DEF SockOK, tcp_state
<1> HIDE DEF r, c
<1>3. SockOK(h, c, pc)
  BY <1>2, SockFrame DEF Closing
<1>4. CASE r = Result(tsk, <<tcp_send_reset(cb)>>, FALSE)
  BY <1>4, ResetType, ResultEffect DEF r
<1>5. CASE state = "SYN_SENT" /\ r = tcp_state_syn_sent(tsk, cb)
  BY <1>5, SynSentEffect DEF r
<1>6. CASE r = Silent(tsk)
  BY <1>6, SilentEffect DEF r
<1>7. CASE r = Silent(tcp_unhash(c))
  BY <1>3, <1>7, UnhashEffect, SilentEffect DEF r
<1>8. CASE r = Result(c, <<tcp_send_reset(cb)>>, FALSE)
  BY <1>3, <1>8, ResetType, ResultEffect DEF r
<1>9. CASE r = ProcessAck(tsk, state, cb)
  BY <1>9, ProcessAckEffect DEF r
<1> QED
  BY <1>1, <1>4, <1>5, <1>6, <1>7, <1>8, <1>9

--------------------------------------------------------------------------------
(* Frames: what a step leaves in place.                                        *)

LEMMA OutSeq == ASSUME NEW out \in Out PROVE out \in Seq(Seg)
<1>1. CASE out = <<>>
  BY <1>1
<1>2. ASSUME NEW m \in Seg, out = <<m>> PROVE out \in Seq(Seg)
  BY <1>2
<1> QED
  BY <1>1, <1>2 DEF Out

LEMMA SendType ==
    ASSUME NEW h \in Host, net \in [Host -> Seq(Seg)], NEW out \in Out, Send(h, out)
    PROVE  net' \in [Host -> Seq(Seg)]
<1>1. out \in Seq(Seg)
  BY OutSeq
<1>2. Peer(h) \in Host
  BY Hosts
<1>3. net[Peer(h)] \o out \in Seq(Seg)
  BY <1>1, <1>2, ConcatProperties
<1> QED
  BY <1>2, <1>3 DEF Send

\* One sock of h is replaced.
LEMMA ReplaceSock ==
    ASSUME sk \in [Host -> Seq(Sock)], NEW h \in Host, NEW i \in DOMAIN sk[h], NEW u \in Sock,
           sk' = [sk EXCEPT ![h][i] = u]
    PROVE  /\ sk' \in [Host -> Seq(Sock)]
           /\ \A g \in Host : DOMAIN sk'[g] = DOMAIN sk[g]
           /\ \A g \in Host : g # h => sk'[g] = sk[g]
           /\ \A j \in DOMAIN sk[h] : sk'[h][j] = IF j = i THEN u ELSE sk[h][j]
<1>1. sk[h] \in Seq(Sock) /\ i \in 1 .. Len(sk[h])
  OBVIOUS
<1> DEFINE s == [sk[h] EXCEPT ![i] = u]
<1>2. s \in Seq(Sock)
  BY <1>1, ExceptSeq
<1>3. DOMAIN s = DOMAIN sk[h] /\ \A j \in DOMAIN sk[h] : s[j] = IF j = i THEN u ELSE sk[h][j]
  BY <1>1
<1>4. sk' = [sk EXCEPT ![h] = s]
  OBVIOUS
<1> HIDE DEF s
<1> QED
  BY <1>2, <1>3, <1>4

\* An application that is not done has no sock in the states of closing, so it can go
\* anywhere.
LEMMA PcStep ==
    ASSUME NEW h, NEW t, NEW pc, NEW q, SockOK(h, t, pc), pc # "done"
    PROVE  SockOK(h, t, q)
  BY DEF SockOK

LEMMA MainPcStep ==
    ASSUME NEW h, NEW m, NEW s, NEW t, NEW pc, NEW q, MainOK(h, m, s, pc), pc # "done",
           DOMAIN s \subseteq DOMAIN t
    PROVE  MainOK(h, m, t, q)
  BY DEF MainOK

\* A step of the application: it leaves the main threads and the other host alone.
LEMMA AppMoves ==
    ASSUME Parts, NEW h \in Host, NEW a \in App, app' = [app EXCEPT ![h] = a],
           app[h].pc # "done",
           sk' \in [Host -> Seq(Sock)],
           \A g \in Host : g # h => sk'[g] = sk[g],
           DOMAIN sk[h] \subseteq DOMAIN sk'[h],
           \A i \in DOMAIN sk'[h] : SockOK(h, sk'[h][i], a.pc),
           a.pc \in WithSock => a.tsk \in DOMAIN sk'[h],
           a.pc # "connect",
           net' \in [Host -> Seq(Seg)], lsn' \in Listener, UNCHANGED <<main, up>>,
           ListenOK'
    PROVE  Parts'
<1>1. /\ app' \in [Host -> App] /\ app'[h] = a
      /\ \A g \in Host : g # h => app'[g] = app[g]
  BY DEF Parts, Types
<1>2. Types'
  BY <1>1 DEF Parts, Types
<1>3. SocksOK'
  BY ZenonT(60), <1>1 DEF Parts, SocksOK
<1>4. ASSUME NEW g \in Host PROVE MainOK(g, main'[g], sk'[g], app'[g].pc)
  <2>1. MainOK(g, main[g], sk[g], app[g].pc) /\ main'[g] = main[g]
    BY DEF Parts
  <2>2. CASE g = h
    BY <1>1, <2>1, <2>2, MainPcStep
  <2>3. CASE g # h
    BY <1>1, <2>1, <2>3
  <2> QED
    BY <2>2, <2>3
<1>5. AppOK'
  <2>1. \A g \in Host : app'[g].pc \in WithSock => app'[g].tsk \in DOMAIN sk'[g]
    BY <1>1 DEF Parts, AppOK
  <2>2. app'["client"].pc = "connect" => sk'["client"] = <<>>
    BY <1>1, Hosts DEF Parts, AppOK
  <2> QED
    BY <2>1, <2>2 DEF AppOK
<1> QED
  BY <1>2, <1>3, <1>4, <1>5 DEF Parts

\* Deleting an entry of a queue adds none.
LEMMA DeleteEntry ==
    ASSUME NEW s \in Seq(Nat), NEW i \in Nat
    PROVE  /\ list_delete_entry(s, i) \in Seq(Nat)
           /\ \A k \in DOMAIN list_delete_entry(s, i) :
                 \E j \in DOMAIN s : list_delete_entry(s, i)[k] = s[j]
<1>1. CASE \E k \in DOMAIN s : s[k] = i
  <2> DEFINE c == CHOOSE k \in DOMAIN s : s[k] = i
             a == SubSeq(s, 1, c - 1)
             b == SubSeq(s, c + 1, Len(s))
  <2>1. list_delete_entry(s, i) = a \o b
    BY <1>1 DEF list_delete_entry, RemoveAt
  <2>2. c \in DOMAIN s
    BY <1>1
  <2>3. c \in 1 .. Len(s) /\ Len(s) \in Nat /\ DOMAIN s = 1 .. Len(s)
    BY <2>2
  <2> HIDE DEF c
  <2>4. /\ a \in Seq(Nat) /\ Len(a) = c - 1
        /\ \A k \in 1 .. c - 1 : a[k] = s[k]
    BY <2>3, SubSeqProperties
  <2>5. /\ b \in Seq(Nat) /\ Len(b) = Len(s) - c
        /\ \A k \in 1 .. Len(s) - c : b[k] = s[c + k]
    <3> DEFINE f == c + 1
               l == Len(s)
    <3>1. f \in Int /\ l \in Int /\ \A k \in f .. l : s[k] \in Nat
      BY <2>3
    <3>2. f = c + 1 /\ l = Len(s) /\ c \in 1 .. l
      BY <2>3
    <3>3. b = SubSeq(s, f, l)
      OBVIOUS
    <3> HIDE DEF b, f, l
    <3>4. /\ b \in Seq(Nat) /\ Len(b) = IF f <= l THEN l - f + 1 ELSE 0
          /\ \A k \in 1 .. l - f + 1 : b[k] = s[f + k - 1]
      BY <3>1, <3>3, SubSeqProperties
    <3>5. Len(b) = l - c
      BY <3>2, <3>4
    <3>6. ASSUME NEW k \in 1 .. l - c PROVE b[k] = s[c + k]
      <4>1. k \in 1 .. l - f + 1 /\ f + k - 1 = c + k
        BY <3>1, <3>2
      <4> QED
        BY <3>4, <4>1
    <3> QED
      BY <3>2, <3>4, <3>5, <3>6
  <2> HIDE DEF a, b
  <2>6. /\ a \o b \in Seq(Nat) /\ Len(a \o b) = Len(a) + Len(b)
        /\ \A k \in 1 .. Len(a) + Len(b) :
              (a \o b)[k] = IF k <= Len(a) THEN a[k] ELSE b[k - Len(a)]
    BY <2>4, <2>5, ConcatProperties
  <2>7. ASSUME NEW k \in DOMAIN (a \o b) PROVE \E j \in DOMAIN s : (a \o b)[k] = s[j]
    <3>1. k \in 1 .. Len(s) - 1
      BY <2>3, <2>4, <2>5, <2>6
    <3>2. CASE k <= c - 1
      <4>1. k \in 1 .. c - 1 /\ k \in 1 .. Len(a) + Len(b) /\ k <= Len(a) /\ k \in DOMAIN s
        BY <2>3, <2>4, <2>5, <3>1, <3>2
      <4>2. (a \o b)[k] = a[k] /\ a[k] = s[k]
        BY <2>4, <2>6, <4>1
      <4> QED
        BY <4>1, <4>2
    <3>3. CASE k > c - 1
      <4>1. k - (c - 1) \in 1 .. Len(s) - c /\ c + (k - (c - 1)) = k + 1 /\ k + 1 \in DOMAIN s
        <5>1. c \in Int /\ k \in Int /\ Len(s) \in Int /\ DOMAIN s = 1 .. Len(s)
          BY <2>3, <3>1
        <5>2. 1 <= k /\ k <= Len(s) - 1
          BY ONLY <3>1, <5>1
        <5> QED
          BY ONLY <5>1, <5>2, <3>3
      <4>2. k \in 1 .. Len(a) + Len(b) /\ ~ (k <= Len(a)) /\ k - Len(a) = k - (c - 1)
        BY <2>3, <2>4, <2>5, <3>1, <3>3
      <4>3. (a \o b)[k] = b[k - (c - 1)]
        BY <2>6, <4>2
      <4>4. b[k - (c - 1)] = s[c + (k - (c - 1))]
        BY <2>5, <4>1
      <4> QED
        BY <4>1, <4>3, <4>4
    <3> QED
      BY SMTT(30), <2>3, <3>1, <3>2, <3>3
  <2> QED
    BY <2>1, <2>6, <2>7
<1>2. CASE ~ \E k \in DOMAIN s : s[k] = i
  <2>1. list_delete_entry(s, i) = s
    BY <1>2 DEF list_delete_entry
  <2> QED
    BY <2>1
<1> QED
  BY <1>1, <1>2

--------------------------------------------------------------------------------
(* The main thread.                                                            *)

LEMMA ReceiveKeeps == ASSUME Parts, NEW h \in Host, Receive(h) PROVE Parts'
<1> DEFINE i == tcp_sock_lookup(h)
<1>1. /\ net[h] \in Seq(Seg) /\ net[h] # <<>>
      /\ net' = [net EXCEPT ![h] = Tail(@)]
      /\ UNCHANGED <<sk, lsn, app>>
  BY DEF Receive, Parts, Types
<1>2. Head(net[h]) \in Seg /\ Tail(net[h]) \in Seq(Seg)
  BY <1>1, HeadTailProperties
<1>3. net' \in [Host -> Seq(Seg)]
  BY <1>1, <1>2 DEF Parts, Types
<1>4. CASE /\ i = NULL /\ up' = [up EXCEPT ![h] = FALSE] /\ UNCHANGED main
  BY <1>1, <1>3, <1>4 DEF Parts, Types, SocksOK, ListenOK, AppOK
<1>5. CASE /\ i # NULL
           /\ main' = [main EXCEPT ![h] =
                 [busy |-> TRUE, cb |-> Head(net[h]), tsk |-> i,
                  state |-> IF i = 0 THEN "LISTEN" ELSE sk[h][i].state]]
           /\ UNCHANGED up
  <2>1. i = 0 \/ i \in DOMAIN sk[h]
    BY <1>5 DEF tcp_sock_lookup, InTable
  <2> HIDE DEF i
  <2>2. sk[h] \in Seq(Sock)
    BY DEF Parts, Types
  <2>3. i # 0 => SockOK(h, sk[h][i], app[h].pc)
    BY <2>1 DEF Parts, SocksOK
  <2> DEFINE st == IF i = 0 THEN "LISTEN" ELSE sk[h][i].state
             m == [busy |-> TRUE, cb |-> Head(net[h]), tsk |-> i, state |-> st]
  <2>4. i \in Nat /\ st \in tcp_state
    <3>1. i \in Nat
      BY <2>1, <2>2
    <3>2. i # 0 => sk[h][i].state \in tcp_state
      BY <2>3 DEF SockOK, Sock
    <3>3. "LISTEN" \in tcp_state
      BY DEF tcp_state
    <3> QED
      BY <3>1, <3>2, <3>3
  <2>5. i # 0 => st = sk[h][i].state
    OBVIOUS
  <2> HIDE DEF st
  <2>6. m \in Busy /\ m.tsk = i /\ m.state = st
    BY <1>2, <2>4 DEF Busy
  <2>7. main' = [main EXCEPT ![h] = m]
    BY <1>5 DEF st
  <2> HIDE DEF m
  <2>8. /\ main' \in [Host -> {Idle} \cup Busy] /\ main'[h] = m
        /\ \A g \in Host : g # h => main'[g] = main[g]
    BY <2>6, <2>7 DEF Parts, Types
  <2>9. MainOK(h, m, sk[h], app[h].pc)
    BY <2>1, <2>3, <2>5, <2>6 DEF MainOK, SockOK
  <2>10. \A g \in Host : MainOK(g, main'[g], sk'[g], app'[g].pc)
    BY <1>1, <2>8, <2>9 DEF Parts
  <2> QED
    BY <1>1, <1>3, <1>5, <2>8, <2>10 DEF Parts, Types, SocksOK, ListenOK, AppOK
<1> QED
  BY <1>4, <1>5 DEF Receive

LEMMA IdleType == Idle \in {Idle} \cup Busy /\ Idle.busy = FALSE
  BY DEF Idle

LEMMA ProcessKeeps == ASSUME Parts, NEW h \in Host, Process(h) PROVE Parts'
<1> DEFINE m == main[h]
           i == m.tsk
           r == tcp_process(sk[h][i], m.state, m.cb)
           pc == app[h].pc
<1>1. /\ m.busy /\ i # 0
      /\ sk' = [sk EXCEPT ![h][i] = r.tsk]
      /\ lsn' = IF r.enqueue THEN tcp_sock_accept_enqueue(lsn, i) ELSE lsn
      /\ Send(h, r.out)
      /\ main' = [main EXCEPT ![h] = Idle]
      /\ UNCHANGED <<app, up>>
  BY DEF Process
<1>2. m \in Busy
  BY <1>1, IdleType DEF Parts, Types
<1>3. /\ MainOK(h, m, sk[h], pc) /\ i \in DOMAIN sk[h]
  BY <1>1 DEF Parts, MainOK
<1>4. SockOK(h, sk[h][i], pc) /\ m.cb \in Seg /\ m.state \in tcp_state /\ i \in Nat
  BY <1>2, <1>3 DEF Parts, SocksOK, Busy
<1>5. Effect(h, m.state, r, pc)
  BY <1>1, <1>3, <1>4, ProcessEffect DEF MainOK
<1> HIDE DEF r
<1>6. r.tsk \in Sock /\ SockOK(h, r.tsk, pc) /\ r.out \in Out
  BY <1>5 DEF Effect, SockOK
<1>7. /\ sk' \in [Host -> Seq(Sock)]
      /\ \A g \in Host : DOMAIN sk'[g] = DOMAIN sk[g]
      /\ \A g \in Host : g # h => sk'[g] = sk[g]
      /\ \A j \in DOMAIN sk[h] : sk'[h][j] = IF j = i THEN r.tsk ELSE sk[h][j]
  BY <1>1, <1>3, <1>6, ReplaceSock DEF Parts, Types
<1>8. net' \in [Host -> Seq(Seg)]
  BY <1>1, <1>6, SendType DEF Parts, Types
<1>9. /\ main' \in [Host -> {Idle} \cup Busy] /\ main'[h] = Idle
      /\ \A g \in Host : g # h => main'[g] = main[g]
  BY <1>1 DEF Parts, Types
<1>10. lsn' \in Listener /\ ListenOK'
  <2>1. CASE ~ r.enqueue
    BY <1>1, <1>7, <2>1, Hosts DEF Parts, Types, ListenOK
  <2>2. CASE r.enqueue
    <3>1. h = "server"
      BY <1>1, <1>3, <1>5, <2>2, Hosts DEF Effect, MainOK
    <3> DEFINE lq == list_delete_entry(lsn.listen_queue, i)
               d == list_delete_entry(lsn.accept_queue, i)
               aq == Append(d, i)
               n == lsn.accept_backlog + 1
    <3>2. lsn \in Listener
      BY DEF Parts, Types
    <3>3. lsn.listen_queue \in Seq(Nat) /\ lsn.accept_queue \in Seq(Nat) /\ lsn.accept_backlog \in Int
      BY <3>2 DEF Listener
    <3>4. /\ lq \in Seq(Nat) /\ d \in Seq(Nat)
          /\ \A k \in DOMAIN d : \E j \in DOMAIN lsn.accept_queue : d[k] = lsn.accept_queue[j]
      BY <1>4, <3>3, DeleteEntry
    <3>5. lsn' = [lsn EXCEPT !.listen_queue = lq, !.accept_queue = aq,
                             !.accept_backlog = n, !.wait_accept = TRUE]
      BY <1>1, <2>2 DEF tcp_sock_accept_enqueue
    <3> HIDE DEF lq, d
    <3>6. /\ aq \in Seq(Nat) /\ n \in Int /\ aq # <<>>
          /\ \A k \in DOMAIN aq : aq[k] = i \/ (k \in DOMAIN d /\ aq[k] = d[k])
      <4>1. /\ aq \in Seq(Nat) /\ aq # <<>> /\ Len(aq) = Len(d) + 1
            /\ \A k \in 1 .. Len(d) : aq[k] = d[k]
            /\ aq[Len(d) + 1] = i
        BY <1>4, <3>4, AppendProperties
      <4>2. n \in Int
        BY <3>3
      <4> HIDE DEF aq
      <4>3. Len(d) \in Nat /\ DOMAIN d = 1 .. Len(d) /\ DOMAIN aq = 1 .. Len(d) + 1
        BY <3>4, <4>1
      <4> QED
        BY <4>1, <4>2, <4>3
    <3> HIDE DEF aq, n
    <3>7. lsn' \in Listener /\ lsn'.accept_queue = aq
      BY <3>2, <3>4, <3>5, <3>6 DEF Listener
    <3>8. \A k \in DOMAIN aq : aq[k] \in DOMAIN sk'["server"]
      BY <1>3, <1>7, <3>1, <3>4, <3>6, Hosts DEF Parts, ListenOK
    <3> QED
      BY <3>6, <3>7, <3>8 DEF ListenOK
  <2> QED
    BY <2>1, <2>2
<1>11. SocksOK'
  <2> SUFFICES ASSUME NEW g \in Host, NEW j \in DOMAIN sk'[g]
               PROVE  SockOK(g, sk'[g][j], app'[g].pc)
    BY DEF SocksOK
  <2>1. app' = app /\ j \in DOMAIN sk[g] /\ SockOK(g, sk[g][j], app[g].pc)
    BY <1>1, <1>7 DEF Parts, SocksOK
  <2> QED
    BY <1>6, <1>7, <2>1
<1>12. \A g \in Host : MainOK(g, main'[g], sk'[g], app'[g].pc)
  <2>1. MainOK(h, Idle, sk'[h], app'[h].pc)
    BY IdleType DEF MainOK
  <2> QED
    BY <1>1, <1>7, <1>9, <2>1 DEF Parts
<1>13. AppOK'
  <2>1. app["client"].pc = "connect" => sk'["client"] = sk["client"]
    BY <1>3, <1>7, Hosts DEF Parts, AppOK
  <2> QED
    BY <1>1, <1>7, <2>1 DEF Parts, AppOK
<1> QED
  BY <1>1, <1>7, <1>8, <1>9, <1>10, <1>11, <1>12, <1>13 DEF Parts, Types

\* A fresh sock that tcp_sock_bind has counted.
LEMMA BoundSock ==
    LET b == tcp_sock_bind(alloc_tcp_sock)
    IN  /\ b \in Sock /\ b.ref_cnt = 1 /\ ~ b.hashed /\ b.timer = "off"
<1>1. TCP_DEFAULT_WINDOW \in Int
  BY WindowAssumption, SeqModAssumption
<1>2. alloc_tcp_sock \in Sock
  BY <1>1 DEF alloc_tcp_sock, Sock, tcp_state
<1>3. /\ alloc_tcp_sock.ref_cnt + 1 = 1 /\ ~ alloc_tcp_sock.hashed
      /\ alloc_tcp_sock.timer = "off"
  BY DEF alloc_tcp_sock
<1>4. tcp_sock_bind(alloc_tcp_sock) = [alloc_tcp_sock EXCEPT !.ref_cnt = 1]
  BY <1>3 DEF tcp_sock_bind
<1> QED
  BY <1>2, <1>3, <1>4 DEF Sock

\* Hashing a sock that is not in the table counts the table's reference.
LEMMA HashEffect ==
    ASSUME NEW t \in Sock, ~ t.hashed, t.timer = "off", t.ref_cnt = 1, NEW free
    PROVE  /\ tcp_hash(t, free) \in Sock
           /\ tcp_hash(t, free).state = t.state /\ tcp_hash(t, free).timer = "off"
           /\ \A h : Exact(h, tcp_hash(t, free))
<1> DEFINE c == t.ref_cnt + 1
           u == [t EXCEPT !.hashed = TRUE, !.ref_cnt = c]
<1>0. c = 2
  OBVIOUS
<1>1. tcp_hash(t, free) = IF free THEN u ELSE t
  BY DEF tcp_hash
<1> HIDE DEF c
<1>2. u \in Sock /\ u.hashed /\ u.ref_cnt = 2 /\ u.state = t.state /\ u.timer = "off"
  <2>1. c \in Int
    BY <1>0
  <2>2. u \in Sock /\ u.ref_cnt = c /\ u.state = t.state /\ u.timer = t.timer
    BY <2>1 DEF Sock
  <2>3. u.hashed
    BY DEF Sock
  <2> QED
    BY <1>0, <2>2, <2>3
<1> HIDE DEF u
<1>3. \A h : Exact(h, t) /\ Exact(h, u)
  BY <1>2 DEF Exact
<1> QED
  BY <1>1, <1>2, <1>3

LEMMA ListenKeeps == ASSUME Parts, tcp_state_listen PROVE Parts'
<1> DEFINE cb == main["server"].cb
           s == sk["server"]
<1>1. /\ "server" \in Host /\ main["server"].busy
      /\ main' = [main EXCEPT !["server"] = Idle] /\ UNCHANGED <<app, up>>
  BY Hosts DEF tcp_state_listen
<1>2. cb \in Seg /\ s \in Seq(Sock)
  BY <1>1, IdleType DEF Parts, Types, Busy
<1>3. /\ main' \in [Host -> {Idle} \cup Busy] /\ main'["server"] = Idle
      /\ \A g \in Host : g # "server" => main'[g] = main[g]
  BY <1>1 DEF Parts, Types
<1>4. ASSUME UNCHANGED <<sk, lsn>>, Send("server", <<tcp_send_reset(cb)>>) PROVE Parts'
  <2>1. net' \in [Host -> Seq(Seg)]
    BY <1>1, <1>2, <1>4, ResetType, SendType DEF Parts, Types
  <2>2. MainOK("server", Idle, sk'["server"], app'["server"].pc)
    BY IdleType DEF MainOK
  <2>3. \A g \in Host : MainOK(g, main'[g], sk'[g], app'[g].pc)
    BY <1>1, <1>3, <1>4, <2>2 DEF Parts
  <2> QED
    BY <1>1, <1>3, <1>4, <2>1, <2>3 DEF Parts, Types, SocksOK, ListenOK, AppOK
<1>5. ASSUME NEW iss \in ISS,
             LET new == [tcp_sock_bind(alloc_tcp_sock) EXCEPT
                             !.rcv_nxt = seq_end(cb), !.snd_nxt = iss, !.state = "SYN_RECV"]
                 child == after_control(new, {TCP_SYN, TCP_ACK})
             IN  /\ sk' = [sk EXCEPT !["server"] =
                             Append(@, tcp_hash(child, InTable("server") = {}))]
                 /\ Send("server", <<tcp_send_control_packet(new, {TCP_SYN, TCP_ACK})>>),
             lsn' = [lsn EXCEPT !.listen_queue = Append(@, Len(s) + 1)]
      PROVE  Parts'
  <2> DEFINE b == tcp_sock_bind(alloc_tcp_sock)
             v == seq_end(cb)
             new == [b EXCEPT !.rcv_nxt = v, !.snd_nxt = iss, !.state = "SYN_RECV"]
             child == after_control(new, {TCP_SYN, TCP_ACK})
             t == tcp_hash(child, InTable("server") = {})
             s1 == Append(s, t)
  <2>1. sk' = [sk EXCEPT !["server"] = s1]
    BY <1>5
  <2>2. Send("server", <<tcp_send_control_packet(new, {TCP_SYN, TCP_ACK})>>)
    BY <1>5
  <2>3. v \in Int /\ iss \in Int
    BY <1>2, SeqEndType, IssAssumption, SeqModAssumption
  <2>4. b \in Sock /\ b.ref_cnt = 1 /\ ~ b.hashed /\ b.timer = "off"
    BY BoundSock
  <2> HIDE DEF v, b
  <2>5. /\ new \in Sock /\ new.ref_cnt = 1 /\ ~ new.hashed /\ new.timer = "off"
        /\ new.state = "SYN_RECV"
    BY <2>3, <2>4 DEF Sock, tcp_state
  <2> HIDE DEF new
  <2>6. /\ child \in Sock /\ child.ref_cnt = 1 /\ ~ child.hashed /\ child.timer = "off"
        /\ child.state = "SYN_RECV"
    BY <2>5, AfterControlType DEF SameRefs
  <2> HIDE DEF child
  <2>7. t \in Sock /\ t.state = "SYN_RECV" /\ t.timer = "off" /\ Exact("server", t)
    BY <2>6, HashEffect
  <2> HIDE DEF t
  <2>8. SockOK("server", t, app["server"].pc)
    BY <2>7 DEF SockOK, Closing
  <2>9. /\ s1 \in Seq(Sock) /\ Len(s1) = Len(s) + 1
        /\ \A i \in 1 .. Len(s) : s1[i] = s[i]
        /\ s1[Len(s) + 1] = t
    BY <1>2, <2>7, AppendProperties
  <2> HIDE DEF s1
  <2>10. /\ DOMAIN s = 1 .. Len(s) /\ DOMAIN s1 = 1 .. Len(s) + 1 /\ Len(s) \in Nat
    BY <1>2, <2>9
  <2>11. /\ DOMAIN s \subseteq DOMAIN s1
         /\ \A i \in DOMAIN s1 : (i \in DOMAIN s /\ s1[i] = s[i]) \/ s1[i] = t
         /\ \A i \in DOMAIN s : s1[i] = s[i]
    BY <2>9, <2>10
  <2>12. /\ sk' \in [Host -> Seq(Sock)] /\ sk'["server"] = s1
         /\ \A g \in Host : g # "server" => sk'[g] = sk[g]
    BY <1>1, <2>1, <2>9 DEF Parts, Types
  <2>13. net' \in [Host -> Seq(Seg)]
    <3>1. <<tcp_send_control_packet(new, {TCP_SYN, TCP_ACK})>> \in Out
      BY <2>5, FlagSets, ControlType
    <3> QED
      BY <1>1, <2>2, <3>1, SendType DEF Parts, Types
  <2>14. lsn' \in Listener /\ lsn'.accept_queue = lsn.accept_queue
         /\ lsn'.accept_backlog = lsn.accept_backlog
    <3> DEFINE q == Append(lsn.listen_queue, Len(s) + 1)
    <3>1. lsn \in Listener /\ lsn.listen_queue \in Seq(Nat) /\ Len(s) + 1 \in Nat
      BY <2>10 DEF Parts, Types, Listener
    <3>2. q \in Seq(Nat)
      BY <3>1, AppendProperties
    <3>3. lsn' = [lsn EXCEPT !.listen_queue = q]
      BY <1>5
    <3> HIDE DEF q
    <3> QED
      BY <3>1, <3>2, <3>3 DEF Listener
  <2>15. SocksOK'
    <3> SUFFICES ASSUME NEW g \in Host, NEW j \in DOMAIN sk'[g]
                 PROVE  SockOK(g, sk'[g][j], app'[g].pc)
      BY DEF SocksOK
    <3>1. CASE g = "server"
      BY <1>1, <2>8, <2>11, <2>12, <3>1 DEF Parts, SocksOK
    <3>2. CASE g # "server"
      BY <1>1, <2>12, <3>2 DEF Parts, SocksOK
    <3> QED
      BY <3>1, <3>2
  <2>16. \A g \in Host : MainOK(g, main'[g], sk'[g], app'[g].pc)
    <3>1. MainOK("server", Idle, sk'["server"], app'["server"].pc)
      BY IdleType DEF MainOK
    <3> QED
      BY <1>1, <1>3, <2>12, <3>1 DEF Parts
  <2>17. ListenOK'
    BY <1>1, <2>11, <2>12, <2>14 DEF Parts, ListenOK
  <2>18. AppOK'
    <3>1. sk'["client"] = sk["client"]
      BY <2>12, Hosts
    <3>2. \A g \in Host : DOMAIN sk[g] \subseteq DOMAIN sk'[g]
      BY <2>11, <2>12
    <3> QED
      BY <1>1, <3>1, <3>2 DEF Parts, AppOK
  <2> QED
    BY <1>1, <1>3, <2>12, <2>13, <2>14, <2>15, <2>16, <2>17, <2>18 DEF Parts, Types
<1> QED
  BY <1>4, <1>5 DEF tcp_state_listen

--------------------------------------------------------------------------------
(* The application threads.                                                    *)

\* Going to another place with the same sock.
LEMMA GotoType ==
    ASSUME Types, NEW h \in Host, NEW pc \in {"connect"} \cup BeforeAccept \cup WithSock,
           Goto(h, pc)
    PROVE  LET a == [app[h] EXCEPT !.pc = pc]
           IN  a \in App /\ a.pc = pc /\ a.tsk = app[h].tsk /\ app' = [app EXCEPT ![h] = a]
<1> DEFINE a == [app[h] EXCEPT !.pc = pc]
<1>1. app[h] \in App
  BY DEF Types
<1>2. a \in App /\ a.pc = pc /\ a.tsk = app[h].tsk
  BY <1>1 DEF App
<1>3. app' = [app EXCEPT ![h] = a]
  BY DEF Goto
<1> QED
  BY <1>2, <1>3

\* A step of the application that leaves the socks alone.
LEMMA AppOnly ==
    ASSUME Parts, NEW h \in Host, NEW pc \in BeforeAccept \cup WithSock, Goto(h, pc),
           app[h].pc # "done", pc \in WithSock => app[h].pc \in WithSock,
           lsn' \in Listener, UNCHANGED <<sk, net, main, up>>, ListenOK'
    PROVE  Parts'
<1> DEFINE a == [app[h] EXCEPT !.pc = pc]
<1>1. a \in App /\ a.pc = pc /\ a.tsk = app[h].tsk /\ app' = [app EXCEPT ![h] = a]
  BY GotoType DEF Parts
<1> HIDE DEF a
<1>2. a.pc # "connect"
  BY <1>1 DEF BeforeAccept, WithSock
<1>3. \A i \in DOMAIN sk'[h] : SockOK(h, sk'[h][i], a.pc)
  BY <1>1, PcStep DEF Parts, SocksOK
<1>4. a.pc \in WithSock => a.tsk \in DOMAIN sk'[h]
  BY <1>1 DEF Parts, AppOK
<1>5. sk' \in [Host -> Seq(Sock)] /\ net' \in [Host -> Seq(Seg)]
  BY DEF Parts, Types
<1> QED
  BY <1>1, <1>2, <1>3, <1>4, <1>5, AppMoves

LEMMA ConnectKeeps == ASSUME Parts, tcp_sock_connect PROVE Parts'
<1>1. PICK iss \in ISS :
          LET new == [tcp_hash(tcp_sock_bind(alloc_tcp_sock), TRUE) EXCEPT
                          !.snd_nxt = iss, !.state = "SYN_SENT"]
          IN  /\ sk' = [sk EXCEPT !["client"] = <<after_control(new, {TCP_SYN})>>]
              /\ Send("client", <<tcp_send_control_packet(new, {TCP_SYN})>>)
  BY DEF tcp_sock_connect
<1> DEFINE b == tcp_hash(tcp_sock_bind(alloc_tcp_sock), TRUE)
           new == [b EXCEPT !.snd_nxt = iss, !.state = "SYN_SENT"]
           t == after_control(new, {TCP_SYN})
           a == [pc |-> "connecting", tsk |-> 1]
<1>2. /\ "client" \in Host /\ app["client"].pc = "connect" /\ app' = [app EXCEPT !["client"] = a]
      /\ sk' = [sk EXCEPT !["client"] = <<t>>]
      /\ Send("client", <<tcp_send_control_packet(new, {TCP_SYN})>>)
      /\ UNCHANGED <<lsn, main, up>>
  BY <1>1, Hosts DEF tcp_sock_connect
<1>3. b \in Sock /\ b.timer = "off" /\ Exact("client", b)
  BY BoundSock, HashEffect
<1>4. iss \in Int
  BY IssAssumption, SeqModAssumption
<1> HIDE DEF b
<1>5. new \in Sock /\ SameRefs(new, b) /\ new.state = "SYN_SENT"
  BY <1>3, <1>4 DEF Sock, tcp_state, SameRefs
<1> HIDE DEF new
<1>6. t \in Sock /\ SameRefs(t, new) /\ t.state = "SYN_SENT"
  BY <1>5, AfterControlType
<1> HIDE DEF t
<1>7. SockOK("client", t, "connecting")
  BY <1>3, <1>5, <1>6 DEF SockOK, SameRefs, Exact, Closing
<1>8. a \in App /\ a.pc = "connecting" /\ a.tsk = 1
  BY DEF App, WithSock
<1> HIDE DEF a
<1>9. <<t>> \in Seq(Sock) /\ DOMAIN <<t>> = {1} /\ <<t>>[1] = t
  BY <1>6
<1>10. /\ sk' \in [Host -> Seq(Sock)] /\ sk'["client"] = <<t>>
       /\ \A g \in Host : g # "client" => sk'[g] = sk[g]
  BY <1>2, <1>9 DEF Parts, Types
<1>11. DOMAIN sk["client"] \subseteq DOMAIN sk'["client"]
  BY <1>2 DEF Parts, AppOK
<1>12. net' \in [Host -> Seq(Seg)]
  <2>1. <<tcp_send_control_packet(new, {TCP_SYN})>> \in Out
    BY <1>5, FlagSets, ControlType
  <2> QED
    BY <1>2, <2>1, SendType DEF Parts, Types
<1>13. lsn' \in Listener
  BY <1>2 DEF Parts, Types
<1>14. ListenOK'
  BY <1>2, <1>10, Hosts DEF Parts, Types, ListenOK
<1>15. \A i \in DOMAIN sk'["client"] : SockOK("client", sk'["client"][i], a.pc)
  BY <1>7, <1>8, <1>9, <1>10
<1>16. a.tsk \in DOMAIN sk'["client"] /\ a.pc # "connect" /\ app["client"].pc # "done"
  BY <1>2, <1>8, <1>9, <1>10
<1>17. UNCHANGED <<main, up>>
  BY <1>2
<1> QED
  BY <1>2, <1>8, <1>10, <1>11, <1>12, <1>13, <1>14, <1>15, <1>16, <1>17, AppMoves

\* A step of the application that replaces a sock by u and goes to a.
LEMMA AppReplaces ==
    ASSUME Parts, NEW h \in Host, NEW a \in App, a.pc \in WithSock,
           a.tsk \in DOMAIN sk[h], app' = [app EXCEPT ![h] = a], app[h].pc # "done",
           NEW i \in DOMAIN sk[h], NEW u, SockOK(h, u, a.pc), sk' = [sk EXCEPT ![h][i] = u],
           net' \in [Host -> Seq(Seg)], lsn' \in Listener, UNCHANGED <<main, up>>,
           \A k \in DOMAIN lsn'.accept_queue : lsn'.accept_queue[k] \in DOMAIN sk["server"],
           lsn' = lsn \/ h = "server"
    PROVE  Parts'
<1>0. u \in Sock
  BY DEF SockOK
<1>1. /\ sk' \in [Host -> Seq(Sock)]
      /\ \A g \in Host : DOMAIN sk'[g] = DOMAIN sk[g]
      /\ \A g \in Host : g # h => sk'[g] = sk[g]
      /\ \A j \in DOMAIN sk[h] : sk'[h][j] = IF j = i THEN u ELSE sk[h][j]
  BY <1>0, ReplaceSock DEF Parts, Types
<1>2. \A j \in DOMAIN sk'[h] : SockOK(h, sk'[h][j], a.pc)
  <2> TAKE j \in DOMAIN sk'[h]
  <2>1. SockOK(h, sk[h][j], app[h].pc)
    BY <1>1 DEF Parts, SocksOK
  <2>2. SockOK(h, sk[h][j], a.pc)
    BY <2>1, PcStep
  <2> QED
    BY <1>1, <2>2
<1>3. ListenOK'
  <2>1. app'["server"].pc \in BeforeAccept => lsn' = lsn /\ app'["server"] = app["server"]
    <3>1. WithSock \cap BeforeAccept = {}
      BY DEF WithSock, BeforeAccept
    <3>2. h = "server" => app'["server"].pc = a.pc
      BY DEF Parts, Types
    <3>3. h # "server" => app'["server"] = app["server"]
      BY Hosts DEF Parts, Types
    <3> QED
      BY <3>1, <3>2, <3>3
  <2>2. DOMAIN sk'["server"] = DOMAIN sk["server"]
    BY <1>1, Hosts
  <2> QED
    BY <2>1, <2>2 DEF Parts, ListenOK
<1>4. a.pc # "connect"
  BY DEF WithSock
<1>5. DOMAIN sk[h] \subseteq DOMAIN sk'[h] /\ a.tsk \in DOMAIN sk'[h]
  BY <1>1
<1>6. sk' \in [Host -> Seq(Sock)] /\ \A g \in Host : g # h => sk'[g] = sk[g]
  BY <1>1
<1> QED
  BY <1>2, <1>3, <1>4, <1>5, <1>6, AppMoves

\* A step of the application that only changes its own sock leaves the queues typed.
LEMMA SameListener ==
    ASSUME Parts, UNCHANGED lsn
    PROVE  /\ lsn' \in Listener /\ lsn' = lsn
           /\ \A k \in DOMAIN lsn'.accept_queue : lsn'.accept_queue[k] \in DOMAIN sk["server"]
  BY DEF Parts, Types, ListenOK

LEMMA ConnectedKeeps == ASSUME Parts, Connected PROVE Parts'
<1> DEFINE t == sk["client"][1]
           u == [t EXCEPT !.wait_connect = FALSE]
           a == [app["client"] EXCEPT !.pc = "open"]
<1>1. /\ "client" \in Host /\ app["client"].pc = "connecting" /\ Goto("client", "open")
      /\ sk' = [sk EXCEPT !["client"][1].wait_connect = FALSE]
      /\ UNCHANGED <<lsn, main, net, up>>
  BY Hosts DEF Connected
<1>2. /\ a \in App /\ a.pc = "open" /\ a.tsk = app["client"].tsk
      /\ app' = [app EXCEPT !["client"] = a]
  BY <1>1, GotoType DEF Parts, WithSock
<1>3. a.tsk \in DOMAIN sk["client"] /\ 1 \in DOMAIN sk["client"]
  <2>1. app["client"].tsk \in DOMAIN sk["client"] /\ sk["client"] \in Seq(Sock)
    BY <1>1 DEF Parts, Types, AppOK, WithSock
  <2> QED
    BY <1>2, <2>1
<1>4. sk' = [sk EXCEPT !["client"][1] = u]
  BY <1>1
<1>5. SockOK("client", t, "connecting")
  BY <1>1, <1>3 DEF Parts, SocksOK
<1> HIDE DEF t, a
<1>6. u \in Sock /\ SameRefs(u, t) /\ u.state = t.state
  BY <1>5 DEF SockOK, Sock, SameRefs
<1> HIDE DEF u
<1>7. SockOK("client", u, a.pc)
  <2>1. SockOK("client", u, "connecting")
    BY <1>5, <1>6, SockFrame
  <2> QED
    BY <2>1, PcStep
<1>8. net' \in [Host -> Seq(Seg)] /\ UNCHANGED <<main, up>> /\ UNCHANGED lsn
  BY <1>1 DEF Parts, Types
<1>9. a.pc \in WithSock
  BY <1>2 DEF WithSock
<1>10. app["client"].pc # "done"
  BY <1>1
<1> QED
  BY <1>1, <1>2, <1>3, <1>4, <1>7, <1>8, <1>9, <1>10, SameListener, AppReplaces

LEMMA ServerWaits ==
    ASSUME Parts, tcp_sock_listen \/ AcceptTest \/ AcceptWoken
    PROVE  Parts'
<1> DEFINE pc == app'["server"].pc
<1>1. "server" \in Host /\ lsn \in Listener /\ app[ "server"] \in App
  BY Hosts DEF Parts, Types
<1>2. /\ \E q \in BeforeAccept : Goto("server", q)
      /\ app["server"].pc \in BeforeAccept
      /\ UNCHANGED <<sk, net, main, up>>
  BY DEF tcp_sock_listen, AcceptTest, AcceptWoken, BeforeAccept
<1>3. /\ lsn' \in Listener /\ lsn'.accept_queue = lsn.accept_queue
      /\ lsn'.accept_backlog = lsn.accept_backlog
  BY <1>1 DEF tcp_sock_listen, AcceptTest, AcceptWoken, Listener
<1>4. app["server"].pc # "done"
  BY <1>2 DEF BeforeAccept
<1>5. ListenOK'
  BY <1>2, <1>3 DEF Parts, ListenOK
<1>6. PICK q \in BeforeAccept : Goto("server", q)
  BY <1>2
<1>7. q \notin WithSock
  BY DEF BeforeAccept, WithSock
<1> QED
  BY <1>1, <1>2, <1>3, <1>4, <1>5, <1>6, <1>7, AppOnly

LEMMA DequeueKeeps == ASSUME Parts, Dequeue PROVE Parts'
<1> DEFINE q == lsn.accept_queue
           i == Head(q)
           t == sk["server"][i]
           u == [t EXCEPT !.state = "ESTABLISHED"]
           a == [pc |-> "open", tsk |-> i]
           n == lsn.accept_backlog - 1
<1>1. /\ "server" \in Host /\ app["server"].pc = "dequeue" /\ lsn.accept_backlog # 0
      /\ lsn' = [lsn EXCEPT !.accept_queue = Tail(q), !.accept_backlog = n]
      /\ sk' = [sk EXCEPT !["server"][i].state = "ESTABLISHED"]
      /\ app' = [app EXCEPT !["server"] = a]
      /\ UNCHANGED <<main, net, up>>
  BY Hosts DEF Dequeue
<1>2. /\ q \in Seq(Nat) /\ q # <<>> /\ lsn \in Listener /\ lsn.accept_backlog \in Int
      /\ \A k \in DOMAIN q : q[k] \in DOMAIN sk["server"]
  BY <1>1 DEF Parts, Types, Listener, ListenOK, BeforeAccept
<1>3. /\ Tail(q) \in Seq(Nat) /\ i \in Nat /\ i \in DOMAIN sk["server"]
      /\ \A k \in DOMAIN Tail(q) : Tail(q)[k] \in DOMAIN sk["server"]
  <2>1. Tail(q) \in Seq(Nat) /\ i = q[1] /\ 1 \in DOMAIN q
    BY <1>2
  <2>2. \A k \in DOMAIN Tail(q) : k + 1 \in DOMAIN q /\ Tail(q)[k] = q[k + 1]
    BY <1>2
  <2> QED
    BY <1>2, <2>1, <2>2
<1>4. n \in Int
  BY <1>2
<1>5. sk' = [sk EXCEPT !["server"][i] = u]
  BY <1>1
<1>6. SockOK("server", t, "dequeue")
  BY <1>1, <1>3 DEF Parts, SocksOK
<1> HIDE DEF n, i, t
<1>7. lsn' \in Listener /\ lsn'.accept_queue = Tail(q)
  BY <1>1, <1>2, <1>3, <1>4 DEF Listener
<1>8. u \in Sock /\ SameRefs(u, t) /\ u.state = "ESTABLISHED"
  BY <1>6 DEF SockOK, Sock, SameRefs, tcp_state
<1>9. a \in App /\ a.pc = "open" /\ a.tsk = i
  BY <1>3 DEF App, WithSock
<1> HIDE DEF u, a
<1>10. SockOK("server", u, a.pc)
  <2>1. SockOK("server", u, "dequeue")
    BY <1>6, <1>8, SockFrame DEF Closing
  <2> QED
    BY <2>1, PcStep
<1>11. a.pc \in WithSock /\ app["server"].pc # "done"
  BY <1>1, <1>9 DEF WithSock
<1>12. net' \in [Host -> Seq(Seg)] /\ UNCHANGED <<main, up>>
  BY <1>1 DEF Parts, Types
<1>13. \A k \in DOMAIN lsn'.accept_queue : lsn'.accept_queue[k] \in DOMAIN sk["server"]
  BY <1>3, <1>7
<1> HIDE DEF q
<1> QED
  BY <1>1, <1>3, <1>5, <1>7, <1>9, <1>10, <1>11, <1>12, <1>13, AppReplaces

LEMMA CloseFinKeeps == ASSUME Parts, NEW h \in Host, CloseFin(h) PROVE Parts'
<1> DEFINE i == app[h].tsk
           t == sk[h][i]
<1>1. app[h].pc = "open" /\ UNCHANGED <<lsn, main, up>>
  BY DEF CloseFin
<1>2. i \in DOMAIN sk[h] /\ SockOK(h, t, "open")
  BY <1>1 DEF Parts, AppOK, SocksOK, WithSock
<1>3. CASE Goto(h, "done") /\ UNCHANGED <<sk, net>>
  <2>1. lsn' \in Listener
    BY <1>1, SameListener
  <2>2. ListenOK'
    <3>1. app'["server"].pc \in BeforeAccept => app["server"].pc \in BeforeAccept
      BY <1>3, Hosts DEF Parts, Types, Goto, BeforeAccept, App
    <3> QED
      BY <1>1, <1>3, <3>1 DEF Parts, ListenOK
  <2>3. "done" \in WithSock /\ app[h].pc \in WithSock /\ app[h].pc # "done"
    BY <1>1 DEF WithSock
  <2> QED
    BY <1>1, <1>3, <2>1, <2>2, <2>3, AppOnly
<1>4. ASSUME NEW pc \in {"FIN_WAIT_1", "LAST_ACK"}, Goto(h, pc),
             sk' = [sk EXCEPT ![h][i] = after_control(t, {TCP_FIN, TCP_ACK})],
             Send(h, <<tcp_send_control_packet(t, {TCP_FIN, TCP_ACK})>>)
      PROVE  Parts'
  <2> DEFINE u == after_control(t, {TCP_FIN, TCP_ACK})
             a == [app[h] EXCEPT !.pc = pc]
  <2>1. pc \in WithSock
    BY <1>4 DEF WithSock
  <2>2. a \in App /\ a.pc = pc /\ a.tsk = i /\ app' = [app EXCEPT ![h] = a]
    BY <1>4, <2>1, GotoType DEF Parts
  <2>3. t \in Sock
    BY <1>2 DEF SockOK
  <2>4. u \in Sock /\ SameRefs(u, t) /\ u.state = t.state
    BY <2>3, AfterControlType
  <2>5. net' \in [Host -> Seq(Seg)]
    <3>1. <<tcp_send_control_packet(t, {TCP_FIN, TCP_ACK})>> \in Out
      BY <2>3, FlagSets, ControlType
    <3> QED
      BY <1>4, <3>1, SendType DEF Parts, Types
  <2>6. sk' = [sk EXCEPT ![h][i] = u]
    BY <1>4
  <2> HIDE DEF u, a, t, i
  <2>7. SockOK(h, u, a.pc)
    <3>1. SockOK(h, u, "open")
      BY <1>2, <2>4, SockFrame
    <3> QED
      BY <3>1, PcStep
  <2>8. a.pc \in WithSock /\ a.tsk \in DOMAIN sk[h] /\ app[h].pc # "done"
    BY <1>1, <1>2, <2>1, <2>2
  <2>9. UNCHANGED <<main, up>> /\ UNCHANGED lsn
    BY <1>1
  <2> QED
    BY <1>2, <2>2, <2>5, <2>6, <2>7, <2>8, <2>9, SameListener, AppReplaces
<1> QED
  BY <1>3, <1>4 DEF CloseFin

LEMMA CloseStateKeeps == ASSUME Parts, NEW h \in Host, CloseState(h) PROVE Parts'
<1> DEFINE i == app[h].tsk
           t == sk[h][i]
           s == app[h].pc
           u == [t EXCEPT !.state = s]
           a == [app[h] EXCEPT !.pc = "done"]
<1>1. /\ s \in {"FIN_WAIT_1", "LAST_ACK"}
      /\ sk' = [sk EXCEPT ![h][i].state = s]
      /\ Goto(h, "done") /\ UNCHANGED <<lsn, main, net, up>>
  BY DEF CloseState
<1>2. i \in DOMAIN sk[h] /\ SockOK(h, t, s)
  BY <1>1 DEF Parts, AppOK, SocksOK, WithSock
<1>3. a \in App /\ a.pc = "done" /\ a.tsk = i /\ app' = [app EXCEPT ![h] = a]
  BY <1>1, GotoType DEF Parts, WithSock
<1>4. sk' = [sk EXCEPT ![h][i] = u]
  BY <1>1
<1>5. net' \in [Host -> Seq(Seg)] /\ UNCHANGED <<main, up>> /\ UNCHANGED lsn
  BY <1>1 DEF Parts, Types
<1>6. app[h].pc # "done" /\ a.pc \in WithSock
  BY <1>1, <1>3 DEF WithSock
<1> HIDE DEF a, i, t
<1>7. s \in tcp_state /\ s # "SYN_RECV" /\ s # "done"
  BY <1>1 DEF tcp_state
<1> HIDE DEF s
<1>8. u \in Sock /\ SameRefs(u, t) /\ u.state = s
  BY <1>2, <1>7 DEF SockOK, Sock, SameRefs
<1> HIDE DEF u
<1>9. SockOK(h, u, a.pc)
  BY <1>2, <1>3, <1>7, <1>8 DEF SockOK, SameRefs, Exact
<1>10. a.tsk \in DOMAIN sk[h]
  BY <1>2, <1>3
<1> QED
  BY <1>2, <1>3, <1>4, <1>5, <1>6, <1>9, <1>10, SameListener, AppReplaces

--------------------------------------------------------------------------------
(* The timer thread, processes and the wire.                                   *)

LEMMA TimerKeeps == ASSUME Parts, NEW h \in Host, tcp_scan_timer_list(h) PROVE Parts'
<1>1. PICK i \in DOMAIN sk[h] :
          /\ sk[h][i].timer = "on"
          /\ sk' = [sk EXCEPT ![h][i].timer = "fired", ![h][i].state = "CLOSED",
                              ![h][i].ref_cnt = IF h = "client" THEN @ - 2 ELSE @ - 1]
  BY DEF tcp_scan_timer_list
<1> DEFINE t == sk[h][i]
           c == IF h = "client" THEN t.ref_cnt - 2 ELSE t.ref_cnt - 1
           u == [t EXCEPT !.timer = "fired", !.state = "CLOSED", !.ref_cnt = c]
<1>2. UNCHANGED <<lsn, app, main, net, up>>
  BY DEF tcp_scan_timer_list
<1>3. SockOK(h, t, app[h].pc) /\ t.timer = "on"
  BY <1>1 DEF Parts, SocksOK
<1>4. sk[h] \in Seq(Sock) /\ sk \in [Host -> Seq(Sock)] /\ t \in Sock
  BY <1>3 DEF Parts, Types, SockOK
<1>5. sk' = [sk EXCEPT ![h][i] = u]
  BY <1>1, <1>4 DEF Sock
<1> HIDE DEF t
<1>6. c \in Int /\ c = IF h = "client" THEN t.ref_cnt - 2 ELSE t.ref_cnt - 1
  <2>1. t.ref_cnt \in Int
    BY ONLY <1>4 DEF Sock
  <2> QED
    BY ONLY <2>1
<1> HIDE DEF c
<1>7. /\ u \in Sock /\ u.timer = "fired" /\ u.state = "CLOSED" /\ u.ref_cnt = c
      /\ u.hashed = t.hashed
  BY <1>4, <1>6 DEF Sock, tcp_state
<1> HIDE DEF u
<1>8. SockOK(h, u, app[h].pc)
  <2>1. Exact(h, u)
    <3>1. t.ref_cnt \in Int
      BY <1>4 DEF Sock
    <3> QED
      BY <1>3, <1>6, <1>7, <3>1 DEF SockOK, Exact
  <2> QED
    BY <1>3, <1>7, <2>1 DEF SockOK, Closing
<1>9. /\ sk' \in [Host -> Seq(Sock)]
      /\ \A g \in Host : DOMAIN sk'[g] = DOMAIN sk[g]
      /\ \A g \in Host : g # h => sk'[g] = sk[g]
      /\ \A j \in DOMAIN sk[h] : sk'[h][j] = IF j = i THEN u ELSE sk[h][j]
  BY <1>4, <1>5, <1>7, ReplaceSock
<1>10. SocksOK'
  <2> SUFFICES ASSUME NEW g \in Host, NEW j \in DOMAIN sk'[g]
               PROVE  SockOK(g, sk'[g][j], app'[g].pc)
    BY DEF SocksOK
  <2>1. app' = app /\ j \in DOMAIN sk[g] /\ SockOK(g, sk[g][j], app[g].pc)
    BY <1>2, <1>9 DEF Parts, SocksOK
  <2> QED
    BY <1>8, <1>9, <2>1
<1>11. \A g \in Host : MainOK(g, main'[g], sk'[g], app'[g].pc)
  <2> TAKE g \in Host
  <2>1. MainOK(g, main[g], sk[g], app[g].pc) /\ main'[g] = main[g] /\ app' = app
    BY <1>2 DEF Parts
  <2>2. CASE g # h
    BY <1>9, <2>1, <2>2
  <2>3. CASE g = h
    BY <1>3, <1>9, <2>1, <2>3 DEF MainOK, t
  <2> QED
    BY <2>2, <2>3
<1>12. ListenOK'
  BY <1>2, <1>9, Hosts DEF Parts, ListenOK
<1>13. AppOK'
  <2>1. app["client"].pc = "connect" => sk'["client"] = sk["client"]
    BY <1>9, Hosts DEF Parts, AppOK
  <2> QED
    BY <1>2, <1>9, <2>1 DEF Parts, AppOK
<1> QED
  BY <1>2, <1>9, <1>10, <1>11, <1>12, <1>13 DEF Parts, Types

LEMMA FirstPcType == ASSUME NEW h \in Host
                     PROVE  /\ FirstPc(h) \in App /\ FirstPc(h).pc \notin WithSock
                            /\ h = "server" => FirstPc(h).pc # "connect"
  BY DEF FirstPc, App, WithSock, BeforeAccept

LEMMA NoLsnType == NoLsn \in Listener /\ NoLsn.accept_queue = <<>> /\ NoLsn.accept_backlog = 0
  BY DEF NoLsn, Listener

LEMMA RestartKeeps == ASSUME Parts, NEW h \in Host, Restart(h) PROVE Parts'
<1>1. /\ up' = [up EXCEPT ![h] = TRUE]
      /\ sk' = [sk EXCEPT ![h] = <<>>]
      /\ app' = [app EXCEPT ![h] = FirstPc(h)]
      /\ main' = [main EXCEPT ![h] = Idle]
      /\ lsn' = IF h = "server" THEN NoLsn ELSE lsn
      /\ UNCHANGED net
  BY DEF Restart
<1>2. Types'
  BY <1>1, FirstPcType, NoLsnType DEF Parts, Types
<1>3. /\ sk'[h] = <<>> /\ app'[h] = FirstPc(h) /\ main'[h] = Idle
      /\ \A g \in Host : g # h => sk'[g] = sk[g] /\ app'[g] = app[g] /\ main'[g] = main[g]
  BY <1>1 DEF Parts, Types
<1>4. SocksOK'
  <2>1. DOMAIN sk'[h] = {}
    BY <1>3
  <2> QED
    BY <1>3, <2>1 DEF Parts, SocksOK
<1>5. \A g \in Host : MainOK(g, main'[g], sk'[g], app'[g].pc)
  <2>1. MainOK(h, Idle, sk'[h], app'[h].pc)
    BY IdleType DEF MainOK
  <2> QED
    BY <1>3, <2>1 DEF Parts
<1>6. ListenOK'
  <2>1. CASE h = "server"
    BY <1>1, <2>1, NoLsnType DEF ListenOK
  <2>2. CASE h # "server"
    BY <1>1, <1>3, <2>2, Hosts DEF Parts, ListenOK
  <2> QED
    BY <2>1, <2>2
<1>7. AppOK'
  BY <1>3, FirstPcType, Hosts DEF Parts, AppOK
<1> QED
  BY <1>2, <1>4, <1>5, <1>6, <1>7 DEF Parts

LEMMA LostKeeps == ASSUME Parts, NEW h \in Host, Lost(h) PROVE Parts'
  BY DEF Lost, Parts, Types, SocksOK, ListenOK, AppOK

LEMMA InitParts == Init => Parts
<1> SUFFICES ASSUME Init PROVE Parts
  OBVIOUS
<1>1. /\ \A h \in Host : sk[h] = <<>> /\ app[h] = FirstPc(h) /\ main[h] = Idle
      /\ lsn = NoLsn
  BY DEF Init
<1>2. Types
  BY FirstPcType, NoLsnType DEF Init, Types
<1>3. SocksOK
  <2>1. \A h \in Host : DOMAIN sk[h] = {}
    BY <1>1
  <2> QED
    BY <2>1 DEF SocksOK
<1>4. \A h \in Host : MainOK(h, main[h], sk[h], app[h].pc)
  BY <1>1, IdleType DEF MainOK
<1>5. ListenOK /\ AppOK
  BY <1>1, FirstPcType, NoLsnType, Hosts DEF ListenOK, AppOK
<1> QED
  BY <1>2, <1>3, <1>4, <1>5 DEF Parts

LEMMA StepParts == Parts /\ [Next]_vars => Parts'
<1> SUFFICES ASSUME Parts, [Next]_vars PROVE Parts'
  OBVIOUS
<1>1. ASSUME NEW h \in Host, Main(h) PROVE Parts'
  BY <1>1, ReceiveKeeps, ProcessKeeps, ListenKeeps DEF Main
<1>2. ASSUME NEW h \in Host, tcp_scan_timer_list(h) \/ Lost(h) \/ Restart(h) PROVE Parts'
  BY <1>2, TimerKeeps, LostKeeps, RestartKeeps
<1>3. CASE tcp_client
  BY <1>3, ConnectKeeps, ConnectedKeeps, CloseFinKeeps, CloseStateKeeps, Hosts DEF tcp_client
<1>4. CASE tcp_server
  BY <1>4, ServerWaits, DequeueKeeps, CloseFinKeeps, CloseStateKeeps, Hosts DEF tcp_server
<1>5. CASE UNCHANGED vars
  BY <1>5 DEF vars, Parts, Types, SocksOK, ListenOK, AppOK
<1> QED
  BY <1>1, <1>2, <1>3, <1>4, <1>5 DEF Next

LEMMA AlwaysParts == Spec => []Parts
  BY InitParts, StepParts, PTL DEF Spec

\* Socks, segments, queues and the places of the threads keep their types, whatever the
\* threads of the two hosts do and whenever a process is killed and started again.
THEOREM AlwaysTyped == Spec => []Types
<1>1. Parts => Types
  BY DEF Parts
<1> QED
  BY <1>1, AlwaysParts, PTL

\* ref_cnt of every sock is the number of tables that hold it (tcp_sock.c:71-74), for every
\* window, all initial sequence numbers and any number of restarts: the TIME_WAIT timer is
\* started at most once for a sock, although tcp_process decides on a state it read before.
THEOREM CountsAreExact == Spec => []RefCountExact
  BY AlwaysParts, PartsMean, PTL

--------------------------------------------------------------------------------
(* Sequence numbers on a circle.                                               *)

LEMMA ModFacts ==
    /\ SEQ_MOD \in Nat /\ SEQ_MOD > 1
    /\ \A x \in 0 .. SEQ_MOD - 1 : x % SEQ_MOD = x
    /\ SEQ_MOD % SEQ_MOD = 0
    /\ (- 1) % SEQ_MOD = SEQ_MOD - 1
    /\ \A x \in Int : x % SEQ_MOD \in 0 .. SEQ_MOD - 1
    /\ SEQ_MOD - 1 >= SEQ_MOD \div 2
<1>0. SEQ_MOD \in Nat /\ SEQ_MOD > 1
  BY SeqModAssumption
<1>1. \A m \in Nat : m > 0 => \A x \in 0 .. m - 1 : x % m = x
  OBVIOUS
<1>2. \A m \in Nat : m > 0 => m % m = 0
  OBVIOUS
<1>3. \A m \in Nat : m > 1 => (- 1) % m = m - 1
  OBVIOUS
<1>4. \A m \in Nat : m > 0 => \A x \in Int : x % m \in 0 .. m - 1
  OBVIOUS
<1>5. \A m \in Nat : m > 1 => m - 1 >= m \div 2
  OBVIOUS
<1>6. \A x \in 0 .. SEQ_MOD - 1 : x % SEQ_MOD = x
  BY <1>0, <1>1
<1>7. SEQ_MOD % SEQ_MOD = 0
  BY <1>0, <1>2
<1>8. (- 1) % SEQ_MOD = SEQ_MOD - 1
  BY <1>0, <1>3
<1>9. \A x \in Int : x % SEQ_MOD \in 0 .. SEQ_MOD - 1
  BY <1>0, <1>4
<1>10. SEQ_MOD - 1 >= SEQ_MOD \div 2
  BY <1>0, <1>5
<1> QED
  BY <1>0, <1>6, <1>7, <1>8, <1>9, <1>10

LEMMA PlusFacts ==
    /\ \A a \in Int, n \in Int : Plus(a, n) \in u32
    /\ \A a \in u32 : Plus(a, 0) = a
    /\ \A a \in u32 : Plus(a, 1) \in u32 /\ Plus(a, 1) # a
    /\ \A a \in u32 : less_than_32b(a, Plus(a, 1))
<1>1. \A a \in Int, n \in Int : Plus(a, n) \in u32
  <2> TAKE a \in Int, n \in Int
  <2> DEFINE x == a + n
  <2>1. x \in Int
    OBVIOUS
  <2>2. Plus(a, n) = x % SEQ_MOD
    BY DEF Plus
  <2> HIDE DEF x
  <2> QED
    BY <2>1, <2>2, ModFacts DEF u32
<1>2. \A a \in u32 : Plus(a, 0) = a
  BY ModFacts DEF Plus, u32
<1>3. ASSUME NEW a \in u32
      PROVE  \/ a + 1 \in 0 .. SEQ_MOD - 1 /\ Plus(a, 1) = a + 1
             \/ a = SEQ_MOD - 1 /\ Plus(a, 1) = 0
  <2>1. CASE a + 1 \in 0 .. SEQ_MOD - 1
    BY <2>1, ModFacts DEF Plus
  <2>2. CASE a = SEQ_MOD - 1
    <3>1. a + 1 = SEQ_MOD
      BY <2>2, ModFacts
    <3> QED
      BY <2>2, <3>1, ModFacts DEF Plus
  <2> QED
    BY <2>1, <2>2, ModFacts DEF u32
<1>4. \A a \in u32 : Plus(a, 1) \in u32 /\ Plus(a, 1) # a
  BY <1>3, ModFacts DEF u32
<1>5. ASSUME NEW a \in u32 PROVE less_than_32b(a, Plus(a, 1))
  <2> DEFINE d == a - Plus(a, 1)
  <2>1. d = - 1 \/ d = SEQ_MOD - 1
    BY <1>3, ModFacts DEF u32
  <2> HIDE DEF d
  <2>2. d % SEQ_MOD = SEQ_MOD - 1
    <3>1. SEQ_MOD - 1 \in 0 .. SEQ_MOD - 1
      BY ModFacts
    <3> QED
      BY <2>1, <3>1, ModFacts
  <2> QED
    BY <2>2, ModFacts DEF d, less_than_32b
<1> QED
  BY <1>1, <1>2, <1>4, <1>5
--------------------------------------------------------------------------------
(* The connection, while no process was restarted.                             *)

\* The segments the host h has still to process, the one its main thread has in hand first.
Pipe(h) == IF main[h].busy THEN <<main[h].cb>> \o net[h] ELSE net[h]

\* An end of the connection: the next number it sends, whether it sent its FIN, and the
\* number it has received up to.
Ends == [n : u32, fin : BOOLEAN, got : Int]
End(h) == [n |-> sk[h][1].snd_nxt, fin |-> FinSent(h), got |-> sk[h][1].rcv_nxt]

\* The number x is where the end s is, or where it was before its FIN.
Near(x, s) == x = s.n \/ (s.fin /\ x \in u32 /\ Plus(x, 1) = s.n)

\* The end r has received all that s will ever send, and both have.
All(s, r) == s.fin /\ r.got = s.n
Done(s, r) == All(s, r) /\ All(r, s)

\* A segment on its way from s to r.  A reset is only sent when both ends are done;
\* any other segment acknowledges the FIN of r only if s has received it.
Acks(s, r, a) == IF r.fin THEN a = r.n => s.got = r.n ELSE a = r.n
SegOK(s, r, m) ==
    IF TCP_RST \in m.flags THEN TCP_SYN \notin m.flags /\ Done(s, r)
    ELSE /\ m.flags \in {{TCP_ACK}, {TCP_FIN, TCP_ACK}}
         /\ Near(seq_end(m), s)
         /\ TCP_FIN \in m.flags => s.fin /\ seq_end(m) = s.n
         /\ Acks(s, r, m.ack)

\* The numbers in the pipe q from s to r never go back: what follows the FIN is after it.
Upto(s, m) == TCP_RST \in m.flags \/ seq_end(m) = s.n
Flow(s, r, q) ==
    /\ Near(r.got, s)
    /\ \A i \in DOMAIN q : SegOK(s, r, q[i])
    /\ \A i, j \in DOMAIN q : i < j /\ Upto(s, q[i]) => Upto(s, q[j])
    /\ r.got = s.n => \A i \in DOMAIN q : Upto(s, q[i])

\* What a state says of the end e that is, was or will be in it, and of its peer f.
StateOK(e, f, state) ==
    /\ state \notin {"SYN_SENT", "LISTEN"}
    /\ state \in {"CLOSED", "TIME_WAIT"} => Done(e, f)
    /\ state \in {"CLOSE_WAIT", "LAST_ACK"} => All(f, e)
    /\ state \in {"FIN_WAIT_1", "LAST_ACK"} => e.fin
    /\ state = "FIN_WAIT_2" => All(e, f)

EndOK(e, f, t, pc) ==
    /\ StateOK(e, f, t.state)
    /\ t.timer # "off" \/ ~ t.hashed => Done(e, f)
    /\ t.state = "SYN_RECV" => pc \in BeforeAccept
    /\ pc \in {"FIN_WAIT_1", "LAST_ACK"} => StateOK(e, f, pc)

HandOK(e, f, m) ==
    m.busy => IF m.tsk = 0 THEN Done(e, f) ELSE StateOK(e, f, m.state)

Linked ==
    /\ \A h \in Host : Len(sk[h]) = 1 /\ sk[h][1].snd_nxt \in u32
    /\ \A h \in Host : EndOK(End(h), End(Peer(h)), sk[h][1], app[h].pc)
    /\ \A h \in Host : HandOK(End(h), End(Peer(h)), main[h])
    /\ \A h \in Host : Flow(End(h), End(Peer(h)), Pipe(Peer(h)))

\* Before that: the client has not called connect; its SYN is on the way, or lost; the
\* child's SYN|ACK is.
Waiting == app["server"].pc \in BeforeAccept /\ lsn.accept_backlog = 0

Unused ==
    /\ app["client"].pc = "connect"
    /\ \A h \in Host : sk[h] = <<>> /\ Pipe(h) = <<>>

Called(t) ==
    /\ t.state = "SYN_SENT" /\ ~ t.wait_connect /\ t.hashed /\ t.timer = "off"
    /\ t.snd_nxt \in u32
Calling ==
    /\ app["client"].pc = "connecting" /\ Len(sk["client"]) = 1 /\ Called(sk["client"][1])

Only(q, flags, end) == q = <<>> \/ (Len(q) = 1 /\ q[1].flags = flags /\ seq_end(q[1]) = end)

SynSent ==
    /\ Calling
    /\ sk["server"] = <<>> /\ Pipe("client") = <<>>
    /\ Only(Pipe("server"), {TCP_SYN}, sk["client"][1].snd_nxt)
    /\ main["server"].busy => main["server"].tsk = 0

SynReceived ==
    /\ Calling
    /\ Len(sk["server"]) = 1 /\ Pipe("server") = <<>>
    /\ LET t == sk["server"][1]
       IN  /\ t.state = "SYN_RECV" /\ t.hashed /\ t.timer = "off"
           /\ t.snd_nxt \in u32 /\ t.rcv_nxt = sk["client"][1].snd_nxt
           /\ Only(Pipe("client"), {TCP_SYN, TCP_ACK}, t.snd_nxt)
    /\ main["client"].busy => main["client"].tsk # 0 /\ main["client"].state = "SYN_SENT"

Opening == Waiting /\ (Unused \/ SynSent \/ SynReceived)

\* The inductive invariant of the connection, on top of Parts.
Conn == restarts \in Nat /\ (restarts = 0 => Linked \/ Opening)

--------------------------------------------------------------------------------
(* What is in the pipes, by the ends alone.                                    *)

\* The pipe loses some of its segments at the front or at the back.
LEMMA FlowLess ==
    ASSUME NEW s, NEW r, NEW q, Flow(s, r, q), NEW p, NEW k \in Int,
           \A i \in DOMAIN p : i \in Int /\ i + k \in DOMAIN q /\ p[i] = q[i + k]
    PROVE  Flow(s, r, p)
<1>1. \A i \in DOMAIN p : SegOK(s, r, p[i])
  BY DEF Flow
<1>2. ASSUME NEW i \in DOMAIN p, NEW j \in DOMAIN p, i < j, Upto(s, p[i])
      PROVE  Upto(s, p[j])
  <2>1. i + k \in DOMAIN q /\ j + k \in DOMAIN q /\ i + k < j + k
    BY <1>2
  <2> QED
    BY <1>2, <2>1 DEF Flow
<1>3. r.got = s.n => \A i \in DOMAIN p : Upto(s, p[i])
  BY DEF Flow
<1> QED
  BY <1>1, <1>2, <1>3 DEF Flow

\* A segment is sent.
LEMMA FlowMore ==
    ASSUME NEW s, NEW r, NEW q \in Seq(Seg), Flow(s, r, q), NEW m \in Seg,
           SegOK(s, r, m), Upto(s, m)
    PROVE  Flow(s, r, q \o <<m>>)
<1> DEFINE p == q \o <<m>>
<1>1. Len(p) = Len(q) + 1 /\ DOMAIN p = 1 .. Len(q) + 1 /\ Len(q) \in Nat /\ DOMAIN q = 1 .. Len(q)
  OBVIOUS
<1>2. \A i \in 1 .. Len(q) : p[i] = q[i]
  OBVIOUS
<1>3. p[Len(q) + 1] = m
  OBVIOUS
<1> HIDE DEF p
<1>4. \A i \in DOMAIN p : (i \in DOMAIN q /\ p[i] = q[i]) \/ (i = Len(q) + 1 /\ p[i] = m)
  BY <1>1, <1>2, <1>3
<1>5. \A i \in DOMAIN p : SegOK(s, r, p[i])
  BY <1>4 DEF Flow
<1>6. ASSUME NEW i \in DOMAIN p, NEW j \in DOMAIN p, i < j, Upto(s, p[i])
      PROVE  Upto(s, p[j])
  <2>1. CASE j = Len(q) + 1
    BY <1>3, <2>1
  <2>2. CASE j # Len(q) + 1
    <3>1. i \in DOMAIN q /\ j \in DOMAIN q /\ p[i] = q[i] /\ p[j] = q[j]
      BY <1>1, <1>2, <1>6, <2>2
    <3> QED
      BY <1>6, <3>1 DEF Flow
  <2> QED
    BY <2>1, <2>2
<1>7. r.got = s.n => \A i \in DOMAIN p : Upto(s, p[i])
  BY <1>4 DEF Flow
<1>8. Flow(s, r, p)
  BY <1>5, <1>6, <1>7 DEF Flow
<1> QED
  BY <1>8 DEF p

\* The end after its FIN.
Closed(e) == [e EXCEPT !.n = Plus(e.n, 1), !.fin = TRUE]

LEMMA ClosedFacts ==
    ASSUME NEW e \in Ends
    PROVE  /\ Closed(e) \in Ends /\ Closed(e).n = Plus(e.n, 1) /\ Closed(e).fin
           /\ Closed(e).got = e.got /\ Closed(e).n # e.n /\ e.n \in u32
<1> DEFINE v == Plus(e.n, 1)
<1>1. e.n \in u32
  BY DEF Ends
<1>2. v \in u32 /\ v # e.n
  BY <1>1, PlusFacts
<1> HIDE DEF v
<1>3. LET c == [e EXCEPT !.n = v, !.fin = TRUE]
      IN  c \in Ends /\ c.n = v /\ c.fin /\ c.got = e.got
  BY <1>2 DEF Ends
<1> QED
  BY <1>1, <1>2, <1>3 DEF Closed, v

LEMMA FlowClose ==
    ASSUME NEW e \in Ends, NEW f \in Ends, ~ e.fin, NEW q
    PROVE  /\ Flow(e, f, q) => Flow(Closed(e), f, q)
           /\ Flow(f, e, q) => Flow(f, Closed(e), q)
<1> DEFINE c == Closed(e)
<1>1. c \in Ends /\ c.n = Plus(e.n, 1) /\ c.fin /\ c.got = e.got /\ c.n # e.n /\ e.n \in u32
  BY ClosedFacts
<1> HIDE DEF c
<1>2. ASSUME Flow(e, f, q) PROVE Flow(c, f, q)
  <2>1. f.got = e.n /\ Near(f.got, c)
    BY <1>1, <1>2 DEF Flow, Near
  <2>2. ASSUME NEW i \in DOMAIN q PROVE SegOK(c, f, q[i]) /\ ~ Upto(c, q[i])
    <3>1. SegOK(e, f, q[i])
      BY <1>2 DEF Flow
    <3>2. TCP_RST \notin q[i].flags /\ seq_end(q[i]) = e.n /\ TCP_FIN \notin q[i].flags
      BY <3>1 DEF SegOK, Done, All, Near
    <3> QED
      BY <1>1, <3>1, <3>2 DEF SegOK, Near, Acks, Upto
  <2> QED
    BY <1>1, <2>1, <2>2 DEF Flow
<1>3. ASSUME Flow(f, e, q) PROVE Flow(f, c, q)
  <2>1. Near(c.got, f)
    BY <1>1, <1>3 DEF Flow
  <2>2. ASSUME NEW i \in DOMAIN q PROVE SegOK(f, c, q[i])
    <3>1. SegOK(f, e, q[i])
      BY <1>3 DEF Flow
    <3>2. TCP_RST \notin q[i].flags /\ q[i].ack = e.n
      BY <3>1 DEF SegOK, Done, All, Acks
    <3> QED
      BY <1>1, <3>1, <3>2 DEF SegOK, Acks
  <2> QED
    BY <1>1, <1>3, <2>1, <2>2 DEF Flow
<1> QED
  BY <1>2, <1>3 DEF c

\* The end after it took a number from its peer.
Took(e, x) == [e EXCEPT !.got = x]

LEMMA TookFacts ==
    ASSUME NEW e \in Ends, NEW x \in Int
    PROVE  /\ Took(e, x) \in Ends /\ Took(e, x).n = e.n /\ Took(e, x).fin = e.fin
           /\ Took(e, x).got = x
  BY DEF Took, Ends

\* Nothing that was complete becomes incomplete.
Grows(e, f, e2, f2) ==
    /\ All(e, f) => All(e2, f2)
    /\ All(f, e) => All(f2, e2)
    /\ e.fin => e2.fin
    /\ f.fin => f2.fin

LEMMA CloseGrows ==
    ASSUME NEW e \in Ends, NEW f \in Ends, ~ e.fin
    PROVE  Grows(e, f, Closed(e), f)
  BY ClosedFacts DEF Grows, All

\* The end e takes the first segment of its pipe.
LEMMA FlowTake ==
    ASSUME NEW e \in Ends, NEW f \in Ends, NEW q, Flow(f, e, q), 1 \in DOMAIN q,
           TCP_RST \notin q[1].flags, NEW x \in Int, x = seq_end(q[1]),
           NEW p, \A i \in DOMAIN p : i \in Int /\ i >= 1 /\ i + 1 \in DOMAIN q /\ p[i] = q[i + 1]
    PROVE  /\ Flow(f, Took(e, x), p)
           /\ Grows(e, f, Took(e, x), f)
           /\ \A b : Flow(e, f, b) => Flow(Took(e, x), f, b)
<1> DEFINE c == Took(e, x)
<1>1. c \in Ends /\ c.n = e.n /\ c.fin = e.fin /\ c.got = x
  BY TookFacts
<1> HIDE DEF c
<1>2. SegOK(f, e, q[1]) /\ Near(x, f)
  BY DEF Flow, SegOK
<1>3. e.got = f.n => x = f.n
  BY DEF Flow, Upto
<1>4. Grows(e, f, c, f) /\ (Done(f, e) => Done(f, c)) /\ (Done(e, f) => Done(c, f))
  BY <1>1, <1>3 DEF Grows, All, Done
<1>5. Flow(f, c, p)
  <2>1. \A i \in DOMAIN p : SegOK(f, c, p[i])
    <3> SUFFICES ASSUME NEW i \in DOMAIN p PROVE SegOK(f, c, p[i])
      OBVIOUS
    <3>1. SegOK(f, e, p[i])
      BY DEF Flow
    <3> QED
      BY <1>1, <1>4, <3>1 DEF SegOK, Acks
  <2>2. ASSUME NEW i \in DOMAIN p, NEW j \in DOMAIN p, i < j, Upto(f, p[i])
        PROVE  Upto(f, p[j])
    <3>1. i + 1 < j + 1 /\ i + 1 \in DOMAIN q /\ j + 1 \in DOMAIN q
      BY <2>2
    <3> QED
      BY <2>2, <3>1 DEF Flow
  <2>3. ASSUME x = f.n, NEW i \in DOMAIN p PROVE Upto(f, p[i])
    <3>1. 1 < i + 1 /\ i + 1 \in DOMAIN q
      OBVIOUS
    <3>2. Upto(f, q[1])
      BY <2>3 DEF Upto
    <3> QED
      BY <3>1, <3>2 DEF Flow
  <2> QED
    BY <1>1, <1>2, <2>1, <2>2, <2>3 DEF Flow
<1>6. ASSUME NEW b, Flow(e, f, b) PROVE Flow(c, f, b)
  <2>1. ASSUME NEW i \in DOMAIN b PROVE SegOK(c, f, b[i])
    <3>1. SegOK(e, f, b[i])
      BY <1>6 DEF Flow
    <3> QED
      BY <1>1, <1>3, <1>4, <3>1 DEF SegOK, Acks, Near
  <2> QED
    BY <1>1, <1>6, <2>1 DEF Flow, Near, Upto
<1> QED
  BY <1>4, <1>5, <1>6 DEF c

--------------------------------------------------------------------------------
(* What is known of the ends stays.                                            *)

LEMMA DoneGrows ==
    ASSUME NEW e, NEW f, NEW e2, NEW f2, Grows(e, f, e2, f2)
    PROVE  /\ Done(e, f) => Done(e2, f2)
           /\ Done(f, e) => Done(f2, e2)
           /\ Grows(f, e, f2, e2)
  BY DEF Grows, Done

LEMMA StateGrows ==
    ASSUME NEW e, NEW f, NEW e2, NEW f2, Grows(e, f, e2, f2), NEW state, StateOK(e, f, state)
    PROVE  StateOK(e2, f2, state)
  BY DoneGrows DEF StateOK, Grows

LEMMA EndGrows ==
    ASSUME NEW e, NEW f, NEW e2, NEW f2, Grows(e, f, e2, f2), NEW t, NEW pc, EndOK(e, f, t, pc)
    PROVE  EndOK(e2, f2, t, pc)
  BY DoneGrows, StateGrows DEF EndOK

LEMMA HandGrows ==
    ASSUME NEW e, NEW f, NEW e2, NEW f2, Grows(e, f, e2, f2), NEW m, HandOK(e, f, m)
    PROVE  HandOK(e2, f2, m)
  BY DoneGrows, StateGrows DEF HandOK

--------------------------------------------------------------------------------
(* The segments that are sent.                                                 *)

LEMMA ControlEnd ==
    ASSUME NEW t, NEW flags, t.snd_nxt \in u32
    PROVE  /\ tcp_send_control_packet(t, flags).flags = flags
           /\ tcp_send_control_packet(t, flags).ack = t.rcv_nxt
           /\ seq_end(tcp_send_control_packet(t, flags)) =
                  IF flags \cap {TCP_SYN, TCP_FIN} # {} THEN Plus(t.snd_nxt, 1) ELSE t.snd_nxt
<1> DEFINE m == tcp_send_control_packet(t, flags)
<1>1. m.flags = flags /\ m.ack = t.rcv_nxt /\ m.seq = t.snd_nxt /\ m.data = <<>>
  BY DEF tcp_send_control_packet, tcp_cb
<1> HIDE DEF m
<1>2. CASE flags \cap {TCP_SYN, TCP_FIN} # {}
  <2>1. Len(m.data) + (IF m.flags \cap {TCP_SYN, TCP_FIN} # {} THEN 1 ELSE 0) = 1
    BY <1>1, <1>2
  <2> QED
    BY <1>1, <1>2, <2>1 DEF seq_end, m
<1>3. CASE flags \cap {TCP_SYN, TCP_FIN} = {}
  <2>1. Len(m.data) + (IF m.flags \cap {TCP_SYN, TCP_FIN} # {} THEN 1 ELSE 0) = 0
    BY <1>1, <1>3
  <2>2. seq_end(m) = t.snd_nxt
    BY <1>1, <2>1, PlusFacts DEF seq_end
  <2> QED
    BY <1>1, <1>3, <2>2 DEF m
<1> QED
  BY <1>2, <1>3

LEMMA AckSent ==
    ASSUME NEW e \in Ends, NEW f \in Ends, Near(e.got, f), NEW t,
           t.snd_nxt = e.n, t.rcv_nxt = e.got
    PROVE  LET m == tcp_send_control_packet(t, {TCP_ACK})
           IN  SegOK(e, f, m) /\ Upto(e, m)
<1> DEFINE m == tcp_send_control_packet(t, {TCP_ACK})
<1>1. {TCP_ACK} \cap {TCP_SYN, TCP_FIN} = {}
  BY DEF TCP_ACK, TCP_SYN, TCP_FIN
<1>2. m.flags = {TCP_ACK} /\ m.ack = e.got /\ seq_end(m) = e.n
  BY ZenonT(60), <1>1, ControlEnd DEF Ends
<1> HIDE DEF m
<1>3. TCP_RST \notin m.flags /\ TCP_FIN \notin m.flags
  BY <1>2 DEF TCP_ACK, TCP_RST, TCP_FIN
<1>4. Acks(e, f, m.ack)
  BY <1>2 DEF Acks, Near
<1>5. SegOK(e, f, m) /\ Upto(e, m)
  BY <1>2, <1>3, <1>4 DEF SegOK, Upto, Near
<1> QED
  BY <1>5 DEF m

LEMMA FinIsSent ==
    ASSUME NEW e \in Ends, NEW f \in Ends, Near(e.got, f), NEW t,
           t.snd_nxt = e.n, t.rcv_nxt = e.got
    PROVE  LET m == tcp_send_control_packet(t, {TCP_FIN, TCP_ACK})
           IN  SegOK(Closed(e), f, m) /\ Upto(Closed(e), m)
<1> DEFINE m == tcp_send_control_packet(t, {TCP_FIN, TCP_ACK})
           c == Closed(e)
<1>1. {TCP_FIN, TCP_ACK} \cap {TCP_SYN, TCP_FIN} # {}
  OBVIOUS
<1>2. c.n = Plus(e.n, 1) /\ c.fin /\ c.got = e.got
  BY ClosedFacts
<1>3. m.flags = {TCP_FIN, TCP_ACK} /\ m.ack = e.got /\ seq_end(m) = c.n
  BY <1>1, <1>2, ControlEnd DEF Ends
<1> HIDE DEF m, c
<1>4. TCP_RST \notin m.flags
  BY <1>3 DEF TCP_ACK, TCP_RST, TCP_FIN
<1>5. Acks(c, f, m.ack)
  BY <1>2, <1>3 DEF Acks, Near
<1>6. SegOK(c, f, m) /\ Upto(c, m)
  BY <1>2, <1>3, <1>4, <1>5 DEF SegOK, Upto, Near
<1> QED
  BY <1>6 DEF m, c

LEMMA ResetSent ==
    ASSUME NEW e, NEW f, Done(e, f), NEW cb
    PROVE  SegOK(e, f, tcp_send_reset(cb)) /\ Upto(e, tcp_send_reset(cb))
  BY DEF SegOK, Upto, tcp_send_reset, tcp_cb, TCP_RST, TCP_SYN, TCP_ACK

--------------------------------------------------------------------------------
(* What tcp_process does to an end.                                            *)

\* The sock u, which was t, agrees with its end e; what it sends may be in the pipe.
Safe(e, f, u) == u.timer # "off" \/ ~ u.hashed => Done(e, f)
Fits(e, f, t, u) ==
    /\ u \in Sock /\ u.snd_nxt = e.n /\ u.rcv_nxt = e.got
    /\ StateOK(e, f, u.state)
    /\ Safe(e, f, u)
    /\ u.state = "SYN_RECV" => t.state = "SYN_RECV"
Sends(e, f, out) ==
    out = <<>> \/ \E m \in Seg : out = <<m>> /\ SegOK(e, f, m) /\ Upto(e, m)
Moves(e, f, t, r) == Fits(e, f, t, r.tsk) /\ Sends(e, f, r.out)

LEMMA ResultMoves ==
    ASSUME NEW e, NEW f, NEW t, NEW u, Fits(e, f, t, u)
    PROVE  /\ Moves(e, f, t, Silent(u))
           /\ \A b : Moves(e, f, t, Result(u, <<>>, b))
           /\ \A cb \in Seg : Done(e, f) => Moves(e, f, t, Result(u, <<tcp_send_reset(cb)>>, FALSE))
<1>1. Moves(e, f, t, Silent(u)) /\ \A b : Moves(e, f, t, Result(u, <<>>, b))
  BY DEF Moves, Silent, Result, Sends
<1>2. ASSUME NEW cb \in Seg, Done(e, f)
      PROVE  Moves(e, f, t, Result(u, <<tcp_send_reset(cb)>>, FALSE))
  <2> DEFINE m == tcp_send_reset(cb)
             o == <<m>>
  <2>1. m \in Seg
    BY SeqEndType DEF tcp_send_reset, tcp_cb, Seg, Flag
  <2>2. SegOK(e, f, m) /\ Upto(e, m)
    BY <1>2, ResetSent
  <2> HIDE DEF m
  <2>3. Sends(e, f, o)
    BY <2>1, <2>2 DEF Sends
  <2> HIDE DEF o
  <2>4. Moves(e, f, t, Result(u, o, FALSE))
    BY <2>3 DEF Moves, Result
  <2> QED
    BY <2>4 DEF o, m
<1> QED
  BY <1>1, <1>2

LEMMA AnswerMoves ==
    ASSUME NEW e \in Ends, NEW f \in Ends, Near(e.got, f), NEW t, NEW u, Fits(e, f, t, u)
    PROVE  Moves(e, f, t, Answer(u, {TCP_ACK}))
<1> DEFINE m == tcp_send_control_packet(u, {TCP_ACK})
           w == after_control(u, {TCP_ACK})
<1>0. u \in Sock /\ u.snd_nxt = e.n /\ u.rcv_nxt = e.got
  BY DEF Fits
<1>1. w = u
  <2>1. {TCP_ACK} \cap {TCP_SYN, TCP_FIN} = {}
    BY DEF TCP_ACK, TCP_SYN, TCP_FIN
  <2>2. w = [u EXCEPT !.snd_nxt = u.snd_nxt]
    BY <2>1 DEF after_control
  <2> QED
    BY <1>0, <2>2 DEF Sock
<1>2. m \in Seg
  BY <1>0, FlagSets DEF tcp_send_control_packet, tcp_cb, Seg, Sock
<1>3. SegOK(e, f, m) /\ Upto(e, m)
  BY <1>0, AckSent
<1>4. Answer(u, {TCP_ACK}) = Result(u, <<m>>, FALSE)
  BY <1>1 DEF Answer
<1> HIDE DEF m, w
<1>5. Sends(e, f, <<m>>)
  BY <1>2, <1>3 DEF Sends
<1> QED
  BY <1>4, <1>5 DEF Moves, Result

\* Another state for the same sock.
LEMMA FitsSet ==
    ASSUME NEW e, NEW f, NEW t, NEW u, Fits(e, f, t, u), NEW s \in tcp_state \ {"SYN_RECV"},
           StateOK(e, f, s)
    PROVE  Fits(e, f, t, Set(u, s))
<1>1. u \in Sock
  BY DEF Fits
<1>2. /\ Set(u, s) \in Sock /\ Set(u, s).state = s /\ Set(u, s).timer = u.timer
      /\ Set(u, s).hashed = u.hashed /\ Set(u, s).snd_nxt = u.snd_nxt
      /\ Set(u, s).rcv_nxt = u.rcv_nxt
  BY <1>1 DEF Set, Sock
<1> QED
  BY <1>2 DEF Fits, Safe

LEMMA FitsTimer ==
    ASSUME NEW e, NEW f, NEW t, NEW u, Fits(e, f, t, u), Done(e, f)
    PROVE  Fits(e, f, t, tcp_set_timewait_timer(u)) /\ Fits(e, f, t, tcp_unhash(u))
<1>1. u \in Sock /\ u.ref_cnt + 1 \in Int /\ u.ref_cnt - 1 \in Int
  BY DEF Fits, Sock
<1>2. ASSUME NEW c \in Int PROVE Fits(e, f, t, [u EXCEPT !.timer = "on", !.ref_cnt = c])
  <2> DEFINE w == [u EXCEPT !.timer = "on", !.ref_cnt = c]
  <2>1. w \in Sock /\ w.state = u.state /\ w.snd_nxt = u.snd_nxt /\ w.rcv_nxt = u.rcv_nxt
    BY <1>1 DEF Sock
  <2> HIDE DEF w
  <2>2. Fits(e, f, t, w)
    BY <2>1 DEF Fits, Safe
  <2> QED
    BY <2>2 DEF w
<1>3. ASSUME NEW c \in Int PROVE Fits(e, f, t, [u EXCEPT !.hashed = FALSE, !.ref_cnt = c])
  <2> DEFINE w == [u EXCEPT !.hashed = FALSE, !.ref_cnt = c]
  <2>1. w \in Sock /\ w.state = u.state /\ w.snd_nxt = u.snd_nxt /\ w.rcv_nxt = u.rcv_nxt
    BY <1>1 DEF Sock
  <2> HIDE DEF w
  <2>2. Fits(e, f, t, w)
    BY <2>1 DEF Fits, Safe
  <2> QED
    BY <2>2 DEF w
<1>4. Fits(e, f, t, tcp_set_timewait_timer(u))
  <2> DEFINE c == u.ref_cnt + 1
  <2>1. tcp_set_timewait_timer(u) = [u EXCEPT !.timer = "on", !.ref_cnt = c]
    BY DEF tcp_set_timewait_timer
  <2>2. c \in Int
    BY <1>1
  <2> HIDE DEF c
  <2> QED
    BY <1>2, <2>1, <2>2
<1>5. Fits(e, f, t, tcp_unhash(u))
  <2> DEFINE c == u.ref_cnt - 1
  <2>1. tcp_unhash(u) = IF u.hashed THEN [u EXCEPT !.hashed = FALSE, !.ref_cnt = c] ELSE u
    BY DEF tcp_unhash
  <2>2. c \in Int
    BY <1>1
  <2> HIDE DEF c
  <2> QED
    BY <1>3, <2>1, <2>2
<1> QED
  BY <1>4, <1>5

\* The segment cb from f to e is acknowledged.  An acknowledgement of the FIN of e says
\* that f has it; a FIN completes what e has.
LEMMA AckMoves ==
    ASSUME NEW e \in Ends, NEW f \in Ends, NEW c \in Ends, NEW t, Fits(e, f, t, t),
           NEW cb \in Seg, SegOK(f, e, cb), TCP_RST \notin cb.flags,
           NEW state \in tcp_state, StateOK(e, f, state),
           c = Took(e, seq_end(cb)), Grows(e, f, c, f)
    PROVE  Moves(c, f, t, ProcessAck(t, state, cb))
<1> DEFINE v == seq_end(cb)
           a == cb.ack
           u == [t EXCEPT !.snd_una = a, !.rcv_nxt = v]
           r == ProcessAck(t, state, cb)
<1>1. v \in Int /\ a \in Int
  BY SeqEndType DEF Seg
<1>2. c.n = e.n /\ c.fin = e.fin /\ c.got = v
  BY <1>1, TookFacts
<1>3. AckCase(u, r, state, cb)
  BY AckCases
<1>4. t \in Sock /\ t.snd_nxt = e.n
  BY DEF Fits
<1>5. Near(c.got, f) /\ (TCP_FIN \in cb.flags => f.fin /\ c.got = f.n) /\ Acks(f, e, a)
  BY <1>2 DEF SegOK
<1> HIDE DEF v, a, r
<1>6. /\ u \in Sock /\ u.snd_nxt = e.n /\ u.rcv_nxt = v /\ u.state = t.state /\ u.timer = t.timer
      /\ u.hashed = t.hashed
  BY <1>1, <1>4 DEF Sock
<1> HIDE DEF u
<1>7. StateOK(c, f, t.state) /\ StateOK(c, f, state) /\ (Done(e, f) => Done(c, f))
  BY StateGrows, DoneGrows DEF Fits
<1>8. Fits(c, f, t, u)
  BY <1>2, <1>6, <1>7 DEF Fits, Safe
<1>9. /\ "FIN_WAIT_2" \in tcp_state \ {"SYN_RECV"} /\ "CLOSE_WAIT" \in tcp_state \ {"SYN_RECV"}
      /\ "CLOSED" \in tcp_state \ {"SYN_RECV"} /\ "TIME_WAIT" \in tcp_state \ {"SYN_RECV"}
  BY DEF tcp_state
<1>10. TCP_FIN \in cb.flags => All(f, c)
  BY <1>5 DEF All
<1>11. ASSUME e.fin, cb.ack = u.snd_nxt PROVE All(c, f)
  BY <1>2, <1>5, <1>6, <1>11 DEF All, Acks, a
<1>12. CASE r = Result(u, <<>>, TRUE)
  BY <1>8, <1>12, ResultMoves DEF r
<1>13. CASE r = Silent(Set(u, "FIN_WAIT_2")) /\ state = "FIN_WAIT_1" /\ cb.ack = u.snd_nxt
  <2>1. StateOK(c, f, "FIN_WAIT_2")
    BY <1>11, <1>13 DEF StateOK
  <2>2. Fits(c, f, t, Set(u, "FIN_WAIT_2"))
    BY <1>8, <1>9, <2>1, FitsSet
  <2> QED
    BY <1>13, <2>2, ResultMoves DEF r
<1>14. CASE /\ r = Answer(tcp_set_timewait_timer(Set(u, "TIME_WAIT")), {TCP_ACK})
            /\ state = "FIN_WAIT_2" /\ TCP_FIN \in cb.flags
  <2>1. Done(c, f) /\ StateOK(c, f, "TIME_WAIT")
    BY <1>7, <1>10, <1>14 DEF StateOK, Done
  <2>2. Fits(c, f, t, Set(u, "TIME_WAIT"))
    BY <1>8, <1>9, <2>1, FitsSet
  <2>3. Fits(c, f, t, tcp_set_timewait_timer(Set(u, "TIME_WAIT")))
    BY <2>1, <2>2, FitsTimer
  <2> QED
    BY <1>5, <1>14, <2>3, AnswerMoves DEF r
<1>15. CASE r = Answer(Set(u, "CLOSE_WAIT"), {TCP_ACK}) /\ TCP_FIN \in cb.flags
  <2>1. StateOK(c, f, "CLOSE_WAIT")
    BY <1>10, <1>15 DEF StateOK
  <2>2. Fits(c, f, t, Set(u, "CLOSE_WAIT"))
    BY <1>8, <1>9, <2>1, FitsSet
  <2> QED
    BY <1>5, <1>15, <2>2, AnswerMoves DEF r
<1>16. CASE r = Silent(Set(u, "CLOSED")) /\ state = "LAST_ACK" /\ cb.ack = u.snd_nxt
  <2>1. e.fin /\ All(f, c)
    BY <1>7, <1>16 DEF StateOK
  <2>2. StateOK(c, f, "CLOSED")
    BY <1>11, <1>16, <2>1 DEF StateOK, Done
  <2>3. Fits(c, f, t, Set(u, "CLOSED"))
    BY <1>8, <1>9, <2>2, FitsSet
  <2> QED
    BY <1>16, <2>3, ResultMoves DEF r
<1>17. CASE r = Answer(u, {TCP_ACK})
  BY <1>5, <1>8, <1>17, AnswerMoves DEF r
<1>18. CASE r = Silent(u)
  BY <1>8, <1>18, ResultMoves DEF r
<1> QED
  BY <1>3, <1>12, <1>13, <1>14, <1>15, <1>16, <1>17, <1>18 DEF AckCase

\* tcp_process on a connection that both ends have opened.
LEMMA ProcessMoves ==
    ASSUME NEW e \in Ends, NEW f \in Ends, NEW c \in Ends, NEW t, Fits(e, f, t, t),
           NEW cb \in Seg, SegOK(f, e, cb), NEW state \in tcp_state, StateOK(e, f, state),
           c = Took(e, seq_end(cb)), TCP_RST \notin cb.flags => Grows(e, f, c, f)
    PROVE  LET r == tcp_process(t, state, cb)
           IN  Moves(e, f, t, r) \/ (TCP_RST \notin cb.flags /\ Moves(c, f, t, r))
<1> DEFINE r == tcp_process(t, state, cb)
<1>1. \/ state = "CLOSED" /\ r = Result(t, <<tcp_send_reset(cb)>>, FALSE)
      \/ r = Silent(t)
      \/ TCP_RST \in cb.flags /\ r = Silent(tcp_unhash(Set(t, "CLOSED")))
      \/ TCP_RST \notin cb.flags /\ TCP_SYN \in cb.flags
      \/ TCP_RST \notin cb.flags /\ TCP_ACK \notin cb.flags
      \/ TCP_RST \notin cb.flags /\ r = ProcessAck(t, state, cb)
  BY DEF tcp_process, StateOK
<1> HIDE DEF r
<1>2. TCP_RST \notin cb.flags => TCP_SYN \notin cb.flags /\ TCP_ACK \in cb.flags
  BY DEF SegOK, TCP_SYN, TCP_ACK, TCP_FIN
<1>3. CASE state = "CLOSED" /\ r = Result(t, <<tcp_send_reset(cb)>>, FALSE)
  BY <1>3, ResultMoves DEF StateOK, r
<1>4. CASE r = Silent(t)
  BY <1>4, ResultMoves DEF r
<1>5. CASE TCP_RST \in cb.flags /\ r = Silent(tcp_unhash(Set(t, "CLOSED")))
  <2>1. Done(e, f) /\ StateOK(e, f, "CLOSED") /\ "CLOSED" \in tcp_state \ {"SYN_RECV"}
    BY <1>5 DEF SegOK, StateOK, Done, tcp_state
  <2>2. Fits(e, f, t, Set(t, "CLOSED"))
    BY <2>1, FitsSet
  <2>3. Fits(e, f, t, tcp_unhash(Set(t, "CLOSED")))
    BY <2>1, <2>2, FitsTimer
  <2> QED
    BY <1>5, <2>3, ResultMoves DEF r
<1>6. CASE TCP_RST \notin cb.flags /\ r = ProcessAck(t, state, cb)
  BY <1>6, AckMoves DEF r
<1> QED
  BY <1>1, <1>2, <1>3, <1>4, <1>5, <1>6 DEF r

--------------------------------------------------------------------------------
(* The pipes.                                                                  *)

\* p is q without its first element.
Rest(p, q) == \A i \in DOMAIN p : i \in Int /\ i >= 1 /\ i + 1 \in DOMAIN q /\ p[i] = q[i + 1]

LEMMA ConsFacts ==
    ASSUME NEW S, NEW m \in S, NEW q \in Seq(S)
    PROVE  LET p == <<m>> \o q
           IN  p \in Seq(S) /\ 1 \in DOMAIN p /\ p[1] = m /\ Rest(q, p)
<1> DEFINE p == <<m>> \o q
<1>1. <<m>> \in Seq(S) /\ Len(<<m>>) = 1 /\ <<m>>[1] = m
  OBVIOUS
<1>2. p \in Seq(S) /\ Len(p) = 1 + Len(q) /\ DOMAIN p = 1 .. Len(p) /\ Len(q) \in Nat
  BY <1>1
<1>3. p[1] = m
  OBVIOUS
<1>4. ASSUME NEW i \in DOMAIN q PROVE i \in Int /\ i >= 1 /\ i + 1 \in DOMAIN p /\ q[i] = p[i + 1]
  OBVIOUS
<1> QED
  BY <1>2, <1>3, <1>4 DEF Rest

LEMMA TailFacts ==
    ASSUME NEW S, NEW q \in Seq(S), q # <<>>
    PROVE  /\ Tail(q) \in Seq(S) /\ Head(q) \in S /\ q[1] = Head(q) /\ Rest(Tail(q), q)
           /\ <<Head(q)>> \o Tail(q) = q
<1>1. Len(q) \in Nat /\ Len(q) > 0 /\ Tail(q) \in Seq(S) /\ Len(Tail(q)) = Len(q) - 1
  OBVIOUS
<1>2. ASSUME NEW i \in DOMAIN Tail(q)
      PROVE  i \in Int /\ i >= 1 /\ i + 1 \in DOMAIN q /\ Tail(q)[i] = q[i + 1]
  BY <1>1
<1>3. q[1] = Head(q) /\ Head(q) \in S
  BY <1>1
<1>4. <<Head(q)>> \o Tail(q) = q
  BY HeadTailProperties
<1> QED
  BY <1>1, <1>2, <1>3, <1>4 DEF Rest

LEMMA PipeType == ASSUME Types, NEW h \in Host PROVE Pipe(h) \in Seq(Seg) /\ net[h] \in Seq(Seg)
<1>1. net[h] \in Seq(Seg)
  BY DEF Types
<1>2. main[h].busy => main[h].cb \in Seg
  BY IdleType DEF Types, Busy
<1> QED
  BY <1>1, <1>2, ConsFacts DEF Pipe

LEMMA PipeHand ==
    ASSUME Types, NEW h \in Host, main[h].busy
    PROVE  /\ 1 \in DOMAIN Pipe(h) /\ Pipe(h)[1] = main[h].cb /\ Rest(net[h], Pipe(h))
           /\ main[h].cb \in Seg
<1>1. net[h] \in Seq(Seg) /\ main[h].cb \in Seg
  BY IdleType DEF Types, Busy
<1> QED
  BY <1>1, ConsFacts DEF Pipe

\* A host whose main thread and wire stay has the same pipe.
LEMMA PipeSame ==
    ASSUME NEW h \in Host, main'[h] = main[h], net'[h] = net[h]
    PROVE  Pipe(h)' = Pipe(h)
  BY DEF Pipe

LEMMA FlowRest ==
    ASSUME NEW s, NEW r, NEW p, NEW q, Flow(s, r, q), Rest(p, q)
    PROVE  Flow(s, r, p)
<1> DEFINE k == 1
<1>1. k \in Int /\ \A i \in DOMAIN p : i \in Int /\ i + k \in DOMAIN q /\ p[i] = q[i + k]
  BY DEF Rest
<1> HIDE DEF k
<1> QED
  BY <1>1, FlowLess

\* What a step sends goes to the end of the other pipe.
LEMMA PipeSend ==
    ASSUME Types, NEW h \in Host, NEW p \in Host, p = Peer(h), NEW out \in Out, Send(h, out),
           main'[p] = main[p]
    PROVE  Pipe(p)' = Pipe(p) \o out /\ net'[h] = net[h]
<1>1. net \in [Host -> Seq(Seg)] /\ net[p] \in Seq(Seg) /\ p # h
  BY Hosts DEF Types
<1>2. out \in Seq(Seg)
  BY OutSeq
<1>3. net'[p] = net[p] \o out /\ net'[h] = net[h]
  BY <1>1 DEF Send
<1>4. CASE main[p].busy
  <2>1. main[p].cb \in Seg
    BY <1>4, PipeHand
  <2>2. <<main[p].cb>> \in Seq(Seg)
    BY <2>1
  <2>3. <<main[p].cb>> \o (net[p] \o out) = (<<main[p].cb>> \o net[p]) \o out
    BY <1>1, <1>2, <2>2, ConcatAssociative
  <2> QED
    BY <1>3, <1>4, <2>3 DEF Pipe
<1>5. CASE ~ main[p].busy
  BY <1>3, <1>5 DEF Pipe
<1> QED
  BY <1>3, <1>4, <1>5

LEMMA FlowSends ==
    ASSUME NEW s, NEW r, NEW q \in Seq(Seg), Flow(s, r, q), NEW out, Sends(s, r, out)
    PROVE  Flow(s, r, q \o out)
<1>1. CASE out = <<>>
  <2>1. q \o out = q
    BY <1>1, ConcatEmptySeq
  <2> QED
    BY <2>1
<1>2. ASSUME NEW m \in Seg, out = <<m>>, SegOK(s, r, m), Upto(s, m) PROVE Flow(s, r, q \o out)
  BY <1>2, FlowMore
<1> QED
  BY <1>1, <1>2 DEF Sends

--------------------------------------------------------------------------------
(* A connection that both ends have opened.                                    *)

LEMMA LinkedFacts ==
    ASSUME Parts, Linked, NEW h \in Host
    PROVE  /\ sk[h] \in Seq(Sock) /\ Len(sk[h]) = 1 /\ DOMAIN sk[h] = {1} /\ sk[h][1] \in Sock
           /\ End(h) \in Ends /\ End(h).n = sk[h][1].snd_nxt /\ End(h).got = sk[h][1].rcv_nxt
           /\ End(h).fin = FinSent(h)
           /\ StateOK(End(h), End(Peer(h)), sk[h][1].state)
           /\ Near(End(h).got, End(Peer(h)))
           /\ Fits(End(h), End(Peer(h)), sk[h][1], sk[h][1])
<1>1. sk[h] \in Seq(Sock) /\ Len(sk[h]) = 1 /\ sk[h][1].snd_nxt \in u32
  BY DEF Parts, Types, Linked
<1>2. DOMAIN sk[h] = {1} /\ sk[h][1] \in Sock
  BY <1>1
<1>3. sk[h][1].rcv_nxt \in Int /\ FinSent(h) \in BOOLEAN
  BY <1>2 DEF Sock, FinSent
<1>4. End(h).n = sk[h][1].snd_nxt /\ End(h).got = sk[h][1].rcv_nxt /\ End(h).fin = FinSent(h)
  BY DEF End
<1>5. End(h) \in Ends
  BY <1>1, <1>3 DEF End, Ends
<1>6. EndOK(End(h), End(Peer(h)), sk[h][1], app[h].pc)
  BY DEF Linked
<1>7. Near(End(h).got, End(Peer(h)))
  <2>1. Peer(h) \in Host /\ Peer(Peer(h)) = h
    BY DEF Host, Peer
  <2>2. Flow(End(Peer(h)), End(h), Pipe(h))
    BY <2>1 DEF Linked
  <2> QED
    BY <2>2 DEF Flow
<1> QED
  BY <1>1, <1>2, <1>4, <1>5, <1>6, <1>7 DEF EndOK, Fits, Safe

\* A step of h on a connection, from what it does to the ends, the hands and the pipes.
LEMMA LinkedNext ==
    ASSUME NEW h \in Host, NEW p \in Host, p = Peer(h), NEW e, NEW f,
           Len(sk'[h]) = 1, Len(sk'[p]) = 1, sk'[h][1].snd_nxt \in u32, sk'[p][1].snd_nxt \in u32,
           End(h)' = e, End(p)' = f,
           EndOK(e, f, sk'[h][1], app'[h].pc), EndOK(f, e, sk'[p][1], app'[p].pc),
           HandOK(e, f, main'[h]), HandOK(f, e, main'[p]),
           Flow(e, f, Pipe(p)'), Flow(f, e, Pipe(h)')
    PROVE  Linked'
<1>1. Peer(p) = h /\ \A g \in Host : g = h \/ g = p
  BY DEF Host, Peer
<1>2. /\ \A g \in Host : Len(sk'[g]) = 1 /\ sk'[g][1].snd_nxt \in u32
      /\ \A g \in Host : EndOK(End(g)', End(Peer(g))', sk'[g][1], app'[g].pc)
      /\ \A g \in Host : HandOK(End(g)', End(Peer(g))', main'[g])
      /\ \A g \in Host : Flow(End(g)', End(Peer(g))', Pipe(Peer(g))')
  BY <1>1
<1> QED
  BY <1>2 DEF Linked

\* ... when it leaves both ends where they are.
LEMMA LinkedStays ==
    ASSUME Linked, \A g \in Host : Len(sk'[g]) = 1 /\ End(g)' = End(g),
           \A g \in Host : EndOK(End(g), End(Peer(g)), sk'[g][1], app'[g].pc),
           \A g \in Host : HandOK(End(g), End(Peer(g)), main'[g]),
           \A g \in Host : Flow(End(g), End(Peer(g)), Pipe(Peer(g))')
    PROVE  Linked'
<1>1. ASSUME NEW g \in Host PROVE sk'[g][1].snd_nxt \in u32
  <2>1. End(g).n = sk[g][1].snd_nxt /\ (End(g)').n = sk'[g][1].snd_nxt
    BY DEF End
  <2> QED
    BY <2>1 DEF Linked
<1>2. "client" \in Host /\ "server" \in Host /\ Peer("client") = "server" /\ Peer("server") = "client"
  BY DEF Host, Peer
<1> QED
  BY <1>1, <1>2, LinkedNext

LEMMA EndSame ==
    ASSUME NEW g \in Host, sk'[g][1].snd_nxt = sk[g][1].snd_nxt,
           sk'[g][1].rcv_nxt = sk[g][1].rcv_nxt, FinSent(g)' = FinSent(g)
    PROVE  End(g)' = End(g)
  BY DEF End

\* The sock the main thread finds: the connection's, or the listening one once the
\* connection's has left the table.
LEMMA LinkedLookup ==
    ASSUME Parts, Linked, NEW h \in Host
    PROVE  \/ tcp_sock_lookup(h) = 1
           \/ tcp_sock_lookup(h) = 0 /\ Done(End(h), End(Peer(h)))
           \/ tcp_sock_lookup(h) = NULL
<1>1. DOMAIN sk[h] = {1} /\ Fits(End(h), End(Peer(h)), sk[h][1], sk[h][1])
  BY LinkedFacts
<1>2. CASE sk[h][1].hashed
  <2>1. InTable(h) = {1}
    BY <1>1, <1>2 DEF InTable
  <2> QED
    BY <2>1 DEF tcp_sock_lookup
<1>3. CASE ~ sk[h][1].hashed
  <2>1. InTable(h) = {} /\ Done(End(h), End(Peer(h)))
    BY <1>1, <1>3 DEF InTable, Fits, Safe
  <2> QED
    BY <2>1 DEF tcp_sock_lookup
<1> QED
  BY <1>2, <1>3

LEMMA LinkedReceive == ASSUME Parts, Linked, NEW h \in Host, Receive(h) PROVE Linked'
<1> DEFINE i == tcp_sock_lookup(h)
           p == Peer(h)
<1>1. UNCHANGED <<sk, app>> /\ net[h] # <<>> /\ ~ main[h].busy
  BY DEF Receive
<1>2. p \in Host /\ p # h /\ Types /\ net \in [Host -> Seq(Seg)] /\ main \in [Host -> {Idle} \cup Busy]
  BY Hosts DEF Parts, Types
<1>3. net'[h] = Tail(net[h]) /\ net'[p] = net[p]
  BY <1>2 DEF Receive
<1>4. /\ \A g \in Host : Len(sk'[g]) = 1 /\ End(g)' = End(g)
      /\ \A g \in Host : EndOK(End(g), End(Peer(g)), sk'[g][1], app'[g].pc)
  BY <1>1, EndSame DEF Linked, FinSent
<1>5. net[h] \in Seq(Seg) /\ Pipe(h) = net[h] /\ Rest(Tail(net[h]), net[h])
  BY <1>1, <1>2, TailFacts DEF Pipe
<1>6. \/ main' = main
      \/ /\ i # NULL
         /\ main' = [main EXCEPT ![h] =
                [busy |-> TRUE, cb |-> Head(net[h]), tsk |-> i,
                 state |-> IF i = 0 THEN "LISTEN" ELSE sk[h][i].state]]
  BY DEF Receive
<1>7. i = 1 \/ (i = 0 /\ Done(End(h), End(Peer(h)))) \/ i = NULL
  BY LinkedLookup
<1>8. StateOK(End(h), End(p), sk[h][1].state)
  BY LinkedFacts
<1> HIDE DEF i
<1>9. CASE main' = main
  <2>1. Pipe(p)' = Pipe(p) /\ Pipe(h)' = Tail(net[h])
    BY <1>1, <1>2, <1>3, <1>9, PipeSame DEF Pipe
  <2>2. \A g \in Host : Flow(End(g), End(Peer(g)), Pipe(Peer(g))')
    <3> TAKE g \in Host
    <3>1. Flow(End(g), End(Peer(g)), Pipe(Peer(g)))
      BY DEF Linked
    <3>2. Peer(g) = h \/ Peer(g) = p
      BY DEF Host, Peer
    <3> QED
      BY <1>5, <2>1, <3>1, <3>2, FlowRest
  <2> QED
    BY <1>4, <1>9, <2>2, LinkedStays DEF Linked
<1>10. CASE /\ i # NULL
            /\ main' = [main EXCEPT ![h] =
                   [busy |-> TRUE, cb |-> Head(net[h]), tsk |-> i,
                    state |-> IF i = 0 THEN "LISTEN" ELSE sk[h][i].state]]
  <2>1. /\ main'[p] = main[p] /\ main'[h].busy /\ main'[h].cb = Head(net[h]) /\ main'[h].tsk = i
        /\ i # 0 => main'[h].state = sk[h][i].state
    BY <1>2, <1>10
  <2>2. <<Head(net[h])>> \o Tail(net[h]) = net[h]
    BY <1>1, <1>5, TailFacts
  <2>3. Pipe(p)' = Pipe(p) /\ Pipe(h)' = Pipe(h)
    BY <1>2, <1>3, <1>5, <2>1, <2>2, PipeSame DEF Pipe
  <2>4. \A g \in Host : Flow(End(g), End(Peer(g)), Pipe(Peer(g))')
    <3> TAKE g \in Host
    <3>1. Flow(End(g), End(Peer(g)), Pipe(Peer(g)))
      BY DEF Linked
    <3>2. Peer(g) = h \/ Peer(g) = p
      BY DEF Host, Peer
    <3> QED
      BY <2>3, <3>1, <3>2
  <2>5. HandOK(End(h), End(p), main'[h])
    BY <1>7, <1>8, <1>10, <2>1 DEF HandOK
  <2>6. \A g \in Host : HandOK(End(g), End(Peer(g)), main'[g])
    <3> TAKE g \in Host
    <3>1. g = h \/ g = p
      BY DEF Host, Peer
    <3> QED
      BY <2>1, <2>5, <3>1 DEF Linked
  <2> QED
    BY <1>4, <2>4, <2>6, LinkedStays
<1> QED
  BY <1>6, <1>9, <1>10

LEMMA LenOne == ASSUME NEW S, NEW s \in Seq(S), DOMAIN s = {1} PROVE Len(s) = 1
<1>1. Len(s) \in Nat /\ DOMAIN s = 1 .. Len(s)
  BY LenProperties
<1>2. 1 \in 1 .. Len(s)
  BY <1>1
<1>3. Len(s) \in 1 .. Len(s)
  BY <1>1, <1>2
<1> QED
  BY <1>1, <1>3

\* The end of h becomes e.
LEMMA EndIs ==
    ASSUME NEW h \in Host, NEW e \in Ends, sk'[h][1].snd_nxt = e.n, sk'[h][1].rcv_nxt = e.got,
           FinSent(h)' = e.fin
    PROVE  End(h)' = e
  BY DEF End, Ends

\* The sock of h and what is sent agree with the end c that h moves to.
LEMMA LinkedMove ==
    ASSUME Parts, Linked, NEW h \in Host, NEW p \in Host, p = Peer(h), NEW c \in Ends, NEW r,
           c.fin = FinSent(h), Moves(c, End(p), sk[h][1], r), Grows(End(h), End(p), c, End(p)),
           Flow(End(p), c, net[h]), Flow(c, End(p), Pipe(p)),
           sk' = [sk EXCEPT ![h][1] = r.tsk], Send(h, r.out),
           main' = [main EXCEPT ![h] = Idle], app' = app
    PROVE  Linked'
<1> DEFINE f == End(p)
           u == r.tsk
<1>1. /\ Fits(c, f, sk[h][1], u) /\ Sends(c, f, r.out) /\ u \in Sock
      /\ u.snd_nxt = c.n /\ u.rcv_nxt = c.got
  BY DEF Moves, Fits
<1>2. r.out \in Out
  BY <1>1 DEF Sends, Out
<1>3. /\ Types /\ p # h /\ main \in [Host -> {Idle} \cup Busy] /\ DOMAIN sk[h] = {1}
      /\ sk \in [Host -> Seq(Sock)] /\ Len(sk[h]) = 1 /\ Len(sk[p]) = 1 /\ sk[p][1].snd_nxt \in u32
  BY LinkedFacts, Hosts DEF Parts, Types, Linked
<1> HIDE DEF u
<1>4. /\ sk' \in [Host -> Seq(Sock)] /\ sk'[p] = sk[p] /\ sk'[h][1] = u /\ DOMAIN sk'[h] = {1}
  <2>1. 1 \in DOMAIN sk[h] /\ sk' = [sk EXCEPT ![h][1] = u]
    BY <1>3 DEF u
  <2> QED
    BY <1>1, <1>3, <2>1, ReplaceSock
<1>5. Len(sk'[h]) = 1
  <2>1. sk'[h] \in Seq(Sock)
    BY <1>4
  <2> QED
    BY <1>4, <2>1, LenOne
<1>6. main'[p] = main[p] /\ main'[h] = Idle /\ ~ Idle.busy
  BY <1>3, IdleType
<1>7. Pipe(p)' = Pipe(p) \o r.out /\ net'[h] = net[h]
  BY <1>2, <1>3, <1>6, PipeSend
<1>8. Pipe(h)' = net[h]
  BY <1>6, <1>7 DEF Pipe
<1>9. Flow(c, f, Pipe(p)') /\ Flow(f, c, Pipe(h)')
  BY <1>1, <1>3, <1>7, <1>8, PipeType, FlowSends
<1>10. End(h)' = c /\ End(p)' = f
  <2>1. FinSent(h)' = c.fin /\ FinSent(p)' = FinSent(p)
    BY DEF FinSent
  <2>2. End(h)' = c
    BY <1>1, <1>4, <2>1, EndIs
  <2>3. End(p)' = End(p)
    BY <1>4, <2>1, EndSame
  <2> QED
    BY <2>2, <2>3
<1>11. EndOK(c, f, sk'[h][1], app'[h].pc)
  <2>1. EndOK(End(h), f, sk[h][1], app[h].pc)
    BY DEF Linked
  <2>2. app[h].pc \in {"FIN_WAIT_1", "LAST_ACK"} => StateOK(c, f, app[h].pc)
    BY <2>1, StateGrows DEF EndOK
  <2> QED
    BY <1>1, <1>4, <2>1, <2>2 DEF EndOK, Fits, Safe
<1>12. Grows(f, End(h), f, c) /\ Peer(p) = h
  BY DoneGrows DEF Host, Peer
<1>13. EndOK(f, c, sk'[p][1], app'[p].pc)
  <2>1. EndOK(f, End(h), sk[p][1], app[p].pc)
    BY <1>12 DEF Linked
  <2> QED
    BY <1>4, <1>12, <2>1, EndGrows
<1>14. HandOK(c, f, main'[h]) /\ HandOK(f, c, main'[p])
  <2>1. HandOK(f, End(h), main[p])
    BY <1>12 DEF Linked
  <2>2. HandOK(f, c, main[p])
    BY <1>12, <2>1, HandGrows
  <2> QED
    BY <1>6, <2>2 DEF HandOK
<1>15. sk'[h][1].snd_nxt \in u32
  BY <1>1, <1>4 DEF Ends
<1> QED
  BY <1>3, <1>4, <1>5, <1>9, <1>10, <1>11, <1>13, <1>14, <1>15, LinkedNext

LEMMA LinkedProcess == ASSUME Parts, Linked, NEW h \in Host, Process(h) PROVE Linked'
<1> DEFINE m == main[h]
           p == Peer(h)
           t == sk[h][1]
           e == End(h)
           f == End(p)
           r == tcp_process(t, m.state, m.cb)
           x == seq_end(m.cb)
           c == Took(e, x)
<1>1. m.busy /\ m.tsk # 0 /\ app' = app /\ main' = [main EXCEPT ![h] = Idle]
  BY DEF Process
<1>2. p \in Host /\ p # h /\ Peer(p) = h /\ Types
  BY DEF Parts, Host, Peer
<1>3. DOMAIN sk[h] = {1} /\ e \in Ends /\ f \in Ends /\ Fits(e, f, t, t) /\ e.fin = FinSent(h)
  BY <1>2, LinkedFacts
<1>4. m.tsk = 1
  <2>1. MainOK(h, main[h], sk[h], app[h].pc)
    BY DEF Parts
  <2> QED
    BY <1>1, <1>3, <2>1 DEF MainOK
<1>5. sk' = [sk EXCEPT ![h][1] = r.tsk] /\ Send(h, r.out)
  BY <1>4 DEF Process
<1>6. m.cb \in Seg /\ m.state \in tcp_state
  BY <1>1, <1>2, IdleType DEF Types, Busy
<1>7. /\ 1 \in DOMAIN Pipe(h) /\ Pipe(h)[1] = m.cb /\ Rest(net[h], Pipe(h))
  BY <1>1, <1>2, PipeHand
<1>8. Flow(f, e, Pipe(h)) /\ Flow(e, f, Pipe(p)) /\ HandOK(e, f, m)
  BY <1>2 DEF Linked
<1>9. SegOK(f, e, m.cb) /\ StateOK(e, f, m.state)
  BY <1>1, <1>7, <1>8 DEF Flow, HandOK
<1>10. x \in Int
  BY <1>6, SeqEndType
<1>11. c \in Ends /\ c.fin = e.fin
  BY <1>3, <1>10, TookFacts
<1> HIDE DEF m, p, t, e, f, r, c
<1>12. TCP_RST \notin m.cb.flags =>
          Flow(f, c, net[h]) /\ Grows(e, f, c, f) /\ Flow(c, f, Pipe(p))
  <2> HIDE DEF x
  <2> SUFFICES ASSUME TCP_RST \notin m.cb.flags
               PROVE  Flow(f, c, net[h]) /\ Grows(e, f, c, f) /\ Flow(c, f, Pipe(p))
    OBVIOUS
  <2>1. x = seq_end(Pipe(h)[1]) /\ TCP_RST \notin Pipe(h)[1].flags
    BY <1>7 DEF x
  <2>2. \A i \in DOMAIN net[h] : i \in Int /\ i >= 1 /\ i + 1 \in DOMAIN Pipe(h) /\ net[h][i] = Pipe(h)[i + 1]
    BY <1>7 DEF Rest
  <2> QED
    BY <1>3, <1>7, <1>8, <1>10, <2>1, <2>2, FlowTake DEF c
<1>13. Moves(e, f, t, r) \/ (TCP_RST \notin m.cb.flags /\ Moves(c, f, t, r))
  <2>1. c = Took(e, seq_end(m.cb))
    BY DEF c
  <2> QED
    BY <1>3, <1>6, <1>9, <1>11, <1>12, <2>1, ProcessMoves DEF r
<1>14. CASE Moves(e, f, t, r)
  <2>1. Flow(f, e, net[h]) /\ Grows(e, f, e, f)
    BY <1>7, <1>8, FlowRest DEF Grows
  <2> QED
    BY <1>1, <1>2, <1>3, <1>5, <1>8, <1>14, <2>1, LinkedMove DEF p, e, f, t
<1>15. CASE TCP_RST \notin m.cb.flags /\ Moves(c, f, t, r)
  BY <1>1, <1>2, <1>3, <1>5, <1>11, <1>12, <1>15, LinkedMove DEF p, e, f, t
<1> QED
  BY <1>13, <1>14, <1>15

\* The listening sock gets a segment of a connection that both ends have left, and
\* answers with a reset.
LEMMA LinkedListen == ASSUME Parts, Linked, tcp_state_listen PROVE Linked'
<1> DEFINE h == "server"
           p == Peer(h)
           e == End(h)
           f == End(p)
           cb == main[h].cb
           r == Result(sk[h][1], <<tcp_send_reset(cb)>>, FALSE)
<1>1. main[h].busy /\ main[h].tsk = 0 /\ app' = app /\ main' = [main EXCEPT ![h] = Idle]
  BY DEF tcp_state_listen
<1>2. h \in Host /\ p \in Host /\ p # h /\ Peer(p) = h /\ Types
  BY DEF Parts, Host, Peer
<1> HIDE DEF h
<1>3. /\ sk[h] \in Seq(Sock) /\ DOMAIN sk[h] = {1} /\ e \in Ends /\ f \in Ends
      /\ Fits(e, f, sk[h][1], sk[h][1]) /\ e.fin = FinSent(h)
  BY <1>2, LinkedFacts
<1>4. /\ 1 \in DOMAIN Pipe(h) /\ Pipe(h)[1] = cb /\ Rest(net[h], Pipe(h)) /\ cb \in Seg
  BY <1>1, <1>2, PipeHand
<1>5. Flow(f, e, Pipe(h)) /\ Flow(e, f, Pipe(p)) /\ HandOK(e, f, main[h])
  BY <1>2 DEF Linked
<1>6. SegOK(f, e, cb) /\ Done(e, f)
  BY <1>1, <1>4, <1>5 DEF Flow, HandOK
<1>7. TCP_SYN \notin cb.flags
  BY <1>6 DEF SegOK, TCP_SYN, TCP_ACK, TCP_FIN
<1>8. Send(h, <<tcp_send_reset(cb)>>) /\ sk' = sk
  BY <1>7 DEF tcp_state_listen, h
<1>9. r.tsk = sk[h][1] /\ r.out = <<tcp_send_reset(cb)>>
  BY DEF Result
<1>10. sk' = [sk EXCEPT ![h][1] = r.tsk]
  <2>1. sk \in [Host -> Seq(Sock)]
    BY <1>2 DEF Types
  <2>2. [sk[h] EXCEPT ![1] = sk[h][1]] = sk[h]
    BY <1>3
  <2> QED
    BY <1>2, <1>8, <1>9, <2>1, <2>2
<1>11. Moves(e, f, sk[h][1], r)
  BY <1>3, <1>4, <1>6, ResultMoves
<1>12. Flow(f, e, net[h]) /\ Grows(e, f, e, f)
  BY <1>4, <1>5, FlowRest DEF Grows
<1>13. Send(h, r.out)
  BY <1>8, <1>9
<1> HIDE DEF r
<1> QED
  BY <1>1, <1>2, <1>3, <1>5, <1>10, <1>11, <1>12, <1>13, LinkedMove

\* A step of the application or of the timer thread that sends nothing.
LEMMA LinkedApp ==
    ASSUME Parts, Linked, NEW h \in Host, NEW p \in Host, p = Peer(h), main' = main, net' = net,
           sk'[p] = sk[p], app'[p] = app[p], Len(sk'[h]) = 1,
           sk'[h][1].snd_nxt = sk[h][1].snd_nxt, sk'[h][1].rcv_nxt = sk[h][1].rcv_nxt,
           FinSent(h)' = FinSent(h),
           EndOK(End(h), End(p), sk'[h][1], app'[h].pc)
    PROVE  Linked'
<1>1. \A g \in Host : g = h \/ g = p
  BY DEF Host, Peer
<1>2. FinSent(p)' = FinSent(p)
  BY DEF FinSent
<1>3. \A g \in Host : Len(sk'[g]) = 1 /\ End(g)' = End(g)
  <2>1. End(h)' = End(h) /\ End(p)' = End(p)
    BY <1>2, EndSame
  <2> QED
    BY <1>1, <2>1 DEF Linked
<1>4. \A g \in Host : EndOK(End(g), End(Peer(g)), sk'[g][1], app'[g].pc)
  <2> TAKE g \in Host
  <2>1. EndOK(End(g), End(Peer(g)), sk[g][1], app[g].pc)
    BY DEF Linked
  <2> QED
    BY <1>1, <2>1
<1>5. \A g \in Host : HandOK(End(g), End(Peer(g)), main'[g])
  BY DEF Linked
<1>6. \A g \in Host : Flow(End(g), End(Peer(g)), Pipe(Peer(g))')
  <2> TAKE g \in Host
  <2>1. Pipe(Peer(g))' = Pipe(Peer(g))
    BY Hosts, PipeSame
  <2> QED
    BY <2>1 DEF Linked
<1> QED
  BY <1>3, <1>4, <1>5, <1>6, LinkedStays

\* ... and changes no more of the sock than its state, references and flags.
LEMMA LinkedSock ==
    ASSUME Parts, Linked, NEW h \in Host, main' = main, net' = net, NEW u \in Sock,
           sk' = [sk EXCEPT ![h][1] = u], u.snd_nxt = sk[h][1].snd_nxt, u.rcv_nxt = sk[h][1].rcv_nxt,
           app'[Peer(h)] = app[Peer(h)], FinSent(h)' = FinSent(h),
           EndOK(End(h), End(Peer(h)), u, app'[h].pc)
    PROVE  Linked'
<1>1. Peer(h) \in Host /\ Peer(h) # h /\ sk \in [Host -> Seq(Sock)] /\ DOMAIN sk[h] = {1}
  BY Hosts, LinkedFacts DEF Parts, Types
<1>2. /\ sk' \in [Host -> Seq(Sock)] /\ DOMAIN sk'[h] = {1} /\ sk'[Peer(h)] = sk[Peer(h)]
      /\ sk'[h][1] = u
  <2>1. 1 \in DOMAIN sk[h]
    BY <1>1
  <2> QED
    BY <1>1, <2>1, ReplaceSock
<1>3. Len(sk'[h]) = 1
  <2>1. sk'[h] \in Seq(Sock)
    BY <1>2
  <2> QED
    BY <1>2, <2>1, LenOne
<1> QED
  BY <1>1, <1>2, <1>3, LinkedApp

LEMMA GotoPc ==
    ASSUME Types, NEW h \in Host, NEW pc, Goto(h, pc)
    PROVE  app'[h].pc = pc /\ app'[Peer(h)] = app[Peer(h)]
<1>1. app \in [Host -> App] /\ app[h] \in App /\ Peer(h) \in Host /\ Peer(h) # h
  BY Hosts DEF Types
<1>2. app' = [app EXCEPT ![h] = [app[h] EXCEPT !.pc = pc]]
  BY DEF Goto
<1>3. [app[h] EXCEPT !.pc = pc].pc = pc
  BY <1>1 DEF App
<1> QED
  BY <1>1, <1>2, <1>3

LEMMA LinkedWaits ==
    ASSUME Parts, Linked, tcp_sock_listen \/ AcceptTest \/ AcceptWoken PROVE Linked'
<1> DEFINE h == "server"
           p == Peer(h)
<1>1. h \in Host /\ p \in Host /\ Types
  BY Hosts DEF Parts
<1>2. app[h].pc \in BeforeAccept /\ UNCHANGED <<sk, net, main>> /\ \E q \in BeforeAccept : Goto(h, q)
  BY DEF tcp_sock_listen, AcceptTest, AcceptWoken, BeforeAccept
<1>3. PICK q \in BeforeAccept : Goto(h, q)
  BY <1>2
<1> HIDE DEF h
<1>4. app'[h].pc = q /\ app'[p] = app[p]
  BY <1>1, <1>3, GotoPc
<1>5. ~ FinSent(h) /\ ~ FinSent(h)' /\ q \notin {"FIN_WAIT_1", "LAST_ACK"}
  BY <1>2, <1>4 DEF FinSent, BeforeAccept
<1>6. FinSent(h)' = FinSent(h)
  BY <1>5 DEF FinSent
<1>7. EndOK(End(h), End(p), sk[h][1], app[h].pc)
  BY <1>1 DEF Linked
<1>8. EndOK(End(h), End(p), sk'[h][1], app'[h].pc)
  BY <1>2, <1>4, <1>5, <1>7 DEF EndOK
<1>9. Len(sk'[h]) = 1 /\ sk'[p] = sk[p] /\ sk'[h][1] = sk[h][1]
  BY <1>1, <1>2 DEF Linked
<1> QED
  BY <1>1, <1>2, <1>4, <1>6, <1>8, <1>9, LinkedApp

LEMMA LinkedConnected == ASSUME Parts, Linked, Connected PROVE Linked'
<1> DEFINE h == "client"
           p == Peer(h)
           t == sk[h][1]
           u == [t EXCEPT !.wait_connect = FALSE]
<1>1. h \in Host /\ p \in Host /\ Types
  BY Hosts DEF Parts
<1>2. /\ app[h].pc = "connecting" /\ main' = main /\ net' = net /\ Goto(h, "open")
      /\ sk' = [sk EXCEPT ![h][1].wait_connect = FALSE]
  BY DEF Connected
<1>3. sk \in [Host -> Seq(Sock)] /\ DOMAIN sk[h] = {1} /\ t \in Sock
  BY <1>1, LinkedFacts DEF Types
<1>4. t.state # "SYN_RECV"
  BY <1>1, <1>3 DEF Parts, SocksOK, SockOK
<1> HIDE DEF h
<1>5. sk' = [sk EXCEPT ![h][1] = u]
  BY <1>2, <1>3
<1>6. /\ u \in Sock /\ u.state = t.state /\ u.timer = t.timer /\ u.hashed = t.hashed
      /\ u.snd_nxt = t.snd_nxt /\ u.rcv_nxt = t.rcv_nxt
  BY <1>3 DEF Sock
<1>7. app'[h].pc = "open" /\ app'[p] = app[p]
  BY <1>1, <1>2, GotoPc
<1>8. FinSent(h)' = FinSent(h)
  BY <1>2, <1>7 DEF FinSent
<1>9. EndOK(End(h), End(p), t, app[h].pc)
  BY <1>1 DEF Linked
<1> HIDE DEF t, u
<1>10. EndOK(End(h), End(p), u, app'[h].pc)
  BY <1>4, <1>6, <1>7, <1>9 DEF EndOK
<1> QED
  BY <1>1, <1>2, <1>5, <1>6, <1>7, <1>8, <1>10, LinkedSock DEF t

LEMMA LinkedDequeue == ASSUME Parts, Linked, Dequeue PROVE Linked'
<1> DEFINE h == "server"
           p == Peer(h)
           t == sk[h][1]
           u == [t EXCEPT !.state = "ESTABLISHED"]
           q == lsn.accept_queue
<1>1. h \in Host /\ p \in Host /\ p # h /\ Types /\ app \in [Host -> App]
  BY Hosts DEF Parts, Types
<1>2. /\ app[h].pc = "dequeue" /\ lsn.accept_backlog # 0 /\ main' = main /\ net' = net
      /\ app' = [app EXCEPT ![h] = [pc |-> "open", tsk |-> Head(q)]]
      /\ sk' = [sk EXCEPT ![h][Head(q)].state = "ESTABLISHED"]
  BY DEF Dequeue
<1>3. sk \in [Host -> Seq(Sock)] /\ DOMAIN sk[h] = {1} /\ t \in Sock
  BY <1>1, LinkedFacts DEF Types
<1>4. Head(q) = 1
  <2>1. q \in Seq(Nat) /\ q # <<>> /\ \A k \in DOMAIN q : q[k] \in DOMAIN sk[h]
    BY <1>2 DEF Parts, Types, Listener, ListenOK, BeforeAccept
  <2>2. Head(q) = q[1] /\ 1 \in DOMAIN q
    BY <2>1, TailFacts
  <2> QED
    BY <1>3, <2>1, <2>2
<1> HIDE DEF h, q
<1>5. sk' = [sk EXCEPT ![h][1] = u]
  BY <1>2, <1>3, <1>4
<1>6. /\ u \in Sock /\ u.state = "ESTABLISHED" /\ u.timer = t.timer /\ u.hashed = t.hashed
      /\ u.snd_nxt = t.snd_nxt /\ u.rcv_nxt = t.rcv_nxt
  BY <1>3 DEF Sock, tcp_state
<1>7. app'[h].pc = "open" /\ app'[p] = app[p]
  BY <1>1, <1>2
<1>8. FinSent(h)' = FinSent(h)
  BY <1>2, <1>7 DEF FinSent
<1>9. EndOK(End(h), End(p), t, app[h].pc)
  BY <1>1 DEF Linked
<1> HIDE DEF t, u
<1>10. EndOK(End(h), End(p), u, app'[h].pc)
  BY <1>6, <1>7, <1>9 DEF EndOK, StateOK
<1> QED
  BY <1>1, <1>2, <1>5, <1>6, <1>7, <1>8, <1>10, LinkedSock DEF t

\* An application past connect or accept works on the connection's sock.
LEMMA LinkedTsk ==
    ASSUME Parts, Linked, NEW h \in Host, app[h].pc \in WithSock PROVE app[h].tsk = 1
  BY LinkedFacts DEF Parts, AppOK

LEMMA LinkedCloseState == ASSUME Parts, Linked, NEW h \in Host, CloseState(h) PROVE Linked'
<1> DEFINE p == Peer(h)
           t == sk[h][1]
           s == app[h].pc
           u == [t EXCEPT !.state = s]
<1>1. p \in Host /\ Types
  BY Hosts DEF Parts
<1>2. /\ s \in {"FIN_WAIT_1", "LAST_ACK"} /\ main' = main /\ net' = net /\ Goto(h, "done")
      /\ sk' = [sk EXCEPT ![h][app[h].tsk].state = s]
  BY DEF CloseState
<1>3. sk \in [Host -> Seq(Sock)] /\ DOMAIN sk[h] = {1} /\ t \in Sock
  BY LinkedFacts DEF Parts, Types
<1>4. app[h].tsk = 1
  BY <1>2, LinkedTsk DEF WithSock
<1>5. sk' = [sk EXCEPT ![h][1] = u]
  BY <1>2, <1>3, <1>4
<1>6. /\ u \in Sock /\ u.state = s /\ u.timer = t.timer /\ u.hashed = t.hashed
      /\ u.snd_nxt = t.snd_nxt /\ u.rcv_nxt = t.rcv_nxt
  BY <1>2, <1>3 DEF Sock, tcp_state
<1>7. app'[h].pc = "done" /\ app'[p] = app[p]
  BY <1>1, <1>2, GotoPc
<1>8. FinSent(h)' = FinSent(h)
  BY <1>2, <1>7 DEF FinSent
<1>9. EndOK(End(h), End(p), t, s)
  BY DEF Linked
<1> HIDE DEF t, u, s
<1>10. EndOK(End(h), End(p), u, app'[h].pc)
  BY <1>2, <1>6, <1>7, <1>9 DEF EndOK
<1> QED
  BY <1>1, <1>2, <1>5, <1>6, <1>7, <1>8, <1>10, LinkedSock DEF t

LEMMA LinkedTimer == ASSUME Parts, Linked, NEW h \in Host, tcp_scan_timer_list(h) PROVE Linked'
<1> DEFINE p == Peer(h)
           t == sk[h][1]
           c == IF h = "client" THEN t.ref_cnt - 2 ELSE t.ref_cnt - 1
           u == [t EXCEPT !.timer = "fired", !.state = "CLOSED", !.ref_cnt = c]
<1>1. p \in Host /\ Types
  BY Hosts DEF Parts
<1>2. sk \in [Host -> Seq(Sock)] /\ DOMAIN sk[h] = {1} /\ t \in Sock
  BY LinkedFacts DEF Parts, Types
<1>3. /\ t.timer = "on" /\ main' = main /\ net' = net /\ app' = app
      /\ sk' = [sk EXCEPT ![h][1].timer = "fired", ![h][1].state = "CLOSED",
                          ![h][1].ref_cnt = IF h = "client" THEN @ - 2 ELSE @ - 1]
  BY <1>2 DEF tcp_scan_timer_list
<1>4. sk' = [sk EXCEPT ![h][1] = u]
  BY ZenonT(60), <1>2, <1>3 DEF Sock
<1> HIDE DEF t
<1>5. c \in Int
  <2>1. t.ref_cnt \in Int
    BY ONLY <1>2 DEF Sock
  <2> QED
    BY ONLY <2>1
<1> HIDE DEF c
<1>6. u \in Sock /\ u.state = "CLOSED" /\ u.snd_nxt = t.snd_nxt /\ u.rcv_nxt = t.rcv_nxt
  BY <1>2, <1>5 DEF Sock, tcp_state
<1>7. EndOK(End(h), End(p), t, app[h].pc)
  BY DEF Linked, t
<1> HIDE DEF u
<1>8. EndOK(End(h), End(p), u, app'[h].pc)
  BY <1>3, <1>6, <1>7 DEF EndOK, StateOK
<1>9. FinSent(h)' = FinSent(h)
  BY <1>3 DEF FinSent
<1> QED
  BY <1>1, <1>3, <1>4, <1>6, <1>8, <1>9, LinkedSock DEF t

\* tcp_sock_close: the application closes an open connection, and only that, with a FIN.
LEMMA LinkedCloseFin == ASSUME Parts, Linked, NEW h \in Host, CloseFin(h) PROVE Linked'
<1> DEFINE p == Peer(h)
           t == sk[h][1]
           e == End(h)
           f == End(p)
           c == Closed(e)
           F == {TCP_FIN, TCP_ACK}
           m == tcp_send_control_packet(t, F)
           u == after_control(t, F)
           pc == IF t.state = "ESTABLISHED" THEN "FIN_WAIT_1" ELSE "LAST_ACK"
<1>1. p \in Host /\ p # h /\ Peer(p) = h /\ Types
  BY DEF Host, Peer, Parts
<1>2. app[h].pc = "open" /\ main' = main
  BY DEF CloseFin
<1>3. app[h].tsk = 1
  BY <1>2, LinkedTsk DEF WithSock
<1>4. /\ sk \in [Host -> Seq(Sock)] /\ DOMAIN sk[h] = {1} /\ t \in Sock /\ e \in Ends /\ f \in Ends
      /\ e.n = t.snd_nxt /\ e.got = t.rcv_nxt /\ Near(e.got, f) /\ e.fin = FinSent(h)
  BY <1>1, LinkedFacts DEF Types
<1>5. ~ e.fin
  BY <1>2, <1>4 DEF FinSent
<1>6. EndOK(e, f, t, app[h].pc)
  BY DEF Linked
<1>7. t.state \in {"ESTABLISHED", "CLOSE_WAIT"}
  <2>1. t.state \in tcp_state
    BY <1>4 DEF Sock
  <2>2. t.state \notin {"SYN_SENT", "LISTEN", "SYN_RECV"}
    BY <1>2, <1>6 DEF EndOK, StateOK, BeforeAccept
  <2>3. t.state \notin {"CLOSED", "TIME_WAIT", "FIN_WAIT_1", "LAST_ACK", "FIN_WAIT_2"}
    BY <1>5, <1>6 DEF EndOK, StateOK, Done, All
  <2> QED
    BY <2>1, <2>2, <2>3 DEF tcp_state
<1>8. sk' = [sk EXCEPT ![h][1] = u] /\ Send(h, <<m>>) /\ Goto(h, pc)
  BY <1>3, <1>7 DEF CloseFin
<1>9. app'[h].pc = pc /\ app'[p] = app[p] /\ pc \in {"FIN_WAIT_1", "LAST_ACK"}
      /\ (pc = "LAST_ACK" => t.state = "CLOSE_WAIT")
  BY <1>1, <1>7, <1>8, GotoPc
<1>10. /\ c \in Ends /\ c.n = Plus(e.n, 1) /\ c.fin /\ c.got = e.got
       /\ Grows(e, f, c, f)
  BY <1>4, <1>5, ClosedFacts, CloseGrows
<1>11. /\ u \in Sock /\ u.state = t.state /\ u.timer = t.timer /\ u.hashed = t.hashed
       /\ u.snd_nxt = c.n /\ u.rcv_nxt = c.got
  <2> DEFINE v == Plus(t.snd_nxt, 1)
  <2>1. u = [t EXCEPT !.snd_nxt = v]
    BY DEF after_control
  <2>2. v \in Int /\ v = c.n
    BY <1>4, <1>10, PlusFacts DEF Ends, u32
  <2> HIDE DEF v
  <2>3. LET w == [t EXCEPT !.snd_nxt = v]
        IN  /\ w \in Sock /\ w.state = t.state /\ w.timer = t.timer /\ w.hashed = t.hashed
            /\ w.snd_nxt = v /\ w.rcv_nxt = t.rcv_nxt
    BY <1>4, <2>2 DEF Sock
  <2> QED
    BY <1>4, <1>10, <2>1, <2>2, <2>3
<1>12. m \in Seg /\ SegOK(c, f, m) /\ Upto(c, m)
  <2>1. m \in Seg
    BY <1>4, FlagSets DEF tcp_send_control_packet, tcp_cb, Seg, Sock
  <2> QED
    BY <1>4, <2>1, FinIsSent
<1> HIDE DEF p, t, e, f, c, m, u, pc
<1>13. /\ sk' \in [Host -> Seq(Sock)] /\ DOMAIN sk'[h] = {1} /\ sk'[p] = sk[p] /\ sk'[h][1] = u
  <2>1. 1 \in DOMAIN sk[h]
    BY <1>4
  <2> QED
    BY <1>1, <1>4, <1>8, <1>11, <2>1, ReplaceSock
<1>14. Len(sk'[h]) = 1 /\ Len(sk'[p]) = 1 /\ sk'[p][1].snd_nxt \in u32 /\ sk'[h][1].snd_nxt \in u32
  <2>1. sk'[h] \in Seq(Sock)
    BY <1>13
  <2>2. Len(sk'[h]) = 1
    BY <1>13, <2>1, LenOne
  <2> QED
    BY <1>1, <1>10, <1>11, <1>13, <2>2 DEF Linked, Ends
<1>15. End(h)' = c /\ End(p)' = f
  <2>1. FinSent(h)' = c.fin /\ FinSent(p)' = FinSent(p)
    BY <1>9, <1>10 DEF FinSent, Ends
  <2>2. End(h)' = c
    BY <1>10, <1>11, <1>13, <2>1, EndIs
  <2>3. End(p)' = f
    BY <1>1, <1>13, <2>1, EndSame DEF f
  <2> QED
    BY <2>2, <2>3
<1>16. EndOK(c, f, sk'[h][1], app'[h].pc)
  <2>1. EndOK(c, f, t, app[h].pc)
    BY <1>6, <1>10, EndGrows
  <2>2. StateOK(c, f, pc)
    BY <1>9, <1>10, <2>1 DEF EndOK, StateOK
  <2>3. u.state # "SYN_RECV"
    BY <1>7, <1>11
  <2> QED
    BY <1>9, <1>11, <1>13, <2>1, <2>2, <2>3 DEF EndOK
<1>17. Grows(f, e, f, c)
  BY <1>10, DoneGrows
<1>18. EndOK(f, c, sk'[p][1], app'[p].pc)
  <2>1. EndOK(f, e, sk[p][1], app[p].pc)
    BY <1>1 DEF Linked, e, f
  <2> QED
    BY <1>9, <1>13, <1>17, <2>1, EndGrows
<1>19. HandOK(c, f, main'[h]) /\ HandOK(f, c, main'[p])
  <2>1. HandOK(e, f, main[h]) /\ HandOK(f, e, main[p])
    BY <1>1 DEF Linked, e, f, p
  <2> QED
    BY <1>2, <1>10, <1>17, <2>1, HandGrows
<1>20. Flow(c, f, Pipe(p)') /\ Flow(f, c, Pipe(h)')
  <2>1. Flow(e, f, Pipe(p)) /\ Flow(f, e, Pipe(h))
    BY <1>1 DEF Linked, e, f, p
  <2>2. Flow(c, f, Pipe(p)) /\ Flow(f, c, Pipe(h))
    BY <1>4, <1>5, <2>1, FlowClose DEF c
  <2>3. <<m>> \in Out
    BY <1>12 DEF Out
  <2>4. Pipe(p)' = Pipe(p) \o <<m>> /\ net'[h] = net[h]
    BY <1>1, <1>2, <1>8, <2>3, PipeSend DEF p
  <2>5. Pipe(h)' = Pipe(h)
    BY <1>2, <2>4, PipeSame
  <2>6. Flow(c, f, Pipe(p) \o <<m>>)
    BY <1>1, <1>12, <2>2, PipeType, FlowMore
  <2> QED
    BY <2>2, <2>4, <2>5, <2>6
<1> QED
  BY <1>1, <1>14, <1>15, <1>16, <1>18, <1>19, <1>20, LinkedNext DEF p

LEMMA LinkedLost == ASSUME Parts, Linked, NEW h \in Host, Lost(h) PROVE Linked'
<1> DEFINE p == Peer(h)
<1>1. /\ p \in Host /\ p # h /\ Types /\ net \in [Host -> Seq(Seg)]
      /\ UNCHANGED <<sk, app, main>> /\ net' = [net EXCEPT ![h] = <<>>]
  BY Hosts DEF Parts, Types, Lost
<1>2. net'[h] = <<>> /\ net'[p] = net[p]
  BY <1>1
<1>3. /\ \A g \in Host : Len(sk'[g]) = 1 /\ End(g)' = End(g)
      /\ \A g \in Host : EndOK(End(g), End(Peer(g)), sk'[g][1], app'[g].pc)
      /\ \A g \in Host : HandOK(End(g), End(Peer(g)), main'[g])
  BY <1>1, EndSame DEF Linked, FinSent
<1>4. Pipe(p)' = Pipe(p)
  BY <1>1, <1>2, PipeSame
<1>5. ASSUME NEW s, NEW r, Flow(s, r, Pipe(h)) PROVE Flow(s, r, Pipe(h)')
  <2> DEFINE q == Pipe(h)'
             k == 0
  <2>1. CASE main[h].busy
    <3>1. 1 \in DOMAIN Pipe(h) /\ Pipe(h)[1] = main[h].cb
      BY <1>1, <2>1, PipeHand
    <3>2. q = <<main[h].cb>>
      BY <1>1, <1>2, <2>1 DEF Pipe
    <3>3. DOMAIN q = {1} /\ q[1] = main[h].cb
      BY <3>2
    <3>4. k \in Int /\ \A i \in DOMAIN q : i \in Int /\ i + k \in DOMAIN Pipe(h) /\ q[i] = Pipe(h)[i + k]
      BY <3>1, <3>3
    <3> HIDE DEF q, k
    <3>5. Flow(s, r, q)
      BY <1>5, <3>4, FlowLess
    <3> QED
      BY <3>5 DEF q
  <2>2. CASE ~ main[h].busy
    <3>1. q = <<>>
      BY <1>1, <1>2, <2>2 DEF Pipe
    <3>2. k \in Int /\ \A i \in DOMAIN q : i \in Int /\ i + k \in DOMAIN Pipe(h) /\ q[i] = Pipe(h)[i + k]
      BY <3>1
    <3> HIDE DEF q, k
    <3>3. Flow(s, r, q)
      BY <1>5, <3>2, FlowLess
    <3> QED
      BY <3>3 DEF q
  <2> QED
    BY <2>1, <2>2
<1>6. \A g \in Host : Flow(End(g), End(Peer(g)), Pipe(Peer(g))')
  <2> TAKE g \in Host
  <2>1. Flow(End(g), End(Peer(g)), Pipe(Peer(g)))
    BY DEF Linked
  <2>2. Peer(g) = h \/ Peer(g) = p
    BY DEF Host, Peer
  <2> QED
    BY <1>4, <1>5, <2>1, <2>2
<1> QED
  BY <1>3, <1>6, LinkedStays

--------------------------------------------------------------------------------
(* Opening the connection.                                                     *)

LEMMA IssNumbers == ISS \subseteq u32
<1>1. \A m \in Nat : m > 1 => \A x \in 0 .. (m \div 2) - 1 : x \in 0 .. m - 1
  OBVIOUS
<1>2. \A x \in 0 .. (SEQ_MOD \div 2) - 1 : x \in 0 .. SEQ_MOD - 1
  BY <1>1, ModFacts
<1> QED
  BY <1>2, IssAssumption DEF u32

LEMMA PipeEmpty ==
    ASSUME Types, NEW h \in Host, Pipe(h) = <<>> PROVE ~ main[h].busy /\ net[h] = <<>>
<1>1. ~ main[h].busy
  BY PipeHand
<1> QED
  BY <1>1 DEF Pipe

LEMMA PipeOne ==
    ASSUME Types, NEW h \in Host, Len(Pipe(h)) = 1
    PROVE  /\ main[h].busy => net[h] = <<>> /\ Pipe(h)[1] = main[h].cb
           /\ ~ main[h].busy => net[h] = Pipe(h) /\ Tail(net[h]) = <<>>
<1>1. net[h] \in Seq(Seg)
  BY DEF Types
<1>2. CASE main[h].busy
  <2>1. main[h].cb \in Seg /\ Pipe(h)[1] = main[h].cb
    BY <1>2, PipeHand
  <2>2. Len(Pipe(h)) = 1 + Len(net[h])
    BY <1>1, <1>2, <2>1 DEF Pipe
  <2>3. Len(net[h]) = 0
    <3> DEFINE l == Len(net[h])
    <3>1. l \in Nat
      BY <1>1, LenProperties
    <3>2. 1 = 1 + l
      BY <2>2
    <3> HIDE DEF l
    <3>3. l = 0
      BY <3>1, <3>2
    <3> QED
      BY <3>3 DEF l
  <2> QED
    BY <1>1, <1>2, <2>1, <2>3, EmptySeq
<1>3. CASE ~ main[h].busy
  <2>1. net[h] = Pipe(h)
    BY <1>3 DEF Pipe
  <2>2. net[h] # <<>> /\ Len(net[h]) = 1
    BY <2>1
  <2>3. Tail(net[h]) \in Seq(Seg) /\ Len(Tail(net[h])) = 0
    BY <1>1, <2>2
  <2> QED
    BY <1>3, <2>1, <2>3, EmptySeq
<1> QED
  BY <1>2, <1>3

\* What a new sock looks like once bound and hashed, and after its SYN.
LEMMA NewSock ==
    LET b == tcp_sock_bind(alloc_tcp_sock)
    IN  /\ b \in Sock /\ ~ b.hashed /\ ~ b.wait_connect /\ b.timer = "off"
        /\ tcp_hash(b, TRUE) \in Sock
        /\ tcp_hash(b, TRUE).hashed /\ ~ tcp_hash(b, TRUE).wait_connect
        /\ tcp_hash(b, TRUE).timer = "off"
<1> DEFINE b == tcp_sock_bind(alloc_tcp_sock)
<1>1. b \in Sock /\ b.ref_cnt = 1 /\ ~ b.hashed /\ b.timer = "off"
  BY BoundSock
<1>2. b = [alloc_tcp_sock EXCEPT !.ref_cnt = alloc_tcp_sock.ref_cnt + 1]
  BY DEF tcp_sock_bind
<1>3. ~ b.wait_connect
  BY <1>2 DEF alloc_tcp_sock
<1> HIDE DEF b
<1>4. tcp_hash(b, TRUE) = [b EXCEPT !.hashed = TRUE, !.ref_cnt = b.ref_cnt + 1]
  BY DEF tcp_hash
<1>5. tcp_hash(b, TRUE) \in Sock
  BY <1>1, HashEffect
<1>6. tcp_hash(b, TRUE).hashed /\ ~ tcp_hash(b, TRUE).wait_connect /\ tcp_hash(b, TRUE).timer = "off"
  BY <1>1, <1>3, <1>4, Zenon DEF Sock
<1> QED
  BY <1>1, <1>3, <1>5, <1>6 DEF b

LEMMA AfterSyn ==
    ASSUME NEW t \in Sock, NEW flags, TCP_SYN \in flags, t.snd_nxt \in u32
    PROVE  LET u == after_control(t, flags)
           IN  /\ u \in Sock /\ u.snd_nxt \in u32
               /\ u.snd_nxt = seq_end(tcp_send_control_packet(t, flags))
               /\ u.rcv_nxt = t.rcv_nxt /\ u.state = t.state /\ u.timer = t.timer
               /\ u.hashed = t.hashed /\ u.wait_connect = t.wait_connect
<1> DEFINE v == Plus(t.snd_nxt, 1)
           u == after_control(t, flags)
<1>1. flags \cap {TCP_SYN, TCP_FIN} # {}
  OBVIOUS
<1>2. u = [t EXCEPT !.snd_nxt = v]
  BY <1>1 DEF after_control
<1>3. v \in u32 /\ v = seq_end(tcp_send_control_packet(t, flags))
  BY <1>1, ControlEnd, PlusFacts
<1>4. v \in Int
  BY <1>3 DEF u32
<1> HIDE DEF v, u
<1>5. /\ u \in Sock /\ u.snd_nxt = v /\ u.rcv_nxt = t.rcv_nxt /\ u.state = t.state
      /\ u.timer = t.timer /\ u.hashed = t.hashed /\ u.wait_connect = t.wait_connect
  BY <1>2, <1>4 DEF Sock
<1> QED
  BY <1>3, <1>5 DEF u

LEMMA HashedSock ==
    ASSUME NEW t \in Sock, ~ t.hashed
    PROVE  LET u == tcp_hash(t, TRUE)
           IN  /\ u \in Sock /\ u.hashed /\ u.snd_nxt = t.snd_nxt /\ u.rcv_nxt = t.rcv_nxt
               /\ u.state = t.state /\ u.timer = t.timer
<1> DEFINE c == t.ref_cnt + 1
           u == [t EXCEPT !.hashed = TRUE, !.ref_cnt = c]
<1>1. tcp_hash(t, TRUE) = u
  BY DEF tcp_hash
<1>2. c \in Int
  BY DEF Sock
<1> HIDE DEF c
<1>3. /\ u \in Sock /\ u.snd_nxt = t.snd_nxt /\ u.rcv_nxt = t.rcv_nxt
      /\ u.state = t.state /\ u.timer = t.timer
  BY <1>2 DEF Sock
<1>4. u.hashed
  BY DEF Sock
<1> QED
  BY <1>1, <1>3, <1>4

\* The client calls connect.
LEMMA OpeningConnect == ASSUME Parts, Opening, tcp_sock_connect PROVE Opening'
<1>1. PICK iss \in ISS :
          LET new == [tcp_hash(tcp_sock_bind(alloc_tcp_sock), TRUE) EXCEPT
                          !.snd_nxt = iss, !.state = "SYN_SENT"]
          IN  /\ sk' = [sk EXCEPT !["client"] = <<after_control(new, {TCP_SYN})>>]
              /\ Send("client", <<tcp_send_control_packet(new, {TCP_SYN})>>)
  BY DEF tcp_sock_connect
<1> DEFINE b == tcp_hash(tcp_sock_bind(alloc_tcp_sock), TRUE)
           new == [b EXCEPT !.snd_nxt = iss, !.state = "SYN_SENT"]
           t == after_control(new, {TCP_SYN})
           m == tcp_send_control_packet(new, {TCP_SYN})
<1>2. /\ app["client"].pc = "connect"
      /\ app' = [app EXCEPT !["client"] = [pc |-> "connecting", tsk |-> 1]]
      /\ sk' = [sk EXCEPT !["client"] = <<t>>] /\ Send("client", <<m>>)
      /\ main' = main /\ lsn' = lsn
  BY <1>1 DEF tcp_sock_connect
<1>3. /\ "client" \in Host /\ "server" \in Host /\ Peer("client") = "server" /\ Types
      /\ app \in [Host -> App] /\ sk \in [Host -> Seq(Sock)]
  BY DEF Host, Peer, Parts, Types
<1>4. Unused
  BY <1>2 DEF Opening, SynSent, SynReceived, Calling
<1>5. b \in Sock /\ b.hashed /\ ~ b.wait_connect /\ b.timer = "off"
  BY NewSock
<1>6. iss \in Int /\ iss \in u32
  BY IssNumbers DEF u32
<1> HIDE DEF b
<1>7. /\ new \in Sock /\ new.snd_nxt \in u32 /\ new.state = "SYN_SENT" /\ new.hashed
      /\ new.wait_connect = b.wait_connect /\ new.timer = "off"
  BY <1>5, <1>6 DEF Sock, tcp_state
<1> HIDE DEF new
<1>8. /\ t \in Sock /\ t.snd_nxt \in u32 /\ t.snd_nxt = seq_end(m) /\ t.state = new.state
      /\ t.timer = new.timer /\ t.hashed = new.hashed /\ t.wait_connect = new.wait_connect
  BY <1>7, AfterSyn
<1>9. m.flags = {TCP_SYN} /\ <<m>> \in Out
  BY <1>7, FlagSets, ControlEnd, ControlType
<1> HIDE DEF t, m
<1>10. Called(t)
  BY <1>5, <1>7, <1>8 DEF Called
<1>11. /\ sk'["client"] = <<t>> /\ sk'["server"] = <<>> /\ app'["client"].pc = "connecting"
       /\ app'["server"] = app["server"]
  BY <1>2, <1>3, <1>4 DEF Unused
<1>12. Len(sk'["client"]) = 1 /\ sk'["client"][1] = t
  BY <1>11
<1>13. Pipe("client")' = <<>> /\ ~ main["server"].busy
  <2>1. ~ main["client"].busy /\ net["client"] = <<>> /\ ~ main["server"].busy
    BY <1>3, <1>4, PipeEmpty DEF Unused
  <2>2. net'["client"] = net["client"]
    BY <1>2, <1>3, <1>9, PipeSend
  <2> QED
    BY <1>2, <2>1, <2>2 DEF Pipe
<1>14. Len(Pipe("server")') = 1 /\ Pipe("server")'[1] = m
  <2>1. Pipe("server")' = Pipe("server") \o <<m>>
    BY <1>2, <1>3, <1>9, PipeSend
  <2>2. Pipe("server") = <<>>
    BY <1>3, <1>4 DEF Unused
  <2>3. <<>> \o <<m>> = <<m>>
    OBVIOUS
  <2> QED
    BY <2>1, <2>2, <2>3
<1>15. SynSent'
  BY <1>2, <1>8, <1>9, <1>10, <1>11, <1>12, <1>13, <1>14 DEF SynSent, Calling, Only
<1>16. Waiting'
  BY <1>2, <1>11 DEF Opening, Waiting
<1> QED
  BY <1>15, <1>16 DEF Opening

\* The server is about to listen or accept: nothing of the connection moves.
LEMMA OpeningWaits ==
    ASSUME Parts, Opening, tcp_sock_listen \/ AcceptTest \/ AcceptWoken PROVE Opening'
<1> DEFINE h == "server"
<1>1. h \in Host /\ Peer(h) = "client" /\ Types /\ lsn \in Listener
  BY DEF Host, Peer, Parts, Types
<1>2. UNCHANGED <<sk, net, main>> /\ \E q \in BeforeAccept : Goto(h, q)
  BY DEF tcp_sock_listen, AcceptTest, AcceptWoken, BeforeAccept
<1>3. lsn'.accept_backlog = lsn.accept_backlog
  BY <1>1 DEF tcp_sock_listen, AcceptTest, AcceptWoken, Listener
<1>4. PICK q \in BeforeAccept : Goto(h, q)
  BY <1>2
<1>5. app'["server"].pc = q /\ app'["client"] = app["client"]
  BY <1>1, <1>4, GotoPc
<1>6. Waiting'
  BY <1>3, <1>5 DEF Opening, Waiting
<1>7. (Unused \/ SynSent \/ SynReceived)'
  BY <1>2, <1>5 DEF Opening, Unused, SynSent, SynReceived, Calling, Called, Only, Pipe
<1> QED
  BY <1>6, <1>7 DEF Opening

\* What cannot happen yet.
LEMMA OpeningLimits ==
    ASSUME Parts, Opening
    PROVE  /\ ~ Connected /\ ~ Dequeue
           /\ \A h \in Host : ~ CloseFin(h) /\ ~ CloseState(h) /\ ~ tcp_scan_timer_list(h)
           /\ ~ Process("server")
<1>1. /\ app["client"].pc \in {"connect", "connecting"} /\ app["server"].pc \in BeforeAccept
      /\ lsn.accept_backlog = 0
  BY DEF Opening, Waiting, Unused, SynSent, SynReceived, Calling
<1>2. ~ Connected
  BY DEF Connected, Opening, Unused, SynSent, SynReceived, Calling, Called
<1>3. ~ Dequeue
  BY <1>1 DEF Dequeue
<1>4. ASSUME NEW h \in Host PROVE ~ CloseFin(h) /\ ~ CloseState(h)
  <2>1. app[h].pc \notin {"open", "FIN_WAIT_1", "LAST_ACK"}
    BY <1>1 DEF Host, BeforeAccept
  <2> QED
    BY <2>1 DEF CloseFin, CloseState
<1>5. ASSUME NEW h \in Host PROVE ~ tcp_scan_timer_list(h)
  <2>1. ASSUME NEW i \in DOMAIN sk[h] PROVE sk[h][i].timer = "off"
    <3>1. h = "client" \/ h = "server"
      BY DEF Host
    <3>2. sk[h] # <<>>
      BY <2>1
    <3>3. Len(sk[h]) = 1 /\ sk[h][1].timer = "off"
      BY <3>1, <3>2, Hosts DEF Opening, Unused, SynSent, SynReceived, Calling, Called
    <3>4. sk[h] \in Seq(Sock)
      BY DEF Parts, Types
    <3>5. i = 1
      BY <2>1, <3>3, <3>4
    <3> QED
      BY <3>3, <3>5
  <2> QED
    BY <2>1 DEF tcp_scan_timer_list
<1>6. ~ Process("server")
  <2>1. "server" \in Host /\ Types
    BY DEF Host, Parts
  <2>2. main["server"].busy => main["server"].tsk = 0
    BY <2>1, PipeEmpty DEF Opening, Unused, SynSent, SynReceived
  <2> QED
    BY <2>2 DEF Process
<1> QED
  BY <1>2, <1>3, <1>4, <1>5, <1>6

\* The one segment there is is taken from the wire, or lost with the process.
LEMMA PipeReceive ==
    ASSUME Types, NEW h \in Host, Receive(h), NEW flags, NEW end, Only(Pipe(h), flags, end)
    PROVE  /\ Only(Pipe(h)', flags, end)
           /\ Pipe(Peer(h))' = Pipe(Peer(h)) /\ main'[Peer(h)] = main[Peer(h)]
           /\ main'[h].busy =>
                 /\ main'[h].tsk = tcp_sock_lookup(h) /\ tcp_sock_lookup(h) # NULL
                 /\ tcp_sock_lookup(h) # 0 => main'[h].state = sk[h][tcp_sock_lookup(h)].state
<1> DEFINE i == tcp_sock_lookup(h)
           p == Peer(h)
<1>1. net[h] # <<>> /\ ~ main[h].busy
  BY DEF Receive
<1>2. p \in Host /\ p # h /\ net \in [Host -> Seq(Seg)] /\ main \in [Host -> {Idle} \cup Busy]
  BY Hosts DEF Types
<1>3. net'[h] = Tail(net[h]) /\ net'[p] = net[p] /\ net[h] \in Seq(Seg)
  BY <1>2 DEF Receive
<1>4. Pipe(h) = net[h] /\ Len(Pipe(h)) = 1
  BY <1>1 DEF Pipe, Only
<1>5. Tail(net[h]) = <<>>
  BY <1>1, <1>4, PipeOne
<1>6. \/ main' = main
      \/ /\ i # NULL
         /\ main' = [main EXCEPT ![h] =
                [busy |-> TRUE, cb |-> Head(net[h]), tsk |-> i,
                 state |-> IF i = 0 THEN "LISTEN" ELSE sk[h][i].state]]
  BY DEF Receive
<1> HIDE DEF i
<1>7. CASE main' = main
  <2>1. Pipe(h)' = <<>> /\ Pipe(p)' = Pipe(p)
    BY <1>1, <1>2, <1>3, <1>5, <1>7, PipeSame DEF Pipe
  <2> QED
    BY <1>1, <1>7, <2>1 DEF Only
<1>8. CASE /\ i # NULL
           /\ main' = [main EXCEPT ![h] =
                  [busy |-> TRUE, cb |-> Head(net[h]), tsk |-> i,
                   state |-> IF i = 0 THEN "LISTEN" ELSE sk[h][i].state]]
  <2>1. /\ main'[p] = main[p] /\ main'[h].busy /\ main'[h].cb = Head(net[h]) /\ main'[h].tsk = i
        /\ i # 0 => main'[h].state = sk[h][i].state
    BY <1>2, <1>8
  <2>2. <<Head(net[h])>> \o Tail(net[h]) = net[h]
    BY <1>1, <1>3, TailFacts
  <2>3. Pipe(p)' = Pipe(p) /\ Pipe(h)' = Pipe(h)
    BY <1>2, <1>3, <1>4, <2>1, <2>2, PipeSame DEF Pipe
  <2> QED
    BY <1>8, <2>1, <2>3 DEF i
<1> QED
  BY <1>6, <1>7, <1>8

LEMMA OpeningReceive == ASSUME Parts, Opening, NEW h \in Host, Receive(h) PROVE Opening'
<1>1. /\ "client" \in Host /\ "server" \in Host /\ Types
      /\ Peer("client") = "server" /\ Peer("server") = "client"
  BY DEF Host, Peer, Parts
<1>2. UNCHANGED <<sk, lsn, app>> /\ net[h] # <<>> /\ ~ main[h].busy
  BY DEF Receive
<1>3. Pipe(h) # <<>>
  BY <1>1, <1>2 DEF Pipe
<1>4. ~ Unused
  BY <1>3 DEF Unused
<1>5. Waiting'
  BY <1>2 DEF Opening, Waiting
<1>6. CASE SynSent
  <2>1. h = "server"
    BY <1>3, <1>6 DEF SynSent, Host
  <2>2. Only(Pipe("server"), {TCP_SYN}, sk["client"][1].snd_nxt)
    BY <1>6 DEF SynSent
  <2>3. /\ Only(Pipe("server")', {TCP_SYN}, sk["client"][1].snd_nxt)
        /\ Pipe("client")' = Pipe("client")
        /\ main'["server"].busy => main'["server"].tsk = tcp_sock_lookup("server")
                                   /\ tcp_sock_lookup("server") # NULL
    BY <1>1, <2>1, <2>2, PipeReceive
  <2>4. tcp_sock_lookup("server") # NULL => tcp_sock_lookup("server") = 0
    <3>1. InTable("server") = {}
      BY <1>6 DEF SynSent, InTable
    <3> QED
      BY <3>1 DEF tcp_sock_lookup
  <2>5. SynSent'
    BY <1>2, <1>6, <2>3, <2>4 DEF SynSent, Calling
  <2> QED
    BY <1>5, <2>5 DEF Opening
<1>7. CASE SynReceived
  <2>1. h = "client"
    BY <1>3, <1>7 DEF SynReceived, Host
  <2>2. Only(Pipe("client"), {TCP_SYN, TCP_ACK}, sk["server"][1].snd_nxt)
    BY <1>7 DEF SynReceived
  <2>3. /\ Only(Pipe("client")', {TCP_SYN, TCP_ACK}, sk["server"][1].snd_nxt)
        /\ Pipe("server")' = Pipe("server")
        /\ main'["client"].busy =>
              /\ main'["client"].tsk = tcp_sock_lookup("client")
              /\ tcp_sock_lookup("client") # 0 =>
                    main'["client"].state = sk["client"][tcp_sock_lookup("client")].state
    BY <1>1, <2>1, <2>2, PipeReceive
  <2>4. tcp_sock_lookup("client") = 1
    <3>1. sk["client"] \in Seq(Sock) /\ Len(sk["client"]) = 1 /\ sk["client"][1].hashed
      BY <1>1, <1>7 DEF SynReceived, Calling, Called, Types
    <3>2. DOMAIN sk["client"] = {1}
      BY <3>1
    <3>3. InTable("client") = {1}
      BY <3>1, <3>2 DEF InTable
    <3> QED
      BY <3>3 DEF tcp_sock_lookup
  <2>5. sk["client"][1].state = "SYN_SENT"
    BY <1>7 DEF SynReceived, Calling, Called
  <2>6. SynReceived'
    BY <1>2, <1>7, <2>3, <2>4, <2>5 DEF SynReceived, Calling
  <2> QED
    BY <1>5, <2>6 DEF Opening
<1> QED
  BY <1>4, <1>6, <1>7 DEF Opening

LEMMA OpeningLost == ASSUME Parts, Opening, NEW h \in Host, Lost(h) PROVE Opening'
<1>1. /\ "client" \in Host /\ "server" \in Host /\ Types /\ net \in [Host -> Seq(Seg)]
      /\ \A g \in Host : g = "client" \/ g = "server"
  BY DEF Host, Parts, Types
<1>2. UNCHANGED <<sk, lsn, app, main>> /\ net[h] # <<>> /\ net' = [net EXCEPT ![h] = <<>>]
  BY DEF Lost
<1>3. Pipe(h) # <<>> /\ \A g \in Host : g # h => Pipe(g)' = Pipe(g)
  BY <1>1, <1>2, PipeEmpty, PipeSame
<1>4. Len(Pipe(h)) = 1 => Pipe(h)' = <<>>
  <2> SUFFICES ASSUME Len(Pipe(h)) = 1 PROVE Pipe(h)' = <<>>
    OBVIOUS
  <2>1. ~ main[h].busy
    BY <1>1, <1>2, PipeOne
  <2> QED
    BY <1>1, <1>2, <2>1 DEF Pipe
<1>5. ~ Unused
  BY <1>3 DEF Unused
<1>6. Waiting'
  BY <1>2 DEF Opening, Waiting
<1>7. CASE SynSent
  <2>1. h = "server" /\ Pipe("server")' = <<>> /\ Pipe("client")' = Pipe("client")
    BY <1>1, <1>3, <1>4, <1>7 DEF SynSent, Only
  <2>2. SynSent'
    BY <1>2, <1>7, <2>1 DEF SynSent, Calling, Only
  <2> QED
    BY <1>6, <2>2 DEF Opening
<1>8. CASE SynReceived
  <2>1. h = "client" /\ Pipe("client")' = <<>> /\ Pipe("server")' = Pipe("server")
    BY <1>1, <1>3, <1>4, <1>8 DEF SynReceived, Only
  <2>2. SynReceived'
    BY <1>2, <1>8, <2>1 DEF SynReceived, Calling, Only
  <2> QED
    BY <1>6, <2>2 DEF Opening
<1> QED
  BY <1>5, <1>7, <1>8 DEF Opening

\* The SYN makes the child, whose SYN|ACK goes to the client.
LEMMA OpeningListen == ASSUME Parts, Opening, tcp_state_listen PROVE Opening'
<1> DEFINE cb == main["server"].cb
<1>1. /\ "client" \in Host /\ "server" \in Host /\ Types /\ Peer("server") = "client"
      /\ main \in [Host -> {Idle} \cup Busy] /\ sk \in [Host -> Seq(Sock)] /\ lsn \in Listener
  BY DEF Host, Peer, Parts, Types
<1>2. main["server"].busy /\ app' = app /\ main' = [main EXCEPT !["server"] = Idle]
  BY DEF tcp_state_listen
<1>3. main'["server"] = Idle /\ main'["client"] = main["client"] /\ ~ Idle.busy
  BY <1>1, <1>2, IdleType
<1>4. SynSent
  BY <1>1, <1>2, PipeEmpty DEF Opening, Unused, SynReceived
<1>5. cb \in Seg /\ Pipe("server") # <<>>
  BY <1>1, <1>2, PipeHand
<1>6. Len(Pipe("server")) = 1
  BY <1>4, <1>5 DEF SynSent, Only
<1>7. cb.flags = {TCP_SYN} /\ seq_end(cb) = sk["client"][1].snd_nxt /\ net["server"] = <<>>
  BY <1>1, <1>2, <1>4, <1>5, <1>6, PipeOne DEF SynSent, Only
<1>8. /\ lsn' = [lsn EXCEPT !.listen_queue = Append(@, Len(sk["server"]) + 1)]
      /\ \E iss \in ISS :
            LET new == [tcp_sock_bind(alloc_tcp_sock) EXCEPT
                            !.rcv_nxt = seq_end(cb), !.snd_nxt = iss, !.state = "SYN_RECV"]
                child == after_control(new, {TCP_SYN, TCP_ACK})
            IN  /\ sk' = [sk EXCEPT !["server"] =
                            Append(@, tcp_hash(child, InTable("server") = {}))]
                /\ Send("server", <<tcp_send_control_packet(new, {TCP_SYN, TCP_ACK})>>)
  BY <1>7 DEF tcp_state_listen
<1>9. PICK iss \in ISS :
            LET new == [tcp_sock_bind(alloc_tcp_sock) EXCEPT
                            !.rcv_nxt = seq_end(cb), !.snd_nxt = iss, !.state = "SYN_RECV"]
                child == after_control(new, {TCP_SYN, TCP_ACK})
            IN  /\ sk' = [sk EXCEPT !["server"] =
                            Append(@, tcp_hash(child, InTable("server") = {}))]
                /\ Send("server", <<tcp_send_control_packet(new, {TCP_SYN, TCP_ACK})>>)
  BY <1>8
<1> DEFINE b == tcp_sock_bind(alloc_tcp_sock)
           v == seq_end(cb)
           new == [b EXCEPT !.rcv_nxt = v, !.snd_nxt = iss, !.state = "SYN_RECV"]
           child == after_control(new, {TCP_SYN, TCP_ACK})
           m == tcp_send_control_packet(new, {TCP_SYN, TCP_ACK})
           t == tcp_hash(child, TRUE)
<1>10. InTable("server") = {} /\ sk["server"] = <<>>
  BY <1>4 DEF SynSent, InTable
<1>11. sk' = [sk EXCEPT !["server"] = <<t>>] /\ Send("server", <<m>>)
  <2> DEFINE w == tcp_hash(child, InTable("server") = {})
             s == Append(sk["server"], w)
  <2>1. sk' = [sk EXCEPT !["server"] = s] /\ Send("server", <<m>>)
    BY <1>9
  <2>2. (InTable("server") = {}) = TRUE
    BY <1>10
  <2>3. w = t
    BY <2>2
  <2> HIDE DEF w, t
  <2>4. s = <<t>>
    BY <1>10, <2>3
  <2> QED
    BY <2>1, <2>4
<1>12. v \in Int /\ iss \in Int /\ iss \in u32
  BY <1>5, SeqEndType, IssNumbers DEF u32
<1>13. b \in Sock /\ ~ b.hashed /\ b.timer = "off"
  BY NewSock
<1>14. v = sk["client"][1].snd_nxt
  BY <1>7
<1> HIDE DEF b, v, cb
<1>15. /\ new \in Sock /\ ~ new.hashed /\ new.timer = "off" /\ new.state = "SYN_RECV"
       /\ new.rcv_nxt = v /\ new.snd_nxt \in u32
  BY <1>12, <1>13 DEF Sock, tcp_state
<1> HIDE DEF new
<1>16. /\ child \in Sock /\ ~ child.hashed /\ child.timer = "off" /\ child.state = "SYN_RECV"
       /\ child.rcv_nxt = v /\ child.snd_nxt \in u32 /\ child.snd_nxt = seq_end(m)
  BY <1>15, AfterSyn
<1>17. m.flags = {TCP_SYN, TCP_ACK} /\ <<m>> \in Out
  BY <1>15, FlagSets, ControlEnd, ControlType
<1> HIDE DEF child, m
<1>18. /\ t \in Sock /\ t.hashed /\ t.timer = "off" /\ t.state = "SYN_RECV"
       /\ t.rcv_nxt = v /\ t.snd_nxt \in u32 /\ t.snd_nxt = seq_end(m)
  BY <1>16, HashedSock
<1> HIDE DEF t
<1>19. sk'["server"] = <<t>> /\ sk'["client"] = sk["client"]
  BY <1>1, <1>11
<1>20. Len(sk'["server"]) = 1 /\ sk'["server"][1] = t
  BY <1>19
<1>21. Pipe("client")' = Pipe("client") \o <<m>> /\ net'["server"] = net["server"]
  BY <1>1, <1>3, <1>11, <1>17, PipeSend
<1>22. Len(Pipe("client")') = 1 /\ Pipe("client")'[1] = m
  <2>1. Pipe("client") = <<>> /\ <<>> \o <<m>> = <<m>>
    BY <1>4 DEF SynSent
  <2> QED
    BY <1>21, <2>1
<1>23. Pipe("server")' = <<>>
  BY <1>3, <1>7, <1>21 DEF Pipe
<1>24. ~ main'["client"].busy
  BY <1>1, <1>3, <1>4, PipeEmpty DEF SynSent
<1>25. Calling'
  BY <1>2, <1>4, <1>19 DEF SynSent, Calling
<1>26. SynReceived'
  BY <1>14, <1>17, <1>18, <1>19, <1>20, <1>22, <1>23, <1>24, <1>25 DEF SynReceived, Only
<1>27. Waiting'
  <2>1. lsn'.accept_backlog = lsn.accept_backlog
    BY <1>1, <1>8 DEF Listener
  <2> QED
    BY <1>2, <2>1 DEF Opening, Waiting
<1> QED
  BY <1>26, <1>27 DEF Opening

\* The SYN|ACK reaches the client: from here both ends know each other.
LEMMA OpeningProcess == ASSUME Parts, Opening, Process("client") PROVE Linked'
<1> DEFINE h == "client"
           p == "server"
           t == sk[h][1]
           y == sk[p][1]
           cb == main[h].cb
           x == seq_end(cb)
           a == cb.ack
           u == [t EXCEPT !.rcv_nxt = x, !.snd_una = a, !.state = "ESTABLISHED",
                          !.wait_connect = TRUE]
           m == tcp_send_control_packet(u, {TCP_ACK})
           w == after_control(u, {TCP_ACK})
           e == [n |-> t.snd_nxt, fin |-> FALSE, got |-> x]
           f == [n |-> x, fin |-> FALSE, got |-> t.snd_nxt]
<1>1. /\ h \in Host /\ p \in Host /\ p # h /\ p = Peer(h) /\ Types
      /\ main \in [Host -> {Idle} \cup Busy] /\ sk \in [Host -> Seq(Sock)]
  BY DEF Host, Peer, Parts, Types
<1>2. main[h].busy /\ main[h].tsk # 0 /\ app' = app /\ main' = [main EXCEPT ![h] = Idle]
  BY DEF Process
<1>3. SynReceived /\ Waiting
  BY <1>1, <1>2, PipeEmpty DEF Opening, Unused, SynSent
<1>4. cb \in Seg /\ Pipe(h) # <<>>
  BY <1>1, <1>2, PipeHand
<1>5. Len(Pipe(h)) = 1
  BY <1>3, <1>4 DEF SynReceived, Only
<1>6. cb.flags = {TCP_SYN, TCP_ACK} /\ x = y.snd_nxt /\ net[h] = <<>>
  BY <1>1, <1>2, <1>3, <1>4, <1>5, PipeOne DEF SynReceived, Only
<1>7. /\ Len(sk[h]) = 1 /\ Len(sk[p]) = 1 /\ main[h].state = "SYN_SENT"
      /\ t.hashed /\ t.timer = "off" /\ t.snd_nxt \in u32 /\ app[h].pc = "connecting"
      /\ y.state = "SYN_RECV" /\ y.hashed /\ y.timer = "off" /\ y.snd_nxt \in u32
      /\ y.rcv_nxt = t.snd_nxt /\ Pipe(p) = <<>> /\ app[p].pc \in BeforeAccept
  BY <1>2, <1>3 DEF SynReceived, Calling, Called, Waiting
<1>8. DOMAIN sk[h] = {1} /\ t \in Sock
  <2>1. sk[h] \in Seq(Sock)
    BY <1>1
  <2> QED
    BY <1>7, <2>1
<1>9. main[h].tsk = 1
  <2>1. MainOK(h, main[h], sk[h], app[h].pc)
    BY <1>1 DEF Parts
  <2> QED
    BY <1>2, <1>8, <2>1 DEF MainOK
<1>10. tcp_process(t, main[h].state, cb) = Answer(u, {TCP_ACK})
  BY <1>6, <1>7 DEF tcp_process, tcp_state_syn_sent
<1>11. sk' = [sk EXCEPT ![h][1] = w] /\ Send(h, <<m>>)
  BY <1>9, <1>10 DEF Process, Answer, Result
<1>12. x \in Int /\ x \in u32 /\ a \in Int
  BY <1>4, <1>6, <1>7, SeqEndType DEF Seg
<1>13. e \in Ends /\ f \in Ends /\ e.n = t.snd_nxt /\ ~ e.fin /\ e.got = x
       /\ f.n = x /\ ~ f.fin /\ f.got = t.snd_nxt
  BY <1>7, <1>12 DEF Ends, u32
<1> HIDE DEF x, a
<1>14. /\ u \in Sock /\ u.rcv_nxt = x /\ u.snd_nxt = t.snd_nxt /\ u.state = "ESTABLISHED"
       /\ u.timer = t.timer /\ u.hashed = t.hashed
  BY <1>8, <1>12 DEF Sock, tcp_state
<1> HIDE DEF u, e, f
<1>15. w = u
  <2>1. {TCP_ACK} \cap {TCP_SYN, TCP_FIN} = {}
    BY DEF TCP_ACK, TCP_SYN, TCP_FIN
  <2>2. w = [u EXCEPT !.snd_nxt = u.snd_nxt]
    BY <2>1 DEF after_control
  <2> QED
    BY <1>14, <2>2 DEF Sock
<1>16. Near(e.got, f) /\ Near(f.got, e)
  BY <1>13 DEF Near
<1>17. SegOK(e, f, m) /\ Upto(e, m)
  BY <1>13, <1>14, <1>16, AckSent
<1>18. m \in Seg
  BY <1>14, FlagSets DEF tcp_send_control_packet, tcp_cb, Seg, Sock
<1> HIDE DEF m, w
<1>19. /\ sk' \in [Host -> Seq(Sock)] /\ sk'[p] = sk[p] /\ sk'[h][1] = u /\ DOMAIN sk'[h] = {1}
  <2>1. 1 \in DOMAIN sk[h] /\ sk' = [sk EXCEPT ![h][1] = u]
    BY <1>8, <1>11, <1>15
  <2> HIDE DEF h, p
  <2>2. /\ sk' \in [Host -> Seq(Sock)] /\ \A g \in Host : DOMAIN sk'[g] = DOMAIN sk[g]
        /\ \A g \in Host : g # h => sk'[g] = sk[g]
        /\ \A j \in DOMAIN sk[h] : sk'[h][j] = IF j = 1 THEN u ELSE sk[h][j]
    BY <1>1, <1>14, <2>1, ReplaceSock
  <2> QED
    BY <1>1, <1>8, <2>1, <2>2
<1>20. Len(sk'[h]) = 1 /\ Len(sk'[p]) = 1
  <2>1. sk'[h] \in Seq(Sock)
    BY <1>1, <1>19
  <2>2. Len(sk'[h]) = 1
    BY <1>19, <2>1, LenOne
  <2> QED
    BY <1>7, <1>19, <2>2
<1>21. sk'[h][1].snd_nxt \in u32 /\ sk'[p][1].snd_nxt \in u32
  BY <1>7, <1>14, <1>19
<1>22. End(h)' = e /\ End(p)' = f
  <2>1. FinSent(h)' = FALSE /\ FinSent(p)' = FALSE
    BY <1>2, <1>7 DEF FinSent, BeforeAccept
  <2>2. e.fin = FALSE /\ f.fin = FALSE
    BY DEF e, f
  <2>3. End(h)' = e
    BY <1>1, <1>13, <1>14, <1>19, <2>1, <2>2, EndIs
  <2>4. End(p)' = f
    BY <1>1, <1>6, <1>7, <1>13, <1>19, <2>1, <2>2, EndIs
  <2> QED
    BY <2>3, <2>4
<1>23. main'[p] = main[p] /\ main'[h] = Idle /\ ~ Idle.busy /\ ~ main[p].busy
  BY <1>1, <1>2, <1>7, IdleType, PipeEmpty
<1>24. Flow(e, f, Pipe(p)') /\ Flow(f, e, Pipe(h)')
  <2>1. <<m>> \in Out
    BY <1>18 DEF Out
  <2>2. Pipe(p)' = Pipe(p) \o <<m>> /\ net'[h] = net[h]
    BY <1>1, <1>11, <1>23, <2>1, PipeSend
  <2>3. Pipe(h)' = <<>>
    BY <1>6, <1>23, <2>2 DEF Pipe
  <2>4. \A s, r : Near(r.got, s) => Flow(s, r, <<>>)
    BY DEF Flow
  <2>5. <<>> \in Seq(Seg)
    OBVIOUS
  <2>6. Flow(e, f, <<>> \o <<m>>)
    BY <1>16, <1>17, <1>18, <2>4, <2>5, FlowMore
  <2> QED
    BY <1>7, <1>16, <2>2, <2>3, <2>4, <2>6
<1>25. HandOK(e, f, main'[h]) /\ HandOK(f, e, main'[p])
  BY <1>23 DEF HandOK
<1>26. EndOK(e, f, sk'[h][1], app'[h].pc)
  BY <1>2, <1>7, <1>14, <1>19 DEF EndOK, StateOK
<1>27. EndOK(f, e, sk'[p][1], app'[p].pc)
  <2>1. app'[p].pc \notin {"FIN_WAIT_1", "LAST_ACK"}
    BY <1>2, <1>7 DEF BeforeAccept
  <2> QED
    BY <1>2, <1>7, <1>19, <2>1 DEF EndOK, StateOK
<1> QED
  BY <1>1, <1>20, <1>21, <1>22, <1>24, <1>25, <1>26, <1>27, LinkedNext

--------------------------------------------------------------------------------
(* Together.                                                                   *)

LEMMA InitConn == Init => Conn
<1> SUFFICES ASSUME Init PROVE Conn
  OBVIOUS
<1>1. \A h \in Host : sk[h] = <<>> /\ net[h] = <<>> /\ main[h] = Idle /\ app[h] = FirstPc(h)
  BY DEF Init
<1>2. \A h \in Host : Pipe(h) = <<>>
  BY <1>1, IdleType DEF Pipe
<1>3. Unused /\ Waiting
  BY <1>1, <1>2, Hosts DEF Init, Unused, Waiting, FirstPc, BeforeAccept, NoLsn
<1> QED
  BY <1>3 DEF Conn, Opening, Init

LEMMA LinkedKeeps ==
    ASSUME Parts, Linked, [Next]_vars, restarts = 0, restarts' = 0 PROVE Linked'
<1>1. ASSUME NEW h \in Host, Main(h) PROVE Linked'
  BY <1>1, LinkedReceive, LinkedProcess, LinkedListen DEF Main
<1>2. ASSUME NEW h \in Host, tcp_scan_timer_list(h) \/ Lost(h) PROVE Linked'
  BY <1>2, LinkedTimer, LinkedLost
<1>3. ~ tcp_sock_connect
  <2>1. Len(sk["client"]) = 1 /\ Len(<<>>) = 0
    BY Hosts DEF Linked
  <2>2. sk["client"] # <<>>
    BY <2>1
  <2> QED
    BY <2>2 DEF tcp_sock_connect, Parts, AppOK
<1>4. CASE tcp_client
  BY <1>3, <1>4, LinkedConnected, LinkedCloseFin, LinkedCloseState, Hosts DEF tcp_client
<1>5. CASE tcp_server
  BY <1>5, LinkedWaits, LinkedDequeue, LinkedCloseFin, LinkedCloseState, Hosts DEF tcp_server
<1>6. CASE UNCHANGED vars
  <2>1. UNCHANGED <<sk, app, main, net>>
    BY <1>6 DEF vars
  <2>2. \A h \in Host : End(h)' = End(h) /\ Pipe(h)' = Pipe(h)
    BY <2>1 DEF End, FinSent, Pipe
  <2> QED
    BY <2>1, <2>2 DEF Linked, End, FinSent, Pipe
<1>7. \A h \in Host : ~ Restart(h)
  BY DEF Restart
<1> QED
  BY <1>1, <1>2, <1>4, <1>5, <1>6, <1>7 DEF Next

LEMMA OpeningKeeps ==
    ASSUME Parts, Opening, [Next]_vars, restarts = 0, restarts' = 0 PROVE Opening' \/ Linked'
<1>1. ASSUME NEW h \in Host, Main(h) PROVE Opening' \/ Linked'
  <2>1. CASE Process(h)
    BY <2>1, OpeningProcess, OpeningLimits, Hosts
  <2> QED
    BY <1>1, <2>1, OpeningReceive, OpeningListen DEF Main
<1>2. ASSUME NEW h \in Host, tcp_scan_timer_list(h) \/ Lost(h) PROVE Opening'
  BY <1>2, OpeningLimits, OpeningLost
<1>3. CASE tcp_client
  BY <1>3, OpeningConnect, OpeningLimits, Hosts DEF tcp_client
<1>4. CASE tcp_server
  BY <1>4, OpeningWaits, OpeningLimits, Hosts DEF tcp_server
<1>5. CASE UNCHANGED vars
  <2>1. UNCHANGED <<sk, lsn, app, main, net>>
    BY <1>5 DEF vars
  <2>2. Waiting'
    BY <2>1 DEF Opening, Waiting
  <2>3. (Unused \/ SynSent \/ SynReceived)'
    BY <2>1 DEF Opening, Unused, SynSent, SynReceived, Calling, Called, Only, Pipe
  <2> QED
    BY <2>2, <2>3 DEF Opening
<1>6. \A h \in Host : ~ Restart(h)
  BY DEF Restart
<1> QED
  BY <1>1, <1>2, <1>3, <1>4, <1>5, <1>6 DEF Next

LEMMA RestartsStep ==
    ASSUME restarts \in Nat, [Next]_vars
    PROVE  restarts' \in Nat /\ (restarts' = 0 => restarts = 0)
<1>1. restarts' = restarts \/ restarts' = restarts + 1
  <2>1. ASSUME NEW h \in Host, Main(h) PROVE restarts' = restarts
    BY <2>1 DEF Main, Receive, Process, tcp_state_listen
  <2>2. ASSUME NEW h \in Host, tcp_scan_timer_list(h) \/ Lost(h) PROVE restarts' = restarts
    BY <2>2 DEF tcp_scan_timer_list, Lost
  <2>3. ASSUME NEW h \in Host, Restart(h) PROVE restarts' = restarts + 1
    BY <2>3 DEF Restart
  <2>4. CASE tcp_client
    BY <2>4 DEF tcp_client, tcp_sock_connect, Connected, CloseFin, CloseState
  <2>5. CASE tcp_server
    BY <2>5 DEF tcp_server, tcp_sock_listen, AcceptTest, AcceptWoken, Dequeue, CloseFin, CloseState
  <2>6. CASE UNCHANGED vars
    BY <2>6 DEF vars
  <2> QED
    BY <2>1, <2>2, <2>3, <2>4, <2>5, <2>6 DEF Next
<1> QED
  BY <1>1

LEMMA StepConn == Parts /\ Conn /\ [Next]_vars => Conn'
<1> SUFFICES ASSUME Parts, Conn, [Next]_vars PROVE Conn'
  OBVIOUS
<1>1. restarts' \in Nat /\ (restarts' = 0 => restarts = 0)
  BY RestartsStep DEF Conn
<1>2. ASSUME restarts' = 0 PROVE Linked' \/ Opening'
  <2>1. Linked \/ Opening
    BY <1>1, <1>2 DEF Conn, Opening
  <2> QED
    BY <1>1, <1>2, <2>1, LinkedKeeps, OpeningKeeps
<1> QED
  BY <1>1, <1>2 DEF Conn, Opening

LEMMA AlwaysConn == Spec => [](Parts /\ Conn)
<1>1. Init => Parts /\ Conn
  BY InitParts, InitConn
<1>2. (Parts /\ Conn) /\ [Next]_vars => (Parts /\ Conn)'
  BY StepParts, StepConn
<1> QED
  BY <1>1, <1>2, PTL DEF Spec

LEMMA NearIsBehind ==
    ASSUME NEW x, NEW s \in Ends, Near(x, s) PROVE less_or_equal_32b(x, s.n)
<1>1. CASE x = s.n
  BY <1>1 DEF less_or_equal_32b
<1>2. CASE x \in u32 /\ Plus(x, 1) = s.n
  BY <1>2, PlusFacts DEF less_or_equal_32b
<1> QED
  BY <1>1, <1>2 DEF Near

\* Without restarts, neither side acknowledges what the other did not send
\* (tcp_in.c: rcv_nxt is taken from the segment): rcv_nxt of a sock is behind snd_nxt of
\* its peer, for every modulus, window and pair of initial sequence numbers and in every
\* interleaving of the threads that handle segments and close.
THEOREM AcksAreHonest == Spec => []AcksOnlyWhatWasSent
<1>1. Parts /\ Conn => AcksOnlyWhatWasSent
  <2> SUFFICES ASSUME Parts, Conn, Joined, restarts = 0
               PROVE  /\ less_or_equal_32b(Child.rcv_nxt, CSock.snd_nxt)
                      /\ CSock.state # "SYN_SENT" =>
                             less_or_equal_32b(CSock.rcv_nxt, Child.snd_nxt)
    BY DEF AcksOnlyWhatWasSent
  <2>1. /\ "client" \in Host /\ "server" \in Host
        /\ Peer("client") = "server" /\ Peer("server") = "client"
    BY DEF Host, Peer
  <2>2. CASE Linked
    <3>1. /\ End("client") \in Ends /\ End("server") \in Ends
          /\ End("client").n = CSock.snd_nxt /\ End("client").got = CSock.rcv_nxt
          /\ End("server").n = Child.snd_nxt /\ End("server").got = Child.rcv_nxt
          /\ Near(End("client").got, End("server")) /\ Near(End("server").got, End("client"))
      BY <2>1, <2>2, LinkedFacts DEF CSock, Child
    <3> QED
      BY <3>1, NearIsBehind
  <2>3. CASE Opening
    <3>1. SynReceived
      BY <2>1, <2>3 DEF Opening, Unused, SynSent, Joined
    <3> QED
      BY <3>1 DEF SynReceived, Calling, Called, CSock, Child, less_or_equal_32b
  <2> QED
    BY <2>2, <2>3 DEF Conn, Opening
<1> QED
  BY <1>1, AlwaysConn, PTL

\* Without restarts, a sock in TIME_WAIT has seen both FINs, and one that is closed from
\* LAST_ACK or by a reset leaves nothing behind: its peer has received everything up to and
\* including its FIN, although tcp_process decides on a state it read earlier and
\* tcp_sock_close sends its FIN before it changes the state.
THEOREM ClosesInOrder == Spec => []OrderlyClose
<1>1. Parts /\ Conn => OrderlyClose
  <2> SUFFICES ASSUME Parts, Conn, Joined, restarts = 0, NEW h \in Host
               PROVE  /\ sk[h][1].state = "TIME_WAIT" => FinSent("client") /\ FinSent("server")
                      /\ sk[h][1].state = "CLOSED" /\ sk[h][1].timer = "off" =>
                             /\ FinSent(h)
                             /\ sk[Peer(h)][1].rcv_nxt = sk[h][1].snd_nxt
    BY DEF OrderlyClose
  <2>1. Peer(h) \in Host /\ \A g \in Host : g = h \/ g = Peer(h)
    BY DEF Host, Peer
  <2>2. CASE Linked
    <3>1. /\ StateOK(End(h), End(Peer(h)), sk[h][1].state)
          /\ End(h).n = sk[h][1].snd_nxt /\ End(h).fin = FinSent(h)
      BY <2>2, LinkedFacts
    <3>2. End(Peer(h)).got = sk[Peer(h)][1].rcv_nxt /\ End(Peer(h)).fin = FinSent(Peer(h))
      BY <2>1, <2>2, LinkedFacts
    <3>3. ASSUME sk[h][1].state \in {"TIME_WAIT", "CLOSED"}
          PROVE  FinSent(h) /\ FinSent(Peer(h)) /\ sk[Peer(h)][1].rcv_nxt = sk[h][1].snd_nxt
      BY <3>1, <3>2, <3>3 DEF StateOK, Done, All
    <3> QED
      BY <2>1, <3>3, Hosts
  <2>3. CASE Opening
    <3>1. SynReceived
      BY <2>3, Hosts DEF Opening, Unused, SynSent, Joined
    <3> QED
      BY <3>1, Hosts DEF SynReceived, Calling, Called
  <2> QED
    BY <2>2, <2>3 DEF Conn, Opening
<1> QED
  BY <1>1, AlwaysConn, PTL
================================================================================
