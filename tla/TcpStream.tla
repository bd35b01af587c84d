------------------------------- MODULE TcpStream -------------------------------
(***************************************************************************)
(* The data transfer of lab 16 (16-tcp_stack): a client that writes one    *)
(* bulk of bytes and reads one, `Rounds' times, and a server that echoes.  *)
(*                                                                         *)
(* As in TcpHandshake, each host has a main thread, which runs tcp_process *)
(* on one segment at a time, and an application thread.  The threads meet  *)
(* in the ring buffer (under its lock) and in the wait structs, where a    *)
(* notification is remembered until somebody sleeps.  The points where one *)
(* thread may run between two steps of the other are steps of their own:   *)
(* after tcp_process read the state, between the write into the ring       *)
(* buffer, wake_up and the ACK, between `snd_nxt += len' and the packet on *)
(* the wire, between the test for an empty buffer and sleep_on, and        *)
(* between a FIN and the change of state.  The network is one wire: FIFO,  *)
(* no loss.                                                                *)
(*                                                                         *)
(* The server listens when the behaviour starts.  The ring buffer is a     *)
(* sequence of bytes; RingBuffer shows that it behaves as one.             *)
(***************************************************************************)
EXTENDS TcpBase, SequencesExt

CONSTANTS
    ISS,        \* the values tcp_new_iss may return
    Rounds      \* how many bulks the client sends (10 in tcp_client)

ASSUME StreamAssumption ==
    /\ ISS \subseteq 0 .. (SEQ_MOD \div 2) - 1
    /\ Rounds \in Nat \ {0}
    /\ 3 * Rounds < TCP_DEFAULT_WINDOW   \* the client reads 3 bytes or less a round

Host == {"client", "server"}
Peer(h) == IF h = "client" THEN "server" ELSE "client"

VARIABLES
    sk,         \* sk[h]: the connection sock of h
    backlog,    \* accept_backlog and wait_accept of the listening sock
    app,        \* app[h]: the application thread of h
    main,       \* main[h]: the main thread of h
    net,        \* net[h]: the segments on their way to h
    wrote,      \* wrote[h]: history, the bytes the application of h wrote ...
    got,        \* ... and read
    early       \* history: data came for a sock that was not accepted yet

vars == <<sk, backlog, app, main, net, wrote, got, early>>

Idle == [at |-> "idle"]

\* alloc_tcp_sock; the wait structs are the notified flags.
alloc_tcp_sock ==
    [state |-> "CLOSED", snd_nxt |-> 0, snd_una |-> 0, rcv_nxt |-> 0,
     rcv_wnd |-> TCP_DEFAULT_WINDOW, rcv_buf |-> <<>>, timer |-> "off",
     wait_connect |-> FALSE, wait_send |-> FALSE, wait_recv |-> FALSE]

\* Byte i is the client's bulk of round i; byte 0 is "server echoes: ".
Bulk(i) == <<i>>
Echo(data) == <<0>> \o data

--------------------------------------------------------------------------------
(* tcp_process on the connection sock, for the state read at its entry.  The   *)
(* result is the sock, what is sent, whether the parent gets it in its accept  *)
(* queue, and whether payload was stored, which leaves wake_up and an ACK to   *)
(* be done.                                                                    *)

Result(tsk, out) == [tsk |-> tsk, out |-> out, enqueue |-> FALSE, stored |-> FALSE]

Answer(tsk, flags) ==
    Result(after_control(tsk, flags), <<tcp_send_control_packet(tsk, flags)>>)

Set(tsk, s) == [tsk EXCEPT !.state = s]

tcp_state_syn_sent(tsk, cb) ==
    IF cb.flags \cap {TCP_SYN, TCP_ACK} # {}
    THEN Answer([tsk EXCEPT !.rcv_nxt = seq_end(cb), !.snd_una = cb.ack,
                            !.state = "ESTABLISHED", !.wait_connect = TRUE], {TCP_ACK})
    ELSE Result(tsk, <<tcp_send_reset(cb)>>)

\* tcp_rcv_data_packet up to the unlock.
tcp_rcv_data_packet(tsk, cb) ==
    [tsk EXCEPT !.rcv_buf = @ \o cb.data, !.rcv_wnd = @ - Len(cb.data)]

\* Steps 8 to 11.
ProcessAck(tsk0, state, cb) ==
    LET tsk == [tsk0 EXCEPT !.snd_una = cb.ack, !.rcv_nxt = seq_end(cb)]
        acked == cb.ack = tsk.snd_nxt
    IN  CASE state = "SYN_RECV" /\ acked -> [Result(tsk, <<>>) EXCEPT !.enqueue = TRUE]
          [] state = "FIN_WAIT_1" /\ acked -> Answer(Set(tsk, "FIN_WAIT_2"), {TCP_ACK})
          [] state = "FIN_WAIT_2" ->
                Answer([tsk EXCEPT !.state = "TIME_WAIT", !.timer = "on"], {TCP_ACK, TCP_FIN})
          [] state = "ESTABLISHED" /\ TCP_FIN \in cb.flags ->
                Answer(Set(tsk, "CLOSE_WAIT"), {TCP_ACK})
          [] state = "CLOSE_WAIT" -> Answer(Set(tsk, "LAST_ACK"), {TCP_ACK, TCP_FIN})
          [] state = "LAST_ACK" /\ acked -> Result(Set(tsk, "CLOSED"), <<>>)
          [] state = "ESTABLISHED" /\ cb.flags = {TCP_ACK} ->
                Result([tsk EXCEPT !.wait_send = TRUE], <<>>)
          [] OTHER -> Result(tsk, <<>>)

tcp_process(tsk, state, cb) ==
    CASE state = "CLOSED" -> Result(tsk, <<tcp_send_reset(cb)>>)
      [] state = "SYN_SENT" -> tcp_state_syn_sent(tsk, cb)
      [] OTHER ->
           IF ~ is_tcp_seq_valid(tsk, cb) THEN Result(tsk, <<>>)
           ELSE IF TCP_RST \in cb.flags THEN Result(Set(tsk, "CLOSED"), <<>>)
           ELSE IF TCP_SYN \in cb.flags
                THEN Result(Set(tsk, "CLOSED"), <<tcp_send_reset(cb)>>)
           ELSE IF TCP_ACK \notin cb.flags THEN Result(tsk, <<tcp_send_reset(cb)>>)
           ELSE IF state = "ESTABLISHED" /\ cb.flags = {TCP_PSH, TCP_ACK}
                THEN [Result(tcp_rcv_data_packet(tsk, cb), <<>>) EXCEPT !.stored = TRUE]
           ELSE ProcessAck(tsk, state, cb)

Send(h, out) == net' = [net EXCEPT ![Peer(h)] = @ \o out]

--------------------------------------------------------------------------------
(* The main thread                                                             *)

\* handle_tcp_packet up to the entry of tcp_process, where the state is read.
\* "NONE": the server has no connection sock yet, the listening sock is found.
Receive(h) ==
    /\ main[h].at = "idle" /\ net[h] # <<>>
    /\ net' = [net EXCEPT ![h] = Tail(@)]
    /\ main' = [main EXCEPT ![h] =
          [at |-> "process", cb |-> Head(net[h]), state |-> sk[h].state]]
    /\ UNCHANGED <<sk, backlog, app, wrote, got, early>>

\* The listening sock gets a SYN and makes the child.
tcp_state_listen ==
    LET m == main["server"]
    IN  /\ m.at = "process" /\ m.state = "NONE" /\ TCP_SYN \in m.cb.flags
        /\ \E iss \in ISS :
              LET new == [alloc_tcp_sock EXCEPT !.rcv_nxt = seq_end(m.cb),
                              !.snd_nxt = iss, !.state = "SYN_RECV"]
              IN  /\ sk' = [sk EXCEPT !["server"] = after_control(new, {TCP_SYN, TCP_ACK})]
                  /\ Send("server", <<tcp_send_control_packet(new, {TCP_SYN, TCP_ACK})>>)
        /\ main' = [main EXCEPT !["server"] = Idle]
        /\ UNCHANGED <<backlog, app, wrote, got, early>>

\* tcp_process on the connection sock.
Process(h) ==
    LET m == main[h]
        r == tcp_process(sk[h], m.state, m.cb)
    IN  /\ m.at = "process" /\ m.state # "NONE"
        /\ sk' = [sk EXCEPT ![h] = r.tsk]
        /\ Send(h, r.out)
        /\ backlog' = IF r.enqueue THEN [n |-> backlog.n + 1, wait_accept |-> TRUE]
                                   ELSE backlog
        /\ main' = [main EXCEPT ![h] = IF r.stored THEN [at |-> "wake"] ELSE Idle]
        /\ early' = (early \/ (m.cb.data # <<>> /\ m.state = "SYN_RECV"))
        /\ UNCHANGED <<app, wrote, got>>

\* Mutant: nobody is told that data has come.
WakeReader_silent(h) ==
    /\ main[h].at = "wake"
    /\ main' = [main EXCEPT ![h] = [at |-> "ack"]]
    /\ UNCHANGED <<sk, backlog, app, net, wrote, got, early>>

\* ... after data was stored: wake_up(wait_recv), ...
WakeReader(h) ==
    /\ main[h].at = "wake"
    /\ sk' = [sk EXCEPT ![h].wait_recv = TRUE]
    /\ main' = [main EXCEPT ![h] = [at |-> "ack"]]
    /\ UNCHANGED <<backlog, app, net, wrote, got, early>>

\* Mutant: the bytes are not acknowledged.
Acknowledge_not(h) ==
    /\ main[h].at = "ack"
    /\ main' = [main EXCEPT ![h] = Idle]
    /\ UNCHANGED <<sk, backlog, app, net, wrote, got, early>>

\* ... and the ACK.
Acknowledge(h) ==
    /\ main[h].at = "ack"
    /\ sk' = [sk EXCEPT ![h] = after_control(@, {TCP_ACK})]
    /\ Send(h, <<tcp_send_control_packet(sk[h], {TCP_ACK})>>)
    /\ main' = [main EXCEPT ![h] = Idle]
    /\ UNCHANGED <<backlog, app, wrote, got, early>>

--------------------------------------------------------------------------------
(* The application threads                                                     *)

Goto(h, pc) == app' = [app EXCEPT ![h].pc = pc]

tcp_sock_connect ==
    /\ app["client"].pc = "connect"
    /\ \E iss \in ISS :
          LET new == [alloc_tcp_sock EXCEPT !.snd_nxt = iss, !.state = "SYN_SENT"]
          IN  /\ sk' = [sk EXCEPT !["client"] = after_control(new, {TCP_SYN})]
              /\ Send("client", <<tcp_send_control_packet(new, {TCP_SYN})>>)
    /\ Goto("client", "connecting")
    /\ UNCHANGED <<backlog, main, wrote, got, early>>

\* After connect: the first bulk is at hand.
Connected ==
    /\ app["client"].pc = "connecting" /\ sk["client"].wait_connect
    /\ sk' = [sk EXCEPT !["client"].wait_connect = FALSE]
    /\ app' = [app EXCEPT !["client"] = [pc |-> "write", buf |-> Bulk(1), i |-> 1]]
    /\ UNCHANGED <<backlog, main, net, wrote, got, early>>

\* tcp_sock_accept: the test, sleep_on(wait_accept), and the dequeue, which makes
\* the sock ESTABLISHED.
AcceptTest ==
    /\ app["server"].pc = "accept"
    /\ Goto("server", IF backlog.n = 0 THEN "accepting" ELSE "dequeue")
    /\ UNCHANGED <<sk, backlog, main, net, wrote, got, early>>

AcceptWoken ==
    /\ app["server"].pc = "accepting" /\ backlog.wait_accept
    /\ backlog' = [backlog EXCEPT !.wait_accept = FALSE]
    /\ Goto("server", "dequeue")
    /\ UNCHANGED <<sk, main, net, wrote, got, early>>

Dequeue ==
    /\ app["server"].pc = "dequeue" /\ backlog.n # 0
    /\ backlog' = [backlog EXCEPT !.n = @ - 1]
    /\ sk' = [sk EXCEPT !["server"].state = "ESTABLISHED"]
    /\ Goto("server", "read")
    /\ UNCHANGED <<main, net, wrote, got, early>>

\* Mutant: the bytes sent are not counted.
Write_uncounted(h) ==
    /\ app[h].pc = "write"
    /\ app' = [app EXCEPT ![h].pc = "emit",
                          ![h].buf = tcp_send_packet(sk[h], app[h].buf)]
    /\ wrote' = [wrote EXCEPT ![h] = @ \o app[h].buf]
    /\ UNCHANGED <<sk, backlog, main, net, got, early>>

\* tcp_sock_write: tcp_send_packet makes the segment and advances snd_nxt, ...
Write(h) ==
    /\ app[h].pc = "write"
    /\ sk' = [sk EXCEPT ![h] = after_packet(@, app[h].buf)]
    /\ app' = [app EXCEPT ![h].pc = "emit",
                          ![h].buf = tcp_send_packet(sk[h], app[h].buf)]
    /\ wrote' = [wrote EXCEPT ![h] = @ \o app[h].buf]
    /\ UNCHANGED <<backlog, main, net, got, early>>

\* ... the segment goes out, ...
Emit(h) ==
    /\ app[h].pc = "emit"
    /\ Send(h, <<app[h].buf>>)
    /\ Goto(h, "sent")
    /\ UNCHANGED <<sk, backlog, main, wrote, got, early>>

\* ... and sleep_on(wait_send).
Written(h) ==
    /\ app[h].pc = "sent" /\ sk[h].wait_send
    /\ sk' = [sk EXCEPT ![h].wait_send = FALSE]
    /\ Goto(h, "read")
    /\ UNCHANGED <<backlog, main, net, wrote, got, early>>

\* What the applications do with the bytes a read returned: the server echoes
\* them or reads again, the client goes on to its next round.
AfterRead(h, data) ==
    IF h = "server"
    THEN IF data = <<>> THEN [app[h] EXCEPT !.pc = "read"]
                        ELSE [app[h] EXCEPT !.pc = "write", !.buf = Echo(data)]
    ELSE IF app[h].i = Rounds THEN [app[h] EXCEPT !.pc = "close"]
         ELSE [pc |-> "write", buf |-> Bulk(app[h].i + 1), i |-> app[h].i + 1]

\* Mutant: head is not advanced.
Take_keeps(h) ==
    /\ got' = [got EXCEPT ![h] = @ \o sk[h].rcv_buf]
    /\ app' = [app EXCEPT ![h] = AfterRead(h, sk[h].rcv_buf)]
    /\ UNCHANGED sk

\* read_ring_buffer: the 1000 bytes asked for are more than the buffer ever holds.
Take(h) ==
    /\ sk' = [sk EXCEPT ![h].rcv_buf = <<>>]
    /\ got' = [got EXCEPT ![h] = @ \o sk[h].rcv_buf]
    /\ app' = [app EXCEPT ![h] = AfterRead(h, sk[h].rcv_buf)]

\* tcp_sock_read: with the lock, take what there is; nothing there: unlock, ...
ReadTest(h) ==
    /\ app[h].pc = "read"
    /\ \/ sk[h].rcv_buf # <<>> /\ Take(h)
       \/ sk[h].rcv_buf = <<>> /\ Goto(h, "recv") /\ UNCHANGED <<sk, got>>
    /\ UNCHANGED <<backlog, main, net, wrote, early>>

\* ... sleep_on(wait_recv), ...
ReadWoken(h) ==
    /\ app[h].pc = "recv" /\ sk[h].wait_recv
    /\ sk' = [sk EXCEPT ![h].wait_recv = FALSE]
    /\ Goto(h, "take")
    /\ UNCHANGED <<backlog, main, net, wrote, got, early>>

\* ... lock again and take what there is, which may be nothing.
ReadTake(h) ==
    /\ app[h].pc = "take"
    /\ Take(h)
    /\ UNCHANGED <<backlog, main, net, wrote, early>>

\* tcp_sock_close, by the client: the FIN goes out before the state changes.
CloseFin ==
    LET tsk == sk["client"]
    IN  /\ app["client"].pc = "close"
        /\ tsk.state \in {"ESTABLISHED", "CLOSE_WAIT"}
        /\ sk' = [sk EXCEPT !["client"] = after_control(tsk, {TCP_FIN, TCP_ACK})]
        /\ Send("client", <<tcp_send_control_packet(tsk, {TCP_FIN, TCP_ACK})>>)
        /\ Goto("client", IF tsk.state = "ESTABLISHED" THEN "FIN_WAIT_1" ELSE "LAST_ACK")
        /\ UNCHANGED <<backlog, main, wrote, got, early>>

CloseState ==
    /\ app["client"].pc \in {"FIN_WAIT_1", "LAST_ACK"}
    /\ sk' = [sk EXCEPT !["client"].state = app["client"].pc]
    /\ Goto("client", "done")
    /\ UNCHANGED <<backlog, main, net, wrote, got, early>>

\* The timer thread ends a TIME_WAIT.
tcp_scan_timer_list(h) ==
    /\ sk[h].timer = "on"
    /\ sk' = [sk EXCEPT ![h].timer = "fired", ![h].state = "CLOSED"]
    /\ UNCHANGED <<backlog, app, main, net, wrote, got, early>>

--------------------------------------------------------------------------------
Init ==
    /\ sk = [h \in Host |-> [alloc_tcp_sock EXCEPT !.state =
                                IF h = "server" THEN "NONE" ELSE "CLOSED"]]
    /\ backlog = [n |-> 0, wait_accept |-> FALSE]
    /\ app = [h \in Host |-> [pc |-> IF h = "client" THEN "connect" ELSE "accept",
                              buf |-> <<>>, i |-> 0]]
    /\ main = [h \in Host |-> Idle]
    /\ net = [h \in Host |-> <<>>]
    /\ wrote = [h \in Host |-> <<>>]
    /\ got = [h \in Host |-> <<>>]
    /\ early = FALSE

Main(h) == Receive(h) \/ Process(h) \/ WakeReader(h) \/ Acknowledge(h)
ReadWrite(h) == \/ Write(h) \/ Emit(h) \/ Written(h)
                \/ ReadTest(h) \/ ReadWoken(h) \/ ReadTake(h)
tcp_client == tcp_sock_connect \/ Connected \/ ReadWrite("client") \/ CloseFin \/ CloseState
tcp_server == AcceptTest \/ AcceptWoken \/ Dequeue \/ ReadWrite("server")

Next ==
    \/ \E h \in Host : Main(h) \/ tcp_scan_timer_list(h)
    \/ tcp_state_listen
    \/ tcp_client
    \/ tcp_server

\* Every thread that can run eventually does.
Fairness ==
    /\ \A h \in Host : WF_vars(Main(h)) /\ WF_vars(tcp_scan_timer_list(h))
    /\ WF_vars(tcp_state_listen)
    /\ WF_vars(tcp_client)
    /\ WF_vars(tcp_server)

Spec == Init /\ [][Next]_vars /\ Fairness

--------------------------------------------------------------------------------
(* Properties                                                                  *)

\* What an application has read is a prefix of what the other one wrote,
\* whatever is dropped, when: no byte comes out of order, twice, or after a gap.
StreamIntegrity == \A h \in Host : IsPrefix(got[h], wrote[Peer(h)])

\* No wake-up is lost between the test for an empty buffer and sleep_on: an
\* application that sleeps while its buffer holds data has been notified, or
\* will be by the main thread, which is between the two calls.
NoLostWakeup ==
    \A h \in Host :
        app[h].pc = "recv" /\ sk[h].rcv_buf # <<>> =>
            sk[h].wait_recv \/ main[h].at = "wake"

\* Neither side acknowledges what the other has not sent: rcv_nxt, which a host
\* takes from whatever segment comes (data or a bare ACK that overtook the data
\* between `snd_nxt += len' and the packet), is not beyond snd_nxt of the peer.
AcksOnlyWhatWasSent ==
    sk["client"].state \notin {"CLOSED", "SYN_SENT"} =>
        \A h \in Host : less_or_equal_32b(sk[h].rcv_nxt, sk[Peer(h)].snd_nxt)

\* "do not forget to reply with TCP_ACK if the connection is alive"
\* (tcp_in.c:158): a bulk is acknowledged, so the write of the client returns, unless
\* the bulk came before the server's application had accepted the connection.
WriteReturns == app["client"].pc = "sent" ~> (app["client"].pc # "sent" \/ early)
================================================================================
