------------------------------ MODULE TcpHandshake ------------------------------
(***************************************************************************)
(* Opening and closing a connection with the TCP stack of lab 15           *)
(* (15-tcp_stack/tcp_sock.c, tcp_in.c, tcp_timer.c, tcp_apps.c).           *)
(*                                                                         *)
(* Two hosts run the stack.  Each has three threads: the main loop handles *)
(* one segment at a time (tcp_process), the application thread runs        *)
(* tcp_client or tcp_server, the timer thread scans the TIME_WAIT list.    *)
(* The threads share the socks without a lock, so the points where one can *)
(* see the other half-way are steps of their own: tcp_process reads        *)
(* tsk->state once at its entry and decides on that value, and             *)
(* tcp_sock_close sends its FIN before it changes the state.               *)
(*                                                                         *)
(* The network neither loses nor reorders segments (the labs' topology is  *)
(* two hosts on one wire), but a process can be killed and started again   *)
(* while segments and the other side's socks survive.                      *)
(***************************************************************************)
EXTENDS TcpBase, SequencesExt

CONSTANTS
    ISS,            \* the values tcp_new_iss may return
    MaxRestarts     \* how often a process is killed and started again

\* rand() returns a non-negative int.
ASSUME IssAssumption == ISS \subseteq 0 .. (SEQ_MOD \div 2) - 1 /\ MaxRestarts \in Nat

Host == {"client", "server"}
Peer(h) == IF h = "client" THEN "server" ELSE "client"

VARIABLES
    sk,         \* sk[h]: the connection socks the process of h has allocated
    lsn,        \* the listening sock of the server
    app,        \* app[h]: where the application thread of h is
    main,       \* main[h]: the segment the main thread of h works on
    net,        \* net[h]: the segments on their way to h
    up,         \* up[h]: the process of h is alive
    restarts,
    raced       \* history: a segment met a state that was about to change, or FINs crossed

vars == <<sk, lsn, app, main, net, up, restarts, raced>>

Idle == [busy |-> FALSE]
NoLsn == [open |-> FALSE, listen_queue |-> <<>>, accept_queue |-> <<>>,
          accept_backlog |-> 0, wait_accept |-> FALSE]

\* alloc_tcp_sock, with the fields the lab uses.  wait_connect is the notified
\* flag of that wait struct; `hashed' tells whether the sock is in
\* established_table, `timer' whether it is, or was, in timer_list.
alloc_tcp_sock ==
    [state |-> "CLOSED", snd_nxt |-> 0, snd_una |-> 0, rcv_nxt |-> 0,
     rcv_wnd |-> TCP_DEFAULT_WINDOW, ref_cnt |-> 0, hashed |-> FALSE,
     wait_connect |-> FALSE, timer |-> "off"]

--------------------------------------------------------------------------------
(* The sock tables                                                             *)

\* tcp_sock_bind: tcp_port_in_use walks bind_table through the wrong list member
\* and compares the port with half of a pointer, so no port is ever found in
\* use: the bind always succeeds.
tcp_sock_bind(tsk) == [tsk EXCEPT !.ref_cnt = @ + 1]

InTable(h) == {i \in DOMAIN sk[h] : sk[h][i].hashed}

\* tcp_hash: there is one 4-tuple, so the table takes one sock.
tcp_hash(tsk, free) ==
    IF free THEN [tsk EXCEPT !.hashed = TRUE, !.ref_cnt = @ + 1] ELSE tsk

\* Mutant: the reference of the table is not given back.
tcp_unhash_noref(tsk) == [tsk EXCEPT !.hashed = FALSE]

tcp_unhash(tsk) ==
    IF tsk.hashed THEN [tsk EXCEPT !.hashed = FALSE, !.ref_cnt = @ - 1] ELSE tsk

\* The sock tcp_sock_lookup returns: an established one first, then the
\* listening one (0), then NULL.
NULL == -1
tcp_sock_lookup(h) ==
    IF InTable(h) # {} THEN CHOOSE i \in InTable(h) : TRUE
    ELSE IF h = "server" /\ lsn.open THEN 0 ELSE NULL

\* A sock is in at most one place of one queue.
list_delete_entry(queue, i) ==
    IF \E k \in DOMAIN queue : queue[k] = i
    THEN RemoveAt(queue, CHOOSE k \in DOMAIN queue : queue[k] = i)
    ELSE queue

\* Mutant: the accepting thread is not woken.
tcp_sock_accept_enqueue_silent(l, i) ==
    [l EXCEPT !.listen_queue = list_delete_entry(@, i),
              !.accept_queue = Append(list_delete_entry(@, i), i),
              !.accept_backlog = @ + 1]

\* Moving a sock to the end of its parent's accept queue.
tcp_sock_accept_enqueue(l, i) ==
    [l EXCEPT !.listen_queue = list_delete_entry(@, i),
              !.accept_queue = Append(list_delete_entry(@, i), i),
              !.accept_backlog = @ + 1,
              !.wait_accept = TRUE]

--------------------------------------------------------------------------------
(* tcp_process: what a segment does to a connection sock whose state was       *)
(* `state' when the handler looked.  The result is the sock, the segments      *)
(* sent, and whether the sock is put in the accept queue.                      *)

Result(tsk, out, enqueue) == [tsk |-> tsk, out |-> out, enqueue |-> enqueue]

Answer(tsk, flags) ==
    Result(after_control(tsk, flags), <<tcp_send_control_packet(tsk, flags)>>, FALSE)

Silent(tsk) == Result(tsk, <<>>, FALSE)

Set(tsk, s) == [tsk EXCEPT !.state = s]

tcp_state_syn_sent(tsk, cb) ==
    IF cb.flags \cap {TCP_SYN, TCP_ACK} # {}
    THEN Answer([tsk EXCEPT !.rcv_nxt = seq_end(cb), !.snd_una = cb.ack,
                            !.state = "ESTABLISHED", !.wait_connect = TRUE], {TCP_ACK})
    ELSE Result(tsk, <<tcp_send_reset(cb)>>, FALSE)

\* Mutant: the timer is not started.
tcp_set_timewait_timer_none(tsk) == tsk

tcp_set_timewait_timer(tsk) == [tsk EXCEPT !.timer = "on", !.ref_cnt = @ + 1]

\* Mutant: the acknowledgement of the FIN is not looked at in LAST_ACK, and any
\* segment ends FIN_WAIT_2.
ProcessAck_hasty(tsk0, state, cb) ==
    LET tsk == [tsk0 EXCEPT !.snd_una = cb.ack, !.rcv_nxt = seq_end(cb)]
        acked == cb.ack = tsk.snd_nxt
        fin == TCP_FIN \in cb.flags
    IN  CASE state = "SYN_RECV" /\ acked   -> Result(tsk, <<>>, TRUE)
          [] state = "FIN_WAIT_1" /\ acked -> Silent(Set(tsk, "FIN_WAIT_2"))
          [] state = "FIN_WAIT_2"          ->
                Answer(tcp_set_timewait_timer(Set(tsk, "TIME_WAIT")), {TCP_ACK})
          [] state = "ESTABLISHED" /\ fin  -> Answer(Set(tsk, "CLOSE_WAIT"), {TCP_ACK})
          [] state = "LAST_ACK"            -> Silent(Set(tsk, "CLOSED"))
          [] state = "ESTABLISHED" /\ cb.flags = {TCP_ACK} -> Answer(tsk, {TCP_ACK})
          [] OTHER -> Silent(tsk)

\* Steps 8 to 11: the segment has an ACK and is in the window.
ProcessAck(tsk0, state, cb) ==
    LET tsk == [tsk0 EXCEPT !.snd_una = cb.ack, !.rcv_nxt = seq_end(cb)]
        acked == cb.ack = tsk.snd_nxt
        fin == TCP_FIN \in cb.flags
    IN  CASE state = "SYN_RECV" /\ acked   -> Result(tsk, <<>>, TRUE)
          [] state = "FIN_WAIT_1" /\ acked -> Silent(Set(tsk, "FIN_WAIT_2"))
          [] state = "FIN_WAIT_2" /\ fin   ->
                Answer(tcp_set_timewait_timer(Set(tsk, "TIME_WAIT")), {TCP_ACK})
          [] state = "ESTABLISHED" /\ fin  -> Answer(Set(tsk, "CLOSE_WAIT"), {TCP_ACK})
          [] state = "LAST_ACK" /\ acked   -> Silent(Set(tsk, "CLOSED"))
          [] state = "ESTABLISHED" /\ cb.flags = {TCP_ACK} -> Answer(tsk, {TCP_ACK})
          [] OTHER -> Silent(tsk)

tcp_process(tsk, state, cb) ==
    CASE state = "CLOSED" -> Result(tsk, <<tcp_send_reset(cb)>>, FALSE)
      [] state = "SYN_SENT" -> tcp_state_syn_sent(tsk, cb)
      [] OTHER ->
           IF ~ is_tcp_seq_valid(tsk, cb) THEN Silent(tsk)
           ELSE IF TCP_RST \in cb.flags THEN Silent(tcp_unhash(Set(tsk, "CLOSED")))
           ELSE IF TCP_SYN \in cb.flags
                THEN Result(Set(tsk, "CLOSED"), <<tcp_send_reset(cb)>>, FALSE)
           ELSE IF TCP_ACK \notin cb.flags THEN Result(tsk, <<tcp_send_reset(cb)>>, FALSE)
           ELSE ProcessAck(tsk, state, cb)

--------------------------------------------------------------------------------
(* The main thread                                                             *)

\* handle_tcp_packet up to the entry of tcp_process: the sock is looked up and
\* its state read.  Without a sock, tcp_process dereferences NULL.
Receive(h) ==
    LET i == tcp_sock_lookup(h)
    IN  /\ up[h] /\ ~ main[h].busy /\ net[h] # <<>>
        /\ net' = [net EXCEPT ![h] = Tail(@)]
        /\ \/ /\ i = NULL
              /\ up' = [up EXCEPT ![h] = FALSE]
              /\ UNCHANGED main
           \/ /\ i # NULL
              /\ main' = [main EXCEPT ![h] =
                    [busy |-> TRUE, cb |-> Head(net[h]), tsk |-> i,
                     state |-> IF i = 0 THEN "LISTEN" ELSE sk[h][i].state]]
              /\ UNCHANGED up
        /\ UNCHANGED <<sk, lsn, app, restarts, raced>>

Send(h, out) == net' = [net EXCEPT ![Peer(h)] = @ \o out]

\* The segment of the main thread is processed for a state that is not, or is about
\* not to be, the sock's, or is a FIN that FIN_WAIT_1 has no transition for.
Stale(h) ==
    LET m == main[h]
    IN  \/ sk[h][m.tsk].state # m.state
        \/ app[h].pc \in {"FIN_WAIT_1", "LAST_ACK"} /\ app[h].tsk = m.tsk
        \/ m.state = "FIN_WAIT_1" /\ TCP_FIN \in m.cb.flags

\* tcp_process on a connection sock.
Process(h) ==
    LET m == main[h]
        r == tcp_process(sk[h][m.tsk], m.state, m.cb)
    IN  /\ up[h] /\ m.busy /\ m.tsk # 0
        /\ sk' = [sk EXCEPT ![h][m.tsk] = r.tsk]
        /\ lsn' = IF r.enqueue THEN tcp_sock_accept_enqueue(lsn, m.tsk) ELSE lsn
        /\ Send(h, r.out)
        /\ main' = [main EXCEPT ![h] = Idle]
        /\ raced' = (raced \/ Stale(h))
        /\ UNCHANGED <<app, up, restarts>>

\* tcp_state_listen: a SYN makes a child sock, which is bound, queued, answers
\* with SYN|ACK and is hashed; anything else is answered with a reset.
tcp_state_listen ==
    LET cb == main["server"].cb
        i == Len(sk["server"]) + 1
    IN  /\ up["server"] /\ main["server"].busy /\ main["server"].tsk = 0
        /\ \/ /\ TCP_SYN \in cb.flags
              /\ \E iss \in ISS :
                    LET new == [tcp_sock_bind(alloc_tcp_sock) EXCEPT
                                    !.rcv_nxt = seq_end(cb), !.snd_nxt = iss,
                                    !.state = "SYN_RECV"]
                        child == after_control(new, {TCP_SYN, TCP_ACK})
                    IN  /\ sk' = [sk EXCEPT !["server"] =
                                    Append(@, tcp_hash(child, InTable("server") = {}))]
                        /\ Send("server",
                                <<tcp_send_control_packet(new, {TCP_SYN, TCP_ACK})>>)
              /\ lsn' = [lsn EXCEPT !.listen_queue = Append(@, i)]
           \/ /\ TCP_SYN \notin cb.flags
              /\ Send("server", <<tcp_send_reset(cb)>>)
              /\ UNCHANGED <<sk, lsn>>
        /\ main' = [main EXCEPT !["server"] = Idle]
        /\ UNCHANGED <<app, up, restarts, raced>>

--------------------------------------------------------------------------------
(* The application threads                                                     *)

Goto(h, pc) == app' = [app EXCEPT ![h].pc = pc]

\* tcp_sock_connect up to its sleep_on(wait_connect).
tcp_sock_connect ==
    /\ up["client"] /\ app["client"].pc = "connect"
    /\ \E iss \in ISS :
          LET new == [tcp_hash(tcp_sock_bind(alloc_tcp_sock), TRUE) EXCEPT
                          !.snd_nxt = iss, !.state = "SYN_SENT"]
          IN  /\ sk' = [sk EXCEPT !["client"] = <<after_control(new, {TCP_SYN})>>]
              /\ Send("client", <<tcp_send_control_packet(new, {TCP_SYN})>>)
    /\ app' = [app EXCEPT !["client"] = [pc |-> "connecting", tsk |-> 1]]
    /\ UNCHANGED <<lsn, main, up, restarts, raced>>

\* ... and its return.
Connected ==
    /\ up["client"] /\ app["client"].pc = "connecting"
    /\ sk["client"][1].wait_connect
    /\ sk' = [sk EXCEPT !["client"][1].wait_connect = FALSE]
    /\ Goto("client", "open")
    /\ UNCHANGED <<lsn, main, net, up, restarts, raced>>

\* tcp_server: bind and listen.
tcp_sock_listen ==
    /\ up["server"] /\ app["server"].pc = "listen"
    /\ lsn' = [lsn EXCEPT !.open = TRUE]
    /\ Goto("server", "accept")
    /\ UNCHANGED <<sk, main, net, up, restarts, raced>>

\* tcp_sock_accept: the test of accept_backlog, then sleep_on(wait_accept) ...
AcceptTest ==
    /\ up["server"] /\ app["server"].pc = "accept"
    /\ Goto("server", IF lsn.accept_backlog = 0 THEN "accepting" ELSE "dequeue")
    /\ UNCHANGED <<sk, lsn, main, net, up, restarts, raced>>

AcceptWoken ==
    /\ up["server"] /\ app["server"].pc = "accepting"
    /\ lsn.wait_accept
    /\ lsn' = [lsn EXCEPT !.wait_accept = FALSE]
    /\ Goto("server", "dequeue")
    /\ UNCHANGED <<sk, main, net, up, restarts, raced>>

\* ... and tcp_sock_accept_dequeue.  Only here does the sock become ESTABLISHED.
Dequeue ==
    LET i == Head(lsn.accept_queue)
    IN  /\ up["server"] /\ app["server"].pc = "dequeue"
        /\ lsn.accept_backlog # 0
        /\ lsn' = [lsn EXCEPT !.accept_queue = Tail(@), !.accept_backlog = @ - 1]
        /\ sk' = [sk EXCEPT !["server"][i].state = "ESTABLISHED"]
        /\ app' = [app EXCEPT !["server"] = [pc |-> "open", tsk |-> i]]
        /\ UNCHANGED <<main, net, up, restarts, raced>>

\* tcp_sock_close after the sleep of tcp_client or tcp_server: the FIN goes out
\* before the state changes.
CloseFin(h) ==
    LET tsk == sk[h][app[h].tsk]
    IN  /\ up[h] /\ app[h].pc = "open"
        /\ \/ /\ tsk.state \in {"ESTABLISHED", "CLOSE_WAIT"}
              /\ sk' = [sk EXCEPT ![h][app[h].tsk] = after_control(tsk, {TCP_FIN, TCP_ACK})]
              /\ Send(h, <<tcp_send_control_packet(tsk, {TCP_FIN, TCP_ACK})>>)
              /\ Goto(h, IF tsk.state = "ESTABLISHED" THEN "FIN_WAIT_1" ELSE "LAST_ACK")
           \/ /\ tsk.state \notin {"ESTABLISHED", "CLOSE_WAIT"}
              /\ Goto(h, "done")
              /\ UNCHANGED <<sk, net>>
        /\ UNCHANGED <<lsn, main, up, restarts, raced>>

CloseState(h) ==
    /\ up[h] /\ app[h].pc \in {"FIN_WAIT_1", "LAST_ACK"}
    /\ sk' = [sk EXCEPT ![h][app[h].tsk].state = app[h].pc]
    /\ Goto(h, "done")
    /\ UNCHANGED <<lsn, main, net, up, restarts, raced>>

--------------------------------------------------------------------------------
(* The timer thread: a sock that was in TIME_WAIT for 2*MSL.  The client's sock *)
(* (no parent) also leaves bind_table; neither leaves established_table.        *)
tcp_scan_timer_list(h) ==
    /\ up[h]
    /\ \E i \in DOMAIN sk[h] :
          /\ sk[h][i].timer = "on"
          /\ sk' = [sk EXCEPT ![h][i].timer = "fired", ![h][i].state = "CLOSED",
                              ![h][i].ref_cnt = IF h = "client" THEN @ - 2 ELSE @ - 1]
    /\ UNCHANGED <<lsn, app, main, net, up, restarts, raced>>

--------------------------------------------------------------------------------
(* Processes and the wire                                                      *)

FirstPc(h) == [pc |-> IF h = "client" THEN "connect" ELSE "listen", tsk |-> 0]

\* The process of h is killed, or has died, and is started again.
Restart(h) ==
    /\ restarts < MaxRestarts
    /\ restarts' = restarts + 1
    /\ up' = [up EXCEPT ![h] = TRUE]
    /\ sk' = [sk EXCEPT ![h] = <<>>]
    /\ app' = [app EXCEPT ![h] = FirstPc(h)]
    /\ main' = [main EXCEPT ![h] = Idle]
    /\ lsn' = IF h = "server" THEN NoLsn ELSE lsn
    /\ UNCHANGED <<net, raced>>

\* What reaches a dead process is gone.
Lost(h) ==
    /\ ~ up[h] /\ net[h] # <<>>
    /\ net' = [net EXCEPT ![h] = <<>>]
    /\ UNCHANGED <<sk, lsn, app, main, up, restarts, raced>>

--------------------------------------------------------------------------------
Init ==
    /\ sk = [h \in Host |-> <<>>]
    /\ lsn = NoLsn
    /\ app = [h \in Host |-> FirstPc(h)]
    /\ main = [h \in Host |-> Idle]
    /\ net = [h \in Host |-> <<>>]
    /\ up = [h \in Host |-> TRUE]
    /\ restarts = 0 /\ raced = FALSE

Main(h) == Receive(h) \/ Process(h) \/ (h = "server" /\ tcp_state_listen)
tcp_client == tcp_sock_connect \/ Connected \/ CloseFin("client") \/ CloseState("client")
tcp_server == \/ tcp_sock_listen \/ AcceptTest \/ AcceptWoken \/ Dequeue
              \/ CloseFin("server") \/ CloseState("server")

Next ==
    \/ \E h \in Host : Main(h) \/ tcp_scan_timer_list(h) \/ Lost(h) \/ Restart(h)
    \/ tcp_client
    \/ tcp_server

\* Every thread that can run eventually does; nothing makes a process restart.
Fairness ==
    /\ \A h \in Host : WF_vars(Main(h)) /\ WF_vars(tcp_scan_timer_list(h))
    /\ WF_vars(tcp_client)
    /\ WF_vars(tcp_server)

Spec == Init /\ [][Next]_vars /\ Fairness

--------------------------------------------------------------------------------
(* Properties                                                                  *)

\* "each time the tcp sock is refered (e.g. hashed), the ref_cnt is increased by
\* 1 ..., release the resources practically if ref_cnt is decreased to zero"
\* (tcp_sock.c:71-74): the count is exact, one for bind_table, one for
\* established_table and one for timer_list, so no table ever holds a sock that
\* free_tcp_sock released.
RefCountExact ==
    \A h \in Host : \A i \in DOMAIN sk[h] :
        LET t == sk[h][i]
            bound == IF h = "client" /\ t.timer = "fired" THEN 0 ELSE 1
        IN  t.ref_cnt = bound + (IF t.hashed THEN 1 ELSE 0)
                              + (IF t.timer = "on" THEN 1 ELSE 0)

CSock == sk["client"][1]
Child == sk["server"][1]
Joined == sk["client"] # <<>> /\ sk["server"] # <<>>

\* Without restarts, neither side acknowledges what the other did not send: in
\* every interleaving of the two main threads and the closing applications,
\* rcv_nxt of a sock is behind snd_nxt of its peer.
AcksOnlyWhatWasSent ==
    Joined /\ restarts = 0 =>
        /\ less_or_equal_32b(Child.rcv_nxt, CSock.snd_nxt)
        /\ CSock.state # "SYN_SENT" => less_or_equal_32b(CSock.rcv_nxt, Child.snd_nxt)

FinSent(h) == app[h].pc \in {"FIN_WAIT_1", "LAST_ACK", "done"}

\* A sock in TIME_WAIT has seen both FINs: its application closed it, and the
\* peer's closed too.  A sock closed from LAST_ACK leaves nothing behind: its
\* peer has received everything up to and including its FIN.
OrderlyClose ==
    Joined /\ restarts = 0 =>
        \A h \in Host :
            /\ sk[h][1].state = "TIME_WAIT" => FinSent("client") /\ FinSent("server")
            /\ sk[h][1].state = "CLOSED" /\ sk[h][1].timer = "off" =>
                    /\ FinSent(h)
                    /\ sk[Peer(h)][1].rcv_nxt = sk[h][1].snd_nxt

\* A client that connects gets through tcp_sock_connect, and tcp_sock_accept returns
\* a sock for it, unless the SYN came before the server listened: handle_tcp_packet
\* has no sock for it, and that ends the process.
AcceptReturns ==
    app["client"].pc = "connecting" ~>
        \/ app["client"].pc # "connecting" /\ app["server"].tsk # 0
        \/ ~ up["server"]
        \/ restarts > 0

\* "close the tcp sock, by releasing the resources, sending FIN/RST packet to the
\* peer, switching TCP_STATE to closed" (tcp_sock.c:359-360 of lab 15): the client's
\* sock is closed in the end, unless its state changed, or was about to, behind the
\* back of the segment that should have closed it, or the FINs of the two crossed.
CloseEnds ==
    app["client"].pc = "done" ~>
        ((sk["client"] # <<>> /\ CSock.state = "CLOSED") \/ restarts > 0 \/ raced)
================================================================================
