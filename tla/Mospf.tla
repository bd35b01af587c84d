---------------------------------- MODULE Mospf ----------------------------------
(***************************************************************************)
(* The link state database of lab 11 (11-mospf/src/mospf_daemon.c): routers *)
(* find their neighbours by hellos and flood link state updates (LSUs).    *)
(*                                                                         *)
(* A router runs the main thread, which handles packets, and three threads *)
(* that send hellos, send LSUs and time neighbours out.  All but           *)
(* handle_mospf_lsu hold mospf_lock, so each is one step; that handler is  *)
(* two, and a neighbour may be freed between them.                         *)
(*                                                                         *)
(* A link joins two routers, so an interface is named by the router at the *)
(* other end and an advertisement by its rid.  Packets of a link arrive in *)
(* order.  An LSU may wait for the ARP cache and come seconds late, after  *)
(* the ones that follow it on other links (LATE), a hello may not: it is   *)
(* multicast.                                                              *)
(* The LSUs of one router touch the entries of that router only, so a run  *)
(* follows those of some routers (Advertisers).                            *)
(***************************************************************************)
EXTENDS Integers, Sequences, FiniteSets

CONSTANTS
    Router,                     \* router ids
    Links,                      \* sets of two routers
    MOSPF_DEFAULT_HELLOINT, MOSPF_DEFAULT_LSUINT, MOSPF_MAX_LSU_TTL,
    Advertisers,                \* bound: the routers whose LSUs are followed
    MAX_LSU,                    \* bound: LSUs a router sends
    LATE,                       \* ... and how many are sent before none is late any more
    MAX_CUTS,                   \* bound: links that fail,
    CUT_ROOM                    \* ... when that many LSUs of each are yet to come

Ifaces == [r \in Router |-> {q \in Router \ {r} : {r, q} \in Links}]
Wires == {e \in Router \X Router : e[1] # e[2] /\ {e[1], e[2]} \in Links}

ASSUME LinkAssumption == \A l \in Links : l \subseteq Router /\ Cardinality(l) = 2
ASSUME IntervalAssumption ==
    /\ MOSPF_DEFAULT_HELLOINT \in Nat \ {0} /\ MOSPF_DEFAULT_LSUINT \in Nat \ {0}
    /\ MOSPF_MAX_LSU_TTL \in Nat \ {0} /\ MAX_LSU \in Nat /\ MAX_CUTS \in Nat /\ CUT_ROOM \in Nat
    /\ Advertisers \subseteq Router

\* seq is a u16 in the packet: the model ends before it wraps.
ASSUME SeqAssumption == MAX_LSU <= 65536

VARIABLES
    nbr_list,       \* nbr_list[r][q]: seconds since q's last hello, or Unknown
    sequence_num,   \* sequence_num[r]: of r's next LSU
    mospf_db,       \* mospf_db[r][q]: what r knows of q's links, or NoEntry
    wire,           \* wire[<<r, q>>]: the packets from r to q
    handling,       \* handling[r]: the LSU the main thread has yet to forward
    due,            \* due[r]: the threads that have yet to run in this second
    phase,          \* phase[r]: the second of the period in which r sends LSUs
    time,           \* the second of the period
    cut,            \* the links that have failed
    crashed,        \* the routers whose process was ended by the race
    advertised      \* history: advertised[r][n + 1] is what r's LSU n said

vars == <<nbr_list, sequence_num, mospf_db, wire, handling, due, phase, time, cut,
          crashed, advertised>>

Unknown == -1
NoEntry == [seq |-> -1]
NoLsu == [ttl |-> 0]

Running(r) == r \notin crashed
Known(r) == {q \in Ifaces[r] : nbr_list[r][q] # Unknown}

\* m is sent to each of the routers in `to'; a link that failed loses it.
SendTo(r, to, m, w) ==
    [e \in DOMAIN w |-> IF e[1] = r /\ e[2] \in to /\ {e[1], e[2]} \notin cut
                        THEN Append(w[e], m) ELSE w[e]]

--------------------------------------------------------------------------------
(* The threads                                                                 *)

Run(r, thread) ==
    /\ Running(r) /\ thread \in due[r]
    /\ due' = [due EXCEPT ![r] = @ \ {thread}]

\* What the hello of each router in `from' does to r's neighbours.
handle_mospf_hello(r, from) ==
    [q \in Ifaces[r] |-> IF q \in from THEN 0 ELSE nbr_list[r][q]]

\* The hellos of r and their handling, which waits for the main threads that are busy.
\* They only touch entries of r, which no LSU from r reads, so nothing tells when they
\* were sent.
sending_mospf_hello_thread(r) ==
    LET to == {q \in Ifaces[r] : {r, q} \notin cut /\ Running(q)}
    IN  /\ Run(r, "hello")
        /\ \A q \in to : handling[q] = NoLsu
        /\ nbr_list' = [q \in Router |-> handle_mospf_hello(q, IF q \in to THEN {r} ELSE {})]
        /\ UNCHANGED <<sequence_num, mospf_db, wire, handling, phase, time, cut, crashed,
                       advertised>>

Expired(age) == age > 3 * MOSPF_DEFAULT_HELLOINT

TimedOut(r) == {q \in Known(r) : Expired(nbr_list[r][q])}

\* The thread's pass of one second over a router none of whose neighbours is timed
\* out: they age (this goes with Tick).
Aged(r) == [q \in Ifaces[r] |-> nbr_list[r][q] + IF q \in Known(r) THEN 1 ELSE 0]

\* Its pass that frees neighbours, at any time of the second.  If the main thread is
\* walking over the neighbours then, it may go on from a freed one.
checking_nbr_thread(r) ==
    /\ Running(r) /\ TimedOut(r) # {}
    /\ nbr_list' = [nbr_list EXCEPT ![r] =
           [q \in Ifaces[r] |-> IF q \in TimedOut(r) THEN Unknown ELSE @[q]]]
    /\ \/ UNCHANGED crashed
       \/ /\ handling[r] # NoLsu /\ TimedOut(r) \ {handling[r].from} # {}
          /\ crashed' = crashed \cup {r}
    /\ UNCHANGED <<sequence_num, mospf_db, wire, handling, due, phase, time, cut,
                   advertised>>

\* The LSU that tells of the neighbours in `array'.
mospf_init_lsu(r, array) ==
    [rid |-> r, seq |-> sequence_num[r], ttl |-> MOSPF_MAX_LSU_TTL, array |-> array]

sending_mospf_lsu_thread(r) ==
    /\ Run(r, "lsu")
    /\ wire' = SendTo(r, Known(r), mospf_init_lsu(r, Known(r)), wire)
    /\ sequence_num' = [sequence_num EXCEPT ![r] = @ + 1]
    /\ advertised' = [advertised EXCEPT ![r] = Append(@, Known(r))]
    /\ UNCHANGED <<nbr_list, mospf_db, handling, phase, time, cut, crashed>>

--------------------------------------------------------------------------------
(* The main thread                                                             *)

\* r's main thread takes the next packet from q.
Receive(r, q) ==
    /\ Running(r) /\ handling[r] = NoLsu
    /\ wire[<<q, r>>] # <<>>
    /\ wire' = [wire EXCEPT ![<<q, r>>] = Tail(@)]

\* Mutant: an entry that is there is never changed.
Updated_first(e, m) == IF e = NoEntry THEN [seq |-> m.seq, array |-> m.array] ELSE e

\* Mutant: the number is taken and the links are not.
Updated_seq(e, m) ==
    IF e = NoEntry THEN [seq |-> m.seq, array |-> m.array]
    ELSE IF e.seq < m.seq THEN [e EXCEPT !.seq = m.seq]
    ELSE e

\* The entry of LSU m's router: a newer LSU replaces its array, and not its seq.
Updated(e, m) ==
    IF e = NoEntry THEN [seq |-> m.seq, array |-> m.array]
    ELSE IF e.seq < m.seq THEN [e EXCEPT !.array = m.array]
    ELSE e

Own(r, m) == m.rid = r

handle_mospf_lsu(r, q) ==
    LET m == Head(wire[<<q, r>>])
    IN  /\ Receive(r, q)
        /\ \/ Own(r, m) /\ UNCHANGED <<mospf_db, handling>>
           \/ /\ ~ Own(r, m)
              /\ mospf_db' = [mospf_db EXCEPT ![r][m.rid] = Updated(@, m)]
              /\ handling' = [handling EXCEPT ![r] =
                     [rid |-> m.rid, seq |-> m.seq, ttl |-> m.ttl,
                      array |-> m.array, from |-> q]]
        /\ UNCHANGED <<nbr_list, sequence_num, due, phase, time, cut, crashed, advertised>>

\* Where an LSU is sent on to, old or new, as long as its ttl lasts.
Onward(r, m) == IF m.ttl - 1 > 0 THEN Known(r) \ {m.from} ELSE {}

\* Mutant: the LSU keeps its ttl and goes back the way it came, too.
Forward_back(r) ==
    LET m == handling[r]
    IN  /\ Running(r) /\ m # NoLsu
        /\ wire' = SendTo(r, Known(r), [rid |-> m.rid, seq |-> m.seq, ttl |-> m.ttl,
                                        array |-> m.array], wire)
        /\ handling' = [handling EXCEPT ![r] = NoLsu]
        /\ UNCHANGED <<nbr_list, sequence_num, mospf_db, due, phase, time, cut, crashed,
                       advertised>>

\* The second part of handle_mospf_lsu.
Forward(r) ==
    LET m == handling[r]
    IN  /\ Running(r) /\ m # NoLsu
        /\ wire' = SendTo(r, Onward(r, m), [rid |-> m.rid, seq |-> m.seq, ttl |-> m.ttl - 1,
                                         array |-> m.array], wire)
        /\ handling' = [handling EXCEPT ![r] = NoLsu]
        /\ UNCHANGED <<nbr_list, sequence_num, mospf_db, due, phase, time, cut, crashed,
                       advertised>>

--------------------------------------------------------------------------------
(* The world                                                                   *)

\* The links that carry packets.
Carrying == {e \in DOMAIN wire : Running(e[2]) /\ wire[e] # <<>>}

\* Every thread that was due has run, and no main thread is busy.
Rested ==
    \A r \in Router : Running(r) => handling[r] = NoLsu /\ due[r] = {} /\ TimedOut(r) = {}

\* ... and every packet was handled.
Quiet == Rested /\ Carrying = {}

\* The next second.  Packets are handled by then, apart from the first LSUs: until LATE
\* were sent, those on one link may wait.
Tick ==
    /\ Rested
    /\ \/ Carrying = {}
       \/ Cardinality(Carrying) = 1 /\ \A r \in Advertisers : sequence_num[r] < LATE
    /\ time' = (time + 1) % MOSPF_DEFAULT_LSUINT
    /\ nbr_list' = [r \in Router |-> IF Running(r) THEN Aged(r) ELSE nbr_list[r]]
    /\ due' = [r \in Router |->
           (IF time' % MOSPF_DEFAULT_HELLOINT = 0 THEN {"hello"} ELSE {}) \cup
           (IF r \in Advertisers /\ time' = phase[r] /\ sequence_num[r] < MAX_LSU
            THEN {"lsu"} ELSE {})]
    /\ UNCHANGED <<sequence_num, mospf_db, wire, handling, phase, cut, crashed,
                   advertised>>

\* A link fails, with what it carries.
Cut(l) ==
    /\ l \notin cut /\ Cardinality(cut) < MAX_CUTS
    /\ \A r \in Advertisers : sequence_num[r] + CUT_ROOM <= MAX_LSU
    /\ cut' = cut \cup {l}
    /\ wire' = [e \in DOMAIN wire |-> IF {e[1], e[2]} = l THEN <<>> ELSE wire[e]]
    /\ UNCHANGED <<nbr_list, sequence_num, mospf_db, handling, due, phase, time, crashed,
                   advertised>>

Init ==
    /\ nbr_list = [r \in Router |-> [q \in Ifaces[r] |-> Unknown]]
    /\ sequence_num = [r \in Router |-> 0]
    /\ mospf_db = [r \in Router |-> [q \in Router |-> NoEntry]]
    /\ wire = [e \in Wires |-> <<>>]
    /\ handling = [r \in Router |-> NoLsu]
    /\ due = [r \in Router |-> {}]
    /\ phase \in [Advertisers -> 0 .. MOSPF_DEFAULT_LSUINT - 1]
    /\ time = 0 /\ cut = {} /\ crashed = {}
    /\ advertised = [r \in Router |-> <<>>]

Threads(r) ==
    \/ sending_mospf_hello_thread(r)
    \/ checking_nbr_thread(r)
    \/ sending_mospf_lsu_thread(r)

Main(r) ==
    \/ \E q \in Ifaces[r] : handle_mospf_lsu(r, q)
    \/ Forward(r)

Next ==
    \/ \E r \in Router : Threads(r) \/ Main(r)
    \/ Tick
    \/ \E l \in Links : Cut(l)

\* Every thread runs on and time goes on; no link has to fail.
Spec ==
    /\ Init /\ [][Next]_vars
    /\ WF_vars(Tick)
    /\ \A r \in Router :
          /\ WF_vars(sending_mospf_hello_thread(r))
          /\ WF_vars(checking_nbr_thread(r)) /\ WF_vars(sending_mospf_lsu_thread(r))
          /\ WF_vars(Main(r))

--------------------------------------------------------------------------------
(* Properties                                                                  *)

\* What a router knows of another is what that one said in one LSU, whole, and not
\* one older than the first that was heard.
DbSound ==
    \A r, q \in Router : mospf_db[r][q] # NoEntry =>
        \E n \in mospf_db[r][q].seq .. sequence_num[q] - 1 :
            mospf_db[r][q].array = advertised[q][n + 1]

Linked(r) == {q \in Ifaces[r] : {r, q} \notin cut}

\* "build a consistent link state database" (11-mospf/report/DesignDocument.tex:37):
\* in the end each router knows the links of every other as they are, also after a
\* link failed, unless the race of checking_nbr_thread with handle_mospf_lsu ended a
\* process.
ConsistentOrCrashed ==
    <>[](crashed # {} \/ \A r \in Router, q \in Advertisers : r # q =>
            mospf_db[r][q] # NoEntry /\ mospf_db[r][q].array = Linked(q))

\* A flood ends: no LSU goes round for ever, although old LSUs are sent on too.
FloodsEnd == []<>Quiet
================================================================================
