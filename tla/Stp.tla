----------------------------------- MODULE Stp -----------------------------------
(***************************************************************************)
(* The spanning tree lab (06-stp/stp.c, stp_timer.c): switches exchange    *)
(* configs and each decides which of its ports leads to the root.          *)
(*                                                                         *)
(* A switch runs two threads, the one that reads packets and the one that  *)
(* runs the hello timer; each handler holds the switch's lock and is one   *)
(* step.  A link carries the configs of each direction in order.           *)
(*                                                                         *)
(* A port is <<switch, index>>, the index from 1 as in port_id.  Every     *)
(* switch has the same priority, so its id orders as its mac address.      *)
(***************************************************************************)
EXTENDS Integers, Sequences, FiniteSets, SequencesExt, FiniteSetsExt

CONSTANTS
    Switch,     \* switch ids
    Links,      \* pairs <<port, port>>, each port in one of them
    ROOM        \* bound: a link with this many configs takes no more hellos

Port == UNION {{l[1], l[2]} : l \in Links}
PortsOf == [s \in Switch |-> {p[2] : p \in {q \in Port : q[1] = s}}]
Peer == [p \in Port |-> CHOOSE q \in Port : <<p, q>> \in Links \/ <<q, p>> \in Links]

ASSUME SwitchAssumption == Switch \subseteq Nat \ {0} /\ Switch # {}
ASSUME LinkAssumption ==
    /\ Links \subseteq (Switch \X Nat) \X (Switch \X Nat)
    /\ \A s \in Switch : PortsOf[s] = 1 .. Cardinality(PortsOf[s])
    /\ \A p \in Port : Cardinality({l \in Links : p \in {l[1], l[2]}}) = 1
    /\ \A l \in Links : l[1][1] # l[2][1]
ASSUME RoomAssumption == ROOM \in Nat \ {0}

VARIABLES
    stp,        \* stp[s]: designated_root, root_path_cost, root_port (0: NULL)
    ports,      \* ports[s][i]: designated root, cost, switch and port
    active,     \* active[s]: whether the hello timer runs
    wire        \* wire[p]: the configs port p has sent and its peer not yet read

vars == <<stp, ports, active, wire>>

NULL == 0
path_cost == 1

--------------------------------------------------------------------------------
(* Configs and roles                                                           *)

\* Mutant: the larger root wins.
PRIOR_reversed(c, d) ==
    \/ c.root > d.root
    \/ c.root = d.root /\ c.cost < d.cost

\* Config c has priority over d.
PRIOR(c, d) ==
    \/ c.root < d.root
    \/ c.root = d.root /\ c.cost < d.cost
    \/ c.root = d.root /\ c.cost = d.cost /\ c.switch < d.switch
    \/ c.root = d.root /\ c.cost = d.cost /\ c.switch = d.switch /\ c.port < d.port

stp_is_root_switch(s, st) == st.designated_root = s

stp_port_is_designated(s, i, c) == c.switch = s /\ c.port = i

\* stp_port_state(...) = "ALTERNATE", with the ports ps and the root port rp.
Alternate(s, i, ps, rp) == i # rp /\ ~ stp_port_is_designated(s, i, ps[i])

\* What stp_port_send_config puts in a packet of port i.
Config(s, i, st) ==
    [root |-> st.designated_root, cost |-> st.root_path_cost, switch |-> s, port |-> i]

\* stp_send_config over the ports in `out', and nothing if the switch knows no root.
Send(s, st, out, w) ==
    IF ~ stp_is_root_switch(s, st) /\ st.root_port = NULL THEN w
    ELSE [p \in Port |-> IF p[1] = s /\ p[2] \in out
                         THEN Append(w[p], Config(s, p[2], st)) ELSE w[p]]

Designated(s, ps) == {i \in PortsOf[s] : stp_port_is_designated(s, i, ps[i])}

--------------------------------------------------------------------------------
(* stp_handle_config_packet                                                    *)

\* The best of the ports that are ALTERNATE.
Best(s, ps, st) ==
    LET cand == {i \in PortsOf[s] : Alternate(s, i, ps, st.root_port)}
    IN  {i \in cand : \A k \in cand : ~ PRIOR(ps[k], ps[i])}

\* Mutant: the cost of the port is left out.
Through_free(c, i) ==
    [designated_root |-> c.root, root_path_cost |-> c.cost, root_port |-> i]

\* What the switch knows once port i, with config c, is its root port.
Through(c, i) ==
    [designated_root |-> c.root, root_path_cost |-> c.cost + path_cost, root_port |-> i]

\* The outcomes of the decision, one at most for each best port.  The root port is
\* looked for among the ALTERNATE ports, so the root port of the moment is not
\* among them.  If there is none the switch takes itself for the root and keeps its
\* root_port; a switch of one port does not even do that, as the loop that tests
\* for it starts at the second port.
Decide(s, ps, st) ==
    IF Best(s, ps, st) # {}
    THEN {Through(ps[i], i) : i \in Best(s, ps, st)}
    ELSE IF \E i, k \in PortsOf[s] : i # k
    THEN {[st EXCEPT !.designated_root = s, !.root_path_cost = 0]}
    ELSE {st}

\* The new config of port i: a designated port takes over what the switch knows, an
\* alternate one becomes designated if the switch is nearer to the root.
Refresh(s, i, c, ps, st) ==
    IF stp_port_is_designated(s, i, c)
    THEN [c EXCEPT !.root = st.designated_root, !.cost = st.root_path_cost]
    ELSE IF Alternate(s, i, ps, st.root_port) /\ st.root_path_cost < c.cost
    THEN Config(s, i, st)
    ELSE c

\* Port i of s reads the next config of its peer.
stp_handle_config_packet(s, i) ==
    LET peer == Peer[<<s, i>>]
        c == Head(wire[peer])
        read == [wire EXCEPT ![peer] = Tail(@)]
    IN  /\ wire[peer] # <<>>
        /\ \/ /\ PRIOR(c, ports[s][i])
              /\ LET ps == [ports[s] EXCEPT ![i] = c]
                 IN  \E st \in Decide(s, ps, stp[s]) :
                 LET new == [k \in PortsOf[s] |-> Refresh(s, k, ps[k], ps, st)]
                 IN  /\ stp' = [stp EXCEPT ![s] = st]
                     /\ ports' = [ports EXCEPT ![s] = new]
                     /\ active' = [active EXCEPT ![s] = @ /\ stp_is_root_switch(s, st)]
                     /\ wire' = Send(s, st, Designated(s, new), read)
           \/ /\ ~ PRIOR(c, ports[s][i])
              /\ wire' = Send(s, stp[s], {i}, read)
              /\ UNCHANGED <<stp, ports, active>>

\* Whether the link of port i of s carries fewer than ROOM configs.
HasRoom(s, i) == Len(wire[<<s, i>>]) + Len(wire[Peer[<<s, i>>]]) < ROOM

\* The hello timer expires, sends, and is started again.  A full link loses the hello.
stp_handle_hello_timeout(s) ==
    /\ active[s]
    /\ wire' = Send(s, stp[s], {i \in Designated(s, ports[s]) : HasRoom(s, i)}, wire)
    /\ UNCHANGED <<stp, ports, active>>

Init ==
    /\ stp = [s \in Switch |-> [designated_root |-> s, root_path_cost |-> 0,
                                root_port |-> NULL]]
    /\ ports = [s \in Switch |-> [i \in PortsOf[s] |-> Config(s, i, stp[s])]]
    /\ active = [s \in Switch |-> TRUE]
    /\ wire = [p \in Port |-> <<>>]

\* The two threads of a switch.  Nothing but configs is sent on the links.
ustack_run(s) == \E i \in PortsOf[s] : stp_handle_config_packet(s, i)
stp_timer_run_once(s) == stp_handle_hello_timeout(s)

Next == \E s \in Switch : ustack_run(s) \/ stp_timer_run_once(s)

\* A packet that is there is read, and the timer thread runs.
Spec ==
    /\ Init /\ [][Next]_vars
    /\ \A p \in Port : WF_vars(stp_handle_config_packet(p[1], p[2]))
    /\ \A s \in Switch : WF_vars(stp_handle_hello_timeout(s))

--------------------------------------------------------------------------------
(* Properties                                                                  *)

Cfg == [root : Switch, cost : Nat, switch : Switch, port : Nat]

\* Type invariant.
TypeOK ==
    /\ stp \in [Switch -> [designated_root : Switch, root_path_cost : Nat,
                           root_port : Nat]]
    /\ \A s \in Switch : stp[s].root_port \in PortsOf[s] \cup {NULL}
    /\ DOMAIN ports = Switch
    /\ \A s \in Switch : ports[s] \in [PortsOf[s] -> Cfg]
    /\ active \in [Switch -> BOOLEAN]
    /\ wire \in [Port -> Seq(Cfg)]

Adjacent(s, t) == \E l \in Links : {l[1][1], l[2][1]} = {s, t}

\* There is a walk of n links from s to r.
Walk(n, s, r) ==
    \E w \in [0 .. n -> Switch] :
        w[0] = r /\ w[n] = s /\ \A k \in 0 .. n - 1 : Adjacent(w[k], w[k + 1])

Real(c) == Walk(c.cost, c.switch, c.root)

\* What a switch or a config says of its way to a root is the length of a way
\* there is: no stale config, no claim to be root that is taken back and no order of
\* delivery makes a switch believe in a way that does not exist.
CostsAreReal ==
    /\ \A s \in Switch : Walk(stp[s].root_path_cost, s, stp[s].designated_root)
    /\ \A s \in Switch : \A i \in PortsOf[s] : Real(ports[s][i])
    /\ \A p \in Port : \A k \in DOMAIN wire[p] : Real(wire[p][k])

IsLeast(s) == \A t \in Switch : s <= t

\* The switch with the least id never yields: it takes itself for the root, all of
\* its ports stay designated and its timer runs.
LeastIsRoot ==
    \A s \in Switch : IsLeast(s) =>
        /\ stp[s].designated_root = s /\ stp[s].root_path_cost = 0
        /\ active[s]
        /\ Designated(s, ports[s]) = PortsOf[s]

\* All agree on the root.
Agree == \A s \in Switch : IsLeast(stp[s].designated_root)

\* "at last all nodes take the same root" (06-stp/report/DesignDocument.tex:166).  It
\* fails in a ring of four: Decide does not look at the root port of the moment.
AllAgree == <>[]Agree
================================================================================
