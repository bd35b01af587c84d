---------------------------- MODULE LinkLayer_proofs -----------------------------
(***************************************************************************)
(* Labs 04 to 06.  For every topology of the spanning tree lab: what the   *)
(* switches believe of their ways is real, and the switch with the least   *)
(* id stays the root.  For every connected network of hubs and every tree  *)
(* of learning switches, with any number of frames: no frame is lost, none *)
(* comes twice, one whose way is known stays private, and in a ring of     *)
(* hubs exactly two copies of a frame go round for ever.                   *)
(***************************************************************************)
EXTENDS LanSystem, Stp, FiniteSetTheorems, TLAPS

--------------------------------------------------------------------------------
(* Spanning tree: ports and walks                                              *)

LEMMA PortPairs ==
    ASSUME NEW p \in Port
    PROVE  /\ p[1] \in Switch /\ p[2] \in Nat /\ p = <<p[1], p[2]>>
           /\ p[2] \in PortsOf[p[1]]
<1>1. PICK l \in Links : p = l[1] \/ p = l[2]
  BY DEF Port
<1>2. l[1] \in Switch \X Nat /\ l[2] \in Switch \X Nat
  BY LinkAssumption
<1>3. p[1] \in Switch /\ p[2] \in Nat /\ p = <<p[1], p[2]>>
  BY <1>1, <1>2
<1> QED
  BY <1>3 DEF PortsOf

LEMMA PortOfSwitch ==
    ASSUME NEW s \in Switch, NEW i \in PortsOf[s]
    PROVE  <<s, i>> \in Port
<1>1. PICK p \in Port : p[1] = s /\ p[2] = i
  BY DEF PortsOf
<1> QED
  BY <1>1, PortPairs

LEMMA PeerFacts ==
    ASSUME NEW p \in Port
    PROVE  /\ Peer[p] \in Port /\ Peer[p][1] # p[1]
           /\ Adjacent(Peer[p][1], p[1])
<1>1. PICK l \in Links : p = l[1] \/ p = l[2]
  BY DEF Port
<1>2. l = <<l[1], l[2]>> /\ l[1] \in Port /\ l[2] \in Port
  BY LinkAssumption DEF Port
<1>3. \E q \in Port : <<p, q>> \in Links \/ <<q, p>> \in Links
  BY <1>1, <1>2
<1>4. /\ Peer[p] \in Port
      /\ <<p, Peer[p]>> \in Links \/ <<Peer[p], p>> \in Links
  BY <1>3 DEF Peer
<1>5. CASE <<p, Peer[p]>> \in Links
  BY <1>4, <1>5, LinkAssumption DEF Adjacent
<1>6. CASE <<Peer[p], p>> \in Links
  BY <1>4, <1>6, LinkAssumption DEF Adjacent
<1> QED
  BY <1>4, <1>5, <1>6

\* The walk of no link.
LEMMA WalkZero ==
    ASSUME NEW s \in Switch, NEW r \in Switch
    PROVE  Walk(0, s, r) <=> s = r
<1>1. ASSUME s = r PROVE Walk(0, s, r)
  <2> DEFINE w == [k \in 0 .. 0 |-> s]
  <2>1. w \in [0 .. 0 -> Switch] /\ w[0] = r /\ w[0] = s
    BY <1>1
  <2>2. \A k \in 0 .. 0 - 1 : Adjacent(w[k], w[k + 1])
    OBVIOUS
  <2> HIDE DEF w
  <2> QED
    BY <2>1, <2>2 DEF Walk
<1>2. ASSUME Walk(0, s, r) PROVE s = r
  BY <1>2 DEF Walk
<1> QED
  BY <1>1, <1>2

\* A walk goes on over one more link.
LEMMA WalkStep ==
    ASSUME NEW n \in Nat, NEW s \in Switch, NEW t \in Switch, NEW r \in Switch,
           Walk(n, s, r), Adjacent(s, t)
    PROVE  Walk(n + 1, t, r)
<1>1. PICK w \in [0 .. n -> Switch] :
          w[0] = r /\ w[n] = s /\ \A k \in 0 .. n - 1 : Adjacent(w[k], w[k + 1])
  BY DEF Walk
<1> DEFINE v == [k \in 0 .. n + 1 |-> IF k = n + 1 THEN t ELSE w[k]]
<1>2. v \in [0 .. n + 1 -> Switch]
  BY <1>1
<1>3. v[0] = r /\ v[n + 1] = t
  BY <1>1
<1>4. ASSUME NEW k \in 0 .. n PROVE Adjacent(v[k], v[k + 1])
  <2>1. CASE k = n
    <3>1. v[k] = s /\ v[k + 1] = t
      BY <2>1, <1>1
    <3> QED
      BY <3>1
  <2>2. CASE k # n
    <3>1. k \in 0 .. n - 1 /\ v[k] = w[k] /\ v[k + 1] = w[k + 1]
      BY <2>2, <1>4
    <3> QED
      BY <3>1, <1>1
  <2> QED
    BY <2>1, <2>2
<1>5. (n + 1) - 1 = n
  OBVIOUS
<1> HIDE DEF v
<1> QED
  BY <1>2, <1>3, <1>4, <1>5 DEF Walk

--------------------------------------------------------------------------------
(* Spanning tree: the inductive invariant                                      *)

\* What switch s knows is well-formed and real.
StpOK(s, st) ==
    /\ st \in [designated_root : Switch, root_path_cost : Nat, root_port : Nat]
    /\ st.root_port \in PortsOf[s] \cup {NULL}
    /\ Walk(st.root_path_cost, s, st.designated_root)

\* A port holds a config of its own or one of its peer.
PortOK(s, i, c) ==
    /\ c \in Cfg /\ Real(c)
    /\ stp_port_is_designated(s, i, c) \/ c.switch = Peer[<<s, i>>][1]

\* A wire carries configs of the switch at its end.
WireOK(w) ==
    /\ w \in [Port -> Seq(Cfg)]
    /\ \A p \in Port : \A k \in DOMAIN w[p] : Real(w[p][k]) /\ w[p][k].switch = p[1]

LeastOK ==
    \A s \in Switch : IsLeast(s) =>
        /\ stp[s].designated_root = s /\ stp[s].root_path_cost = 0
        /\ active[s]
        /\ \A i \in PortsOf[s] :
              ports[s][i] = [root |-> s, cost |-> 0, switch |-> s, port |-> i]

IInv ==
    /\ DOMAIN stp = Switch /\ stp = [s \in Switch |-> stp[s]]
    /\ \A s \in Switch : StpOK(s, stp[s])
    /\ DOMAIN ports = Switch
    /\ \A s \in Switch : ports[s] \in [PortsOf[s] -> Cfg]
    /\ \A s \in Switch : \A i \in PortsOf[s] : PortOK(s, i, ports[s][i])
    /\ active \in [Switch -> BOOLEAN]
    /\ WireOK(wire)
    /\ LeastOK

LEMMA PortNat == ASSUME NEW s \in Switch, NEW i \in PortsOf[s] PROVE i \in Nat
  BY PortOfSwitch, PortPairs

LEMMA ConfigOK ==
    ASSUME NEW s \in Switch, NEW i \in PortsOf[s], NEW st, StpOK(s, st)
    PROVE  /\ Config(s, i, st) \in Cfg /\ Real(Config(s, i, st))
           /\ stp_port_is_designated(s, i, Config(s, i, st))
           /\ Config(s, i, st).switch = s
  BY PortNat DEF Config, Cfg, Real, StpOK, stp_port_is_designated

LEMMA SendOK ==
    ASSUME NEW s \in Switch, NEW st, StpOK(s, st), NEW w, WireOK(w), NEW out
    PROVE  WireOK(Send(s, st, out, w))
<1> DEFINE snd == [p \in Port |-> IF p[1] = s /\ p[2] \in out
                                 THEN Append(w[p], Config(s, p[2], st)) ELSE w[p]]
<1>1. ASSUME NEW p \in Port
      PROVE  /\ snd[p] \in Seq(Cfg)
             /\ \A k \in DOMAIN snd[p] : Real(snd[p][k]) /\ snd[p][k].switch = p[1]
  <2>0. /\ w[p] \in Seq(Cfg)
        /\ \A k \in DOMAIN w[p] : Real(w[p][k]) /\ w[p][k].switch = p[1]
    BY <1>1 DEF WireOK
  <2>1. CASE p[1] = s /\ p[2] \in out
    <3> DEFINE c == Config(s, p[2], st)
    <3>1. c \in Cfg /\ Real(c) /\ c.switch = p[1]
      BY <2>1, <1>1, PortPairs, ConfigOK
    <3>2. snd[p] = Append(w[p], c)
      BY <2>1
    <3> HIDE DEF c
    <3> QED
      BY <2>0, <3>1, <3>2
  <2>2. CASE ~ (p[1] = s /\ p[2] \in out)
    BY <2>0, <2>2
  <2> QED
    BY <2>1, <2>2
<1>2. WireOK(snd)
  BY <1>1 DEF WireOK
<1> QED
  BY <1>2 DEF Send

LEMMA ReadOK ==
    ASSUME WireOK(wire), NEW q \in Port, wire[q] # <<>>
    PROVE  /\ WireOK([wire EXCEPT ![q] = Tail(@)])
           /\ Head(wire[q]) \in Cfg /\ Real(Head(wire[q]))
           /\ Head(wire[q]).switch = q[1]
<1>0. wire[q] \in Seq(Cfg) /\ Len(wire[q]) > 0 /\ 1 \in DOMAIN wire[q]
  BY DEF WireOK
<1>1. Head(wire[q]) \in Cfg /\ Real(Head(wire[q])) /\ Head(wire[q]).switch = q[1]
  BY <1>0 DEF WireOK
<1> DEFINE t == Tail(wire[q])
<1>2. /\ t \in Seq(Cfg)
      /\ \A k \in DOMAIN t : k + 1 \in DOMAIN wire[q] /\ t[k] = wire[q][k + 1]
  BY <1>0
<1>3. \A k \in DOMAIN t : Real(t[k]) /\ t[k].switch = q[1]
  BY <1>2 DEF WireOK
<1> HIDE DEF t
<1>4. WireOK([wire EXCEPT ![q] = t])
  BY <1>2, <1>3 DEF WireOK
<1> QED
  BY <1>1, <1>4 DEF t

LEMMA DecideOK ==
    ASSUME NEW s \in Switch, NEW ps, NEW st0, StpOK(s, st0),
           \A i \in PortsOf[s] : PortOK(s, i, ps[i]),
           NEW st \in Decide(s, ps, st0)
    PROVE  StpOK(s, st)
<1>1. CASE Best(s, ps, st0) # {}
  <2>0. Decide(s, ps, st0) = {Through(ps[i], i) : i \in Best(s, ps, st0)}
    BY <1>1, Zenon DEF Decide
  <2>1. PICK i \in Best(s, ps, st0) : st = Through(ps[i], i)
    BY <2>0
  <2>2. i \in PortsOf[s] /\ ~ stp_port_is_designated(s, i, ps[i])
    BY <2>1 DEF Best, Alternate
  <2>3. ps[i] \in Cfg /\ Real(ps[i]) /\ ps[i].switch = Peer[<<s, i>>][1]
    BY <2>2 DEF PortOK
  <2>4. Adjacent(ps[i].switch, s)
    BY <2>2, <2>3, PortOfSwitch, PeerFacts
  <2>5. /\ ps[i].cost \in Nat /\ ps[i].switch \in Switch /\ ps[i].root \in Switch
        /\ Walk(ps[i].cost, ps[i].switch, ps[i].root)
    BY <2>3 DEF Cfg, Real
  <2>6. Walk(ps[i].cost + 1, s, ps[i].root)
    BY <2>4, <2>5, WalkStep
  <2> QED
    BY <2>1, <2>2, <2>5, <2>6, PortNat DEF StpOK, Through, path_cost
<1>2. CASE Best(s, ps, st0) = {}
  <2>1. st = st0 \/ st = [st0 EXCEPT !.designated_root = s, !.root_path_cost = 0]
    BY <1>2 DEF Decide
  <2>2. CASE st = [st0 EXCEPT !.designated_root = s, !.root_path_cost = 0]
    <3>1. Walk(0, s, s)
      BY WalkZero
    <3>2. st = [designated_root |-> s, root_path_cost |-> 0,
                root_port |-> st0.root_port]
      BY <2>2 DEF StpOK
    <3>3. st.root_port = st0.root_port /\ st0.root_port \in Nat
      BY <3>2 DEF StpOK
    <3> QED
      BY <3>1, <3>2, <3>3 DEF StpOK
  <2> QED
    BY <2>1, <2>2
<1> QED
  BY <1>1, <1>2

LEMMA RefreshOK ==
    ASSUME NEW s \in Switch, NEW i \in PortsOf[s], NEW c, PortOK(s, i, c), NEW ps,
           NEW st, StpOK(s, st)
    PROVE  PortOK(s, i, Refresh(s, i, c, ps, st))
<1>1. CASE stp_port_is_designated(s, i, c)
  <2>1. Refresh(s, i, c, ps, st) = Config(s, i, st)
    BY <1>1 DEF Refresh, Config, PortOK, Cfg, stp_port_is_designated
  <2> QED
    BY <2>1, ConfigOK DEF PortOK
<1>2. CASE ~ stp_port_is_designated(s, i, c)
  BY <1>2, ConfigOK DEF Refresh, PortOK
<1> QED
  BY <1>1, <1>2

--------------------------------------------------------------------------------
(* Spanning tree: the steps                                                    *)

\* No config has priority over those of the least switch.
LEMMA LeastUnbeaten ==
    ASSUME NEW s \in Switch, IsLeast(s), NEW i \in PortsOf[s], NEW c \in Cfg, Real(c),
           c.switch # s,
           NEW d, d = [root |-> s, cost |-> 0, switch |-> s, port |-> i]
    PROVE  ~ PRIOR(c, d)
<1>1. c.root \in Nat /\ s \in Nat /\ s <= c.root /\ c.root \in Switch
      /\ c.switch \in Switch /\ c.cost \in Nat
  BY SwitchAssumption DEF IsLeast, Cfg
<1>2. ~ (c.root = s /\ c.cost = 0)
  BY ZenonT(60), <1>1, WalkZero DEF Real
<1> QED
  BY <1>1, <1>2 DEF PRIOR

LEMMA InitOK == Init => IInv
<1> SUFFICES ASSUME Init PROVE IInv
  OBVIOUS
<1> USE DEF Init
<1>1. ASSUME NEW s \in Switch PROVE StpOK(s, stp[s])
  <2>1. Walk(0, s, s)
    BY WalkZero
  <2> QED
    BY <2>1 DEF StpOK, NULL
<1>2. ASSUME NEW s \in Switch, NEW i \in PortsOf[s]
      PROVE  PortOK(s, i, ports[s][i]) /\ ports[s][i] \in Cfg
             /\ ports[s][i] = Config(s, i, stp[s])
  BY <1>1, <1>2, ConfigOK DEF PortOK
<1>3. WireOK(wire)
  BY DEF WireOK
<1>4. LeastOK
  BY <1>2 DEF LeastOK, Config
<1>5. \A s \in Switch : ports[s] \in [PortsOf[s] -> Cfg]
  BY <1>2
<1> QED
  BY <1>1, <1>2, <1>3, <1>4, <1>5 DEF IInv

LEMMA HelloOK ==
    ASSUME IInv, NEW s \in Switch, stp_handle_hello_timeout(s)
    PROVE  IInv'
<1>1. WireOK(wire')
  BY SendOK DEF IInv, stp_handle_hello_timeout
<1> QED
  BY <1>1 DEF IInv, stp_handle_hello_timeout, LeastOK, WireOK

LEMMA ConfigPacketOK ==
    ASSUME IInv, NEW s \in Switch, NEW i \in PortsOf[s], stp_handle_config_packet(s, i)
    PROVE  IInv'
<1> DEFINE q == Peer[<<s, i>>]
           c == Head(wire[q])
           read == [wire EXCEPT ![q] = Tail(@)]
           ps == [ports[s] EXCEPT ![i] = c]
<1>1. q \in Port /\ q[1] # s
  BY PortOfSwitch, PeerFacts
<1>2. wire[q] # <<>>
  BY DEF stp_handle_config_packet
<1>3. WireOK(read) /\ c \in Cfg /\ Real(c) /\ c.switch = q[1]
  BY <1>1, <1>2, ReadOK DEF IInv
<1>4. CASE ~ PRIOR(c, ports[s][i])
  <2>1. wire' = Send(s, stp[s], {i}, read) /\ UNCHANGED <<stp, ports, active>>
    BY <1>4 DEF stp_handle_config_packet
  <2>2. StpOK(s, stp[s])
    BY DEF IInv
  <2> HIDE DEF read
  <2>3. WireOK(wire')
    BY <1>3, <2>1, <2>2, SendOK
  <2> HIDE DEF c, ps, q
  <2>a. stp' = stp /\ ports' = ports /\ active' = active
    BY <2>1
  <2>4. LeastOK'
    <3>1. LeastOK
      BY DEF IInv
    <3> QED
      BY <3>1, <2>a DEF LeastOK
  <2>5. WireOK(wire)'
    BY <2>3 DEF WireOK
  <2>6. active' \in [Switch -> BOOLEAN] /\ stp' = stp /\ ports' = ports
    BY <2>1 DEF IInv
  <2> QED
    BY <2>4, <2>5, <2>6 DEF IInv
<1>5. CASE PRIOR(c, ports[s][i])
  <2>1. PICK st \in Decide(s, ps, stp[s]) :
           LET new == [k \in PortsOf[s] |-> Refresh(s, k, ps[k], ps, st)]
           IN  /\ stp' = [stp EXCEPT ![s] = st]
               /\ ports' = [ports EXCEPT ![s] = new]
               /\ active' = [active EXCEPT ![s] = @ /\ stp_is_root_switch(s, st)]
               /\ wire' = Send(s, st, Designated(s, new), read)
    BY <1>5 DEF stp_handle_config_packet
  <2> DEFINE new == [k \in PortsOf[s] |-> Refresh(s, k, ps[k], ps, st)]
  <2>2. ports[s] \in [PortsOf[s] -> Cfg] /\ StpOK(s, stp[s])
        /\ \A k \in PortsOf[s] : PortOK(s, k, ports[s][k])
    BY DEF IInv
  <2>3. \A k \in PortsOf[s] : PortOK(s, k, ps[k])
    BY <1>1, <1>3, <2>2 DEF PortOK
  <2>4. ~ IsLeast(s)
    <3>1. ASSUME IsLeast(s) PROVE FALSE
      <4>1. ports[s][i] = [root |-> s, cost |-> 0, switch |-> s, port |-> i]
        BY <3>1 DEF IInv, LeastOK
      <4> HIDE DEF c
      <4> QED
        BY <4>1, <3>1, <1>1, <1>3, <1>5, LeastUnbeaten
    <3> QED
      BY <3>1
  <2> HIDE DEF ps, read
  <2>5. StpOK(s, st)
    BY <2>1, <2>2, <2>3, DecideOK
  <2>6. \A k \in PortsOf[s] : PortOK(s, k, new[k])
    BY <2>3, <2>5, RefreshOK
  <2>7. new \in [PortsOf[s] -> Cfg]
    BY <2>6 DEF PortOK
  <2> HIDE DEF new
  <2>8. /\ stp' = [stp EXCEPT ![s] = st] /\ ports' = [ports EXCEPT ![s] = new]
        /\ active' = [active EXCEPT ![s] = @ /\ stp_is_root_switch(s, st)]
        /\ wire' = Send(s, st, Designated(s, new), read)
    BY <2>1 DEF new
  <2>9. WireOK(wire')
    BY <1>3, <2>5, <2>8, SendOK
  <2>10. stp' = [t \in Switch |-> IF t = s THEN st ELSE stp[t]]
         /\ DOMAIN stp' = Switch
    BY <2>8 DEF IInv
  <2>11. \A t \in Switch : StpOK(t, stp'[t])
    BY <2>5, <2>10 DEF IInv
  <2>12. DOMAIN ports' = Switch
         /\ \A t \in Switch : ports'[t] = IF t = s THEN new ELSE ports[t]
    BY <2>8 DEF IInv
  <2>13. \A t \in Switch : ports'[t] \in [PortsOf[t] -> Cfg]
    BY <2>7, <2>12 DEF IInv
  <2>14. \A t \in Switch : \A k \in PortsOf[t] : PortOK(t, k, ports'[t][k])
    BY <2>6, <2>12 DEF IInv
  <2>15. active' \in [Switch -> BOOLEAN]
         /\ \A t \in Switch \ {s} : active'[t] = active[t]
    BY <2>8, Zenon DEF IInv, stp_is_root_switch
  <2>16. LeastOK'
    BY <2>4, <2>10, <2>12, <2>15 DEF IInv, LeastOK
  <2> QED
    BY <2>9, <2>10, <2>11, <2>12, <2>13, <2>14, <2>15, <2>16 DEF IInv, WireOK
<1> QED
  BY <1>4, <1>5

LEMMA StepOK == IInv /\ [Next]_vars => IInv'
<1> SUFFICES ASSUME IInv, [Next]_vars PROVE IInv'
  OBVIOUS
<1>1. CASE UNCHANGED vars
  BY <1>1 DEF IInv, vars, LeastOK, WireOK
<1>2. CASE Next
  BY <1>2, HelloOK, ConfigPacketOK DEF Next, ustack_run, stp_timer_run_once
<1> QED
  BY <1>1, <1>2

THEOREM Invariance == Spec => []IInv
<1> QED
  BY InitOK, StepOK, PTL DEF Spec

--------------------------------------------------------------------------------
(* Spanning tree: the results                                                  *)

\* What the switches and the configs say is well-formed, on every topology.
THEOREM TypeCorrect == Spec => []TypeOK
<1>1. IInv => TypeOK
  <2> SUFFICES ASSUME IInv PROVE TypeOK
    OBVIOUS
  <2>1. stp \in [Switch -> [designated_root : Switch, root_path_cost : Nat,
                            root_port : Nat]]
    BY DEF IInv, StpOK
  <2> QED
    BY <2>1 DEF IInv, StpOK, WireOK, TypeOK
<1> QED
  BY <1>1, Invariance, PTL

\* On every topology and in every order of delivery, the cost a switch, a port or a
\* config gives (stp_handle_config_packet) is the length of a walk to that root.
THEOREM WaysAreReal == Spec => []CostsAreReal
<1>1. IInv => CostsAreReal
  BY DEF IInv, StpOK, PortOK, WireOK, CostsAreReal
<1> QED
  BY <1>1, Invariance, PTL

\* On every topology the switch with the least id stays the root: its ports stay
\* designated and its hello timer is never stopped.
THEOREM LeastStaysRoot == Spec => []LeastIsRoot
<1>1. IInv => LeastIsRoot
  <2> SUFFICES ASSUME IInv, NEW s \in Switch, IsLeast(s)
               PROVE  /\ stp[s].designated_root = s /\ stp[s].root_path_cost = 0
                      /\ active[s]
                      /\ Designated(s, ports[s]) = PortsOf[s]
    BY DEF LeastIsRoot
  <2>1. /\ stp[s].designated_root = s /\ stp[s].root_path_cost = 0
        /\ active[s]
        /\ \A i \in PortsOf[s] :
              ports[s][i] = [root |-> s, cost |-> 0, switch |-> s, port |-> i]
    BY Zenon DEF IInv, LeastOK
  <2>2. \A i \in PortsOf[s] : stp_port_is_designated(s, i, ports[s][i])
    <3> TAKE i \in PortsOf[s]
    <3>1. ports[s][i] = [root |-> s, cost |-> 0, switch |-> s, port |-> i]
      BY <2>1, Zenon
    <3> QED
      BY <3>1 DEF stp_port_is_designated
  <2> QED
    BY <2>1, <2>2, Zenon DEF Designated
<1> QED
  BY <1>1, Invariance, PTL

--------------------------------------------------------------------------------
(* Hubs and learning switches: networks.                                        *)

\* What is beyond the link from a to b: what b reaches without it.
Beyond(n, a, b) ==
    {x \in NodesOf[n] :
        \A S \in SUBSET NodesOf[n] : b \in S /\ Closed(n, S, {a, b}) => x \in S}

LEMMA NbrFacts ==
    ASSUME NEW n \in Nets, NEW a \in NodesOf[n], NEW b \in NbrsOf[n][a]
    PROVE  /\ b \in NodesOf[n] /\ a # b /\ a \in NbrsOf[n][b]
           /\ {a, b} \in n.links
           /\ <<a, b>> \in WiresOf[n] /\ <<b, a>> \in WiresOf[n]
<1>1. b \in NodesOf[n] /\ a # b /\ {a, b} \in n.links
  BY DEF NbrsOf
<1>2. a \in NbrsOf[n][b]
  <2>1. {b, a} = {a, b}
    OBVIOUS
  <2> QED
    BY <1>1, <2>1 DEF NbrsOf
<1> QED
  BY <1>1, <1>2 DEF WiresOf

LEMMA WireFacts ==
    ASSUME NEW n \in Nets, NEW e \in WiresOf[n]
    PROVE  /\ e = <<e[1], e[2]>> /\ e[1] \in NodesOf[n] /\ e[2] \in NodesOf[n]
           /\ e[2] \in NbrsOf[n][e[1]] /\ e[1] \in NbrsOf[n][e[2]] /\ e[1] # e[2]
<1>1. e = <<e[1], e[2]>> /\ e[1] \in NodesOf[n] /\ e[2] \in NbrsOf[n][e[1]]
  BY DEF WiresOf
<1> DEFINE a == e[1]
           b == e[2]
<1>2. a \in NodesOf[n] /\ b \in NbrsOf[n][a]
  BY <1>1
<1> HIDE DEF a, b
<1>3. b \in NodesOf[n] /\ a # b /\ a \in NbrsOf[n][b]
  BY <1>2, NbrFacts
<1> QED
  BY <1>1, <1>3 DEF a, b

\* A host has one neighbour.
LEMMA HostNbr ==
    ASSUME NEW n \in Nets, NEW h \in n.hosts,
           NEW a \in NbrsOf[n][h], NEW b \in NbrsOf[n][h]
    PROVE  a = b
<1> DEFINE L == {l \in n.links : h \in l}
<1>1. h \in NodesOf[n]
  BY DEF NodesOf
<1>2. {h, a} \in L /\ {h, b} \in L /\ a # h /\ b # h
  BY <1>1, NbrFacts
<1>3. Cardinality(L) = 1
  BY LanAssumption
<1>4. IsFiniteSet(L)
  <2>1. IsFiniteSet(SUBSET (n.hosts \cup n.boxes))
    BY LanAssumption, FS_SUBSET
  <2>2. L \subseteq SUBSET (n.hosts \cup n.boxes)
    BY LanAssumption
  <2> QED
    BY <2>1, <2>2, FS_Subset
<1>5. PICK l : L = {l}
  <2> HIDE DEF L
  <2> QED
    BY <1>3, <1>4, FS_Singleton
<1>6. {h, a} = {h, b}
  BY <1>2, <1>5
<1> QED
  BY <1>2, <1>6

--------------------------------------------------------------------------------
(* Trees: a link has two sides, and the sides nest.                             *)

LEMMA ClosedBeyond ==
    ASSUME NEW n \in Nets, NEW a \in NodesOf[n], NEW b \in NbrsOf[n][a]
    PROVE  /\ Beyond(n, a, b) \subseteq NodesOf[n] /\ b \in Beyond(n, a, b)
           /\ Closed(n, Beyond(n, a, b), {a, b})
<1>1. Beyond(n, a, b) \subseteq NodesOf[n]
  BY DEF Beyond
<1>2. b \in Beyond(n, a, b)
  BY NbrFacts DEF Beyond
<1>3. ASSUME NEW x \in Beyond(n, a, b), NEW y \in NbrsOf[n][x], {x, y} # {a, b}
      PROVE  y \in Beyond(n, a, b)
  <2>1. y \in NodesOf[n]
    BY <1>1, NbrFacts
  <2>2. ASSUME NEW S \in SUBSET NodesOf[n], b \in S, Closed(n, S, {a, b})
        PROVE  y \in S
    <3>1. x \in S
      BY <2>2 DEF Beyond
    <3> QED
      BY <1>3, <2>2, <3>1 DEF Closed
  <2> QED
    BY <2>1, <2>2 DEF Beyond
<1>4. Closed(n, Beyond(n, a, b), {a, b})
  BY <1>3 DEF Closed
<1> QED
  BY <1>1, <1>2, <1>4

LEMMA BeyondLeast ==
    ASSUME NEW n \in Nets, NEW a, NEW b,
           NEW S, S \subseteq NodesOf[n], b \in S, Closed(n, S, {a, b})
    PROVE  Beyond(n, a, b) \subseteq S
  BY DEF Beyond

LEMMA ClosedRest ==
    ASSUME NEW n \in Nets, NEW S \in SUBSET NodesOf[n], NEW cut, Closed(n, S, cut)
    PROVE  Closed(n, NodesOf[n] \ S, cut)
<1> SUFFICES ASSUME NEW x \in NodesOf[n] \ S, NEW y \in NbrsOf[n][x], {x, y} # cut, y \in S
             PROVE  FALSE
  BY NbrFacts DEF Closed
<1>1. x \in NbrsOf[n][y] /\ {y, x} = {x, y}
  BY NbrFacts
<1> QED
  BY <1>1 DEF Closed

LEMMA NotBeyond ==
    ASSUME NEW n \in Nets, ~ n.hubs, NEW a \in NodesOf[n], NEW b \in NbrsOf[n][a]
    PROVE  a \notin Beyond(n, a, b)
<1> DEFINE l == {a, b}
<1>1. l \in n.links
  BY NbrFacts
<1>2. PICK S \in SUBSET NodesOf[n] : Closed(n, S, l) /\ l \cap S # {} /\ ~ (l \subseteq S)
  BY <1>1, TreeAssumption
<1>3. b \in NodesOf[n]
  BY NbrFacts
<1>4. CASE b \in S
  <2>1. a \notin S
    BY <1>2, <1>4
  <2> QED
    BY <1>2, <1>4, <2>1, BeyondLeast
<1>5. CASE b \notin S
  <2>1. a \in S
    BY <1>2, <1>5
  <2> DEFINE R == NodesOf[n] \ S
  <2>2. Closed(n, R, l)
    BY <1>2, ClosedRest
  <2>3. R \subseteq NodesOf[n] /\ b \in R /\ a \notin R
    BY <1>3, <1>5, <2>1
  <2> HIDE DEF R
  <2> QED
    BY <2>2, <2>3, BeyondLeast
<1> QED
  BY <1>4, <1>5

\* The two sides of a link.
LEMMA TwoSides ==
    ASSUME NEW n \in Nets, ~ n.hubs, NEW a \in NodesOf[n], NEW b \in NbrsOf[n][a]
    PROVE  Beyond(n, b, a) = NodesOf[n] \ Beyond(n, a, b)
<1> DEFINE A == Beyond(n, b, a)
           B == Beyond(n, a, b)
<1>1. b \in NodesOf[n] /\ a \in NbrsOf[n][b] /\ {b, a} = {a, b}
  BY NbrFacts
<1>2. /\ A \subseteq NodesOf[n] /\ a \in A /\ Closed(n, A, {a, b})
      /\ B \subseteq NodesOf[n] /\ b \in B /\ Closed(n, B, {a, b})
  BY <1>1, ClosedBeyond
<1>3. A \cup B = NodesOf[n]
  <2> HIDE DEF A, B
  <2>1. Closed(n, A \cup B, {})
    BY <1>2 DEF Closed
  <2> QED
    BY <1>2, <2>1, ConnectedAssumption
<1>4. a \notin B
  BY NotBeyond
<1>5. A \subseteq NodesOf[n] \ B
  <2>1. Closed(n, NodesOf[n] \ B, {b, a})
    BY <1>1, <1>2, ClosedRest
  <2>2. NodesOf[n] \ B \subseteq NodesOf[n] /\ a \in NodesOf[n] \ B
    BY <1>4
  <2> HIDE DEF B
  <2> QED
    BY <2>1, <2>2, BeyondLeast
<1> QED
  BY <1>2, <1>3, <1>5

\* What is beyond the next link is beyond this one.
LEMMA Nested ==
    ASSUME NEW n \in Nets, ~ n.hubs, NEW a \in NodesOf[n], NEW b \in NbrsOf[n][a],
           NEW c \in NbrsOf[n][b], c # a
    PROVE  Beyond(n, b, c) \subseteq Beyond(n, a, b)
<1> DEFINE B == Beyond(n, a, b)
           C == Beyond(n, b, c)
<1>1. b \in NodesOf[n] /\ c \in NodesOf[n]
  BY NbrFacts
<1>2. /\ B \subseteq NodesOf[n] /\ b \in B /\ Closed(n, B, {a, b}) /\ a \notin B
      /\ C \subseteq NodesOf[n] /\ c \in C /\ Closed(n, C, {b, c}) /\ b \notin C
  BY <1>1, ClosedBeyond, NotBeyond
<1>3. c \in B
  <2> HIDE DEF B
  <2>1. {b, c} # {a, b}
    BY NbrFacts, <1>1
  <2> QED
    BY <1>2, <2>1 DEF Closed
<1>4. Closed(n, B \cap C, {b, c})
  <2> HIDE DEF B, C
  <2> SUFFICES ASSUME NEW x \in B \cap C, NEW y \in NbrsOf[n][x], {x, y} # {b, c}
               PROVE  y \in B \cap C
    BY DEF Closed
  <2>1. y \in C
    BY <1>2 DEF Closed
  <2>2. {x, y} # {a, b}
    BY <1>2
  <2> QED
    BY <1>2, <2>1, <2>2 DEF Closed
<1>5. C \subseteq B \cap C
  BY <1>1, <1>2, <1>3, <1>4, BeyondLeast
<1> QED
  BY <1>5

LEMMA SidesApart ==
    ASSUME NEW n \in Nets, ~ n.hubs, NEW b \in NodesOf[n],
           NEW c \in NbrsOf[n][b], NEW d \in NbrsOf[n][b], c # d
    PROVE  Beyond(n, b, c) \cap Beyond(n, b, d) = {}
<1>1. c \in NodesOf[n] /\ b \in NbrsOf[n][c]
  BY NbrFacts
<1>2. Beyond(n, b, d) \subseteq Beyond(n, c, b)
  BY <1>1, Nested
<1>3. Beyond(n, c, b) = NodesOf[n] \ Beyond(n, b, c)
  BY TwoSides
<1> QED
  BY <1>2, <1>3

\* Every other node is beyond one of a node's links.
LEMMA SomeSide ==
    ASSUME NEW n \in Nets, NEW b \in NodesOf[n], NEW x \in NodesOf[n], x # b
    PROVE  \E c \in NbrsOf[n][b] : x \in Beyond(n, b, c)
<1> DEFINE S == {b} \cup UNION {Beyond(n, b, c) : c \in NbrsOf[n][b]}
<1>1. \A c \in NbrsOf[n][b] :
         Beyond(n, b, c) \subseteq NodesOf[n] /\ c \in Beyond(n, b, c)
         /\ Closed(n, Beyond(n, b, c), {b, c})
  BY ClosedBeyond
<1>2. S \in SUBSET NodesOf[n] /\ S # {}
  BY <1>1
<1>3. ASSUME NEW y \in S, NEW z \in NbrsOf[n][y] PROVE z \in S
  <2>1. CASE y = b
    BY <1>1, <2>1
  <2>2. CASE y # b
    <3>1. PICK c \in NbrsOf[n][b] : y \in Beyond(n, b, c)
      BY <2>2
    <3>2. CASE {y, z} = {b, c}
      BY <2>2, <3>2
    <3>3. CASE {y, z} # {b, c}
      BY <1>1, <3>1, <3>3 DEF Closed
    <3> QED
      BY <3>2, <3>3
  <2> QED
    BY <2>1, <2>2
<1>4. S = NodesOf[n]
  <2> HIDE DEF S
  <2>1. Closed(n, S, {})
    BY <1>3 DEF Closed
  <2> QED
    BY <1>2, <2>1, ConnectedAssumption
<1> QED
  BY <1>4

\* ... the way on from a link, unless it is at its end.
LEMMA WayOn ==
    ASSUME NEW n \in Nets, ~ n.hubs, NEW a \in NodesOf[n], NEW b \in NbrsOf[n][a],
           NEW x \in Beyond(n, a, b), x # b
    PROVE  \E c \in NbrsOf[n][b] : c # a /\ x \in Beyond(n, b, c)
<1>1. b \in NodesOf[n] /\ x \in NodesOf[n]
  BY NbrFacts, ClosedBeyond
<1>2. PICK c \in NbrsOf[n][b] : x \in Beyond(n, b, c)
  BY <1>1, SomeSide
<1>3. c # a
  BY <1>2, TwoSides
<1> QED
  BY <1>2, <1>3

\* A host is all that is beyond its link.
LEMMA HostSide ==
    ASSUME NEW n \in Nets, ~ n.hubs, NEW a \in NodesOf[n], NEW h \in NbrsOf[n][a],
           h \in n.hosts
    PROVE  Beyond(n, a, h) = {h}
<1>1. h \in Beyond(n, a, h)
  BY ClosedBeyond
<1>2. ASSUME NEW x \in Beyond(n, a, h), x # h PROVE FALSE
  <2>1. PICK c \in NbrsOf[n][h] : c # a
    BY <1>2, WayOn
  <2>2. a \in NbrsOf[n][h]
    BY NbrFacts
  <2> QED
    BY <2>1, <2>2, HostNbr
<1> QED
  BY <1>1, <1>2
--------------------------------------------------------------------------------
(* What the steps do to the cables.                                             *)

On(w, e, f) == \E k \in DOMAIN w[e] : w[e][k] = f

\* f is read from the cables of `from', of which there is one at most, and sent on
\* those of `to'.
Moves(w, v, from, to, f) ==
    v = [e \in Wires |-> IF e \in from THEN Tail(w[e])
                         ELSE IF e \in to THEN Append(w[e], f) ELSE w[e]]

IsMove(F, w, v, from, to, f) ==
    /\ w \in [Wires -> Seq(F)] /\ f \in F
    /\ from \subseteq Wires /\ to \subseteq Wires /\ from \cap to = {}
    /\ \A e \in from : w[e] # <<>> /\ f = Head(w[e])
    /\ Moves(w, v, from, to, f)

LEMMA TailOn ==
    ASSUME NEW F, NEW s \in Seq(F), s # <<>>
    PROVE  /\ Tail(s) \in Seq(F) /\ Head(s) \in F
           /\ \A k \in DOMAIN Tail(s) : k + 1 \in DOMAIN s /\ Tail(s)[k] = s[k + 1]
           /\ \A k \in DOMAIN s : k = 1 \/ k - 1 \in DOMAIN Tail(s)
           /\ Head(s) = s[1] /\ 1 \in DOMAIN s
  OBVIOUS

LEMMA AppendOn ==
    ASSUME NEW F, NEW s \in Seq(F), NEW f
    PROVE  /\ \A k \in DOMAIN s : k \in DOMAIN Append(s, f) /\ Append(s, f)[k] = s[k]
           /\ \A k \in DOMAIN Append(s, f) :
                  (k \in DOMAIN s /\ k <= Len(s)) \/ (k = Len(s) + 1 /\ Append(s, f)[k] = f)
           /\ Len(s) + 1 \in DOMAIN Append(s, f) /\ Append(s, f)[Len(s) + 1] = f
           /\ f \in F => Append(s, f) \in Seq(F)
  OBVIOUS

LEMMA MovesFacts ==
    ASSUME NEW F, NEW w, NEW v, NEW from, NEW to, NEW f, IsMove(F, w, v, from, to, f)
    PROVE  /\ v \in [Wires -> Seq(F)]
           /\ \A e \in from : v[e] = Tail(w[e])
           /\ \A e \in to : v[e] = Append(w[e], f)
           /\ \A e \in Wires : e \notin from /\ e \notin to => v[e] = w[e]
<1>0. /\ w \in [Wires -> Seq(F)] /\ f \in F /\ from \subseteq Wires /\ to \subseteq Wires
      /\ from \cap to = {} /\ Moves(w, v, from, to, f) /\ \A e \in from : w[e] # <<>>
  BY DEF IsMove
<1>1. /\ \A e \in from : v[e] = Tail(w[e])
      /\ \A e \in to : v[e] = Append(w[e], f)
      /\ \A e \in Wires : e \notin from /\ e \notin to => v[e] = w[e]
  BY <1>0 DEF Moves
<1>2. ASSUME NEW e \in Wires PROVE v[e] \in Seq(F)
  <2>1. w[e] \in Seq(F)
    BY <1>0
  <2>2. CASE e \in from
    <3>1. w[e] # <<>> /\ v[e] = Tail(w[e])
      BY <1>0, <1>1, <2>2
    <3> QED
      BY <2>1, <3>1, TailOn
  <2>3. CASE e \notin from /\ e \in to
    <3>1. v[e] = Append(w[e], f)
      BY <1>1, <2>3
    <3> QED
      BY <1>0, <2>1, <3>1, AppendOn
  <2>4. CASE e \notin from /\ e \notin to
    BY <1>1, <2>1, <2>4
  <2> QED
    BY <2>2, <2>3, <2>4
<1>3. v = [e \in Wires |-> v[e]]
  BY <1>0 DEF Moves
<1> QED
  BY <1>1, <1>2, <1>3

\* What is on a cable after the step, and what was before.
LEMMA MovesOn ==
    ASSUME NEW F, NEW w, NEW v, NEW from, NEW to, NEW f, IsMove(F, w, v, from, to, f)
    PROVE  /\ \A e \in Wires : \A g : On(v, e, g) => On(w, e, g) \/ (e \in to /\ g = f)
           /\ \A e \in Wires : \A g : On(w, e, g) => On(v, e, g) \/ (e \in from /\ g = f)
           /\ \A e \in to : On(v, e, f)
           /\ \A e \in from : On(w, e, f)
<1>1. /\ v \in [Wires -> Seq(F)]
      /\ \A e \in from : v[e] = Tail(w[e])
      /\ \A e \in to : v[e] = Append(w[e], f)
      /\ \A e \in Wires : e \notin from /\ e \notin to => v[e] = w[e]
  BY MovesFacts
<1>0. /\ w \in [Wires -> Seq(F)] /\ from \subseteq Wires /\ to \subseteq Wires
      /\ \A e \in from : w[e] # <<>> /\ f = Head(w[e])
  BY DEF IsMove
<1>2. ASSUME NEW e \in from
      PROVE  /\ \A g : On(v, e, g) => On(w, e, g)
             /\ \A g : On(w, e, g) => On(v, e, g) \/ g = f
             /\ On(w, e, f)
  <2> DEFINE s == w[e]
             t == v[e]
  <2>1. s \in Seq(F) /\ s # <<>> /\ f = Head(s) /\ t = Tail(s)
    BY <1>0, <1>1, <1>2
  <2> HIDE DEF s, t
  <2>2. /\ \A k \in DOMAIN t : k + 1 \in DOMAIN s /\ t[k] = s[k + 1]
        /\ \A k \in DOMAIN s : k = 1 \/ k - 1 \in DOMAIN t
        /\ f = s[1] /\ 1 \in DOMAIN s /\ DOMAIN s \subseteq Int
    BY <2>1, TailOn
  <2>3. \A g : (\E k \in DOMAIN t : t[k] = g) => \E k \in DOMAIN s : s[k] = g
    BY <2>2
  <2>4. ASSUME NEW g, NEW k \in DOMAIN s, s[k] = g, g # f
        PROVE  \E j \in DOMAIN t : t[j] = g
    <3>1. k - 1 \in DOMAIN t
      BY <2>2, <2>4
    <3>2. t[k - 1] = s[k - 1 + 1] /\ k - 1 + 1 = k
      BY <2>2, <3>1
    <3> QED
      BY <2>4, <3>1, <3>2
  <2>5. \E k \in DOMAIN s : s[k] = f
    BY <2>2
  <2> QED
    BY <2>3, <2>4, <2>5 DEF On, s, t
<1>3. ASSUME NEW e \in to
      PROVE  /\ \A g : On(v, e, g) => On(w, e, g) \/ g = f
             /\ \A g : On(w, e, g) => On(v, e, g)
             /\ On(v, e, f)
  <2> DEFINE s == w[e]
             t == v[e]
  <2>1. s \in Seq(F) /\ t = Append(s, f)
    BY <1>0, <1>1
  <2> HIDE DEF s, t
  <2>2. /\ \A k \in DOMAIN s : k \in DOMAIN t /\ t[k] = s[k]
        /\ \A k \in DOMAIN t : k \in DOMAIN s \/ t[k] = f
        /\ Len(s) + 1 \in DOMAIN t /\ t[Len(s) + 1] = f
    BY <2>1, AppendOn
  <2>3. \A g : (\E k \in DOMAIN t : t[k] = g) => (\E k \in DOMAIN s : s[k] = g) \/ g = f
    BY <2>2
  <2>4. \A g : (\E k \in DOMAIN s : s[k] = g) => \E k \in DOMAIN t : t[k] = g
    BY <2>2
  <2>5. \E k \in DOMAIN t : t[k] = f
    BY <2>2
  <2> QED
    BY <2>3, <2>4, <2>5 DEF On, s, t
<1>4. ASSUME NEW e \in Wires, e \notin from, e \notin to, NEW g
      PROVE  On(v, e, g) <=> On(w, e, g)
  BY <1>1, <1>4 DEF On
<1>5. \A e \in Wires : \A g : On(v, e, g) => On(w, e, g) \/ (e \in to /\ g = f)
  BY <1>2, <1>3, <1>4
<1>6. \A e \in Wires : \A g : On(w, e, g) => On(v, e, g) \/ (e \in from /\ g = f)
  BY <1>2, <1>3, <1>4
<1> QED
  BY <1>2, <1>3, <1>5, <1>6

--------------------------------------------------------------------------------
(* Types, and the steps by what they do to cables and tables.                   *)

Frames == {sent[i] : i \in DOMAIN sent}

NetTypes ==
    /\ net \in Nets
    /\ sent \in Seq([id : Nat, src : Host, dst : Host \cup {Bcast}])
    /\ \A i \in DOMAIN sent : sent[i].id = i /\ sent[i].dst # sent[i].src
    /\ Len(sent) <= net.frames
    /\ cable \in [Wires -> Seq(Frames)]
    /\ got \in [Host -> [1 .. net.frames -> Nat]]
    /\ known \in Seq(BOOLEAN) /\ Len(known) = Len(sent)

\* A host sends frames of its own only, and nobody has what was not sent.
HostCables ==
    \A e \in Wires : \A f : e[1] \in Host /\ On(cable, e, f) => f.src = e[1]
Unsent == \A h \in Host : \A i \in 1 .. net.frames : i > Len(sent) => got[h][i] = 0

NetBase == NetTypes /\ HostCables /\ Unsent

\* Box b sends the next frame from m on its interfaces in `out'.
Forwards(b, m, out) ==
    /\ m \in Nbr[b] /\ cable[<<m, b>>] # <<>> /\ out \subseteq Nbr[b]
    /\ Moves(cable, cable', {<<m, b>>}, {<<b, c>> : c \in out}, Head(cable[<<m, b>>]))
    /\ UNCHANGED <<net, sent, got, known>>

LEMMA FrameFacts ==
    ASSUME NetTypes, NEW f \in Frames
    PROVE  /\ f.id \in DOMAIN sent /\ f = sent[f.id]
           /\ f.id \in 1 .. net.frames
           /\ f.src \in Host /\ f.dst \in Host \cup {Bcast} /\ f.dst # f.src
<1>1. PICK i \in DOMAIN sent : f = sent[i]
  BY DEF Frames
<1> DEFINE F == [id : Nat, src : Host, dst : Host \cup {Bcast}]
<1>2. /\ sent \in Seq(F)
      /\ sent[i].id = i /\ sent[i].dst # sent[i].src
      /\ Len(sent) <= net.frames /\ net.frames \in Nat
  BY LanAssumption, <1>1 DEF NetTypes
<1>3. sent[i] \in F
  <2> HIDE DEF F
  <2> QED
    BY <1>1, <1>2
<1>4. i \in 1 .. net.frames
  BY <1>2
<1> QED
  BY <1>1, <1>2, <1>3, <1>4

LEMMA OnFrames ==
    ASSUME NetTypes, NEW e \in Wires, NEW f, On(cable, e, f)
    PROVE  f \in Frames
<1>1. cable[e] \in Seq(Frames)
  BY DEF NetTypes
<1> QED
  BY <1>1 DEF On

LEMMA BoxFacts ==
    ASSUME NetTypes, NEW b \in Box, NEW m \in Nbr[b]
    PROVE  /\ b \in Node /\ m \in Node /\ m # b /\ b \notin Host
           /\ <<m, b>> \in Wires /\ <<b, m>> \in Wires
<1>1. net \in Nets
  BY DEF NetTypes
<1>2. b \in NodesOf[net] /\ b \notin Host
  BY <1>1, LanAssumption DEF NodesOf, Box, Host
<1> QED
  BY <1>1, <1>2, NbrFacts DEF Nbr, Node, Wires

LEMMA HostFacts ==
    ASSUME NetTypes, NEW h \in Host, NEW m \in Nbr[h]
    PROVE  /\ h \in Node /\ m \in Node /\ m # h /\ h \notin Box
           /\ <<m, h>> \in Wires /\ <<h, m>> \in Wires
           /\ \A c \in Nbr[h] : c = m
<1>1. net \in Nets
  BY DEF NetTypes
<1>2. h \in NodesOf[net] /\ h \notin Box
  BY <1>1, LanAssumption DEF NodesOf, Box, Host
<1>3. \A c \in Nbr[h] : c = m
  BY <1>1, HostNbr DEF Nbr, Host
<1> QED
  BY <1>1, <1>2, <1>3, NbrFacts DEF Nbr, Node, Wires

\* iface_send_packet after a read, and without one.
LEMMA SentAfterRead ==
    ASSUME NetTypes, NEW b \in Node, NEW m \in Nbr[b], NEW out \in SUBSET Nbr[b], NEW f
    PROVE  Moves(cable, iface_send_packet(b, out, f, Read(b, m)),
                 {<<m, b>>}, {<<b, c>> : c \in out}, f)
<1> DEFINE w == Read(b, m)
           x == <<m, b>>
           to == {<<b, c>> : c \in out}
<1>1. /\ net \in Nets /\ cable \in [Wires -> Seq(Frames)]
  BY DEF NetTypes
<1>2. m # b /\ x \in Wires
  <2>1. b \in NodesOf[net] /\ m \in NbrsOf[net][b]
    BY DEF Node, Nbr
  <2> QED
    BY <1>1, <2>1, NbrFacts DEF Wires
<1>3. \A e \in Wires : w[e] = IF e = x THEN Tail(cable[e]) ELSE cable[e]
  BY <1>1, <1>2 DEF Read
<1>4. \A e \in Wires : e \in to <=> e[1] = b /\ e[2] \in out
  BY <1>1, WireFacts DEF Wires
<1>5. \A e \in Wires : e = x => e[1] # b
  BY <1>2
<1> HIDE DEF w, x, to
<1>6. [e \in Wires |-> IF e[1] = b /\ e[2] \in out THEN Append(w[e], f) ELSE w[e]]
    = [e \in Wires |-> IF e \in {x} THEN Tail(cable[e])
                       ELSE IF e \in to THEN Append(cable[e], f) ELSE cable[e]]
  BY <1>3, <1>4, <1>5
<1> QED
  BY <1>6 DEF Moves, iface_send_packet, w, x, to

LEMMA SentFresh ==
    ASSUME NetTypes, NEW h, NEW out, NEW f
    PROVE  Moves(cable, iface_send_packet(h, out, f, cable), {}, {<<h, c>> : c \in out}, f)
<1> DEFINE to == {<<h, c>> : c \in out}
<1>1. \A e \in Wires : e \in to <=> e[1] = h /\ e[2] \in out
  BY WireFacts DEF Wires, NetTypes
<1> HIDE DEF to
<1>2. [e \in Wires |-> IF e[1] = h /\ e[2] \in out THEN Append(cable[e], f) ELSE cable[e]]
    = [e \in Wires |-> IF e \in {} THEN Tail(cable[e])
                       ELSE IF e \in to THEN Append(cable[e], f) ELSE cable[e]]
  BY <1>1
<1> QED
  BY <1>2 DEF Moves, iface_send_packet, to

LEMMA OnlyRead ==
    ASSUME NetTypes, NEW h \in Node, NEW b \in Nbr[h], NEW f
    PROVE  Moves(cable, Read(h, b), {<<b, h>>}, {}, f)
<1> DEFINE x == <<b, h>>
<1>1. cable \in [Wires -> Seq(Frames)] /\ x \in Wires
  BY NbrFacts DEF NetTypes, Nbr, Node, Wires
<1>2. [cable EXCEPT ![x] = Tail(@)]
    = [e \in Wires |-> IF e \in {x} THEN Tail(cable[e])
                       ELSE IF e \in {} THEN Append(cable[e], f) ELSE cable[e]]
  <2> HIDE DEF x
  <2> QED
    BY <1>1
<1> QED
  BY <1>2 DEF Moves, Read
LEMMA ForwardOn ==
    ASSUME NetTypes, NEW b \in Box, NEW m, NEW out, Forwards(b, m, out),
           NEW f, f = Head(cable[<<m, b>>])
    PROVE  /\ m \in Nbr[b] /\ out \subseteq Nbr[b] /\ f \in Frames
           /\ cable' \in [Wires -> Seq(Frames)]
           /\ On(cable, <<m, b>>, f)
           /\ \A e \in Wires : \A g :
                  On(cable', e, g) => On(cable, e, g) \/ (e[1] = b /\ e[2] \in out /\ g = f)
           /\ \A e \in Wires : \A g :
                  On(cable, e, g) => On(cable', e, g) \/ (e = <<m, b>> /\ g = f)
           /\ \A c \in out : On(cable', <<b, c>>, f)
<1> DEFINE x == <<m, b>>
           to == {<<b, c>> : c \in out}
<1>1. /\ m \in Nbr[b] /\ cable[x] # <<>> /\ out \subseteq Nbr[b]
      /\ Moves(cable, cable', {x}, to, f)
  BY DEF Forwards
<1>2. cable \in [Wires -> Seq(Frames)]
  BY DEF NetTypes
<1>3. x \in Wires /\ m # b /\ \A c \in out : <<b, c>> \in Wires
  BY <1>1, BoxFacts
<1>4. {x} \subseteq Wires /\ to \subseteq Wires /\ {x} \cap to = {}
  BY <1>3
<1>5. cable[x] \in Seq(Frames)
  BY <1>2, <1>3
<1>6. f \in Frames
  BY <1>1, <1>5, TailOn
<1>7. \A e \in {x} : cable[e] # <<>> /\ f = Head(cable[e])
  BY <1>1
<1>8. \A e \in to : e[1] = b /\ e[2] \in out
  OBVIOUS
<1>9. \A c \in out : <<b, c>> \in to
  OBVIOUS
<1>10. x = <<m, b>>
  OBVIOUS
<1> HIDE DEF x, to
<1>11. IsMove(Frames, cable, cable', {x}, to, f)
  BY <1>1, <1>2, <1>4, <1>6, <1>7 DEF IsMove
<1>12. cable' \in [Wires -> Seq(Frames)]
  BY <1>11, MovesFacts
<1>13. /\ \A e \in Wires : \A g : On(cable', e, g) => On(cable, e, g) \/ (e \in to /\ g = f)
       /\ \A e \in Wires : \A g : On(cable, e, g) => On(cable', e, g) \/ (e \in {x} /\ g = f)
       /\ \A e \in to : On(cable', e, f)
       /\ \A e \in {x} : On(cable, e, f)
  BY <1>11, MovesOn
<1>14. \A e \in Wires : \A g :
          On(cable', e, g) => On(cable, e, g) \/ (e[1] = b /\ e[2] \in out /\ g = f)
  BY <1>8, <1>13
<1>15. On(cable, x, f)
  BY <1>13
<1>16. \A e \in Wires : \A g : On(cable, e, g) => On(cable', e, g) \/ (e = x /\ g = f)
  BY <1>13
<1>17. \A c \in out : On(cable', <<b, c>>, f)
  BY <1>9, <1>13
<1> QED
  BY <1>1, <1>6, <1>12, <1>14, <1>15, <1>16, <1>17 DEF x

LEMMA HubForwards ==
    ASSUME NetTypes, NEW b \in Box, NEW m, Hubs(b, m)
    PROVE  /\ net.hubs /\ Forwards(b, m, Nbr[b] \ {m})
           /\ UNCHANGED <<hash8, hash_table, now>>
<1> DEFINE f == Head(cable[<<m, b>>])
           out == Nbr[b] \ {m}
<1>0. H!Nbr = Nbr /\ H!Wires = Wires
  <2>1. H!NodesOf = NodesOf
    BY DEF H!NodesOf, NodesOf
  <2>2. H!NbrsOf = NbrsOf
    BY <2>1 DEF H!NbrsOf, NbrsOf
  <2>3. H!WiresOf = WiresOf
    BY <2>1, <2>2 DEF H!WiresOf, WiresOf
  <2> QED
    BY <2>2, <2>3 DEF H!Nbr, H!Wires, Nbr, Wires
<1>1. /\ net.hubs /\ m \in Nbr[b] /\ cable[<<m, b>>] # <<>>
      /\ cable' = iface_send_packet(b, out, f, Read(b, m))
      /\ UNCHANGED <<net, sent, got, known, hash8, hash_table, now>>
  BY <1>0 DEF Hubs, H!handle_packet, H!Reads, H!Read, H!iface_send_packet,
              H!broadcast_packet, Read, iface_send_packet
<1>2. b \in Node /\ out \in SUBSET Nbr[b]
  BY <1>1, BoxFacts
<1>3. Moves(cable, cable', {<<m, b>>}, {<<b, c>> : c \in out}, f)
  BY <1>1, <1>2, SentAfterRead
<1> QED
  BY <1>1, <1>2, <1>3 DEF Forwards

--------------------------------------------------------------------------------
(* The tables of the switches.                                                  *)

Entry(s, t) == [mac : Host, iface : Nbr[s], visited : 0 .. t]

TableTypes ==
    ~ net.hubs =>
        /\ hash8 \in Hashes /\ now \in Nat
        /\ hash_table = [s \in Box |-> [k \in Key |-> hash_table[s][k]]]
        /\ \A s \in Box : \A k \in Key : hash_table[s][k] \in {EMPTY} \cup Entry(s, now)

Knows(s, a) == hash_table[s][hash8[a]] # EMPTY

\* An entry keeps its address and its interface; a new one is for the source of f.
Grows(s, m, f) ==
    \A r \in Box : \A k \in Key :
        LET old == hash_table[r][k]
            new == hash_table'[r][k]
        IN  IF old # EMPTY
            THEN new # EMPTY /\ new.mac = old.mac /\ new.iface = old.iface
            ELSE IF r = s /\ k = hash8[f.src]
            THEN new # EMPTY /\ new.mac = f.src /\ new.iface = m
            ELSE new = EMPTY

\* Where a frame to dst that came from m goes.
Ways(s, m, dst) ==
    IF Knows(s, dst) THEN {hash_table[s][hash8[dst]].iface} ELSE Nbr[s] \ {m}

LEMMA HostsAreMacs ==
    ASSUME NetTypes
    PROVE  /\ Host \subseteq AllHosts /\ Bcast \notin Host /\ EMPTY.mac \notin Host
<1>1. Host \subseteq AllHosts
  BY DEF NetTypes, Host, AllHosts
<1> QED
  BY <1>1, NameAssumption

LEMMA EntryFacts ==
    ASSUME NetTypes, NEW s, NEW t, NEW e \in Entry(s, t)
    PROVE  e # EMPTY /\ e.mac \in Host /\ e.iface \in Nbr[s] /\ e.visited \in 0 .. t
<1>1. e.mac \in Host /\ e.iface \in Nbr[s] /\ e.visited \in 0 .. t
  BY DEF Entry
<1> QED
  BY <1>1, HostsAreMacs

LEMMA HashFacts ==
    ASSUME NetTypes, TableTypes, ~ net.hubs, NEW a \in Host \cup {Bcast}
    PROVE  hash8[a] \in Key
<1>1. a \in AllHosts \cup {Bcast}
  BY HostsAreMacs
<1>2. DOMAIN hash8 = AllHosts \cup {Bcast}
  BY HashAssumption DEF TableTypes
<1> QED
  BY <1>1, <1>2 DEF Key

LEMMA VisitedFacts ==
    ASSUME NetTypes, TableTypes, ~ net.hubs, NEW s \in Box, NEW a \in Host \cup {Bcast}
    PROVE  LET T == hash_table[s]
               t == Visited(T, a)
           IN  /\ DOMAIN t = Key
               /\ \A k \in Key :
                     /\ t[k] \in {EMPTY} \cup Entry(s, now)
                     /\ T[k] = EMPTY <=> t[k] = EMPTY
                     /\ T[k] # EMPTY => t[k].mac = T[k].mac /\ t[k].iface = T[k].iface
<1> DEFINE T == hash_table[s]
           t == Visited(T, a)
           j == hash8[a]
           e == [T[j] EXCEPT !.visited = now]
<1>1. /\ now \in Nat /\ DOMAIN T = Key
      /\ \A k \in Key : T[k] \in {EMPTY} \cup Entry(s, now)
  BY DEF TableTypes
<1>2. j \in Key
  BY HashFacts
<1>3. CASE T[j] = EMPTY
  <2>1. t = T
    BY <1>3 DEF Visited, lookup_port
  <2> QED
    BY <1>1, <2>1
<1>4. CASE T[j] # EMPTY
  <2>1. T[j] \in Entry(s, now)
    BY <1>1, <1>2, <1>4
  <2>2. e \in Entry(s, now) /\ e.mac = T[j].mac /\ e.iface = T[j].iface
    BY <1>1, <2>1 DEF Entry
  <2>3. e # EMPTY
    BY <2>2, EntryFacts
  <2>4. t = [T EXCEPT ![j] = e]
    BY <1>4 DEF Visited, lookup_port
  <2> HIDE DEF T, t, j, e
  <2>5. DOMAIN t = Key /\ \A k \in Key : t[k] = IF k = j THEN e ELSE T[k]
    BY <1>1, <1>2, <2>4
  <2>6. ASSUME NEW k \in Key
        PROVE  /\ t[k] \in {EMPTY} \cup Entry(s, now)
               /\ T[k] = EMPTY <=> t[k] = EMPTY
               /\ T[k] # EMPTY => t[k].mac = T[k].mac /\ t[k].iface = T[k].iface
    BY <1>1, <1>4, <2>2, <2>3, <2>5
  <2> QED
    BY <2>5, <2>6 DEF T, t
<1> QED
  BY <1>3, <1>4

LEMMA SwitchForwards ==
    ASSUME NetTypes, TableTypes, NEW s \in Box, NEW m, Switches(s, m),
           NEW f, f = Head(cable[<<m, s>>])
    PROVE  /\ ~ net.hubs /\ Forwards(s, m, Ways(s, m, f.dst))
           /\ UNCHANGED hash8 /\ Grows(s, m, f) /\ TableTypes'
<1> DEFINE T == hash_table[s]
           t == Visited(T, f.dst)
           k0 == hash8[f.src]
           x == [mac |-> f.src, iface |-> m, visited |-> now]
           u == IF t[k0] = EMPTY THEN [t EXCEPT ![k0] = x] ELSE t
           out == Ways(s, m, f.dst)
<1>1. /\ ~ net.hubs /\ m \in Nbr[s] /\ cable[<<m, s>>] # <<>>
      /\ cable' = iface_send_packet(s, Out(s, f, m, t), f, Read(s, m))
      /\ hash_table' = [hash_table EXCEPT ![s] = u]
      /\ UNCHANGED <<net, sent, got, hash8, now, known>>
  BY DEF Switches, handle_packet, Reads, lookup_port, insert_mac_port
<1>2. s \in Node /\ <<m, s>> \in Wires
  BY <1>1, BoxFacts
<1>3. f \in Frames
  <2>1. cable[<<m, s>>] \in Seq(Frames)
    BY <1>2 DEF NetTypes
  <2> QED
    BY <1>1, <2>1, TailOn
<1>4. f.src \in Host /\ f.dst \in Host \cup {Bcast}
  BY <1>3, FrameFacts
<1>5. k0 \in Key /\ hash8[f.dst] \in Key
  BY <1>1, <1>4, HashFacts
<1>6. /\ DOMAIN t = Key
      /\ \A k \in Key :
            /\ t[k] \in {EMPTY} \cup Entry(s, now)
            /\ T[k] = EMPTY <=> t[k] = EMPTY
            /\ T[k] # EMPTY => t[k].mac = T[k].mac /\ t[k].iface = T[k].iface
  BY <1>1, <1>4, VisitedFacts
<1>7. Out(s, f, m, t) = out
  <2> HIDE DEF t
  <2> QED
    BY <1>5, <1>6 DEF Out, lookup_port, broadcast_packet, Ways, Knows
<1>8. /\ now \in Nat /\ hash8 \in Hashes
      /\ hash_table = [r \in Box |-> [k \in Key |-> hash_table[r][k]]]
      /\ \A r \in Box : \A k \in Key : hash_table[r][k] \in {EMPTY} \cup Entry(r, now)
  BY <1>1 DEF TableTypes
<1>9. out \subseteq Nbr[s]
  <2>1. CASE Knows(s, f.dst)
    <3>1. T[hash8[f.dst]] \in Entry(s, now)
      BY <1>5, <1>8, <2>1 DEF Knows
    <3> QED
      BY <2>1, <3>1 DEF Ways, Entry
  <2> QED
    BY <2>1 DEF Ways
<1>10. Moves(cable, cable', {<<m, s>>}, {<<s, c>> : c \in out}, f)
  <2> HIDE DEF out, t
  <2> QED
    BY <1>1, <1>2, <1>7, <1>9, SentAfterRead
<1>11. Forwards(s, m, out)
  BY <1>1, <1>9, <1>10 DEF Forwards
<1>12. x \in Entry(s, now) /\ x.mac = f.src /\ x.iface = m
  BY <1>1, <1>4, <1>8 DEF Entry
<1>13. x # EMPTY
  BY <1>12, EntryFacts
<1>14. /\ DOMAIN u = Key
       /\ \A k \in Key : u[k] = IF k = k0 /\ t[k0] = EMPTY THEN x ELSE t[k]
  <2> HIDE DEF t, x, k0
  <2> QED
    BY <1>5, <1>6
<1>15. /\ hash_table'[s] = u
       /\ \A r \in Box : r # s => hash_table'[r] = hash_table[r]
       /\ DOMAIN hash_table' = Box
  <2> HIDE DEF u
  <2> QED
    BY <1>1, <1>8
<1>16. Grows(s, m, f)
  <2> SUFFICES ASSUME NEW r \in Box, NEW k \in Key
               PROVE  LET old == hash_table[r][k]
                          new == hash_table'[r][k]
                      IN  IF old # EMPTY
                          THEN new # EMPTY /\ new.mac = old.mac /\ new.iface = old.iface
                          ELSE IF r = s /\ k = hash8[f.src]
                          THEN new # EMPTY /\ new.mac = f.src /\ new.iface = m
                          ELSE new = EMPTY
    BY DEF Grows
  <2> HIDE DEF t, x, u
  <2>1. CASE r # s
    BY <1>15, <2>1
  <2>2. CASE r = s
    <3>1. hash_table'[r][k] = IF k = k0 /\ t[k0] = EMPTY THEN x ELSE t[k]
      BY <1>14, <1>15, <2>2
    <3> QED
      BY <1>5, <1>6, <1>12, <1>13, <2>2, <3>1
  <2> QED
    BY <2>1, <2>2
<1>17. TableTypes'
  <2> HIDE DEF t, x, u
  <2>1. Key' = Key /\ Box' = Box /\ Host' = Host /\ \A r : Nbr'[r] = Nbr[r]
    BY <1>1 DEF Key, Box, Host, Nbr
  <2>2. \A r \in Box : DOMAIN hash_table'[r] = Key
    BY <1>8, <1>14, <1>15
  <2>3. \A r \in Box : \A k \in Key : hash_table'[r][k] \in {EMPTY} \cup Entry(r, now)
    BY <1>6, <1>8, <1>12, <1>14, <1>15
  <2>4. hash_table' = [r \in Box |-> [k \in Key |-> hash_table'[r][k]]]
    <3>1. \A r \in Box : hash_table'[r] = [k \in Key |-> hash_table'[r][k]]
      <4>1. T = [k \in Key |-> T[k]]
        BY <1>8
      <4>2. t = [k \in Key |-> t[k]]
        BY <4>1 DEF t, Visited
      <4>3. u = [k \in Key |-> u[k]]
        BY <1>5, <4>2 DEF u
      <4> QED
        BY <1>8, <1>15, <4>3
    <3>2. hash_table' = [r \in Box |-> hash_table'[r]]
      BY <1>1, <1>8
    <3> QED
      BY <3>1, <3>2
  <2>5. \A r : Entry(r, now)' = Entry(r, now)
    BY <1>1, <2>1 DEF Entry
  <2> QED
    BY <1>1, <1>8, <2>1, <2>3, <2>4, <2>5 DEF TableTypes
<1> QED
  BY <1>1, <1>11, <1>16, <1>17

\* The sweep frees nothing: no entry was used after now.
LEMMA SweepFacts ==
    ASSUME NetTypes, TableTypes, sweeping_mac_port_thread
    PROVE  /\ ~ net.hubs /\ hash_table' = hash_table /\ TableTypes'
           /\ UNCHANGED <<net, cable, sent, got, hash8, known>>
<1>1. /\ ~ net.hubs /\ now' = now + 1
      /\ hash_table' = [s \in Box |-> [k \in Key |->
             IF Aged(hash_table[s][k], now') THEN FREED ELSE hash_table[s][k]]]
      /\ UNCHANGED <<net, cable, sent, got, hash8, known>>
  BY DEF sweeping_mac_port_thread
<1>2. /\ now \in Nat /\ hash8 \in Hashes
      /\ hash_table = [r \in Box |-> [k \in Key |-> hash_table[r][k]]]
      /\ \A r \in Box : \A k \in Key : hash_table[r][k] \in {EMPTY} \cup Entry(r, now)
  BY <1>1 DEF TableTypes
<1>3. ASSUME NEW r \in Box, NEW k \in Key PROVE ~ Aged(hash_table[r][k], now')
  <2> DEFINE e == hash_table[r][k]
  <2> SUFFICES ASSUME e # EMPTY PROVE ~ (e.visited - now' > MAC_PORT_TIMEOUT)
    BY DEF Aged
  <2>1. e \in Entry(r, now)
    BY <1>2
  <2> HIDE DEF e
  <2>2. e.visited \in 0 .. now
    BY <2>1, EntryFacts
  <2> QED
    BY <1>1, <1>2, <2>2, TimeAssumption
<1>4. hash_table' = hash_table
  BY <1>1, <1>2, <1>3
<1>5. TableTypes'
  <2>1. Key' = Key /\ Box' = Box /\ Host' = Host /\ \A r : Nbr'[r] = Nbr[r]
    BY <1>1 DEF Key, Box, Host, Nbr
  <2>2. now' \in Nat /\ 0 .. now \subseteq 0 .. now'
    BY <1>1, <1>2
  <2>3. \A r : Entry(r, now) \subseteq Entry(r, now)'
    BY <2>1, <2>2 DEF Entry
  <2> QED
    BY <1>1, <1>2, <1>4, <2>1, <2>2, <2>3 DEF TableTypes
<1> QED
  BY <1>1, <1>4, <1>5

\* Host h sends f.
Starts(h, f) ==
    /\ f = [id |-> Len(sent) + 1, src |-> h, dst |-> f.dst]
    /\ Len(sent) < net.frames /\ f.dst # h
    /\ sent' = Append(sent, f)
    /\ Moves(cable, cable', {}, {<<h, c>> : c \in Nbr[h]}, f)
    /\ known' = Append(known, ~ net.hubs /\ \A s \in Box : Learnt(s, f.dst))
    /\ UNCHANGED <<net, got, hash8, hash_table, now>>

LEMMA SendStarts ==
    ASSUME NetTypes, NEW h \in Host, NEW d \in Host \cup {Bcast}, Sends(h, d)
    PROVE  \E f : Starts(h, f) /\ f.dst = d
<1> DEFINE f == [id |-> Len(sent) + 1, src |-> h, dst |-> d]
<1>1. Moves(cable, iface_send_packet(h, Nbr[h], f, cable), {}, {<<h, c>> : c \in Nbr[h]}, f)
  BY SentFresh
<1>2. Starts(h, f) /\ f.dst = d
  BY <1>1 DEF Sends, HostSends, Starts
<1> QED
  BY <1>2

LEMMA StartOn ==
    ASSUME NetTypes, NEW h \in Host, NEW f, f.dst \in Host \cup {Bcast}, Starts(h, f)
    PROVE  /\ f.id = Len(sent) + 1 /\ f.src = h /\ f \notin Frames
           /\ f.id \in 1 .. net.frames
           /\ Frames' = Frames \cup {f} /\ NetTypes'
           /\ \A i \in DOMAIN sent : i \in DOMAIN sent' /\ sent'[i] = sent[i]
           /\ \A i \in DOMAIN sent' : i \in DOMAIN sent \/ (i = f.id /\ sent'[i] = f)
           /\ \A e \in Wires : \A g :
                  On(cable', e, g) => On(cable, e, g) \/ (e[1] = h /\ e[2] \in Nbr[h] /\ g = f)
           /\ \A e \in Wires : \A g : On(cable, e, g) => On(cable', e, g)
           /\ \A c \in Nbr[h] : On(cable', <<h, c>>, f)
<1> DEFINE R == [id : Nat, src : Host, dst : Host \cup {Bcast}]
           to == {<<h, c>> : c \in Nbr[h]}
           n == Len(sent)
<1>1. /\ f = [id |-> n + 1, src |-> h, dst |-> f.dst]
      /\ n < net.frames /\ f.dst # h /\ sent' = Append(sent, f)
      /\ Moves(cable, cable', {}, to, f)
      /\ UNCHANGED <<net, got, hash8, hash_table, now>>
  BY DEF Starts
<1>2. /\ sent \in Seq(R) /\ n \in Nat /\ net.frames \in Nat
      /\ \A i \in DOMAIN sent : sent[i].id = i /\ sent[i].dst # sent[i].src
      /\ cable \in [Wires -> Seq(Frames)]
      /\ net \in Nets
  <2>1. /\ sent \in Seq(R) /\ cable \in [Wires -> Seq(Frames)] /\ net \in Nets
        /\ \A i \in DOMAIN sent : sent[i].id = i /\ sent[i].dst # sent[i].src
    BY DEF NetTypes
  <2>2. net.frames \in Nat
    BY <2>1, LanAssumption
  <2> HIDE DEF R
  <2>3. n \in Nat
    BY <2>1
  <2> QED
    BY <2>1, <2>2, <2>3
<1>3. f.id = n + 1 /\ f.src = h /\ f \in R
  BY <1>1, <1>2
<1>4. f.id \in 1 .. net.frames
  BY <1>1, <1>2, <1>3
<1>5. /\ Append(sent, f) \in Seq(R) /\ Len(Append(sent, f)) = n + 1
      /\ \A i \in DOMAIN sent : i \in DOMAIN Append(sent, f) /\ Append(sent, f)[i] = sent[i]
      /\ \A i \in DOMAIN Append(sent, f) :
            i \in DOMAIN sent \/ (i = n + 1 /\ Append(sent, f)[i] = f)
      /\ n + 1 \in DOMAIN Append(sent, f) /\ Append(sent, f)[n + 1] = f
      /\ n + 1 \notin DOMAIN sent
  <2> HIDE DEF R
  <2> QED
    BY <1>2, <1>3
<1> HIDE DEF R, n
<1>6. f \notin Frames
  BY <1>2, <1>3, <1>5 DEF Frames
<1>7. /\ sent' \in Seq(R) /\ Len(sent') = n + 1
      /\ \A i \in DOMAIN sent : i \in DOMAIN sent' /\ sent'[i] = sent[i]
      /\ \A i \in DOMAIN sent' : i \in DOMAIN sent \/ (i = n + 1 /\ sent'[i] = f)
      /\ n + 1 \in DOMAIN sent' /\ sent'[n + 1] = f
  BY <1>1, <1>5
<1>8. Frames' = Frames \cup {f}
  <2>1. \A g \in Frames' : g \in Frames \cup {f}
    BY <1>7 DEF Frames
  <2>2. \A g \in Frames \cup {f} : g \in Frames'
    BY <1>7 DEF Frames
  <2> QED
    BY <2>1, <2>2
<1>9. to \subseteq Wires
  <2>1. \A c \in Nbr[h] : <<h, c>> \in Wires
    BY HostFacts
  <2> QED
    BY <2>1
<1>10. \A e \in to : e[1] = h /\ e[2] \in Nbr[h]
  OBVIOUS
<1>11. \A c \in Nbr[h] : <<h, c>> \in to
  OBVIOUS
<1> HIDE DEF to
<1>12. IsMove(Frames', cable, cable', {}, to, f)
  <2>1. cable \in [Wires -> Seq(Frames')]
    <3>1. Seq(Frames) \subseteq Seq(Frames')
      BY <1>8
    <3> QED
      BY <1>2, <3>1
  <2> QED
    BY <1>1, <1>8, <1>9, <2>1 DEF IsMove
<1>13. cable' \in [Wires -> Seq(Frames')]
  BY <1>12, MovesFacts
<1>14. /\ \A e \in Wires : \A g : On(cable', e, g) => On(cable, e, g) \/ (e \in to /\ g = f)
       /\ \A e \in Wires : \A g : On(cable, e, g) => On(cable', e, g) \/ (e \in {} /\ g = f)
       /\ \A e \in to : On(cable', e, f)
  BY <1>12, MovesOn
<1>15. \A e \in Wires : \A g :
          On(cable', e, g) => On(cable, e, g) \/ (e[1] = h /\ e[2] \in Nbr[h] /\ g = f)
  BY <1>10, <1>14
<1>16. \A e \in Wires : \A g : On(cable, e, g) => On(cable', e, g)
  BY <1>14
<1>17. \A c \in Nbr[h] : On(cable', <<h, c>>, f)
  BY <1>11, <1>14
<1>18. NetTypes'
  <2>1. Host' = Host /\ Wires' = Wires
    BY <1>1 DEF Host, Wires
  <2>2. \A i \in DOMAIN sent' : sent'[i].id = i /\ sent'[i].dst # sent'[i].src
    BY <1>1, <1>2, <1>3, <1>7
  <2>3. known' \in Seq(BOOLEAN) /\ Len(known') = Len(sent')
    <3>1. known \in Seq(BOOLEAN) /\ Len(known) = n
      BY DEF NetTypes, n
    <3>2. PICK b \in BOOLEAN : known' = Append(known, b)
      BY DEF Starts
    <3> QED
      BY <1>7, <3>1, <3>2
  <2>4. got \in [Host -> [1 .. net.frames -> Nat]]
    BY DEF NetTypes
  <2>5. Len(sent') <= net'.frames
    BY <1>1, <1>2, <1>7
  <2> QED
    BY <1>1, <1>2, <1>7, <1>13, <2>1, <2>2, <2>3, <2>4, <2>5 DEF NetTypes, R
<1> QED
  BY <1>3, <1>4, <1>6, <1>7, <1>8, <1>15, <1>16, <1>17, <1>18 DEF n

\* Host h receives f from b.
Takes(h, b, f) ==
    /\ b \in Nbr[h] /\ cable[<<b, h>>] # <<>> /\ f = Head(cable[<<b, h>>])
    /\ Moves(cable, cable', {<<b, h>>}, {}, f)
    /\ got' = [got EXCEPT ![h][f.id] = IF @ < MANY THEN @ + 1 ELSE @]
    /\ UNCHANGED <<net, sent, known, hash8, hash_table, now>>

Counts(h, n) ==
    /\ \A g \in Host : \A i \in 1 .. net.frames :
           g # h \/ i # n => got'[g][i] = got[g][i]
    /\ got'[h][n] > 0 /\ (got[h][n] = 0 => got'[h][n] = 1)

LEMMA GetTakes ==
    ASSUME NetTypes, NEW h \in Host, Gets(h)
    PROVE  \E b, f : Takes(h, b, f)
<1>1. PICK b \in Nbr[h] :
         /\ Reads(h, b) /\ cable' = Read(h, b)
         /\ got' = [got EXCEPT ![h][Head(cable[<<b, h>>]).id] = IF @ < MANY THEN @ + 1 ELSE @]
         /\ UNCHANGED <<net, sent>>
  BY DEF Gets, HostGets
<1>2. h \in Node
  BY HostFacts
<1>3. Takes(h, b, Head(cable[<<b, h>>]))
  BY <1>1, <1>2, OnlyRead DEF Takes, Reads, Gets
<1> QED
  BY <1>3

LEMMA TakeOn ==
    ASSUME NetTypes, NEW h \in Host, NEW b, NEW f, Takes(h, b, f)
    PROVE  /\ b \in Nbr[h] /\ <<b, h>> \in Wires /\ f \in Frames /\ NetTypes'
           /\ On(cable, <<b, h>>, f)
           /\ \A e \in Wires : \A g : On(cable', e, g) => On(cable, e, g)
           /\ \A e \in Wires : \A g :
                  On(cable, e, g) => On(cable', e, g) \/ (e = <<b, h>> /\ g = f)
           /\ Counts(h, f.id)
<1> DEFINE x == <<b, h>>
<1>1. /\ b \in Nbr[h] /\ cable[x] # <<>> /\ f = Head(cable[x])
      /\ Moves(cable, cable', {x}, {}, f)
      /\ got' = [got EXCEPT ![h][f.id] = IF @ < MANY THEN @ + 1 ELSE @]
      /\ UNCHANGED <<net, sent, known, hash8, hash_table, now>>
  BY DEF Takes
<1>2. x \in Wires
  BY <1>1, HostFacts
<1>3. /\ cable \in [Wires -> Seq(Frames)]
      /\ got \in [Host -> [1 .. net.frames -> Nat]]
  BY DEF NetTypes
<1>4. cable[x] \in Seq(Frames)
  BY <1>2, <1>3
<1>5. f \in Frames
  BY <1>1, <1>4, TailOn
<1>6. f.id \in 1 .. net.frames
  BY <1>5, FrameFacts
<1>7. x = <<b, h>>
  OBVIOUS
<1> HIDE DEF x
<1>8. IsMove(Frames, cable, cable', {x}, {}, f)
  BY <1>1, <1>2, <1>3, <1>5 DEF IsMove
<1>9. cable' \in [Wires -> Seq(Frames)]
  BY <1>8, MovesFacts
<1>10. /\ \A e \in Wires : \A g : On(cable', e, g) => On(cable, e, g) \/ (e \in {} /\ g = f)
       /\ \A e \in Wires : \A g : On(cable, e, g) => On(cable', e, g) \/ (e \in {x} /\ g = f)
       /\ \A e \in {x} : On(cable, e, f)
  BY <1>8, MovesOn
<1>11. \A e \in Wires : \A g : On(cable', e, g) => On(cable, e, g)
  BY <1>10
<1>12. \A e \in Wires : \A g : On(cable, e, g) => On(cable', e, g) \/ (e = x /\ g = f)
  BY <1>10
<1>13. On(cable, x, f)
  BY <1>10
<1> DEFINE c == got[h][f.id]
           d == IF c < MANY THEN c + 1 ELSE c
<1>14. c \in Nat /\ d \in Nat /\ d > 0 /\ (c = 0 => d = 1)
  <2>1. c \in Nat
    BY <1>3, <1>6
  <2> HIDE DEF c
  <2> QED
    BY <2>1, BoundAssumption
<1>15. \A g \in Host : \A i \in 1 .. net.frames :
          got'[g][i] = IF g = h /\ i = f.id THEN d ELSE got[g][i]
  BY <1>1, <1>3, <1>6
<1>16. Counts(h, f.id)
  <2>1. \A g \in Host : \A i \in 1 .. net.frames :
           g # h \/ i # f.id => got'[g][i] = got[g][i]
    BY <1>15
  <2>2. got'[h][f.id] = d
    BY <1>6, <1>15
  <2> QED
    BY <1>14, <2>1, <2>2 DEF Counts
<1>17. NetTypes'
  <2>1. Host' = Host /\ Wires' = Wires /\ Frames' = Frames
    BY <1>1 DEF Host, Wires, Frames
  <2>2. got' \in [Host -> [1 .. net.frames -> Nat]]
    <3>1. got' = [got EXCEPT ![h] = [got[h] EXCEPT ![f.id] = d]]
      BY <1>1
    <3> HIDE DEF d
    <3> QED
      BY <1>3, <1>6, <1>14, <3>1
  <2> QED
    BY <1>1, <1>9, <2>1, <2>2 DEF NetTypes
<1> QED
  BY <1>1, <1>2, <1>5, <1>7, <1>11, <1>12, <1>13, <1>16, <1>17

--------------------------------------------------------------------------------
(* All steps, and what holds of every network.                                  *)

HubStep(b, m) ==
    net.hubs /\ Forwards(b, m, Nbr[b] \ {m}) /\ UNCHANGED <<hash8, hash_table, now>>
SwitchStep(s, m, f) ==
    /\ ~ net.hubs /\ f = Head(cable[<<m, s>>]) /\ Forwards(s, m, Ways(s, m, f.dst))
    /\ UNCHANGED hash8 /\ Grows(s, m, f)
Rest == UNCHANGED <<net, cable, sent, got, known, hash8, hash_table>>

LEMMA Steps ==
    ASSUME NetTypes, TableTypes, [NetNext]_net_vars
    PROVE  \/ \E b \in Box, m \in Node : HubStep(b, m)
           \/ \E s \in Box, m \in Node : \E f : SwitchStep(s, m, f)
           \/ \E h \in Host : \E f : f.dst \in Host \cup {Bcast} /\ Starts(h, f)
           \/ \E h \in Host : \E b, f : Takes(h, b, f)
           \/ Rest
<1>1. ASSUME NEW b \in Box, NEW m \in Node, Hubs(b, m) PROVE HubStep(b, m)
  BY <1>1, HubForwards DEF HubStep
<1>2. ASSUME NEW s \in Box, NEW m \in Node, Switches(s, m) PROVE \E f : SwitchStep(s, m, f)
  <2> DEFINE f == Head(cable[<<m, s>>])
  <2>1. ~ net.hubs /\ Forwards(s, m, Ways(s, m, f.dst)) /\ UNCHANGED hash8 /\ Grows(s, m, f)
    BY <1>2, SwitchForwards
  <2> QED
    BY <2>1 DEF SwitchStep
<1>3. ASSUME NEW h \in Host, NEW d \in Host \cup {Bcast}, Sends(h, d)
      PROVE  \E f : f.dst \in Host \cup {Bcast} /\ Starts(h, f)
  BY <1>3, SendStarts
<1>4. ASSUME NEW h \in Host, Gets(h) PROVE \E b, f : Takes(h, b, f)
  BY <1>4, GetTakes
<1>5. ASSUME sweeping_mac_port_thread PROVE Rest
  BY <1>5, SweepFacts DEF Rest
<1>6. ASSUME UNCHANGED net_vars PROVE Rest
  BY <1>6 DEF Rest, net_vars
<1> QED
  BY <1>1, <1>2, <1>3, <1>4, <1>5, <1>6 DEF NetNext

LEMMA StaysNet ==
    ASSUME UNCHANGED net
    PROVE  Host' = Host /\ Box' = Box /\ Node' = Node /\ Nbr' = Nbr /\ Wires' = Wires
  BY DEF Host, Box, Node, Nbr, Wires

LEMMA TablesTyped ==
    ASSUME NetTypes, TableTypes, [NetNext]_net_vars
    PROVE  TableTypes'
<1>1. ASSUME UNCHANGED <<net, hash8, hash_table, now>> PROVE TableTypes'
  <2>1. Key' = Key /\ Box' = Box /\ \A r : Entry(r, now)' = Entry(r, now)
    BY <1>1 DEF Key, Box, Entry, Host, Nbr
  <2> QED
    BY <1>1, <2>1 DEF TableTypes
<1>2. ASSUME NEW b \in Box, NEW m \in Node, Hubs(b, m) PROVE TableTypes'
  BY <1>1, <1>2, HubForwards DEF Forwards
<1>3. ASSUME NEW s \in Box, NEW m \in Node, Switches(s, m) PROVE TableTypes'
  BY <1>3, SwitchForwards
<1>4. ASSUME NEW h \in Host, NEW d \in Host \cup {Bcast}, Sends(h, d) PROVE TableTypes'
  BY <1>1, <1>4 DEF Sends, HostSends
<1>5. ASSUME NEW h \in Host, Gets(h) PROVE TableTypes'
  BY <1>1, <1>5 DEF Gets, HostGets
<1>6. ASSUME sweeping_mac_port_thread PROVE TableTypes'
  BY <1>6, SweepFacts
<1>7. ASSUME UNCHANGED net_vars PROVE TableTypes'
  BY <1>1, <1>7 DEF net_vars
<1> QED
  BY <1>2, <1>3, <1>4, <1>5, <1>6, <1>7 DEF NetNext

LEMMA ForwardTypes ==
    ASSUME NetTypes, NEW b \in Box, NEW m, NEW out, Forwards(b, m, out)
    PROVE  NetTypes' /\ Frames' = Frames
<1>1. UNCHANGED <<net, sent, got, known>>
  BY DEF Forwards
<1>2. cable' \in [Wires -> Seq(Frames)]
  BY ForwardOn
<1>3. Host' = Host /\ Wires' = Wires /\ Frames' = Frames
  BY <1>1 DEF Host, Wires, Frames
<1> QED
  BY <1>1, <1>2, <1>3 DEF NetTypes

LEMMA ForwardBase ==
    ASSUME NetBase, NEW b \in Box, NEW m, NEW out, Forwards(b, m, out)
    PROVE  NetBase'
<1>1. NetTypes /\ HostCables /\ Unsent
  BY DEF NetBase
<1>2. NetTypes' /\ UNCHANGED <<net, sent, got, known>>
  BY <1>1, ForwardTypes DEF Forwards
<1>3. Host' = Host /\ Wires' = Wires
  BY <1>2, StaysNet
<1>4. m \in Nbr[b] /\ b \notin Host
  BY <1>1, BoxFacts DEF Forwards
<1>5. \A e \in Wires : \A g : On(cable', e, g) => On(cable, e, g) \/ e[1] = b
  BY <1>1, ForwardOn
<1>6. HostCables'
  BY <1>1, <1>3, <1>4, <1>5 DEF HostCables
<1>7. Unsent'
  BY <1>1, <1>2, <1>3 DEF Unsent
<1> QED
  BY <1>2, <1>6, <1>7 DEF NetBase

LEMMA StartBase ==
    ASSUME NetBase, NEW h \in Host, NEW f, f.dst \in Host \cup {Bcast}, Starts(h, f)
    PROVE  NetBase'
<1>1. NetTypes /\ HostCables /\ Unsent
  BY DEF NetBase
<1>2. NetTypes' /\ f.src = h /\ f.id = Len(sent) + 1 /\ f.id \in Int
  BY <1>1, StartOn
<1>3. UNCHANGED <<net, got>> /\ sent' = Append(sent, f)
  BY DEF Starts
<1>4. Host' = Host /\ Wires' = Wires
  BY <1>3, StaysNet
<1>5. \A e \in Wires : \A g : On(cable', e, g) => On(cable, e, g) \/ (e[1] = h /\ g = f)
  BY <1>1, StartOn
<1>6. HostCables'
  BY <1>1, <1>2, <1>4, <1>5 DEF HostCables
<1>7. Len(sent) \in Nat /\ Len(sent') = Len(sent) + 1
  <2>1. sent \in Seq([id : Nat, src : Host, dst : Host \cup {Bcast}])
    BY <1>1 DEF NetTypes
  <2> QED
    BY <1>3, <2>1
<1>8. Unsent'
  BY <1>1, <1>3, <1>4, <1>7 DEF Unsent
<1> QED
  BY <1>2, <1>6, <1>8 DEF NetBase

LEMMA TakeBase ==
    ASSUME NetBase, NEW h \in Host, NEW b, NEW f, Takes(h, b, f)
    PROVE  NetBase'
<1>1. NetTypes /\ HostCables /\ Unsent
  BY DEF NetBase
<1>2. NetTypes' /\ f \in Frames
  BY <1>1, TakeOn
<1>3. UNCHANGED <<net, sent>>
  BY DEF Takes
<1>4. Host' = Host /\ Wires' = Wires
  BY <1>3, StaysNet
<1>5. \A e \in Wires : \A g : On(cable', e, g) => On(cable, e, g)
  BY <1>1, TakeOn
<1>6. HostCables'
  BY <1>1, <1>4, <1>5 DEF HostCables
<1>7. f.id \in 1 .. Len(sent) /\ Len(sent) \in Nat
  <2>1. sent \in Seq([id : Nat, src : Host, dst : Host \cup {Bcast}])
    BY <1>1 DEF NetTypes
  <2> QED
    BY <1>1, <1>2, <2>1, FrameFacts
<1>8. Counts(h, f.id)
  BY <1>1, TakeOn
<1>9. Unsent'
  BY <1>1, <1>3, <1>4, <1>7, <1>8 DEF Unsent, Counts
<1> QED
  BY <1>2, <1>6, <1>9 DEF NetBase

LEMMA RestBase ==
    ASSUME NetBase, Rest
    PROVE  NetBase'
<1>1. Host' = Host /\ Wires' = Wires /\ Frames' = Frames
  BY StaysNet DEF Rest, Frames
<1> QED
  BY <1>1 DEF Rest, NetBase, NetTypes, HostCables, Unsent

LEMMA InitBase ==
    ASSUME NetInit
    PROVE  NetBase /\ TableTypes
<1>1. /\ net \in Nets /\ cable = [e \in Wires |-> <<>>] /\ sent = <<>> /\ known = <<>>
      /\ got = [h \in Host |-> [i \in 1 .. net.frames |-> 0]]
      /\ hash_table = [s \in Box |-> [k \in Key |-> EMPTY]] /\ now = 0
  BY DEF NetInit, LanInit
<1>2. net.frames \in Nat /\ net.hubs \in BOOLEAN
  BY <1>1, LanAssumption
<1>3. \A e \in Wires : cable[e] = <<>>
  BY <1>1
<1>4. cable \in [Wires -> Seq(Frames)]
  BY <1>1
<1>5. \A e \in Wires : \A f : ~ On(cable, e, f)
  BY <1>3 DEF On
<1>6. NetTypes
  BY <1>1, <1>2, <1>4 DEF NetTypes
<1>7. HostCables /\ Unsent
  BY <1>1, <1>5 DEF HostCables, Unsent
<1>8. TableTypes
  <2> SUFFICES ASSUME ~ net.hubs PROVE hash8 \in Hashes
    BY <1>1 DEF TableTypes
  <2> QED
    BY DEF NetInit
<1> QED
  BY <1>6, <1>7, <1>8 DEF NetBase

LEMMA LinkFacts ==
    ASSUME NetTypes, NEW x \in Node, NEW y \in Nbr[x]
    PROVE  /\ y \in Node /\ x # y /\ x \in Nbr[y]
           /\ <<x, y>> \in Wires /\ <<y, x>> \in Wires
<1>1. net \in Nets /\ x \in NodesOf[net] /\ y \in NbrsOf[net][x]
  BY DEF NetTypes, Node, Nbr
<1> QED
  BY <1>1, NbrFacts DEF Node, Nbr, Wires

LEMMA Ends ==
    ASSUME NetTypes, NEW e \in Wires
    PROVE  /\ e = <<e[1], e[2]>> /\ e[1] \in Node /\ e[2] \in Node
           /\ e[2] \in Nbr[e[1]] /\ e[1] \in Nbr[e[2]] /\ e[1] # e[2]
<1>1. net \in Nets /\ e \in WiresOf[net]
  BY DEF NetTypes, Wires
<1> QED
  BY <1>1, WireFacts DEF Node, Nbr

LEMMA Kinds ==
    ASSUME NetTypes
    PROVE  Node = Host \cup Box /\ Host \cap Box = {}
  BY LanAssumption DEF NetTypes, NodesOf, Node, Host, Box

LEMMA SentFacts ==
    ASSUME NetTypes, NEW i \in DOMAIN sent
    PROVE  /\ sent[i] \in Frames /\ sent[i].id = i /\ i \in 1 .. net.frames
           /\ sent[i].src \in Host /\ sent[i].dst \in Host \cup {Bcast}
           /\ sent[i].dst # sent[i].src
<1>1. sent[i] \in Frames /\ sent[i].id = i
  BY DEF Frames, NetTypes
<1> QED
  BY <1>1, FrameFacts

LEMMA AddresseeFacts ==
    ASSUME NetTypes, NEW i \in DOMAIN sent, NEW d \in Addressees(i)
    PROVE  d \in Host /\ d # sent[i].src /\ (sent[i].dst = d \/ sent[i].dst = Bcast)
  BY SentFacts DEF Addressees

\* "still on its way", as NotLost says it.
LEMMA OnItsWay ==
    ASSUME NetTypes, NEW i \in DOMAIN sent, NEW e \in Wires, On(cable, e, sent[i])
    PROVE  \E k \in 1 .. Len(cable[e]) : cable[e][k].id = i
<1>1. cable[e] \in Seq(Frames)
  BY DEF NetTypes
<1>2. DOMAIN cable[e] = 1 .. Len(cable[e])
  BY <1>1
<1>3. PICK k \in DOMAIN cable[e] : cable[e][k] = sent[i]
  BY DEF On
<1>4. cable[e][k].id = i
  BY <1>3, SentFacts
<1> QED
  BY <1>2, <1>3, <1>4

--------------------------------------------------------------------------------
(* Hubs: the nodes a frame has reached.  They are left over cables that carry   *)
(* it, so when it is on none they are all nodes.                                *)

Reached(i, R) ==
    /\ R \subseteq Node /\ sent[i].src \in R
    /\ \A x \in R : \A y \in Nbr[x] : y \in R \/ On(cable, <<x, y>>, sent[i])
    /\ \A e \in Wires : On(cable, e, sent[i]) => e[1] \in R
    /\ \A h \in Host : h \in R => h = sent[i].src \/ got[h][i] > 0

Spreads == net.hubs => \A i \in DOMAIN sent : \E R : Reached(i, R)

LEMMA HubSpreads ==
    ASSUME NetTypes, NEW b \in Box, NEW m, HubStep(b, m),
           NEW i \in DOMAIN sent, NEW R, Reached(i, R)
    PROVE  \E S : Reached(i, S)'
<1> DEFINE f == Head(cable[<<m, b>>])
           g == sent[i]
<1>1. Forwards(b, m, Nbr[b] \ {m}) /\ UNCHANGED <<net, sent, got>>
  BY DEF HubStep, Forwards
<1>2. Host' = Host /\ Box' = Box /\ Node' = Node /\ Nbr' = Nbr /\ Wires' = Wires
  BY <1>1, StaysNet
<1>3. /\ m \in Nbr[b] /\ On(cable, <<m, b>>, f)
      /\ \A e \in Wires : \A x :
             On(cable', e, x) => On(cable, e, x) \/ (e[1] = b /\ e[2] \in Nbr[b] \ {m} /\ x = f)
      /\ \A e \in Wires : \A x : On(cable, e, x) => On(cable', e, x) \/ (e = <<m, b>> /\ x = f)
      /\ \A c \in Nbr[b] \ {m} : On(cable', <<b, c>>, f)
  BY <1>1, ForwardOn
<1>4. b \in Node /\ b \notin Host /\ <<m, b>> \in Wires
  BY <1>3, BoxFacts
<1>5. /\ R \subseteq Node /\ g.src \in R
      /\ \A x \in R : \A y \in Nbr[x] : y \in R \/ On(cable, <<x, y>>, g)
      /\ \A e \in Wires : On(cable, e, g) => e[1] \in R
      /\ \A h \in Host : h \in R => h = g.src \/ got[h][i] > 0
  BY DEF Reached
<1>6. \A x \in Node : \A y \in Nbr[x] : <<x, y>> \in Wires
  BY LinkFacts
<1> HIDE DEF f, g
<1>7. CASE f # g
  <2>1. \A e \in Wires : On(cable', e, g) <=> On(cable, e, g)
    BY <1>3, <1>7
  <2>2. Reached(i, R)'
    <3>1. \A x \in R : \A y \in Nbr[x] : y \in R \/ On(cable', <<x, y>>, g)
      BY <1>5, <1>6, <2>1
    <3>2. \A e \in Wires : On(cable', e, g) => e[1] \in R
      BY <1>5, <2>1
    <3> QED
      BY <1>1, <1>2, <1>5, <3>1, <3>2 DEF Reached, g
  <2> QED
    BY <2>2
<1>8. CASE f = g
  <2> DEFINE S == R \cup {b}
  <2>1. m \in R
    BY <1>3, <1>4, <1>5, <1>8
  <2>2. ASSUME NEW x \in S, NEW y \in Nbr[x], y \notin S PROVE On(cable', <<x, y>>, g)
    <3>1. CASE x = b
      BY <1>3, <1>8, <2>1, <2>2, <3>1
    <3>2. CASE x # b
      <4>1. x \in R /\ y \notin R /\ y # b
        BY <2>2, <3>2
      <4>2. On(cable, <<x, y>>, g) /\ <<x, y>> \in Wires
        BY <1>5, <1>6, <4>1
      <4>3. <<x, y>> # <<m, b>>
        BY <4>1
      <4> QED
        BY <1>3, <4>2, <4>3
    <3> QED
      BY <3>1, <3>2
  <2>3. \A e \in Wires : On(cable', e, g) => e[1] \in S
    BY <1>3, <1>5
  <2>4. \A h \in Host : h \in S => h = g.src \/ got[h][i] > 0
    BY <1>4, <1>5
  <2>5. S \subseteq Node /\ g.src \in S
    BY <1>4, <1>5
  <2>6. Reached(i, S)'
    <3> HIDE DEF S
    <3> QED
      BY <1>1, <1>2, <2>2, <2>3, <2>4, <2>5 DEF Reached, g
  <2> QED
    BY <2>6
<1> QED
  BY <1>7, <1>8

LEMMA TakeSpreads ==
    ASSUME NetTypes, NEW h \in Host, NEW b, NEW f, Takes(h, b, f),
           NEW i \in DOMAIN sent, NEW R, Reached(i, R)
    PROVE  \E S : Reached(i, S)'
<1> DEFINE g == sent[i]
<1>1. UNCHANGED <<net, sent>>
  BY DEF Takes
<1>2. Host' = Host /\ Box' = Box /\ Node' = Node /\ Nbr' = Nbr /\ Wires' = Wires
  BY <1>1, StaysNet
<1>3. /\ b \in Nbr[h] /\ On(cable, <<b, h>>, f) /\ f \in Frames
      /\ \A e \in Wires : \A x : On(cable', e, x) => On(cable, e, x)
      /\ \A e \in Wires : \A x : On(cable, e, x) => On(cable', e, x) \/ (e = <<b, h>> /\ x = f)
  BY TakeOn
<1>4. Counts(h, f.id)
  BY TakeOn
<1>5. /\ h \in Node /\ <<b, h>> \in Wires /\ \A c \in Nbr[h] : c = b
  BY <1>3, HostFacts
<1>6. /\ R \subseteq Node /\ g.src \in R
      /\ \A x \in R : \A y \in Nbr[x] : y \in R \/ On(cable, <<x, y>>, g)
      /\ \A e \in Wires : On(cable, e, g) => e[1] \in R
      /\ \A k \in Host : k \in R => k = g.src \/ got[k][i] > 0
  BY DEF Reached
<1>7. \A x \in Node : \A y \in Nbr[x] : <<x, y>> \in Wires
  BY LinkFacts
<1>8. g.id = i /\ i \in 1 .. net.frames
  BY SentFacts
<1>9. f # g => f.id # i
  BY <1>3, <1>8, FrameFacts
<1>10. \A k \in Host : got[k][i] > 0 => got'[k][i] > 0
  BY <1>4, <1>8 DEF Counts
<1> HIDE DEF g
<1>11. CASE f # g
  <2>1. \A e \in Wires : On(cable', e, g) <=> On(cable, e, g)
    BY <1>3, <1>11
  <2>2. \A x \in R : \A y \in Nbr[x] : y \in R \/ On(cable', <<x, y>>, g)
    BY <1>6, <1>7, <2>1
  <2>3. \A e \in Wires : On(cable', e, g) => e[1] \in R
    BY <1>6, <2>1
  <2>4. Reached(i, R)'
    BY <1>1, <1>2, <1>6, <1>10, <2>2, <2>3 DEF Reached, g
  <2> QED
    BY <2>4
<1>12. CASE f = g
  <2> DEFINE S == R \cup {h}
  <2>1. b \in R
    BY <1>3, <1>5, <1>6, <1>12
  <2>2. ASSUME NEW x \in S, NEW y \in Nbr[x], y \notin S PROVE On(cable', <<x, y>>, g)
    <3>1. x # h
      BY <1>5, <2>1, <2>2
    <3>2. x \in R /\ y \notin R /\ y # h
      BY <2>2, <3>1
    <3>3. On(cable, <<x, y>>, g) /\ <<x, y>> \in Wires
      BY <1>6, <1>7, <3>2
    <3>4. <<x, y>> # <<b, h>>
      BY <3>2
    <3> QED
      BY <1>3, <3>3, <3>4
  <2>3. \A e \in Wires : On(cable', e, g) => e[1] \in S
    BY <1>3, <1>6
  <2>4. got'[h][i] > 0
    BY <1>4, <1>8, <1>12 DEF Counts
  <2>5. \A k \in Host : k \in S => k = g.src \/ got'[k][i] > 0
    BY <1>6, <1>10, <2>4
  <2>6. S \subseteq Node /\ g.src \in S
    BY <1>5, <1>6
  <2>7. Reached(i, S)'
    <3> HIDE DEF S
    <3> QED
      BY <1>1, <1>2, <2>2, <2>3, <2>5, <2>6 DEF Reached, g
  <2> QED
    BY <2>7
<1> QED
  BY <1>11, <1>12

LEMMA StartSpreads ==
    ASSUME NetTypes, NEW h \in Host, NEW f, f.dst \in Host \cup {Bcast}, Starts(h, f),
           Spreads, net.hubs, NEW i \in DOMAIN sent'
    PROVE  \E S : Reached(i, S)'
<1>1. UNCHANGED <<net, got>>
  BY DEF Starts
<1>2. Host' = Host /\ Box' = Box /\ Node' = Node /\ Nbr' = Nbr /\ Wires' = Wires
  BY <1>1, StaysNet
<1>3. /\ f.src = h /\ f \notin Frames
      /\ \A e \in Wires : \A x :
             On(cable', e, x) => On(cable, e, x) \/ (e[1] = h /\ e[2] \in Nbr[h] /\ x = f)
      /\ \A e \in Wires : \A x : On(cable, e, x) => On(cable', e, x)
      /\ \A c \in Nbr[h] : On(cable', <<h, c>>, f)
  BY StartOn
<1>4. /\ \A j \in DOMAIN sent : j \in DOMAIN sent' /\ sent'[j] = sent[j]
      /\ \A j \in DOMAIN sent' : j \in DOMAIN sent \/ (j = f.id /\ sent'[j] = f)
  BY StartOn
<1>5. h \in Node
  BY Kinds
<1>6. CASE i \in DOMAIN sent
  <2> DEFINE g == sent[i]
  <2>1. g \in Frames /\ sent'[i] = g
    BY <1>4, <1>6, SentFacts
  <2>2. PICK R : Reached(i, R)
    BY <1>6 DEF Spreads
  <2>3. /\ R \subseteq Node /\ g.src \in R
        /\ \A x \in R : \A y \in Nbr[x] : y \in R \/ On(cable, <<x, y>>, g)
        /\ \A e \in Wires : On(cable, e, g) => e[1] \in R
        /\ \A k \in Host : k \in R => k = g.src \/ got[k][i] > 0
    BY <2>2 DEF Reached
  <2>4. \A x \in Node : \A y \in Nbr[x] : <<x, y>> \in Wires
    BY LinkFacts
  <2> HIDE DEF g
  <2>5. \A e \in Wires : On(cable', e, g) <=> On(cable, e, g)
    BY <1>3, <2>1
  <2>6. \A x \in R : \A y \in Nbr[x] : y \in R \/ On(cable', <<x, y>>, g)
    BY <2>3, <2>4, <2>5
  <2>7. \A e \in Wires : On(cable', e, g) => e[1] \in R
    BY <2>3, <2>5
  <2>8. Reached(i, R)'
    BY <1>1, <1>2, <2>1, <2>3, <2>6, <2>7 DEF Reached
  <2> QED
    BY <2>8
<1>7. CASE i \notin DOMAIN sent
  <2>1. sent'[i] = f
    BY <1>4, <1>7
  <2>2. \A e \in Wires : On(cable', e, f) => e[1] = h
    BY <1>3, OnFrames
  <2>3. Reached(i, {h})'
    BY <1>1, <1>2, <1>3, <1>5, <2>1, <2>2 DEF Reached
  <2> QED
    BY <2>3
<1> QED
  BY <1>6, <1>7

LEMMA SpreadsStep ==
    ASSUME NetTypes, TableTypes, Spreads, [NetNext]_net_vars
    PROVE  Spreads'
<1>1. ASSUME NEW b \in Box, NEW m \in Node, HubStep(b, m) PROVE Spreads'
  <2>1. UNCHANGED <<net, sent>> /\ net.hubs
    BY <1>1 DEF HubStep, Forwards
  <2> QED
    BY <1>1, <2>1, HubSpreads DEF Spreads
<1>2. ASSUME NEW s \in Box, NEW m \in Node, NEW f, SwitchStep(s, m, f) PROVE Spreads'
  BY <1>2 DEF SwitchStep, Spreads, Forwards
<1>3. ASSUME NEW h \in Host, NEW f, f.dst \in Host \cup {Bcast}, Starts(h, f) PROVE Spreads'
  <2>1. UNCHANGED net
    BY <1>3 DEF Starts
  <2> QED
    BY <1>3, <2>1, StartSpreads DEF Spreads
<1>4. ASSUME NEW h \in Host, NEW b, NEW f, Takes(h, b, f) PROVE Spreads'
  <2>1. UNCHANGED <<net, sent>>
    BY <1>4 DEF Takes
  <2> QED
    BY <1>4, <2>1, TakeSpreads DEF Spreads
<1>5. ASSUME Rest PROVE Spreads'
  <2>1. Host' = Host /\ Node' = Node /\ Nbr' = Nbr /\ Wires' = Wires
    BY <1>5, StaysNet DEF Rest
  <2>2. \A i, R : Reached(i, R)' <=> Reached(i, R)
    BY <1>5, <2>1 DEF Rest, Reached
  <2> QED
    BY <1>5, <2>2 DEF Rest, Spreads
<1> QED
  BY <1>1, <1>2, <1>3, <1>4, <1>5, Steps

LEMMA SpreadsEverywhere ==
    ASSUME NetTypes, Spreads, net.hubs, NEW i \in DOMAIN sent,
           \A e \in Wires : ~ On(cable, e, sent[i])
    PROVE  \A h \in Addressees(i) : got[h][i] > 0
<1>1. PICK R : Reached(i, R)
  BY DEF Spreads
<1>2. R \subseteq Node /\ sent[i].src \in R /\ \A x \in R : \A y \in Nbr[x] : <<x, y>> \in Wires
  BY <1>1, LinkFacts DEF Reached
<1>3. \A x \in R : \A y \in Nbr[x] : y \in R
  BY <1>1, <1>2 DEF Reached
<1>4. Closed(net, R, {})
  BY <1>3 DEF Closed, Nbr
<1>5. R = Node
  BY <1>2, <1>4, ConnectedAssumption DEF NetTypes, Node
<1> QED
  BY <1>1, <1>5, Kinds, AddresseeFacts DEF Reached

--------------------------------------------------------------------------------
(* Switches: the tables.  An entry of a host that shares its slot with no other *)
(* shows the way to it, and so does that of the switch it points to: a frame    *)
(* that went astray comes to switches that know its source.                     *)

Side(a, b) == Beyond(net, a, b)

RightEntry(s, k) ==
    LET e == hash_table[s][k]
    IN  e # EMPTY =>
            /\ hash8[e.mac] = k
            /\ e.iface \in Host => e.iface = e.mac
            /\ ~ Collides(e.mac) => /\ e.mac \in Side(s, e.iface)
                                    /\ e.iface \in Box => Knows(e.iface, e.mac)
RightFrame(e, f) ==
    ~ Collides(f.src) =>
        /\ e[1] \in Box => Knows(e[1], f.src)
        /\ f.src \in Side(e[2], e[1]) \/ (e[2] \in Box => Knows(e[2], f.src))

TablesRight ==
    ~ net.hubs =>
        /\ \A s \in Box : \A k \in Key : RightEntry(s, k)
        /\ \A e \in Wires : \A f : On(cable, e, f) => RightFrame(e, f)

LEMMA SideFacts ==
    ASSUME NetTypes, ~ net.hubs, NEW a \in Node, NEW b \in Nbr[a]
    PROVE  /\ b \in Side(a, b) /\ a \notin Side(a, b) /\ Side(a, b) \subseteq Node
           /\ Side(b, a) = Node \ Side(a, b)
           /\ b \in Host => Side(a, b) = {b}
<1>1. net \in Nets /\ a \in NodesOf[net] /\ b \in NbrsOf[net][a]
  BY DEF NetTypes, Node, Nbr
<1>2. b \in Side(a, b) /\ Side(a, b) \subseteq Node
  BY <1>1, ClosedBeyond DEF Side, Node
<1>3. a \notin Side(a, b)
  BY <1>1, NotBeyond DEF Side
<1>4. Side(b, a) = Node \ Side(a, b)
  BY <1>1, TwoSides DEF Side, Node
<1>5. b \in Host => Side(a, b) = {b}
  BY <1>1, HostSide DEF Side, Host
<1> QED
  BY <1>2, <1>3, <1>4, <1>5

LEMMA SideNested ==
    ASSUME NetTypes, ~ net.hubs, NEW a \in Node, NEW b \in Nbr[a], NEW c \in Nbr[b], c # a
    PROVE  Side(b, c) \subseteq Side(a, b)
<1>1. net \in Nets /\ a \in NodesOf[net] /\ b \in NbrsOf[net][a] /\ c \in NbrsOf[net][b]
  BY DEF NetTypes, Node, Nbr
<1> QED
  BY <1>1, Nested DEF Side

LEMMA SideApart ==
    ASSUME NetTypes, ~ net.hubs, NEW b \in Node, NEW c \in Nbr[b], NEW d \in Nbr[b], c # d
    PROVE  Side(b, c) \cap Side(b, d) = {}
<1>1. net \in Nets /\ b \in NodesOf[net] /\ c \in NbrsOf[net][b] /\ d \in NbrsOf[net][b]
  BY DEF NetTypes, Node, Nbr
<1> QED
  BY <1>1, SidesApart DEF Side

LEMMA SideOn ==
    ASSUME NetTypes, ~ net.hubs, NEW a \in Node, NEW b \in Nbr[a], NEW x \in Side(a, b), x # b
    PROVE  \E c \in Nbr[b] : c # a /\ x \in Side(b, c)
<1>1. net \in Nets /\ a \in NodesOf[net] /\ b \in NbrsOf[net][a] /\ x \in Beyond(net, a, b)
  BY DEF NetTypes, Node, Nbr, Side
<1> QED
  BY <1>1, WayOn DEF Side, Nbr

LEMMA SideSome ==
    ASSUME NetTypes, NEW b \in Node, NEW x \in Node, x # b
    PROVE  \E c \in Nbr[b] : x \in Side(b, c)
<1>1. net \in Nets /\ b \in NodesOf[net] /\ x \in NodesOf[net]
  BY DEF NetTypes, Node
<1> QED
  BY <1>1, SomeSide DEF Side, Nbr

LEMMA StaysSide ==
    ASSUME UNCHANGED <<net, hash8>>
    PROVE  /\ \A a, b : Side(a, b)' = Side(a, b)
           /\ \A a : Collides(a)' <=> Collides(a)
           /\ Key' = Key
  BY DEF Side, Collides, Key, Host

\* What a host that shares no slot has in a table is its own entry.
LEMMA OwnEntry ==
    ASSUME NetTypes, TableTypes, TablesRight, ~ net.hubs, NEW s \in Box,
           NEW a \in Host \cup {Bcast}, ~ Collides(a), Knows(s, a)
    PROVE  LET e == hash_table[s][hash8[a]]
           IN  /\ a \in Host /\ e.mac = a /\ e.iface \in Nbr[s] /\ a \in Side(s, e.iface)
               /\ e.iface \in Box => Knows(e.iface, a)
               /\ e.iface \in Host => e.iface = a
<1> DEFINE k == hash8[a]
           e == hash_table[s][k]
<1>1. k \in Key
  BY HashFacts
<1>2. e # EMPTY /\ e \in Entry(s, now)
  BY <1>1 DEF Knows, TableTypes
<1>3. e.mac \in Host /\ e.iface \in Nbr[s]
  BY <1>2, EntryFacts
<1>4. RightEntry(s, k)
  BY <1>1 DEF TablesRight
<1>5. hash8[e.mac] = k
  BY <1>2, <1>4 DEF RightEntry
<1>6. e.mac = a
  BY <1>3, <1>5 DEF Collides
<1> QED
  BY <1>2, <1>3, <1>4, <1>6 DEF RightEntry

LEMMA GrowsFacts ==
    ASSUME NetTypes, TableTypes, ~ net.hubs, NEW s \in Box, NEW m, NEW f, f.src \in Host,
           Grows(s, m, f), UNCHANGED hash8
    PROVE  /\ \A r \in Box : \A a \in Host \cup {Bcast} : Knows(r, a) => Knows(r, a)'
           /\ Knows(s, f.src)'
           /\ \A r \in Box : \A a \in Host \cup {Bcast} :
                 Knows(r, a)' => Knows(r, a) \/ (r = s /\ hash8[a] = hash8[f.src])
<1>1. \A a \in Host \cup {Bcast} : hash8[a] \in Key
  BY HashFacts
<1> QED
  BY <1>1 DEF Grows, Knows

LEMMA SwitchRightEntry ==
    ASSUME NetTypes, TableTypes, TablesRight, NEW s \in Box, NEW m \in Node, NEW f,
           HostCables, SwitchStep(s, m, f), TableTypes', NEW r \in Box, NEW k \in Key
    PROVE  RightEntry(r, k)'
<1>1. /\ ~ net.hubs /\ Forwards(s, m, Ways(s, m, f.dst)) /\ Grows(s, m, f)
      /\ f = Head(cable[<<m, s>>]) /\ UNCHANGED <<net, hash8>>
  BY DEF SwitchStep, Forwards
<1>2. m \in Nbr[s] /\ f \in Frames /\ On(cable, <<m, s>>, f)
  BY <1>1, ForwardOn
<1>3. f.src \in Host
  BY <1>2, FrameFacts
<1>4. /\ \A q \in Box : \A a \in Host \cup {Bcast} : Knows(q, a) => Knows(q, a)'
  BY <1>1, <1>3, GrowsFacts
<1>5. /\ Host' = Host /\ Box' = Box /\ \A a, b : Side(a, b)' = Side(a, b)
      /\ \A a : Collides(a)' <=> Collides(a)
  BY <1>1, StaysNet, StaysSide
<1>6. <<m, s>> \in Wires
  BY <1>2, BoxFacts
<1> DEFINE old == hash_table[r][k]
           new == hash_table'[r][k]
<1>7. RightEntry(r, k) /\ old \in {EMPTY} \cup Entry(r, now)
  BY <1>1 DEF TablesRight, TableTypes
<1>8. CASE old # EMPTY
  <2>1. new.mac = old.mac /\ new.iface = old.iface
    BY <1>1, <1>8 DEF Grows
  <2>2. old.mac \in Host
    BY <1>7, <1>8, EntryFacts
  <2> QED
    BY <1>1, <1>4, <1>5, <1>7, <1>8, <2>1, <2>2 DEF RightEntry
<1>9. CASE old = EMPTY /\ r = s /\ k = hash8[f.src]
  <2>1. new.mac = f.src /\ new.iface = m
    BY <1>1, <1>9 DEF Grows
  <2>2. m \in Host => f.src = m
    BY <1>2, <1>6 DEF HostCables
  <2>3. ASSUME ~ Collides(f.src)
        PROVE  f.src \in Side(s, m) /\ (m \in Box => Knows(m, f.src))
    <3>1. RightFrame(<<m, s>>, f)
      BY <1>1, <1>2, <1>6 DEF TablesRight
    <3>2. ~ Knows(s, f.src)
      BY <1>9 DEF Knows
    <3> QED
      BY <2>3, <3>1, <3>2 DEF RightFrame
  <2> QED
    BY <1>1, <1>3, <1>4, <1>5, <1>9, <2>1, <2>2, <2>3 DEF RightEntry
<1>10. CASE old = EMPTY /\ ~ (r = s /\ k = hash8[f.src])
  <2>1. new = EMPTY
    BY <1>1, <1>10 DEF Grows
  <2> QED
    BY <2>1 DEF RightEntry
<1> QED
  BY <1>8, <1>9, <1>10

LEMMA SwitchRightFrame ==
    ASSUME NetTypes, TableTypes, TablesRight, NEW s \in Box, NEW m \in Node, NEW f,
           SwitchStep(s, m, f), TableTypes',
           \A r \in Box : \A k \in Key : RightEntry(r, k)',
           NEW e \in Wires, NEW g, On(cable', e, g)
    PROVE  RightFrame(e, g)'
<1>1. /\ ~ net.hubs /\ Forwards(s, m, Ways(s, m, f.dst)) /\ Grows(s, m, f)
      /\ f = Head(cable[<<m, s>>]) /\ UNCHANGED <<net, hash8>>
  BY DEF SwitchStep, Forwards
<1>2. /\ m \in Nbr[s] /\ f \in Frames /\ Ways(s, m, f.dst) \subseteq Nbr[s]
      /\ On(cable, e, g) \/ (e[1] = s /\ e[2] \in Nbr[s] /\ g = f)
  BY <1>1, ForwardOn
<1>3. f.src \in Host
  BY <1>2, FrameFacts
<1>4. /\ \A q \in Box : \A a \in Host \cup {Bcast} : Knows(q, a) => Knows(q, a)'
      /\ Knows(s, f.src)'
  BY <1>1, <1>3, GrowsFacts
<1>5. /\ Host' = Host /\ Box' = Box /\ Key' = Key /\ \A a, b : Side(a, b)' = Side(a, b)
      /\ \A a : Collides(a)' <=> Collides(a)
  BY <1>1, StaysNet, StaysSide
<1>6. CASE On(cable, e, g)
  <2>1. RightFrame(e, g) /\ g.src \in Host
    BY <1>1, <1>6, OnFrames, FrameFacts DEF TablesRight
  <2> QED
    BY <1>4, <1>5, <2>1 DEF RightFrame
<1>7. CASE e[1] = s /\ e[2] \in Nbr[s] /\ g = f
  <2> SUFFICES ASSUME ~ Collides(f.src)
               PROVE  f.src \in Side(e[2], s) \/ (e[2] \in Box => Knows(e[2], f.src)')
    BY <1>4, <1>5, <1>7 DEF RightFrame
  <2> DEFINE c == e[2]
  <2>0. PICK k \in Key : k = hash8[f.src]
    BY <1>1, <1>3, HashFacts
  <2>1. PICK d : d = hash_table'[s][k]
    OBVIOUS
  <2>2. d # EMPTY /\ d.mac \in Host /\ d.iface \in Nbr[s]
    <3>1. d # EMPTY
      BY <1>1, <1>4, <2>0, <2>1 DEF Knows
    <3>2. d \in {EMPTY} \cup Entry(s, now)'
      BY <1>1, <1>5, <2>1 DEF TableTypes
    <3>3. Entry(s, now)' = [mac : Host, iface : Nbr[s], visited : 0 .. now']
      BY <1>1 DEF Entry, Host, Nbr
    <3> QED
      BY <3>1, <3>2, <3>3
  <2>3. RightEntry(s, k)'
    OBVIOUS
  <2>4. d.mac = f.src
    <3>1. hash8[d.mac] = k
      BY <1>1, <2>1, <2>2, <2>3 DEF RightEntry
    <3> QED
      BY <1>3, <2>0, <2>2, <3>1 DEF Collides
  <2>5. f.src \in Side(s, d.iface) /\ (d.iface \in Box => Knows(d.iface, f.src)')
    BY <1>5, <2>1, <2>2, <2>3, <2>4 DEF RightEntry
  <2>6. CASE c = d.iface
    BY <2>5, <2>6
  <2>7. CASE c # d.iface
    <3>1. s \in Nbr[c] /\ c \in Node
      BY <1>7, BoxFacts, LinkFacts
    <3>2. Side(s, d.iface) \subseteq Side(c, s)
      <4> HIDE DEF c
      <4> QED
        BY <1>1, <2>2, <2>7, <3>1, SideNested
    <3> QED
      BY <2>5, <3>2
  <2> QED
    BY <2>6, <2>7
<1> QED
  BY <1>2, <1>6, <1>7

LEMMA TablesRightStep ==
    ASSUME NetBase, TableTypes, TablesRight, [NetNext]_net_vars
    PROVE  TablesRight'
<1>1. NetTypes /\ HostCables /\ TableTypes'
  BY TablesTyped DEF NetBase
<1>2. ASSUME NEW b \in Box, NEW m \in Node, HubStep(b, m) PROVE TablesRight'
  BY <1>2 DEF HubStep, Forwards, TablesRight
<1>3. ASSUME NEW s \in Box, NEW m \in Node, NEW f, SwitchStep(s, m, f) PROVE TablesRight'
  <2>1. UNCHANGED <<net, hash8>>
    BY <1>3 DEF SwitchStep, Forwards
  <2>2. Box' = Box /\ Wires' = Wires /\ Key' = Key
    BY <2>1, StaysNet, StaysSide
  <2>3. \A r \in Box : \A k \in Key : RightEntry(r, k)'
    BY <1>1, <1>3, SwitchRightEntry
  <2>4. \A e \in Wires : \A g : On(cable', e, g) => RightFrame(e, g)'
    BY <1>1, <1>3, <2>3, SwitchRightFrame
  <2> QED
    BY <2>2, <2>3, <2>4 DEF TablesRight
<1>4. ASSUME UNCHANGED <<net, hash8, hash_table>>,
             ~ net.hubs => \A e \in Wires : \A f : On(cable', e, f) =>
                               On(cable, e, f) \/ (e[1] \in Host /\ f.src = e[1])
      PROVE  TablesRight'
  <2>1. /\ Host' = Host /\ Box' = Box /\ Wires' = Wires /\ Key' = Key
        /\ \A a, b : Side(a, b)' = Side(a, b)
        /\ \A a : Collides(a)' <=> Collides(a)
    BY <1>4, StaysNet, StaysSide
  <2>2. \A s, a : Knows(s, a)' <=> Knows(s, a)
    BY <1>4 DEF Knows
  <2>3. \A s, k : RightEntry(s, k)' <=> RightEntry(s, k)
    BY <1>4, <2>1, <2>2 DEF RightEntry
  <2>4. \A e, f : RightFrame(e, f)' <=> RightFrame(e, f)
    BY <2>1, <2>2 DEF RightFrame
  <2>5. ASSUME ~ net.hubs, NEW e \in Wires, NEW f, e[1] \in Host, f.src = e[1]
        PROVE  RightFrame(e, f)
    <3>1. e[1] \in Nbr[e[2]] /\ e[2] \in Node /\ e[1] \notin Box
      BY <1>1, <2>5, Ends, Kinds
    <3>2. f.src \in Side(e[2], e[1])
      BY <1>1, <2>5, <3>1, SideFacts
    <3> QED
      BY <3>1, <3>2 DEF RightFrame
  <2> QED
    BY <1>4, <2>1, <2>3, <2>4, <2>5 DEF TablesRight
<1>5. ASSUME NEW h \in Host, NEW f, f.dst \in Host \cup {Bcast}, Starts(h, f)
      PROVE  TablesRight'
  <2>1. UNCHANGED <<net, hash8, hash_table>>
    BY <1>5 DEF Starts
  <2>2. f.src = h /\ \A e \in Wires : \A g : On(cable', e, g) =>
                         On(cable, e, g) \/ (e[1] = h /\ e[2] \in Nbr[h] /\ g = f)
    BY <1>1, <1>5, StartOn
  <2> QED
    BY <1>4, <2>1, <2>2
<1>6. ASSUME NEW h \in Host, NEW b, NEW f, Takes(h, b, f) PROVE TablesRight'
  <2>1. UNCHANGED <<net, hash8, hash_table>>
    BY <1>6 DEF Takes
  <2>2. \A e \in Wires : \A g : On(cable', e, g) => On(cable, e, g)
    BY <1>1, <1>6, TakeOn
  <2> QED
    BY <1>4, <2>1, <2>2
<1>7. ASSUME Rest PROVE TablesRight'
  BY <1>4, <1>7 DEF Rest, On
<1> QED
  BY <1>1, <1>2, <1>3, <1>5, <1>6, <1>7, Steps

--------------------------------------------------------------------------------
(* Switches: a copy moves towards each addressee that has none.                 *)

Nearing(i, d) ==
    got[d][i] > 0 \/ \E e \in Wires : On(cable, e, sent[i]) /\ d \in Side(e[1], e[2])

Arrives ==
    ~ net.hubs => \A i \in DOMAIN sent :
        ~ Collides(sent[i].dst) => \A d \in Addressees(i) : Nearing(i, d)

LEMMA SwitchNears ==
    ASSUME NetTypes, TableTypes, TablesRight, NEW s \in Box, NEW m \in Node, NEW f,
           SwitchStep(s, m, f), NEW i \in DOMAIN sent, ~ Collides(sent[i].dst),
           NEW d \in Addressees(i), Nearing(i, d)
    PROVE  Nearing(i, d)'
<1>1. /\ ~ net.hubs /\ Forwards(s, m, Ways(s, m, f.dst))
      /\ f = Head(cable[<<m, s>>]) /\ UNCHANGED <<net, sent, got, hash8>>
  BY DEF SwitchStep, Forwards
<1>2. PICK g : g = sent[i]
  OBVIOUS
<1>3. Wires' = Wires /\ sent'[i] = g /\ \A a, b : Side(a, b)' = Side(a, b)
  BY <1>1, <1>2, StaysNet, StaysSide
<1>4. CASE got[d][i] > 0
  BY <1>1, <1>4 DEF Nearing
<1>5. CASE ~ (got[d][i] > 0)
  <2>1. PICK e \in Wires : On(cable, e, g) /\ d \in Side(e[1], e[2])
    BY <1>2, <1>5 DEF Nearing
  <2>2. /\ m \in Nbr[s] /\ (On(cable', e, g) \/ (e = <<m, s>> /\ g = f))
        /\ \A c \in Ways(s, m, f.dst) : On(cable', <<s, c>>, f)
    BY <1>1, <2>1, ForwardOn
  <2>3. CASE On(cable', e, g)
    BY <1>3, <2>1, <2>3 DEF Nearing
  <2>4. CASE e = <<m, s>> /\ g = f
    <3>1. /\ d \in Host /\ d # s /\ s \in Nbr[m] /\ s \in Node
          /\ f.dst = d \/ f.dst = Bcast
      <4>1. s \in Node /\ s \notin Host
        BY <2>2, BoxFacts
      <4>2. s \in Nbr[m]
        BY <2>2, <4>1, LinkFacts
      <4>3. d \in Host /\ (sent[i].dst = d \/ sent[i].dst = Bcast)
        BY AddresseeFacts
      <4> QED
        BY <1>2, <2>4, <4>1, <4>2, <4>3
    <3>2. PICK c \in Nbr[s] : c # m /\ d \in Side(s, c)
      <4>1. d \in Side(m, s)
        BY <2>1, <2>4
      <4> QED
        BY <1>1, <3>1, <4>1, SideOn
    <3>3. c \in Ways(s, m, f.dst)
      <4>1. CASE ~ Knows(s, f.dst)
        BY <3>2, <4>1 DEF Ways
      <4>2. CASE Knows(s, f.dst)
        <5>1. f.dst \in Host \cup {Bcast} /\ ~ Collides(f.dst)
          BY <1>2, <2>4, SentFacts
        <5>2. PICK x : x = hash_table[s][hash8[f.dst]]
          OBVIOUS
        <5>3. f.dst \in Host /\ x.iface \in Nbr[s] /\ f.dst \in Side(s, x.iface)
          BY <1>1, <4>2, <5>1, <5>2, OwnEntry
        <5>4. f.dst = d
          BY <3>1, <5>3, HostsAreMacs
        <5>5. x.iface = c
          BY <1>1, <3>1, <3>2, <5>3, <5>4, SideApart
        <5> QED
          BY <4>2, <5>2, <5>5 DEF Ways
      <4> QED
        BY <4>1, <4>2
    <3>4. <<s, c>> \in Wires /\ On(cable', <<s, c>>, g)
      BY <2>2, <2>4, <3>3, BoxFacts
    <3> QED
      BY <1>3, <3>2, <3>4 DEF Nearing
  <2> QED
    BY <2>2, <2>3, <2>4
<1> QED
  BY <1>4, <1>5

LEMMA TakeNears ==
    ASSUME NetTypes, ~ net.hubs, NEW h \in Host, NEW b, NEW f, Takes(h, b, f),
           NEW i \in DOMAIN sent, NEW d \in Addressees(i), Nearing(i, d)
    PROVE  Nearing(i, d)'
<1>1. UNCHANGED <<net, sent, hash8>>
  BY DEF Takes
<1>2. PICK g : g = sent[i]
  OBVIOUS
<1>3. Wires' = Wires /\ sent'[i] = g /\ \A a, c : Side(a, c)' = Side(a, c)
  BY <1>1, <1>2, StaysNet, StaysSide
<1>4. Counts(h, f.id) /\ d \in Host /\ i \in 1 .. net.frames /\ g.id = i
  BY <1>2, TakeOn, AddresseeFacts, SentFacts
<1>5. CASE got[d][i] > 0
  BY <1>4, <1>5 DEF Nearing, Counts
<1>6. CASE ~ (got[d][i] > 0)
  <2>1. PICK e \in Wires : On(cable, e, g) /\ d \in Side(e[1], e[2])
    BY <1>2, <1>6 DEF Nearing
  <2>2. b \in Nbr[h] /\ (On(cable', e, g) \/ (e = <<b, h>> /\ g = f))
    BY <2>1, TakeOn
  <2>3. CASE On(cable', e, g)
    BY <1>3, <2>1, <2>3 DEF Nearing
  <2>4. CASE e = <<b, h>> /\ g = f
    <3>1. h \in Nbr[b] /\ b \in Node
      BY <2>2, HostFacts, LinkFacts
    <3>2. d \in Side(b, h)
      BY <2>1, <2>4
    <3>3. d = h
      BY <3>1, <3>2, SideFacts
    <3> QED
      BY <1>4, <2>4, <3>3 DEF Nearing, Counts
  <2> QED
    BY <2>2, <2>3, <2>4
<1> QED
  BY <1>5, <1>6

LEMMA StartNears ==
    ASSUME NetTypes, ~ net.hubs, Arrives, NEW h \in Host, NEW f, f.dst \in Host \cup {Bcast},
           Starts(h, f), NEW i \in DOMAIN sent', ~ Collides(sent'[i].dst),
           NEW d \in Addressees(i)'
    PROVE  Nearing(i, d)'
<1>1. UNCHANGED <<net, got, hash8>>
  BY DEF Starts
<1>2. Host' = Host /\ Wires' = Wires /\ \A a, c : Side(a, c)' = Side(a, c)
  BY <1>1, StaysNet, StaysSide
<1>3. /\ \A j \in DOMAIN sent : sent'[j] = sent[j]
      /\ \A j \in DOMAIN sent' : j \in DOMAIN sent \/ (j = f.id /\ sent'[j] = f)
      /\ \A e \in Wires : \A g : On(cable, e, g) => On(cable', e, g)
      /\ \A c \in Nbr[h] : On(cable', <<h, c>>, f)
      /\ f.src = h
  BY StartOn
<1>4. CASE i \in DOMAIN sent
  <2>1. d \in Addressees(i)
    BY <1>2, <1>3, <1>4 DEF Addressees
  <2>2. Nearing(i, d)
    BY <1>3, <1>4, <2>1 DEF Arrives
  <2> QED
    BY <1>1, <1>2, <1>3, <1>4, <2>2 DEF Nearing
<1>5. CASE i \notin DOMAIN sent
  <2>1. sent'[i] = f
    BY <1>3, <1>5
  <2>2. d \in Host /\ d # h
    <3>1. f.dst # h
      BY DEF Starts
    <3> QED
      BY <1>2, <1>3, <2>1, <3>1 DEF Addressees
  <2>3. PICK c \in Nbr[h] : d \in Side(h, c)
    BY <2>2, Kinds, SideSome
  <2>4. <<h, c>> \in Wires /\ On(cable', <<h, c>>, f)
    BY <1>3, HostFacts
  <2> QED
    BY <1>2, <2>1, <2>3, <2>4 DEF Nearing
<1> QED
  BY <1>4, <1>5

LEMMA ArrivesStep ==
    ASSUME NetTypes, TableTypes, TablesRight, Arrives, [NetNext]_net_vars
    PROVE  Arrives'
<1>1. ASSUME NEW b \in Box, NEW m \in Node, HubStep(b, m) PROVE Arrives'
  BY <1>1 DEF HubStep, Forwards, Arrives
<1>2. ASSUME NEW s \in Box, NEW m \in Node, NEW f, SwitchStep(s, m, f) PROVE Arrives'
  <2>1. UNCHANGED <<net, sent, hash8>>
    BY <1>2 DEF SwitchStep, Forwards
  <2>2. (\A i : Addressees(i)' = Addressees(i)) /\ (\A a : Collides(a)' <=> Collides(a))
    BY <2>1, StaysNet, StaysSide DEF Addressees
  <2> QED
    BY <1>2, <2>1, <2>2, SwitchNears DEF Arrives
<1>3. ASSUME NEW h \in Host, NEW f, f.dst \in Host \cup {Bcast}, Starts(h, f) PROVE Arrives'
  <2>1. UNCHANGED <<net, hash8>>
    BY <1>3 DEF Starts
  <2>2. \A a : Collides(a)' <=> Collides(a)
    BY <2>1, StaysSide
  <2> QED
    BY <1>3, <2>1, <2>2, StartNears DEF Arrives
<1>4. ASSUME NEW h \in Host, NEW b, NEW f, Takes(h, b, f) PROVE Arrives'
  <2>1. UNCHANGED <<net, sent, hash8>>
    BY <1>4 DEF Takes
  <2>2. (\A i : Addressees(i)' = Addressees(i)) /\ (\A a : Collides(a)' <=> Collides(a))
    BY <2>1, StaysNet, StaysSide DEF Addressees
  <2> QED
    BY <1>4, <2>1, <2>2, TakeNears DEF Arrives
<1>5. ASSUME Rest PROVE Arrives'
  <2>1. /\ \A i : Addressees(i)' = Addressees(i)
        /\ \A a : Collides(a)' <=> Collides(a)
        /\ \A i, d : Nearing(i, d)' <=> Nearing(i, d)
    BY <1>5, StaysNet, StaysSide DEF Addressees, Nearing, Rest
  <2> QED
    BY <1>5, <2>1 DEF Arrives, Rest
<1> QED
  BY <1>1, <1>2, <1>3, <1>4, <1>5, Steps

\* What the tables and the frames on their way must be like, in every network.
NetInv == NetBase /\ TableTypes /\ TablesRight /\ Spreads /\ Arrives

LEMMA NetInvInit == NetInit => NetInv
<1> SUFFICES ASSUME NetInit PROVE NetInv
  OBVIOUS
<1>1. NetBase /\ TableTypes
  BY InitBase
<1>2. /\ sent = <<>> /\ cable = [e \in Wires |-> <<>>]
      /\ hash_table = [s \in Box |-> [k \in Key |-> EMPTY]]
  BY DEF NetInit, LanInit
<1>3. \A e \in Wires : \A f : ~ On(cable, e, f)
  BY <1>2 DEF On
<1>4. \A s \in Box : \A k \in Key : RightEntry(s, k)
  BY <1>2 DEF RightEntry
<1>5. TablesRight
  BY <1>3, <1>4 DEF TablesRight
<1>6. Spreads /\ Arrives
  BY <1>2 DEF Spreads, Arrives
<1> QED
  BY <1>1, <1>5, <1>6 DEF NetInv

LEMMA NetInvNext == NetInv /\ [NetNext]_net_vars => NetInv'
<1> SUFFICES ASSUME NetInv, [NetNext]_net_vars PROVE NetInv'
  OBVIOUS
<1>1. NetBase /\ NetTypes /\ TableTypes /\ TablesRight /\ Spreads /\ Arrives
  BY DEF NetInv, NetBase
<1>2. NetBase'
  BY <1>1, Steps, ForwardBase, StartBase, TakeBase, RestBase DEF HubStep, SwitchStep
<1>3. TableTypes'
  BY <1>1, TablesTyped
<1>4. TablesRight'
  BY <1>1, TablesRightStep
<1>5. Spreads'
  BY <1>1, SpreadsStep
<1>6. Arrives'
  BY <1>1, ArrivesStep
<1> QED
  BY <1>2, <1>3, <1>4, <1>5, <1>6 DEF NetInv

LEMMA NetInvNotLost == NetInv => NotLost
<1> SUFFICES ASSUME NetInv, NEW i \in 1 .. Len(sent),
                    \A e \in Wires : \A k \in 1 .. Len(cable[e]) : cable[e][k].id # i,
                    ~ Collides(sent[i].dst)
             PROVE  \A h \in Addressees(i) : got[h][i] > 0
  BY DEF NotLost
<1>1. NetTypes /\ Spreads /\ Arrives
  BY DEF NetInv, NetBase
<1>2. i \in DOMAIN sent
  BY <1>1 DEF NetTypes
<1>3. \A e \in Wires : ~ On(cable, e, sent[i])
  BY <1>1, <1>2, OnItsWay
<1>4. CASE net.hubs
  BY <1>1, <1>2, <1>3, <1>4, SpreadsEverywhere
<1>5. CASE ~ net.hubs
  BY <1>1, <1>2, <1>3, <1>5 DEF Arrives, Nearing
<1> QED
  BY <1>4, <1>5

\* Whatever the switches learn while a frame is on its way, and however it is copied by
\* hubs, it reaches its addressees: in every connected network of hubs and every tree of
\* switches, for any number of frames, unless another host has the addressee's slot.
THEOREM FramesAreNotLost == NetSpec => []NotLost
<1>1. NetInit => NetInv
  BY NetInvInit
<1>2. NetInv /\ [NetNext]_net_vars => NetInv'
  BY NetInvNext
<1>3. NetInv => NotLost
  BY NetInvNotLost
<1> QED
  BY <1>1, <1>2, <1>3, PTL DEF NetSpec

--------------------------------------------------------------------------------
(* Private: a frame that all switches know the way of follows the entries of    *)
(* its destination, which lead to switches or to the destination itself.        *)

KnownWay(i) ==
    known[i] =>
        /\ ~ net.hubs /\ \A s \in Box : Learnt(s, sent[i].dst)
        /\ \A e \in Wires : On(cable, e, sent[i]) => e[2] \in Box \cup Addressees(i)
        /\ \A h \in Host \ Addressees(i) : got[h][i] = 0

KnownWays == \A i \in DOMAIN sent : KnownWay(i)

LEMMA LearntFacts ==
    ASSUME NetTypes, TableTypes, TablesRight, ~ net.hubs, NEW s \in Box,
           NEW a \in Host \cup {Bcast}, Learnt(s, a)
    PROVE  LET e == hash_table[s][hash8[a]]
           IN  /\ Knows(s, a) /\ a \in Host /\ e.iface \in Nbr[s]
               /\ e.iface \in Host => e.iface = a
<1>1. PICK k \in Key : hash_table[s][k].mac = a
  BY DEF Learnt
<1>2. PICK e : e = hash_table[s][k]
  OBVIOUS
<1>3. e # EMPTY
  BY <1>1, <1>2, HostsAreMacs DEF EMPTY, Bcast
<1>4. e \in Entry(s, now) /\ RightEntry(s, k)
  BY <1>2, <1>3 DEF TableTypes, TablesRight
<1>5. e.mac \in Host /\ e.iface \in Nbr[s]
  BY <1>4, EntryFacts
<1>6. hash8[a] = k /\ (e.iface \in Host => e.iface = a)
  BY <1>1, <1>2, <1>3, <1>4 DEF RightEntry
<1> QED
  BY <1>1, <1>2, <1>3, <1>5, <1>6 DEF Knows

LEMMA SwitchKnown ==
    ASSUME NetTypes, TableTypes, TablesRight, NEW s \in Box, NEW m \in Node, NEW f,
           SwitchStep(s, m, f), NEW i \in DOMAIN sent, KnownWay(i)
    PROVE  KnownWay(i)'
<1>1. /\ ~ net.hubs /\ Forwards(s, m, Ways(s, m, f.dst)) /\ Grows(s, m, f)
      /\ f = Head(cable[<<m, s>>]) /\ UNCHANGED <<net, sent, got, known, hash8>>
  BY DEF SwitchStep, Forwards
<1>2. PICK g : g = sent[i]
  OBVIOUS
<1>3. /\ Host' = Host /\ Box' = Box /\ Wires' = Wires /\ sent'[i] = g /\ Key' = Key
      /\ Addressees(i)' = Addressees(i)
  BY <1>1, <1>2, StaysNet, StaysSide DEF Addressees
<1> SUFFICES ASSUME known[i]
             PROVE  /\ \A r \in Box : Learnt(r, g.dst)'
                    /\ \A e \in Wires : On(cable', e, g) => e[2] \in Box \cup Addressees(i)
                    /\ \A h \in Host \ Addressees(i) : got[h][i] = 0
  BY <1>1, <1>3 DEF KnownWay
<1>4. /\ \A r \in Box : Learnt(r, g.dst)
      /\ \A e \in Wires : On(cable, e, g) => e[2] \in Box \cup Addressees(i)
      /\ \A h \in Host \ Addressees(i) : got[h][i] = 0
  BY <1>2 DEF KnownWay
<1>5. g.dst \in Host \cup {Bcast}
  BY <1>2, SentFacts
<1>6. \A r \in Box : Learnt(r, g.dst)'
  <2>1. ASSUME NEW r \in Box PROVE Learnt(r, g.dst)'
    <3>1. PICK k \in Key : hash_table[r][k].mac = g.dst
      BY <1>4 DEF Learnt
    <3>2. hash_table[r][k] # EMPTY
      BY <1>5, <3>1, HostsAreMacs DEF EMPTY, Bcast
    <3>3. hash_table'[r][k].mac = g.dst
      BY <1>1, <3>1, <3>2 DEF Grows
    <3> QED
      BY <1>3, <3>3 DEF Learnt
  <2> QED
    BY <2>1
<1>7. ASSUME NEW e \in Wires, On(cable', e, g), ~ On(cable, e, g)
      PROVE  e[2] \in Box \cup Addressees(i)
  <2>1. e[2] \in Ways(s, m, f.dst) /\ g = f
    BY <1>1, <1>7, ForwardOn
  <2>2. PICK x : x = hash_table[s][hash8[f.dst]]
    OBVIOUS
  <2>3. /\ Knows(s, f.dst) /\ f.dst \in Host /\ x.iface \in Nbr[s]
        /\ x.iface \in Host => x.iface = f.dst
    BY <1>1, <1>4, <1>5, <2>1, <2>2, LearntFacts
  <2>4. e[2] = x.iface
    BY <2>1, <2>2, <2>3 DEF Ways
  <2>5. x.iface \in Host \cup Box
    BY <2>3, BoxFacts, Kinds
  <2>6. f.dst \in Addressees(i)
    BY <1>2, <2>1, <2>3, HostsAreMacs DEF Addressees
  <2> QED
    BY <2>3, <2>4, <2>5, <2>6
<1> QED
  BY <1>4, <1>6, <1>7

LEMMA TakeKnown ==
    ASSUME NetTypes, NEW h \in Host, NEW b, NEW f, Takes(h, b, f),
           NEW i \in DOMAIN sent, KnownWay(i)
    PROVE  KnownWay(i)'
<1>1. UNCHANGED <<net, sent, known, hash8, hash_table>>
  BY DEF Takes
<1>2. PICK g : g = sent[i]
  OBVIOUS
<1>3. /\ Host' = Host /\ Box' = Box /\ Wires' = Wires /\ sent'[i] = g
      /\ Addressees(i)' = Addressees(i) /\ \A r, a : Learnt(r, a)' <=> Learnt(r, a)
  BY <1>1, <1>2, StaysNet, StaysSide DEF Addressees, Learnt
<1>4. /\ <<b, h>> \in Wires /\ On(cable, <<b, h>>, f) /\ f \in Frames /\ Counts(h, f.id)
      /\ \A e \in Wires : \A x : On(cable', e, x) => On(cable, e, x)
  BY TakeOn
<1>5. h \notin Box /\ i \in 1 .. net.frames /\ (f.id = i => f = g)
  BY <1>2, <1>4, Kinds, SentFacts, FrameFacts
<1> SUFFICES ASSUME known[i], NEW k \in Host \ Addressees(i) PROVE got'[k][i] = 0
  BY <1>1, <1>2, <1>3, <1>4 DEF KnownWay
<1>6. /\ \A e \in Wires : On(cable, e, g) => e[2] \in Box \cup Addressees(i)
      /\ got[k][i] = 0
  BY <1>2 DEF KnownWay
<1>7. f = g => h \in Addressees(i)
  BY <1>4, <1>5, <1>6
<1> QED
  BY <1>4, <1>5, <1>6, <1>7 DEF Counts

LEMMA StartKnown ==
    ASSUME NetTypes, Unsent, KnownWays, NEW h \in Host, NEW f, f.dst \in Host \cup {Bcast},
           Starts(h, f), NEW i \in DOMAIN sent'
    PROVE  KnownWay(i)'
<1>1. /\ UNCHANGED <<net, got, hash8, hash_table>>
      /\ known' = Append(known, ~ net.hubs /\ \A s \in Box : Learnt(s, f.dst))
  BY DEF Starts
<1>2. /\ Host' = Host /\ Box' = Box /\ Wires' = Wires
      /\ \A r, a : Learnt(r, a)' <=> Learnt(r, a)
  BY <1>1, StaysNet, StaysSide DEF Learnt
<1>3. /\ \A j \in DOMAIN sent : sent'[j] = sent[j]
      /\ \A j \in DOMAIN sent' : j \in DOMAIN sent \/ (j = f.id /\ sent'[j] = f)
      /\ f.src = h /\ f \notin Frames /\ f.id = Len(sent) + 1 /\ f.id \in 1 .. net.frames
  BY StartOn
<1>4. \A e \in Wires : \A g : On(cable', e, g) =>
          On(cable, e, g) \/ (e[1] = h /\ e[2] \in Nbr[h] /\ g = f)
  BY StartOn
<1>5. /\ \A j \in DOMAIN sent : known'[j] = known[j]
      /\ known'[Len(sent) + 1] = (~ net.hubs /\ \A s \in Box : Learnt(s, f.dst))
  <2> DEFINE b == (~ net.hubs /\ \A s \in Box : Learnt(s, f.dst))
  <2>1. known \in Seq(BOOLEAN) /\ Len(known) = Len(sent)
    BY DEF NetTypes
  <2>2. DOMAIN sent = 1 .. Len(sent)
    BY DEF NetTypes
  <2> HIDE DEF b
  <2>3. known' = Append(known, b)
    BY <1>1 DEF b
  <2>4. \A j \in DOMAIN sent : known'[j] = known[j]
    BY <2>1, <2>2, <2>3
  <2>5. known'[Len(sent) + 1] = b
    BY <2>1, <2>3
  <2> QED
    BY <2>4, <2>5 DEF b
<1>6. CASE i \in DOMAIN sent
  <2>1. PICK g : g = sent[i]
    OBVIOUS
  <2>2. KnownWay(i) /\ known'[i] = known[i] /\ sent'[i] = g /\ g \in Frames
    BY <1>3, <1>5, <1>6, <2>1, SentFacts DEF KnownWays
  <2>3. Addressees(i)' = Addressees(i)
    BY <1>2, <2>1, <2>2 DEF Addressees
  <2>4. \A e \in Wires : On(cable', e, g) => On(cable, e, g)
    BY <1>3, <1>4, <2>2
  <2> QED
    BY <1>1, <1>2, <2>1, <2>2, <2>3, <2>4 DEF KnownWay
<1>7. CASE i \notin DOMAIN sent
  <2>1. sent'[i] = f /\ i = f.id /\ i = Len(sent) + 1
    BY <1>3, <1>7
  <2> SUFFICES ASSUME known'[i] PROVE
                   /\ ~ net.hubs /\ \A s \in Box : Learnt(s, f.dst)
                   /\ \A e \in Wires : On(cable', e, f) => e[2] \in Box \cup Addressees(i)'
                   /\ \A k \in Host : got[k][i] = 0
    BY <1>1, <1>2, <2>1 DEF KnownWay
  <2>2. ~ net.hubs /\ \A s \in Box : Learnt(s, f.dst)
    BY <1>5, <2>1
  <2>3. ASSUME NEW e \in Wires, On(cable', e, f) PROVE e[2] \in Box \cup Addressees(i)'
    <3>1. e[1] = h /\ e[2] \in Nbr[h]
      BY <1>3, <1>4, <2>3, OnFrames
    <3>2. PICK c \in Nbr[h] : c = e[2]
      BY <3>1
    <3>3. h \in Node /\ c # h /\ c \in Host \cup Box /\ \A x \in Nbr[h] : x = c
      BY HostFacts, Kinds
    <3>4. CASE c \in Host
      <4>1. CASE f.dst = Bcast
        BY <1>2, <1>3, <2>1, <3>2, <3>3, <3>4, <4>1 DEF Addressees
      <4>2. CASE f.dst # Bcast
        <5>1. f.dst \in Host /\ f.dst # h /\ f.dst \in Node
          BY <4>2, Kinds DEF Starts
        <5>2. f.dst \in Side(h, c)
          BY <3>3, <5>1, SideSome
        <5>3. f.dst = c
          BY <2>2, <3>3, <3>4, <5>2, SideFacts
        <5> QED
          BY <2>1, <3>2, <4>2, <5>3 DEF Addressees
      <4> QED
        BY <4>1, <4>2
    <3> QED
      BY <3>2, <3>3, <3>4
  <2>4. \A k \in Host : got[k][i] = 0
    <3>1. Len(sent) \in Nat /\ i > Len(sent) /\ i \in 1 .. net.frames
      BY <1>3, <2>1 DEF NetTypes
    <3> QED
      BY <3>1 DEF Unsent
  <2> QED
    BY <2>2, <2>3, <2>4
<1> QED
  BY <1>6, <1>7

LEMMA KnownStep ==
    ASSUME NetInv, KnownWays, [NetNext]_net_vars
    PROVE  KnownWays'
<1>1. NetTypes /\ Unsent /\ TableTypes /\ TablesRight
  BY DEF NetInv, NetBase
<1>2. ASSUME NEW b \in Box, NEW m \in Node, HubStep(b, m) PROVE KnownWays'
  <2>1. net.hubs /\ UNCHANGED <<net, sent, known>>
    BY <1>2 DEF HubStep, Forwards
  <2> QED
    BY <2>1 DEF KnownWays, KnownWay
<1>3. ASSUME NEW s \in Box, NEW m \in Node, NEW f, SwitchStep(s, m, f) PROVE KnownWays'
  <2>1. UNCHANGED sent
    BY <1>3 DEF SwitchStep, Forwards
  <2> QED
    BY <1>1, <1>3, <2>1, SwitchKnown DEF KnownWays
<1>4. ASSUME NEW h \in Host, NEW f, f.dst \in Host \cup {Bcast}, Starts(h, f)
      PROVE  KnownWays'
  BY <1>1, <1>4, StartKnown DEF KnownWays
<1>5. ASSUME NEW h \in Host, NEW b, NEW f, Takes(h, b, f) PROVE KnownWays'
  <2>1. UNCHANGED sent
    BY <1>5 DEF Takes
  <2> QED
    BY <1>1, <1>5, <2>1, TakeKnown DEF KnownWays
<1>6. ASSUME Rest PROVE KnownWays'
  <2>1. /\ Host' = Host /\ Box' = Box /\ Wires' = Wires
        /\ \A i : Addressees(i)' = Addressees(i)
        /\ \A r, a : Learnt(r, a)' <=> Learnt(r, a)
    BY <1>6, StaysNet, StaysSide DEF Rest, Addressees, Learnt
  <2>2. \A i : KnownWay(i)' <=> KnownWay(i)
    BY <1>6, <2>1 DEF Rest, KnownWay
  <2> QED
    BY <1>6, <2>2 DEF Rest, KnownWays
<1> QED
  BY <1>1, <1>2, <1>3, <1>4, <1>5, <1>6, Steps

\* A frame that every switch knew the way of when it was sent reaches nobody else, even
\* where hosts share slots: in every tree of switches, for any number of frames.
THEOREM FramesStayPrivate == NetSpec => []Private
<1>1. NetInit => NetInv /\ KnownWays
  BY NetInvInit DEF NetInit, LanInit, KnownWays
<1>2. NetInv /\ KnownWays /\ [NetNext]_net_vars => (NetInv /\ KnownWays)'
  BY NetInvNext, KnownStep
<1>3. NetInv /\ KnownWays => Private
  <2> SUFFICES ASSUME NetInv, KnownWays, NEW i \in 1 .. Len(sent), known[i]
               PROVE  \A h \in Host \ Addressees(i) : got[h][i] = 0
    BY DEF Private
  <2>1. i \in DOMAIN sent
    BY DEF NetInv, NetBase, NetTypes
  <2> QED
    BY <2>1 DEF KnownWays, KnownWay
<1> QED
  BY <1>1, <1>2, <1>3, PTL DEF NetSpec

--------------------------------------------------------------------------------
(* Once: without collisions a copy never turns back.  A frame is sent away from *)
(* its destination only where that is not known, and then no switch ahead knows *)
(* it before the frame comes.  So the copies of a frame have different parts of *)
(* the tree before them, where nobody has it.                                   *)

NoneCollide == ~ net.hubs /\ \A a \in Host \cup {Bcast} : ~ Collides(a)

\* A frame from a is ahead of the l-th one.
Ahead(s, l, a) == \E k \in DOMAIN s : k < l /\ s[k].src = a

Unlike(s) == \A k, l \in DOMAIN s : s[k] = s[l] => k = l

Outward == \A e \in Wires : \A f : On(cable, e, f) => f.src \in Side(e[2], e[1])

NotBefore(e, l, a) == ~ Knows(e[2], a) /\ ~ Ahead(cable[e], l, a)

Away(e) ==
    e[2] \in Box => \A l \in DOMAIN cable[e] :
        cable[e][l].dst \in Side(e[2], e[1]) => NotBefore(e, l, cable[e][l].dst)

Apart ==
    \A e, d \in Wires : \A f :
        On(cable, e, f) /\ On(cable, d, f) /\ e # d => Side(e[1], e[2]) \cap Side(d[1], d[2]) = {}

Fresh ==
    \A e \in Wires : \A f : On(cable, e, f) =>
        \A h \in Host : h \in Side(e[1], e[2]) => got[h][f.id] = 0

Counted ==
    \A h \in Host : \A i \in DOMAIN sent : got[h][i] <= IF h = sent[i].src THEN 0 ELSE 1

NoTurns ==
    /\ Outward /\ Apart /\ Fresh /\ Counted
    /\ \A e \in Wires : Unlike(cable[e]) /\ Away(e)

LEMMA TailAhead ==
    ASSUME NEW F, NEW s \in Seq(F), s # <<>>, NEW l \in DOMAIN Tail(s), NEW a
    PROVE  /\ l + 1 \in DOMAIN s /\ Tail(s)[l] = s[l + 1]
           /\ Ahead(Tail(s), l, a) => Ahead(s, l + 1, a)
           /\ Head(s).src = a => Ahead(s, l + 1, a)
<1>1. /\ \A k \in DOMAIN Tail(s) : k + 1 \in DOMAIN s /\ Tail(s)[k] = s[k + 1]
      /\ Head(s) = s[1] /\ 1 \in DOMAIN s
  BY TailOn
<1>2. Tail(s) \in Seq(F) /\ DOMAIN Tail(s) = 1 .. Len(Tail(s)) /\ Len(Tail(s)) \in Nat
  BY TailOn
<1>3. l \in Nat /\ 1 < l + 1 /\ \A k \in DOMAIN Tail(s) : k < l => k + 1 < l + 1
  BY <1>2
<1>4. Ahead(Tail(s), l, a) => Ahead(s, l + 1, a)
  BY <1>1, <1>3 DEF Ahead
<1>5. Head(s).src = a => Ahead(s, l + 1, a)
  BY <1>1, <1>3 DEF Ahead
<1> QED
  BY <1>1, <1>4, <1>5

LEMMA AppendAhead ==
    ASSUME NEW F, NEW s \in Seq(F), NEW f, NEW l \in DOMAIN Append(s, f)
    PROVE  \/ /\ l \in DOMAIN s /\ Append(s, f)[l] = s[l]
              /\ \A a : Ahead(Append(s, f), l, a) => Ahead(s, l, a)
           \/ /\ Append(s, f)[l] = f
              /\ \A a : Ahead(Append(s, f), l, a) => \E k \in DOMAIN s : s[k].src = a
<1>1. /\ \A k \in DOMAIN s : k \in DOMAIN Append(s, f) /\ Append(s, f)[k] = s[k]
      /\ \A k \in DOMAIN Append(s, f) :
             (k \in DOMAIN s /\ k <= Len(s)) \/ (k = Len(s) + 1 /\ Append(s, f)[k] = f)
  BY AppendOn
<1>2. Len(s) \in Nat
  OBVIOUS
<1>3. CASE l \in DOMAIN s /\ l <= Len(s)
  <2>1. ASSUME NEW a, Ahead(Append(s, f), l, a) PROVE Ahead(s, l, a)
    <3>1. PICK k \in DOMAIN Append(s, f) : k < l /\ Append(s, f)[k].src = a
      BY <2>1 DEF Ahead
    <3>2. k # Len(s) + 1
      <4>1. l \in Nat
        BY <1>3
      <4> QED
        BY <1>2, <1>3, <3>1, <4>1
    <3>3. k \in DOMAIN s /\ Append(s, f)[k] = s[k]
      BY <1>1, <3>2
    <3> QED
      BY <3>1, <3>3 DEF Ahead
  <2> QED
    BY <1>1, <1>3, <2>1
<1>4. CASE l = Len(s) + 1 /\ Append(s, f)[l] = f
  <2>1. ASSUME NEW a, Ahead(Append(s, f), l, a) PROVE \E k \in DOMAIN s : s[k].src = a
    <3>1. PICK k \in DOMAIN Append(s, f) : k < l /\ Append(s, f)[k].src = a
      BY <2>1 DEF Ahead
    <3>2. k # Len(s) + 1
      BY <1>2, <1>4, <3>1
    <3>3. k \in DOMAIN s /\ Append(s, f)[k] = s[k]
      BY <1>1, <3>2
    <3> QED
      BY <3>1, <3>3
  <2> QED
    BY <1>4, <2>1
<1> QED
  BY <1>1, <1>3, <1>4

LEMMA TailUnlike ==
    ASSUME NEW F, NEW s \in Seq(F), s # <<>>, Unlike(s)
    PROVE  Unlike(Tail(s)) /\ \A k \in DOMAIN Tail(s) : Tail(s)[k] # Head(s)
<1>1. /\ \A k \in DOMAIN Tail(s) : k + 1 \in DOMAIN s /\ Tail(s)[k] = s[k + 1]
      /\ Head(s) = s[1] /\ 1 \in DOMAIN s /\ Tail(s) \in Seq(F)
  BY TailOn
<1>2. \A k \in DOMAIN Tail(s) : k \in Nat /\ k # 0
  BY <1>1
<1>3. ASSUME NEW k \in DOMAIN Tail(s), NEW l \in DOMAIN Tail(s), Tail(s)[k] = Tail(s)[l]
      PROVE  k = l
  <2>1. k + 1 = l + 1
    BY <1>1, <1>3 DEF Unlike
  <2> QED
    BY <1>2, <2>1
<1>4. ASSUME NEW k \in DOMAIN Tail(s), Tail(s)[k] = Head(s) PROVE FALSE
  <2>1. k + 1 = 1
    BY <1>1, <1>4 DEF Unlike
  <2> QED
    BY <1>2, <2>1
<1> QED
  BY <1>3, <1>4 DEF Unlike

LEMMA AppendUnlike ==
    ASSUME NEW F, NEW s \in Seq(F), NEW f, Unlike(s), \A k \in DOMAIN s : s[k] # f
    PROVE  Unlike(Append(s, f))
<1>1. /\ \A k \in DOMAIN s : k \in DOMAIN Append(s, f) /\ Append(s, f)[k] = s[k]
      /\ \A k \in DOMAIN Append(s, f) :
             (k \in DOMAIN s /\ k <= Len(s)) \/ (k = Len(s) + 1 /\ Append(s, f)[k] = f)
  BY AppendOn
<1> QED
  BY <1>1 DEF Unlike

LEMMA ForwardCables ==
    ASSUME NetTypes, NEW b \in Box, NEW m, NEW out, Forwards(b, m, out),
           NEW f, f = Head(cable[<<m, b>>])
    PROVE  /\ cable[<<m, b>>] # <<>> /\ cable'[<<m, b>>] = Tail(cable[<<m, b>>])
           /\ \A e \in Wires : e[1] = b /\ e[2] \in out => cable'[e] = Append(cable[e], f)
           /\ \A e \in Wires : \/ e = <<m, b>> \/ (e[1] = b /\ e[2] \in out)
                               \/ cable'[e] = cable[e]
<1> DEFINE x == <<m, b>>
           to == {<<b, c>> : c \in out}
<1>1. /\ m \in Nbr[b] /\ cable[x] # <<>> /\ Moves(cable, cable', {x}, to, f)
  BY DEF Forwards
<1>2. x \in Wires /\ m # b /\ \A e \in Wires : e = <<e[1], e[2]>>
  BY <1>1, BoxFacts, Ends
<1>3. \A e \in Wires : e \in to <=> (e[1] = b /\ e[2] \in out)
  BY <1>2
<1>4. \A e \in to : e # x
  BY <1>2
<1>5. x = <<m, b>>
  OBVIOUS
<1> HIDE DEF x, to
<1>6. \A e \in Wires : cable'[e] = IF e \in {x} THEN Tail(cable[e])
                                   ELSE IF e \in to THEN Append(cable[e], f) ELSE cable[e]
  BY <1>1 DEF Moves
<1>7. cable[x] # <<>> /\ cable'[x] = Tail(cable[x])
  BY <1>1, <1>2, <1>6
<1>8. \A e \in Wires : e[1] = b /\ e[2] \in out => cable'[e] = Append(cable[e], f)
  BY <1>3, <1>4, <1>6
<1>9. \A e \in Wires : e = x \/ (e[1] = b /\ e[2] \in out) \/ cable'[e] = cable[e]
  BY <1>3, <1>6
<1> QED
  BY <1>5, <1>7, <1>8, <1>9

\* Where a switch sends the head f of the cable from m: never back, never where the frame
\* already is, and away from its destination only when it does not know that.
LEMMA SwitchOut ==
    ASSUME NetTypes, TableTypes, TablesRight, NoneCollide, NoTurns,
           NEW s \in Box, NEW m \in Node, NEW f, SwitchStep(s, m, f),
           NEW c \in Ways(s, m, f.dst)
    PROVE  /\ c \in Nbr[s] /\ c # m /\ <<s, c>> \in Wires /\ ~ On(cable, <<s, c>>, f)
           /\ Side(s, c) \subseteq Side(m, s) /\ f.src \in Side(c, s)
           /\ f.dst \in Side(c, s) => ~ Knows(s, f.dst)
<1>1. /\ ~ net.hubs /\ Forwards(s, m, Ways(s, m, f.dst)) /\ f = Head(cable[<<m, s>>])
  BY DEF SwitchStep
<1>2. /\ m \in Nbr[s] /\ Ways(s, m, f.dst) \subseteq Nbr[s] /\ f \in Frames
      /\ On(cable, <<m, s>>, f) /\ cable[<<m, s>>] # <<>>
  BY <1>1, ForwardOn, ForwardCables
<1>3. PICK x : x = <<m, s>>
  OBVIOUS
<1>4. /\ c \in Nbr[s] /\ s \in Node /\ x \in Wires /\ <<s, c>> \in Wires /\ c # s
      /\ s \in Nbr[m] /\ s \in Nbr[c] /\ c \in Node
  BY <1>2, <1>3, BoxFacts, LinkFacts
<1>5. /\ f.dst \in Host \cup {Bcast} /\ ~ Collides(f.dst)
  BY <1>2, FrameFacts DEF NoneCollide
<1>6. Knows(s, f.dst) => c # m /\ f.dst \in Side(s, c)
  <2> SUFFICES ASSUME Knows(s, f.dst) PROVE c # m /\ f.dst \in Side(s, c)
    OBVIOUS
  <2>1. PICK e : e = hash_table[s][hash8[f.dst]]
    OBVIOUS
  <2>2. f.dst \in Side(s, e.iface) /\ c = e.iface
    BY <1>1, <1>5, <2>1, OwnEntry DEF Ways
  <2>3. ASSUME c = m PROVE FALSE
    <3>1. f.dst \in Side(x[2], x[1]) /\ x[2] \in Box
      BY <1>3, <2>2, <2>3
    <3>2. 1 \in DOMAIN cable[x] /\ cable[x][1] = f
      <4>1. cable[x] \in Seq(Frames)
        BY <1>4 DEF NetTypes
      <4> QED
        BY <1>1, <1>2, <1>3, <4>1, TailOn
    <3>3. ~ Knows(x[2], f.dst)
      BY <1>4, <3>1, <3>2 DEF NoTurns, Away, NotBefore
    <3> QED
      BY <1>3, <3>3
  <2> QED
    BY <2>2, <2>3
<1>7. c # m
  <2>1. CASE Knows(s, f.dst)
    BY <1>6, <2>1
  <2>2. CASE ~ Knows(s, f.dst)
    BY <2>2 DEF Ways
  <2> QED
    BY <2>1, <2>2
<1>8. Side(s, c) \subseteq Side(m, s)
  BY <1>1, <1>4, <1>7, SideNested
<1>9. /\ Side(c, s) = Node \ Side(s, c) /\ c \in Side(s, c)
  BY <1>1, <1>4, SideFacts
<1>10. f.src \in Side(c, s)
  <2>1. f.src \in Side(x[2], x[1])
    BY <1>2, <1>3, <1>4 DEF NoTurns, Outward
  <2>2. f.src \in Side(s, m)
    BY <1>3, <2>1
  <2>3. Side(s, m) \cap Side(s, c) = {} /\ Side(s, m) \subseteq Node
    BY <1>1, <1>2, <1>4, <1>7, SideApart, SideFacts
  <2> QED
    BY <1>9, <2>2, <2>3
<1>11. ~ On(cable, <<s, c>>, f)
  <2> SUFFICES ASSUME On(cable, <<s, c>>, f) PROVE FALSE
    OBVIOUS
  <2>1. PICK y : y = <<s, c>>
    OBVIOUS
  <2>2. y \in Wires /\ x # y /\ On(cable, x, f) /\ On(cable, y, f)
    BY <1>2, <1>3, <1>4, <2>1
  <2>3. Side(x[1], x[2]) \cap Side(y[1], y[2]) = {}
    BY <1>4, <2>2 DEF NoTurns, Apart
  <2>4. Side(m, s) \cap Side(s, c) = {}
    BY <1>3, <2>1, <2>3
  <2> QED
    BY <1>8, <1>9, <2>4
<1>12. f.dst \in Side(c, s) => ~ Knows(s, f.dst)
  BY <1>6, <1>9
<1> QED
  BY <1>4, <1>7, <1>8, <1>10, <1>11, <1>12

LEMMA SwitchUnlike ==
    ASSUME NetTypes, TableTypes, TablesRight, NoneCollide, NoTurns,
           NEW s \in Box, NEW m \in Node, NEW f, SwitchStep(s, m, f)
    PROVE  /\ \A e \in Wires : Unlike(cable'[e])
           /\ ~ On(cable', <<m, s>>, f)
<1>1. /\ ~ net.hubs /\ Forwards(s, m, Ways(s, m, f.dst)) /\ f = Head(cable[<<m, s>>])
  BY DEF SwitchStep
<1>2. /\ cable[<<m, s>>] # <<>> /\ cable'[<<m, s>>] = Tail(cable[<<m, s>>])
      /\ \A e \in Wires : e[1] = s /\ e[2] \in Ways(s, m, f.dst) =>
                              cable'[e] = Append(cable[e], f)
      /\ \A e \in Wires : \/ e = <<m, s>> \/ (e[1] = s /\ e[2] \in Ways(s, m, f.dst))
                          \/ cable'[e] = cable[e]
  BY <1>1, ForwardCables
<1>3. PICK x : x = <<m, s>>
  OBVIOUS
<1>4. m \in Nbr[s] /\ x \in Wires
  <2>1. m \in Nbr[s]
    BY <1>1 DEF Forwards
  <2> QED
    BY <1>3, <2>1, BoxFacts
<1>5. \A e \in Wires : cable[e] \in Seq(Frames) /\ Unlike(cable[e])
  BY DEF NetTypes, NoTurns
<1>6. Unlike(cable'[x]) /\ \A k \in DOMAIN cable'[x] : cable'[x][k] # f
  BY <1>1, <1>2, <1>3, <1>4, <1>5, TailUnlike
<1>7. ASSUME NEW e \in Wires, e[1] = s, e[2] \in Ways(s, m, f.dst) PROVE Unlike(cable'[e])
  <2>1. e = <<s, e[2]>>
    BY <1>7, Ends
  <2>2. ~ On(cable, e, f)
    BY <1>7, <2>1, SwitchOut
  <2>3. \A k \in DOMAIN cable[e] : cable[e][k] # f
    BY <2>2 DEF On
  <2>4. Unlike(Append(cable[e], f))
    BY <1>5, <2>3, AppendUnlike
  <2> QED
    BY <1>2, <1>7, <2>4
<1>8. \A e \in Wires : Unlike(cable'[e])
  BY <1>2, <1>3, <1>5, <1>6, <1>7
<1>9. ~ On(cable', x, f)
  BY <1>6 DEF On
<1> QED
  BY <1>3, <1>8, <1>9

LEMMA SwitchAway ==
    ASSUME NetTypes, TableTypes, TablesRight, NoneCollide, NoTurns,
           NEW s \in Box, NEW m \in Node, NEW f, SwitchStep(s, m, f),
           NEW e \in Wires, e[2] \in Box, NEW l \in DOMAIN cable'[e], NEW a,
           a = cable'[e][l].dst, a \in Side(e[2], e[1])
    PROVE  ~ Knows(e[2], a)' /\ ~ Ahead(cable'[e], l, a)
<1>1. /\ ~ net.hubs /\ Forwards(s, m, Ways(s, m, f.dst)) /\ f = Head(cable[<<m, s>>])
      /\ Grows(s, m, f) /\ UNCHANGED hash8
  BY DEF SwitchStep
<1>2. PICK x : x = <<m, s>>
  OBVIOUS
<1>3. /\ m \in Nbr[s] /\ f \in Frames /\ On(cable, x, f) /\ cable' \in [Wires -> Seq(Frames)]
  BY <1>1, <1>2, ForwardOn
<1>4. /\ cable[x] # <<>> /\ cable'[x] = Tail(cable[x])
      /\ e[1] = s /\ e[2] \in Ways(s, m, f.dst) => cable'[e] = Append(cable[e], f)
      /\ \/ e = x \/ (e[1] = s /\ e[2] \in Ways(s, m, f.dst))
         \/ cable'[e] = cable[e]
  BY <1>1, <1>2, ForwardCables
<1>5. /\ x \in Wires /\ cable[x] \in Seq(Frames) /\ cable[e] \in Seq(Frames) /\ s \in Node
      /\ e[1] \in Nbr[e[2]] /\ e[2] \in Nbr[e[1]] /\ e[1] # e[2] /\ e = <<e[1], e[2]>>
      /\ e[1] \in Node /\ e[2] \in Node
  BY <1>2, <1>3, BoxFacts, Ends DEF NetTypes
<1>6. f.src \in Host /\ f.src \in Side(s, m)
  <2>1. f.src \in Side(x[2], x[1])
    BY <1>3, <1>5 DEF NoTurns, Outward
  <2> QED
    BY <1>2, <1>3, <2>1, FrameFacts
<1>7. a \in Host \cup {Bcast} /\ ~ Collides(a)
  <2>1. cable'[e][l] \in Frames
    BY <1>3
  <2> QED
    BY <2>1, FrameFacts DEF NoneCollide
<1>8. Knows(e[2], a)' => Knows(e[2], a) \/ (e[2] = s /\ a = f.src)
  <2>1. Knows(e[2], a)' => Knows(e[2], a) \/ (e[2] = s /\ hash8[a] = hash8[f.src])
    BY <1>1, <1>6, <1>7, GrowsFacts
  <2>2. hash8[a] = hash8[f.src] => a = f.src
    BY <1>6, <1>7 DEF Collides
  <2> QED
    BY <2>1, <2>2
<1>9. \A j \in DOMAIN cable[e] : cable[e][j].dst = a => ~ Knows(e[2], a) /\ ~ Ahead(cable[e], j, a)
  BY DEF NoTurns, Away, NotBefore
<1>10. e[2] = s /\ a = f.src => e = x
  <2> SUFFICES ASSUME e[2] = s, a = f.src, e[1] # m PROVE FALSE
    BY <1>2, <1>5
  <2>1. Side(s, e[1]) \cap Side(s, m) = {}
    BY <1>1, <1>3, <1>5, SideApart
  <2> QED
    BY <1>6, <2>1
<1>11. CASE e = x
  <2>1. l \in DOMAIN Tail(cable[e])
    BY <1>4, <1>11
  <2>2. /\ l + 1 \in DOMAIN cable[e] /\ Tail(cable[e])[l] = cable[e][l + 1]
        /\ Ahead(Tail(cable[e]), l, a) => Ahead(cable[e], l + 1, a)
        /\ Head(cable[e]).src = a => Ahead(cable[e], l + 1, a)
    BY <1>4, <1>5, <1>11, <2>1, TailAhead
  <2>3. ~ Knows(e[2], a) /\ ~ Ahead(cable[e], l + 1, a)
    BY <1>4, <1>9, <1>11, <2>2
  <2>4. f.src # a
    BY <1>1, <1>2, <1>11, <2>2, <2>3
  <2> QED
    BY <1>4, <1>8, <1>11, <2>2, <2>3, <2>4
<1>12. CASE e # x /\ cable'[e] = cable[e]
  BY <1>8, <1>9, <1>10, <1>12
<1>13. CASE e # x /\ e[1] = s /\ e[2] \in Ways(s, m, f.dst)
  <2>1. PICK c : c = e[2]
    OBVIOUS
  <2>2. e = <<s, c>> /\ c \in Ways(s, m, f.dst) /\ c # s /\ s \in Nbr[c] /\ c \in Box
    BY <1>5, <1>13, <2>1
  <2>3. cable'[e] = Append(cable[e], f) /\ l \in DOMAIN Append(cable[e], f)
    BY <1>4, <1>13
  <2>4. CASE /\ l \in DOMAIN cable[e] /\ cable'[e][l] = cable[e][l]
             /\ \A z : Ahead(cable'[e], l, z) => Ahead(cable[e], l, z)
    BY <1>8, <1>9, <2>1, <2>2, <2>4
  <2>5. CASE /\ cable'[e][l] = f
             /\ \A z : Ahead(cable'[e], l, z) => \E k \in DOMAIN cable[e] : cable[e][k].src = z
    <3>1. a = f.dst /\ a \in Side(c, s)
      BY <1>13, <2>1, <2>5
    <3>2. ~ Knows(s, a)
      BY <2>2, <3>1, SwitchOut
    <3>3. ~ Knows(c, a)
      <4> SUFFICES ASSUME Knows(c, a) PROVE FALSE
        OBVIOUS
      <4>1. PICK t : t = hash_table[c][hash8[a]]
        OBVIOUS
      <4>2. t.iface \in Nbr[c] /\ a \in Side(c, t.iface) /\ (t.iface \in Box => Knows(t.iface, a))
        BY <1>1, <1>7, <2>2, <4>1, OwnEntry
      <4>3. t.iface = s
        BY <1>1, <1>5, <2>1, <2>2, <3>1, <4>2, SideApart
      <4> QED
        BY <3>2, <4>2, <4>3
    <3>4. ~ Knows(e[2], a)'
      BY <1>8, <2>1, <2>2, <3>3
    <3>5. ~ Ahead(cable'[e], l, a)
      <4> SUFFICES ASSUME NEW k \in DOMAIN cable[e], cable[e][k].src = a PROVE FALSE
        BY <2>5
      <4>1. PICK g : g = cable[e][k]
        OBVIOUS
      <4>2. On(cable, e, g)
        BY <4>1 DEF On
      <4>3. RightFrame(e, g)
        BY <1>1, <4>2 DEF TablesRight
      <4>4. Knows(s, a)
        BY <1>7, <1>13, <4>1, <4>3 DEF RightFrame
      <4> QED
        BY <3>2, <4>4
    <3> QED
      BY <3>4, <3>5
  <2> QED
    BY <1>5, <2>3, <2>4, <2>5, AppendAhead
<1> QED
  BY <1>4, <1>11, <1>12, <1>13

LEMMA SwitchTurns ==
    ASSUME NetTypes, TableTypes, TablesRight, NoneCollide, NoTurns,
           NEW s \in Box, NEW m \in Node, NEW f, SwitchStep(s, m, f)
    PROVE  NoTurns'
<1>1. /\ ~ net.hubs /\ Forwards(s, m, Ways(s, m, f.dst)) /\ f = Head(cable[<<m, s>>])
      /\ UNCHANGED <<net, sent, got, hash8>>
  BY DEF SwitchStep, Forwards
<1>2. PICK x : x = <<m, s>>
  OBVIOUS
<1>3. /\ m \in Nbr[s] /\ On(cable, x, f)
      /\ \A e \in Wires : \A g : On(cable', e, g) =>
             On(cable, e, g) \/ (e[1] = s /\ e[2] \in Ways(s, m, f.dst) /\ g = f)
  BY <1>1, <1>2, ForwardOn
<1>4. /\ Host' = Host /\ Box' = Box /\ Wires' = Wires
      /\ \A a, b : Side(a, b)' = Side(a, b)
  BY <1>1, StaysNet, StaysSide
<1>5. x \in Wires /\ s \in Node
  BY <1>2, <1>3, BoxFacts
<1>6. Outward /\ Apart /\ Fresh /\ Counted
  BY DEF NoTurns
<1>7. ~ On(cable', x, f) /\ \A e \in Wires : Unlike(cable'[e])
  BY <1>2, SwitchUnlike
<1>8. ASSUME NEW e \in Wires, e[1] = s, e[2] \in Ways(s, m, f.dst)
      PROVE  /\ e[2] \in Nbr[s] /\ Side(e[1], e[2]) \subseteq Side(x[1], x[2])
             /\ f.src \in Side(e[2], e[1])
  <2>1. PICK c \in Ways(s, m, f.dst) : c = e[2]
    BY <1>8
  <2>2. c \in Nbr[s] /\ Side(s, c) \subseteq Side(m, s) /\ f.src \in Side(c, s)
    BY SwitchOut
  <2> QED
    BY <1>2, <1>8, <2>1, <2>2
<1>9. Outward'
  <2>1. ASSUME NEW e \in Wires, NEW g, On(cable', e, g) PROVE g.src \in Side(e[2], e[1])
    BY <1>3, <1>6, <1>8, <2>1 DEF Outward
  <2> QED
    BY <1>4, <2>1 DEF Outward
<1>10. Apart'
  <2>1. ASSUME NEW e \in Wires, NEW d \in Wires, e # d, On(cable', d, f),
               e[1] = s, e[2] \in Ways(s, m, f.dst)
        PROVE  Side(e[1], e[2]) \cap Side(d[1], d[2]) = {}
    <3>1. CASE On(cable, d, f)
      <4>1. d # x
        BY <1>7, <2>1
      <4>2. Side(x[1], x[2]) \cap Side(d[1], d[2]) = {}
        BY <1>3, <1>5, <1>6, <3>1, <4>1 DEF Apart
      <4> QED
        BY <1>8, <2>1, <4>2
    <3>2. CASE d[1] = s /\ d[2] \in Ways(s, m, f.dst)
      <4>1. d[2] # e[2] /\ e[2] \in Nbr[s] /\ d[2] \in Nbr[s]
        BY <1>8, <2>1, <3>2, Ends
      <4> QED
        BY <1>1, <1>5, <2>1, <3>2, <4>1, SideApart
    <3> QED
      BY <1>3, <2>1, <3>1, <3>2
  <2>2. ASSUME NEW e \in Wires, NEW d \in Wires, NEW g, e # d, On(cable', e, g), On(cable', d, g)
        PROVE  Side(e[1], e[2]) \cap Side(d[1], d[2]) = {}
    <3>1. CASE On(cable, e, g) /\ On(cable, d, g)
      BY <1>6, <2>2, <3>1 DEF Apart
    <3>2. CASE g = f /\ e[1] = s /\ e[2] \in Ways(s, m, f.dst)
      BY <2>1, <2>2, <3>2
    <3>3. CASE g = f /\ d[1] = s /\ d[2] \in Ways(s, m, f.dst)
      <4>1. Side(d[1], d[2]) \cap Side(e[1], e[2]) = {}
        BY <2>1, <2>2, <3>3
      <4> QED
        BY <4>1
    <3> QED
      BY <1>3, <2>2, <3>1, <3>2, <3>3
  <2> QED
    BY <1>4, <2>2 DEF Apart
<1>11. Fresh'
  <2>1. ASSUME NEW e \in Wires, NEW g, On(cable', e, g), NEW h \in Host, h \in Side(e[1], e[2])
        PROVE  got[h][g.id] = 0
    BY <1>3, <1>5, <1>6, <1>8, <2>1 DEF Fresh
  <2> QED
    BY <1>1, <1>4, <2>1 DEF Fresh
<1>12. Counted'
  BY <1>1, <1>4, <1>6 DEF Counted
<1>13. \A e \in Wires : Away(e)'
  <2> SUFFICES ASSUME NEW e \in Wires, e[2] \in Box, NEW l \in DOMAIN cable'[e],
                      cable'[e][l].dst \in Side(e[2], e[1])
               PROVE  NotBefore(e, l, cable[e][l].dst)'
    BY <1>4 DEF Away
  <2>1. PICK a : a = cable'[e][l].dst
    OBVIOUS
  <2>2. ~ Knows(e[2], a)' /\ ~ Ahead(cable'[e], l, a)
    BY <2>1, SwitchAway
  <2>3. NotBefore(e, l, a)'
    BY <2>2 DEF NotBefore, Ahead
  <2> QED
    BY <2>1, <2>3
<1> QED
  BY <1>4, <1>7, <1>9, <1>10, <1>11, <1>12, <1>13 DEF NoTurns

LEMMA StartTurns ==
    ASSUME NetBase, NoneCollide, NoTurns, NEW h \in Host, NEW f,
           f.dst \in Host \cup {Bcast}, Starts(h, f)
    PROVE  NoTurns'
<1>1. /\ NetTypes /\ Unsent /\ ~ net.hubs /\ f.dst # h
      /\ UNCHANGED <<net, got, hash8, hash_table>>
  BY DEF NetBase, NoneCollide, Starts
<1>2. /\ f.src = h /\ f \notin Frames /\ f.id = Len(sent) + 1 /\ f.id \in 1 .. net.frames
      /\ \A i \in DOMAIN sent' : \/ i \in DOMAIN sent /\ sent'[i] = sent[i]
                                 \/ i = f.id /\ sent'[i] = f
      /\ \A e \in Wires : \A g : On(cable', e, g) =>
             On(cable, e, g) \/ (e[1] = h /\ e[2] \in Nbr[h] /\ g = f)
  BY <1>1, StartOn
<1>3. /\ Host' = Host /\ Box' = Box /\ Wires' = Wires
      /\ \A a, b : Side(a, b)' = Side(a, b)
      /\ \A r, a : Knows(r, a)' <=> Knows(r, a)
  BY <1>1, StaysNet, StaysSide DEF Knows
<1>4. Outward /\ Apart /\ Fresh /\ Counted /\ \A e \in Wires : Unlike(cable[e]) /\ Away(e)
  BY DEF NoTurns
<1>5. \A e \in Wires : ~ On(cable, e, f)
  BY <1>1, <1>2, OnFrames
<1>6. \A e \in Wires : cable'[e] = cable[e] \/ (e[1] = h /\ cable'[e] = Append(cable[e], f))
  <2> DEFINE to == {<<h, c>> : c \in Nbr[h]}
  <2>1. \A e \in to : e[1] = h
    OBVIOUS
  <2>2. Moves(cable, cable', {}, to, f)
    BY DEF Starts
  <2> HIDE DEF to
  <2> QED
    BY <2>1, <2>2 DEF Moves
<1>7. \A e \in Wires : e[1] = h => h \in Nbr[e[2]] /\ e[2] \in Nbr[h] /\ e[2] \in Node
                                   /\ e = <<h, e[2]>>
  BY <1>1, Ends
<1>8. \A e \in Wires : e[1] = h => Side(e[2], e[1]) = {h}
  BY <1>1, <1>7, SideFacts
<1>10. \A k \in Host : got[k][f.id] = 0
  <2>1. Len(sent) \in Nat /\ f.id > Len(sent)
    BY <1>1, <1>2 DEF NetTypes
  <2> QED
    BY <1>1, <1>2, <2>1 DEF Unsent
<1>11. Outward'
  <2>1. ASSUME NEW e \in Wires, NEW g, On(cable', e, g) PROVE g.src \in Side(e[2], e[1])
    BY <1>2, <1>4, <1>8, <2>1 DEF Outward
  <2> QED
    BY <1>3, <2>1 DEF Outward
<1>12. Apart'
  <2>1. ASSUME NEW e \in Wires, NEW d \in Wires, NEW g, e # d, On(cable', e, g), On(cable', d, g)
        PROVE  Side(e[1], e[2]) \cap Side(d[1], d[2]) = {}
    <3>1. CASE g = f
      <4>1. e = <<h, e[2]>> /\ d = <<h, d[2]>> /\ e[2] \in Nbr[h] /\ d[2] \in Nbr[h]
        BY <1>2, <1>5, <1>7, <2>1, <3>1
      <4>2. \A p, q \in Nbr[h] : p = q
        BY <1>1, HostFacts
      <4>3. e[2] = d[2]
        BY <4>1, <4>2
      <4> QED
        BY <2>1, <4>1, <4>3
    <3>2. CASE g # f
      BY <1>2, <1>4, <2>1, <3>2 DEF Apart
    <3> QED
      BY <3>1, <3>2
  <2> QED
    BY <1>3, <2>1 DEF Apart
<1>13. Fresh'
  <2>1. ASSUME NEW e \in Wires, NEW g, On(cable', e, g), NEW k \in Host, k \in Side(e[1], e[2])
        PROVE  got[k][g.id] = 0
    BY <1>2, <1>4, <1>10, <2>1 DEF Fresh
  <2> QED
    BY <1>1, <1>3, <2>1 DEF Fresh
<1>14. Counted'
  <2>1. ASSUME NEW k \in Host, NEW i \in DOMAIN sent'
        PROVE  got[k][i] <= IF k = sent'[i].src THEN 0 ELSE 1
    <3>1. CASE i \in DOMAIN sent /\ sent'[i] = sent[i]
      BY <1>4, <3>1 DEF Counted
    <3>2. CASE i = f.id
      BY <1>10, <3>2
    <3> QED
      BY <1>2, <3>1, <3>2
  <2> QED
    BY <1>1, <1>3, <2>1 DEF Counted
<1>15. ASSUME NEW e \in Wires PROVE Unlike(cable'[e])
  <2>1. cable[e] \in Seq(Frames) /\ \A k \in DOMAIN cable[e] : cable[e][k] # f
    BY <1>1, <1>5 DEF NetTypes, On
  <2>2. Unlike(Append(cable[e], f))
    BY <1>4, <2>1, AppendUnlike
  <2> QED
    BY <1>4, <1>6, <2>2
<1>16. ASSUME NEW e \in Wires PROVE Away(e)'
  <2> SUFFICES ASSUME e[2] \in Box, NEW l \in DOMAIN cable'[e],
                      cable'[e][l].dst \in Side(e[2], e[1])
               PROVE  NotBefore(e, l, cable[e][l].dst)'
    BY <1>3 DEF Away
  <2>1. PICK a : a = cable'[e][l].dst
    OBVIOUS
  <2>2. \A j \in DOMAIN cable[e] :
            cable[e][j].dst = a => ~ Knows(e[2], a) /\ ~ Ahead(cable[e], j, a)
    BY <1>4, <2>1 DEF Away, NotBefore
  <2>3. CASE cable'[e] = cable[e]
    <3>1. ~ Knows(e[2], a) /\ ~ Ahead(cable'[e], l, a)
      BY <2>1, <2>2, <2>3
    <3>2. NotBefore(e, l, a)'
      BY <1>3, <3>1 DEF NotBefore, Ahead
    <3> QED
      BY <2>1, <3>2
  <2>4. CASE e[1] = h /\ cable'[e] = Append(cable[e], f)
    <3>1. cable'[e][l] # f
      BY <1>1, <1>8, <2>4
    <3>2. cable[e] \in Seq(Frames)
      BY <1>1 DEF NetTypes
    <3>3. /\ l \in DOMAIN cable[e] /\ cable'[e][l] = cable[e][l]
          /\ \A z : Ahead(cable'[e], l, z) => Ahead(cable[e], l, z)
      BY <2>4, <3>1, <3>2, AppendAhead
    <3>4. ~ Knows(e[2], a) /\ ~ Ahead(cable'[e], l, a)
      BY <2>1, <2>2, <3>3
    <3>5. NotBefore(e, l, a)'
      BY <1>3, <3>4 DEF NotBefore, Ahead
    <3> QED
      BY <2>1, <3>5
  <2> QED
    BY <1>6, <2>3, <2>4
<1> QED
  BY <1>3, <1>11, <1>12, <1>13, <1>14, <1>15, <1>16 DEF NoTurns

LEMMA TakeTurns ==
    ASSUME NetTypes, NoneCollide, NoTurns, NEW h \in Host, NEW b, NEW f, Takes(h, b, f)
    PROVE  NoTurns'
<1>1. ~ net.hubs /\ UNCHANGED <<net, sent, hash8, hash_table>> /\ f = Head(cable[<<b, h>>])
  BY DEF NoneCollide, Takes
<1>2. PICK x : x = <<b, h>>
  OBVIOUS
<1>3. /\ b \in Nbr[h] /\ x \in Wires /\ f \in Frames /\ On(cable, x, f) /\ Counts(h, f.id)
      /\ \A e \in Wires : \A g : On(cable', e, g) => On(cable, e, g)
  BY <1>2, TakeOn
<1>4. /\ Host' = Host /\ Box' = Box /\ Wires' = Wires
      /\ \A a, c : Side(a, c)' = Side(a, c)
      /\ \A r, a : Knows(r, a)' <=> Knows(r, a)
  BY <1>1, StaysNet, StaysSide DEF Knows
<1>5. Outward /\ Apart /\ Fresh /\ Counted /\ \A e \in Wires : Unlike(cable[e]) /\ Away(e)
  BY DEF NoTurns
<1>6. /\ cable[x] # <<>> /\ cable'[x] = Tail(cable[x])
      /\ \A e \in Wires : e # x => cable'[e] = cable[e]
  <2>1. Moves(cable, cable', {x}, {}, f) /\ cable[x] # <<>>
    BY <1>2 DEF Takes
  <2> QED
    BY <1>3, <2>1 DEF Moves
<1>7. Unlike(cable'[x]) /\ ~ On(cable', x, f)
  <2>1. cable[x] \in Seq(Frames)
    BY <1>3 DEF NetTypes
  <2>2. Unlike(Tail(cable[x])) /\ \A k \in DOMAIN Tail(cable[x]) : Tail(cable[x])[k] # f
    BY <1>1, <1>2, <1>3, <1>5, <1>6, <2>1, TailUnlike
  <2> QED
    BY <1>6, <2>2 DEF On
<1>8. h \in Nbr[b] /\ b \in Node /\ h \in Node /\ h \notin Box
  BY <1>3, HostFacts, LinkFacts
<1>9. h \in Side(x[1], x[2]) /\ h # f.src /\ got[h][f.id] = 0
  <2>1. h \in Side(b, h) /\ h \notin Side(h, b)
    BY <1>1, <1>3, <1>8, SideFacts
  <2>2. f.src \in Side(x[2], x[1])
    BY <1>3, <1>5 DEF Outward
  <2>3. h \in Side(x[1], x[2]) /\ h # f.src
    BY <1>2, <2>1, <2>2
  <2> QED
    BY <1>3, <1>5, <2>3 DEF Fresh
<1>10. Outward' /\ Apart'
  BY <1>3, <1>4, <1>5 DEF Outward, Apart
<1>11. Fresh'
  <2>1. ASSUME NEW e \in Wires, NEW g, On(cable', e, g), NEW k \in Host, k \in Side(e[1], e[2])
        PROVE  got'[k][g.id] = 0
    <3>1. On(cable, e, g) /\ g \in Frames
      BY <1>3, <2>1, OnFrames
    <3>2. got[k][g.id] = 0 /\ g.id \in 1 .. net.frames
      BY <1>5, <2>1, <3>1, FrameFacts DEF Fresh
    <3>3. CASE k = h /\ g.id = f.id
      <4>1. g = f
        BY <1>3, <3>1, <3>3, FrameFacts
      <4>2. e # x
        BY <1>7, <2>1, <4>1
      <4>3. Side(e[1], e[2]) \cap Side(x[1], x[2]) = {}
        BY <1>3, <1>5, <3>1, <4>1, <4>2 DEF Apart
      <4> QED
        BY <1>9, <2>1, <3>3, <4>3
    <3>4. CASE k # h \/ g.id # f.id
      BY <1>3, <3>2, <3>4 DEF Counts
    <3> QED
      BY <3>3, <3>4
  <2> QED
    BY <1>4, <2>1 DEF Fresh
<1>12. Counted'
  <2>1. ASSUME NEW k \in Host, NEW i \in DOMAIN sent
        PROVE  got'[k][i] <= IF k = sent[i].src THEN 0 ELSE 1
    <3>1. i \in 1 .. net.frames /\ got[k][i] <= IF k = sent[i].src THEN 0 ELSE 1
      BY <1>5, SentFacts DEF Counted
    <3>2. CASE k = h /\ i = f.id
      <4>1. f = sent[i]
        BY <1>3, <3>2, FrameFacts
      <4>2. got'[k][i] = 1
        BY <1>3, <1>9, <3>2 DEF Counts
      <4> QED
        BY <1>9, <3>2, <4>1, <4>2
    <3>3. CASE k # h \/ i # f.id
      BY <1>3, <3>1, <3>3 DEF Counts
    <3> QED
      BY <3>2, <3>3
  <2> QED
    BY <1>1, <1>4, <2>1 DEF Counted
<1>13. \A e \in Wires : Unlike(cable'[e])
  BY <1>5, <1>6, <1>7
<1>14. ASSUME NEW e \in Wires PROVE Away(e)'
  <2>1. CASE e = x
    BY <1>2, <1>4, <1>8, <2>1 DEF Away
  <2>2. CASE e # x
    <3>1. cable'[e] = cable[e] /\ Away(e)
      BY <1>5, <1>6, <2>2
    <3> QED
      BY <1>4, <3>1 DEF Away, NotBefore, Ahead
  <2> QED
    BY <2>1, <2>2
<1> QED
  BY <1>4, <1>10, <1>11, <1>12, <1>13, <1>14 DEF NoTurns

OnceInv == NetInv /\ (NoneCollide => NoTurns)

LEMMA OnceInvInit == NetInit => OnceInv
<1> SUFFICES ASSUME NetInit PROVE OnceInv
  OBVIOUS
<1>1. NetInv /\ sent = <<>> /\ cable = [e \in Wires |-> <<>>]
  BY NetInvInit DEF NetInit, LanInit
<1>2. \A e \in Wires : cable[e] = <<>> /\ DOMAIN cable[e] = {} /\ \A f : ~ On(cable, e, f)
  BY <1>1 DEF On
<1>3. Outward /\ Apart /\ Fresh
  BY <1>2 DEF Outward, Apart, Fresh
<1>4. Counted
  BY <1>1 DEF Counted
<1>5. \A e \in Wires : Unlike(cable[e]) /\ Away(e)
  BY <1>2 DEF Unlike, Away
<1> QED
  BY <1>1, <1>3, <1>4, <1>5 DEF OnceInv, NoTurns

LEMMA OnceInvNext == OnceInv /\ [NetNext]_net_vars => OnceInv'
<1> SUFFICES ASSUME OnceInv, [NetNext]_net_vars PROVE OnceInv'
  OBVIOUS
<1>1. /\ NetInv /\ NetBase /\ NetTypes /\ TableTypes /\ TablesRight
      /\ NoneCollide => NoTurns
  BY DEF OnceInv, NetInv, NetBase
<1>2. NetInv'
  BY <1>1, NetInvNext
<1>3. ASSUME NEW b \in Box, NEW m \in Node, HubStep(b, m) PROVE NoneCollide' => NoTurns'
  BY <1>3 DEF HubStep, Forwards, NoneCollide
<1>4. ASSUME UNCHANGED <<net, hash8>> PROVE NoneCollide' => NoneCollide
  BY <1>4, StaysNet, StaysSide DEF NoneCollide
<1>5. ASSUME NEW s \in Box, NEW m \in Node, NEW f, SwitchStep(s, m, f)
      PROVE  NoneCollide' => NoTurns'
  <2>1. UNCHANGED <<net, hash8>>
    BY <1>5 DEF SwitchStep, Forwards
  <2> QED
    BY <1>1, <1>4, <1>5, <2>1, SwitchTurns
<1>6. ASSUME NEW h \in Host, NEW f, f.dst \in Host \cup {Bcast}, Starts(h, f)
      PROVE  NoneCollide' => NoTurns'
  <2>1. UNCHANGED <<net, hash8>>
    BY <1>6 DEF Starts
  <2> QED
    BY <1>1, <1>4, <1>6, <2>1, StartTurns
<1>7. ASSUME NEW h \in Host, NEW b, NEW f, Takes(h, b, f) PROVE NoneCollide' => NoTurns'
  <2>1. UNCHANGED <<net, hash8>>
    BY <1>7 DEF Takes
  <2> QED
    BY <1>1, <1>4, <1>7, <2>1, TakeTurns
<1>8. ASSUME Rest PROVE NoneCollide' => NoTurns'
  <2>1. /\ UNCHANGED <<net, hash8, cable, sent, got, hash_table>>
        /\ Wires' = Wires /\ Host' = Host /\ Box' = Box
        /\ \A a, c : Side(a, c)' = Side(a, c)
        /\ \A r, a : Knows(r, a)' <=> Knows(r, a)
    BY <1>8, StaysNet, StaysSide DEF Rest, Knows
  <2>2. NoTurns => (Outward /\ Apart /\ Fresh /\ Counted)'
    BY <2>1 DEF NoTurns, Outward, Apart, Fresh, Counted
  <2>3. NoTurns => \A e \in Wires : (Unlike(cable[e]) /\ Away(e))'
    BY <2>1 DEF NoTurns, Away, NotBefore
  <2> QED
    BY <1>1, <1>4, <2>1, <2>2, <2>3 DEF NoTurns
<1>9. NoneCollide' => NoTurns'
  BY <1>1, <1>3, <1>5, <1>6, <1>7, <1>8, Steps
<1> QED
  BY <1>2, <1>9 DEF OnceInv

\* Without shared slots a frame reaches a host at most once and never returns to its
\* sender, in every tree of switches, whatever each of them has learnt when it comes by.
THEOREM FramesComeOnce == NetSpec => []Once
<1>1. NetInit => OnceInv
  BY OnceInvInit
<1>2. OnceInv /\ [NetNext]_net_vars => OnceInv'
  BY OnceInvNext
<1>3. OnceInv => Once
  <2> SUFFICES ASSUME OnceInv, NoneCollide PROVE
                   \A h \in Host : \A i \in 1 .. Len(sent) :
                       got[h][i] <= IF h = sent[i].src THEN 0 ELSE 1
    BY DEF Once, NoneCollide
  <2>1. Counted /\ DOMAIN sent = 1 .. Len(sent)
    BY DEF OnceInv, NoTurns, NetInv, NetBase, NetTypes
  <2> QED
    BY <2>1 DEF Counted
<1> QED
  BY <1>1, <1>2, <1>3, PTL DEF NetSpec

--------------------------------------------------------------------------------
(* Rings of hubs: a frame is once on its sender's cable, or twice on the ring.  *)

\* The cables to boxes, and whether frame i is the k-th on one of them.
Inner == {e \in Wires : e[2] \in Box}
At(w, e, k, i) == e \in Inner /\ k \in DOMAIN w[e] /\ w[e][k].id = i

OnlyAt(w, i, e, k) == \A c, j : At(w, c, j, i) <=> (c = e /\ j = k)
OnlyTwo(w, i, e, k, d, l) ==
    \A c, j : At(w, c, j, i) <=> (c = e /\ j = k) \/ (c = d /\ j = l)

One(i) == \E e, k : e[1] \in Host /\ OnlyAt(cable, i, e, k)

Two(i) ==
    \E e, k, d, l : /\ e[1] \in Box /\ d[1] \in Box /\ ~ (e = d /\ k = l)
                    /\ OnlyTwo(cable, i, e, k, d, l)

OnRings == net.hubs /\ IsRing => \A i \in DOMAIN sent : One(i) \/ Two(i)

LEMMA TwoElements ==
    ASSUME NEW S, IsFiniteSet(S), Cardinality(S) = 2
    PROVE  \E a, b : a # b /\ S = {a, b}
<1>1. PICK a : a \in S
  BY FS_EmptySet
<1>2. IsFiniteSet(S \ {a}) /\ Cardinality(S \ {a}) = 1
  BY <1>1, FS_RemoveElement
<1>3. PICK b : S \ {a} = {b}
  BY <1>2, FS_Singleton
<1> QED
  BY <1>1, <1>3

LEMMA RingNbrs ==
    ASSUME NetTypes, IsRing, NEW b \in Box
    PROVE  \E c, d : c # d /\ Nbr[b] \cap Box = {c, d}
<1>1. IsFiniteSet(net.hosts \cup net.boxes)
  BY LanAssumption DEF NetTypes
<1>2. Nbr[b] \cap Box \in SUBSET (net.hosts \cup net.boxes)
  BY DEF Box
<1>3. IsFiniteSet(Nbr[b] \cap Box)
  BY <1>1, <1>2, FS_Subset
<1>4. Cardinality(Nbr[b] \cap Box) = 2
  BY DEF IsRing
<1> QED
  BY <1>3, <1>4, TwoElements

LEMMA HostAtBox ==
    ASSUME NetTypes, Box # {}, NEW h \in Host
    PROVE  \E c \in Nbr[h] : c \in Box /\ \A d \in Nbr[h] : d = c
<1>1. Node = Host \cup Box /\ Host \cap Box = {}
  BY Kinds
<1>2. \A c, d \in Nbr[h] : c = d
  BY HostFacts
<1> SUFFICES ASSUME \A c \in Nbr[h] : c \notin Box PROVE FALSE
  BY <1>2
<1>3. PICK S : S = {h} \cup Nbr[h]
  OBVIOUS
<1>4. \A c \in Nbr[h] : c \in Node /\ h \in Nbr[c] /\ c \in Host
  BY <1>1, LinkFacts
<1>5. \A c \in Nbr[h] : \A d \in Nbr[c] : d = h
  BY <1>4, HostFacts
<1>6. \A a \in S : \A d \in Nbr[a] : d \in S
  BY <1>3, <1>5
<1>7. S \in SUBSET NodesOf[net] /\ S # {} /\ net \in Nets
  BY <1>1, <1>3, <1>4 DEF Node, NetTypes
<1>8. Closed(net, S, {})
  BY <1>6 DEF Closed, Nbr
<1>9. S = Node
  BY <1>7, <1>8, ConnectedAssumption DEF Node
<1> QED
  BY <1>1, <1>3, <1>9

LEMMA AtFacts ==
    ASSUME NetTypes, NEW e, NEW k, NEW i, At(cable, e, k, i)
    PROVE  /\ e \in Wires /\ e[2] \in Box /\ k \in Nat \ {0} /\ k <= Len(cable[e])
           /\ Len(cable[e]) \in Nat /\ i \in DOMAIN sent
<1>1. e \in Wires /\ e[2] \in Box /\ k \in DOMAIN cable[e] /\ cable[e][k].id = i
  BY DEF At, Inner
<1>2. cable[e] \in Seq(Frames)
  BY <1>1 DEF NetTypes
<1>3. k \in Nat \ {0} /\ k <= Len(cable[e]) /\ Len(cable[e]) \in Nat
  BY <1>1, <1>2
<1>4. cable[e][k] \in Frames
  BY <1>1, <1>2
<1>5. i \in DOMAIN sent
  BY <1>1, <1>4, FrameFacts
<1> QED
  BY <1>1, <1>3, <1>5

\* Where the frames are after the head f of the cable x from m was sent on by b.
Passes(b, m, x, f) ==
    \A i, e, k : At(cable', e, k, i) <=>
        \/ e = x /\ k \in Nat \ {0} /\ At(cable, x, k + 1, i)
        \/ e # x /\ At(cable, e, k, i)
        \/ i = f.id /\ e \in Inner /\ e[1] = b /\ e[2] # m /\ k = Len(cable[e]) + 1

LEMMA HubAt ==
    ASSUME NetTypes, NEW b \in Box, NEW m, HubStep(b, m), NEW x, x = <<m, b>>,
           NEW f, f = Head(cable[x])
    PROVE  /\ x \in Inner /\ At(cable, x, 1, f.id) /\ m \in Nbr[b]
           /\ \A i : At(cable, x, 1, i) => i = f.id
           /\ Passes(b, m, x, f)
<1>1. Forwards(b, m, Nbr[b] \ {m})
  BY DEF HubStep
<1>2. /\ cable[x] # <<>> /\ cable'[x] = Tail(cable[x])
      /\ \A e \in Wires : e[1] = b /\ e[2] \in Nbr[b] \ {m} => cable'[e] = Append(cable[e], f)
      /\ \A e \in Wires : e = x \/ (e[1] = b /\ e[2] \in Nbr[b] \ {m}) \/ cable'[e] = cable[e]
  BY <1>1, ForwardCables
<1>3. m \in Nbr[b]
  BY <1>1 DEF Forwards
<1>4. x \in Inner /\ x \in Wires /\ m # b
  BY <1>3, BoxFacts DEF Inner
<1>5. \A e \in Wires : cable[e] \in Seq(Frames) /\ (e[1] = b => e[2] \in Nbr[b] /\ e # x)
  BY <1>4, Ends DEF NetTypes
<1>6. 1 \in DOMAIN cable[x] /\ cable[x][1] = f
  BY <1>2, <1>4, <1>5, TailOn
<1>7. At(cable, x, 1, f.id) /\ \A i : At(cable, x, 1, i) => i = f.id
  BY <1>4, <1>6 DEF At
<1>8. ASSUME NEW i, NEW k
      PROVE  At(cable', x, k, i) <=> k \in Nat \ {0} /\ At(cable, x, k + 1, i)
  <2>1. PICK s : s = cable[x]
    OBVIOUS
  <2>2. s \in Seq(Frames) /\ s # <<>>
    BY <1>2, <1>4, <1>5, <2>1
  <2>3. /\ \A j \in DOMAIN Tail(s) : j + 1 \in DOMAIN s /\ Tail(s)[j] = s[j + 1] /\ j \in Nat \ {0}
        /\ \A j \in Nat \ {0} : j + 1 \in DOMAIN s => j \in DOMAIN Tail(s)
    BY <2>2
  <2> QED
    BY <1>2, <1>4, <2>1, <2>3 DEF At
<1>9. ASSUME NEW i, NEW k, NEW e \in Inner, e[1] = b, e[2] # m
      PROVE  At(cable', e, k, i) <=> At(cable, e, k, i) \/ (i = f.id /\ k = Len(cable[e]) + 1)
  <2>1. PICK s : s = cable[e]
    OBVIOUS
  <2>2. e \in Wires
    BY DEF Inner
  <2>3. s \in Seq(Frames) /\ cable'[e] = Append(s, f)
    BY <1>2, <1>5, <1>9, <2>1, <2>2
  <2>4. /\ \A j \in DOMAIN s : j \in DOMAIN Append(s, f) /\ Append(s, f)[j] = s[j]
        /\ \A j \in DOMAIN Append(s, f) :
               (j \in DOMAIN s /\ j <= Len(s)) \/ (j = Len(s) + 1 /\ Append(s, f)[j] = f)
        /\ Len(s) + 1 \in DOMAIN Append(s, f) /\ Append(s, f)[Len(s) + 1] = f
    BY <2>3, AppendOn
  <2> QED
    BY <2>1, <2>3, <2>4 DEF At
<1>10. ASSUME NEW i, NEW k, NEW e, e # x, ~ (e[1] = b /\ e[2] # m)
       PROVE  At(cable', e, k, i) <=> At(cable, e, k, i)
  <2>1. CASE e \in Inner
    <3>1. cable'[e] = cable[e]
      BY <1>2, <1>10, <2>1 DEF Inner
    <3> QED
      BY <3>1 DEF At
  <2>2. CASE e \notin Inner
    BY <2>2 DEF At
  <2> QED
    BY <2>1, <2>2
<1>11. \A e \in Inner : e[1] = b => e # x
  BY <1>5 DEF Inner
<1>12. ASSUME NEW i, NEW k, NEW e
       PROVE  At(cable', e, k, i) <=>
                 \/ e = x /\ k \in Nat \ {0} /\ At(cable, x, k + 1, i)
                 \/ e # x /\ At(cable, e, k, i)
                 \/ /\ i = f.id /\ e \in Inner /\ e[1] = b /\ e[2] # m
                    /\ k = Len(cable[e]) + 1
  <2>1. CASE e = x
    BY <1>4, <1>8, <1>11, <2>1
  <2>2. CASE e # x /\ e \in Inner /\ e[1] = b /\ e[2] # m
    BY <1>9, <2>2
  <2>3. CASE e # x /\ ~ (e \in Inner /\ e[1] = b /\ e[2] # m)
    <3>1. CASE e \in Inner
      BY <1>10, <2>3, <3>1
    <3>2. CASE e \notin Inner
      BY <2>3, <3>2 DEF At
    <3> QED
      BY <3>1, <3>2
  <2> QED
    BY <2>1, <2>2, <2>3
<1> QED
  BY <1>3, <1>4, <1>7, <1>12 DEF Passes

\* A frame's place on a cable after the head of cable x was read.
After(x, e, k) == IF e = x THEN k - 1 ELSE k

LEMMA AfterFacts ==
    ASSUME NEW x, NEW e, NEW k \in Nat \ {0}, ~ (e = x /\ k = 1)
    PROVE  \A d, l : (d = e /\ l = After(x, e, k)) <=>
                \/ d = x /\ l \in Nat \ {0} /\ x = e /\ l + 1 = k
                \/ d # x /\ d = e /\ l = k
<1>1. CASE e = x
  <2>1. After(x, e, k) = k - 1 /\ k - 1 \in Nat \ {0}
    BY <1>1 DEF After
  <2>2. \A l : l = k - 1 <=> (l \in Nat \ {0} /\ l + 1 = k)
    BY <2>1
  <2> QED
    BY <1>1, <2>1, <2>2
<1>2. CASE e # x
  BY <1>2 DEF After
<1> QED
  BY <1>1, <1>2

LEMMA StaysAt ==
    ASSUME UNCHANGED net
    PROVE  /\ \A e, k, i : At(cable, e, k, i)' <=> At(cable', e, k, i)
           /\ Host' = Host /\ Box' = Box /\ Inner' = Inner
<1>1. Host' = Host /\ Box' = Box /\ Wires' = Wires
  BY StaysNet
<1>2. Inner' = Inner
  BY <1>1 DEF Inner
<1> QED
  BY <1>1, <1>2 DEF At

LEMMA NextOne ==
    ASSUME UNCHANGED net, NEW i, NEW e, NEW k, e[1] \in Host, OnlyAt(cable', i, e, k)
    PROVE  One(i)'
<1>1. Host' = Host /\ \A c, j : At(cable, c, j, i)' <=> At(cable', c, j, i)
  BY StaysAt
<1>2. OnlyAt(cable, i, e, k)'
  BY <1>1 DEF OnlyAt
<1> QED
  BY <1>1, <1>2 DEF One

LEMMA NextTwo ==
    ASSUME UNCHANGED net, NEW i, NEW e, NEW k, NEW d, NEW l, e[1] \in Box, d[1] \in Box,
           ~ (e = d /\ k = l), OnlyTwo(cable', i, e, k, d, l)
    PROVE  Two(i)'
<1>1. Box' = Box /\ \A c, j : At(cable, c, j, i)' <=> At(cable', c, j, i)
  BY StaysAt
<1>2. OnlyTwo(cable, i, e, k, d, l)'
  BY <1>1 DEF OnlyTwo
<1> QED
  BY <1>1, <1>2 DEF Two

LEMMA SameRings ==
    ASSUME UNCHANGED net, NEW i, \A e, k : At(cable', e, k, i) <=> At(cable, e, k, i),
           One(i) \/ Two(i)
    PROVE  (One(i) \/ Two(i))'
<1>1. CASE One(i)
  <2>1. PICK e, k : e[1] \in Host /\ OnlyAt(cable, i, e, k)
    BY <1>1 DEF One
  <2>2. OnlyAt(cable', i, e, k)
    BY <2>1 DEF OnlyAt
  <2> QED
    BY <2>1, <2>2, NextOne
<1>2. CASE Two(i)
  <2>1. PICK e, k, d, l : /\ e[1] \in Box /\ d[1] \in Box /\ ~ (e = d /\ k = l)
                          /\ OnlyTwo(cable, i, e, k, d, l)
    BY <1>2 DEF Two
  <2>2. OnlyTwo(cable', i, e, k, d, l)
    BY <2>1 DEF OnlyTwo
  <2> QED
    BY <2>1, <2>2, NextTwo
<1> QED
  BY <1>1, <1>2

LEMMA HubRings ==
    ASSUME NetTypes, IsRing, NEW b \in Box, NEW m, HubStep(b, m),
           NEW i, One(i) \/ Two(i)
    PROVE  (One(i) \/ Two(i))'
<1>1. PICK x : x = <<m, b>>
  OBVIOUS
<1>2. PICK f : f = Head(cable[x])
  OBVIOUS
<1>3. /\ x \in Inner /\ At(cable, x, 1, f.id) /\ m \in Nbr[b]
      /\ \A j : At(cable, x, 1, j) => j = f.id
  BY <1>1, <1>2, HubAt
<1>4. Passes(b, m, x, f)
  BY <1>1, <1>2, HubAt
<1>5. UNCHANGED net
  BY DEF HubStep, Forwards
<1>7. ASSUME NEW c \in Nbr[b], c \in Box
      PROVE  <<b, c>> \in Inner /\ <<b, c>> # x
  BY <1>1, <1>3, <1>7, BoxFacts DEF Inner
<1>8. \A e \in Inner : e[1] = b => e = <<b, e[2]>> /\ e[2] \in Nbr[b] \cap Box
  BY Ends DEF Inner
<1>9. CASE i # f.id
  <2>1. /\ ~ At(cable, x, 1, i)
        /\ \A e, k : At(cable', e, k, i) <=>
              \/ e = x /\ k \in Nat \ {0} /\ At(cable, x, k + 1, i)
              \/ e # x /\ At(cable, e, k, i)
    BY <1>3, <1>4, <1>9 DEF Passes
  <2>2. CASE One(i)
    <3>1. PICK e, k : e[1] \in Host /\ OnlyAt(cable, i, e, k)
      BY <2>2 DEF One
    <3>2. \A d, l : At(cable, d, l, i) <=> (d = e /\ l = k)
      BY <3>1 DEF OnlyAt
    <3>3. k \in Nat \ {0} /\ ~ (e = x /\ k = 1)
      BY <2>1, <3>2, AtFacts
    <3>4. PICK n : n = After(x, e, k)
      OBVIOUS
    <3>5. \A d, l : (d = e /\ l = n) <=>
                \/ d = x /\ l \in Nat \ {0} /\ x = e /\ l + 1 = k
                \/ d # x /\ d = e /\ l = k
      BY <3>3, <3>4, AfterFacts
    <3>6. OnlyAt(cable', i, e, n)
      BY <2>1, <3>2, <3>5 DEF OnlyAt
    <3> QED
      BY <1>5, <3>1, <3>6, NextOne
  <2>3. CASE Two(i)
    <3>1. PICK e, k, d, l : /\ e[1] \in Box /\ d[1] \in Box /\ ~ (e = d /\ k = l)
                            /\ OnlyTwo(cable, i, e, k, d, l)
      BY <2>3 DEF Two
    <3>2. \A c, j : At(cable, c, j, i) <=> (c = e /\ j = k) \/ (c = d /\ j = l)
      BY <3>1 DEF OnlyTwo
    <3>3. k \in Nat \ {0} /\ ~ (e = x /\ k = 1) /\ l \in Nat \ {0} /\ ~ (d = x /\ l = 1)
      BY <2>1, <3>2, AtFacts
    <3>4. PICK n, o : n = After(x, e, k) /\ o = After(x, d, l)
      OBVIOUS
    <3>5. \A c, j : (c = e /\ j = n) <=> \/ c = x /\ j \in Nat \ {0} /\ x = e /\ j + 1 = k
                                         \/ c # x /\ c = e /\ j = k
      BY <3>3, <3>4, AfterFacts
    <3>6. \A c, j : (c = d /\ j = o) <=> \/ c = x /\ j \in Nat \ {0} /\ x = d /\ j + 1 = l
                                         \/ c # x /\ c = d /\ j = l
      BY <3>3, <3>4, AfterFacts
    <3>7. OnlyTwo(cable', i, e, n, d, o)
      BY <2>1, <3>2, <3>5, <3>6 DEF OnlyTwo
    <3>8. ~ (e = d /\ n = o)
      BY <3>1, <3>3, <3>4 DEF After
    <3> QED
      BY <1>5, <3>1, <3>7, <3>8, NextTwo
  <2> QED
    BY <2>2, <2>3
<1>10. CASE i = f.id
  <2>1. \A e, k : At(cable', e, k, i) <=>
            \/ e = x /\ k \in Nat \ {0} /\ At(cable, x, k + 1, i)
            \/ e # x /\ At(cable, e, k, i)
            \/ e \in Inner /\ e[1] = b /\ e[2] # m /\ k = Len(cable[e]) + 1
    BY <1>4, <1>10 DEF Passes
  <2>2. CASE One(i)
    <3>1. PICK e, k : e[1] \in Host /\ OnlyAt(cable, i, e, k)
      BY <2>2 DEF One
    <3>2. \A d, l : At(cable, d, l, i) <=> (d = e /\ l = k)
      BY <3>1 DEF OnlyAt
    <3>3. e = x /\ k = 1 /\ m \notin Box
      BY <1>1, <1>3, <1>10, <3>1, <3>2, Kinds
    <3>4. PICK c, d : c # d /\ Nbr[b] \cap Box = {c, d}
      BY RingNbrs
    <3>5. PICK p, q : p = <<b, c>> /\ q = <<b, d>>
      OBVIOUS
    <3>6. p \in Inner /\ q \in Inner /\ c # m /\ d # m
      BY <1>7, <3>3, <3>4, <3>5
    <3>7. \A j, n : At(cable', j, n, i) <=> j \in Inner /\ j[1] = b /\ j[2] # m
                                            /\ n = Len(cable[j]) + 1
      BY <2>1, <3>2, <3>3
    <3>8. \A j : (j \in Inner /\ j[1] = b /\ j[2] # m) <=> (j = p \/ j = q)
      BY <1>8, <3>4, <3>5, <3>6
    <3>9. PICK n, o : n = Len(cable[p]) + 1 /\ o = Len(cable[q]) + 1
      OBVIOUS
    <3>10. OnlyTwo(cable', i, p, n, q, o)
      BY <3>7, <3>8, <3>9 DEF OnlyTwo
    <3>11. p[1] \in Box /\ q[1] \in Box /\ ~ (p = q /\ n = o)
      BY <3>4, <3>5
    <3> QED
      BY <1>5, <3>10, <3>11, NextTwo
  <2>3. ASSUME NEW d, NEW l, d[1] \in Box, m \in Box, ~ (d = x /\ l = 1),
               OnlyTwo(cable, i, x, 1, d, l)
        PROVE  Two(i)'
    <3>1. PICK c : c # m /\ Nbr[b] \cap Box = {m, c}
      BY <1>3, <2>3, RingNbrs
    <3>2. PICK p : p = <<b, c>>
      OBVIOUS
    <3>3. p \in Inner /\ p # x /\ p[1] \in Box
      BY <1>7, <3>1, <3>2
    <3>4. \A j : (j \in Inner /\ j[1] = b /\ j[2] # m) <=> j = p
      BY <1>8, <3>1, <3>2, <3>3
    <3>5. \A j, n : At(cable, j, n, i) <=> (j = x /\ n = 1) \/ (j = d /\ n = l)
      BY <2>3 DEF OnlyTwo
    <3>6. l \in Nat \ {0} /\ l <= Len(cable[d]) /\ Len(cable[d]) \in Nat
      BY <3>5, AtFacts
    <3>7. PICK k : k = After(x, d, l)
      OBVIOUS
    <3>8. ~ (d = x /\ l = 1)
      BY <2>3
    <3>9. \A j, n : (j = d /\ n = k) <=> \/ j = x /\ n \in Nat \ {0} /\ x = d /\ n + 1 = l
                                         \/ j # x /\ j = d /\ n = l
      BY <3>6, <3>7, <3>8, AfterFacts
    <3>10. PICK o : o = Len(cable[p]) + 1
      OBVIOUS
    <3>11. OnlyTwo(cable', i, d, k, p, o)
      <4>1. \A n : n \in Nat \ {0} => n + 1 # 1
        OBVIOUS
      <4>2. ASSUME NEW j, NEW n
            PROVE  At(cable', j, n, i) <=>
                       \/ j = x /\ n \in Nat \ {0} /\ x = d /\ n + 1 = l
                       \/ j # x /\ j = d /\ n = l
                       \/ j = p /\ n = o
        BY <2>1, <3>4, <3>5, <3>10, <4>1
      <4> QED
        BY <3>9, <4>2 DEF OnlyTwo
    <3>12. ~ (d = p /\ k = o)
      BY <3>3, <3>6, <3>7, <3>10 DEF After
    <3>13. d[1] \in Box
      BY <2>3
    <3> QED
      BY <1>5, <3>3, <3>11, <3>12, <3>13, NextTwo
  <2>4. CASE Two(i)
    <3>1. PICK e, k, d, l : /\ e[1] \in Box /\ d[1] \in Box /\ ~ (e = d /\ k = l)
                            /\ OnlyTwo(cable, i, e, k, d, l)
      BY <2>4 DEF Two
    <3>2. CASE e = x /\ k = 1
      <4>1. m \in Box /\ ~ (d = x /\ l = 1)
        BY <1>1, <3>1, <3>2
      <4> QED
        BY <2>3, <3>1, <3>2, <4>1
    <3>3. CASE d = x /\ l = 1
      <4>1. m \in Box /\ ~ (e = x /\ k = 1)
        BY <1>1, <3>1, <3>3
      <4>2. OnlyTwo(cable, i, x, 1, e, k)
        BY <3>1, <3>3 DEF OnlyTwo
      <4> QED
        BY <2>3, <3>1, <4>1, <4>2
    <3>4. (e = x /\ k = 1) \/ (d = x /\ l = 1)
      BY <1>3, <1>10, <3>1 DEF OnlyTwo
    <3> QED
      BY <3>2, <3>3, <3>4
  <2> QED
    BY <2>2, <2>4
<1> QED
  BY <1>9, <1>10

LEMMA StartRings ==
    ASSUME NetTypes, IsRing, NEW h \in Host, NEW f, f.dst \in Host \cup {Bcast}, Starts(h, f),
           \A i \in DOMAIN sent : One(i) \/ Two(i), NEW i \in DOMAIN sent'
    PROVE  (One(i) \/ Two(i))'
<1>1. UNCHANGED net
  BY DEF Starts
<1>2. f.id = Len(sent) + 1 /\ (i \in DOMAIN sent \/ i = f.id) /\ f.id \notin DOMAIN sent
  <2>1. f.id = Len(sent) + 1 /\ (i \in DOMAIN sent \/ i = f.id)
    BY StartOn
  <2> QED
    BY <2>1 DEF NetTypes
<1>3. PICK c \in Nbr[h] : c \in Box /\ \A d \in Nbr[h] : d = c
  BY HostAtBox DEF IsRing
<1>4. PICK x : x = <<h, c>>
  OBVIOUS
<1>5. x \in Wires /\ x \in Inner
  BY <1>3, <1>4, HostFacts DEF Inner
<1>6. \A e \in Wires : cable'[e] = IF e = x THEN Append(cable[e], f) ELSE cable[e]
  <2> DEFINE to == {<<h, d>> : d \in Nbr[h]}
  <2>1. to = {x}
    BY <1>3, <1>4
  <2>2. Moves(cable, cable', {}, to, f)
    BY DEF Starts
  <2> HIDE DEF to
  <2> QED
    BY <2>1, <2>2 DEF Moves
<1>7. \A j, e, k : At(cable', e, k, j) <=>
          At(cable, e, k, j) \/ (j = f.id /\ e = x /\ k = Len(cable[x]) + 1)
  <2>1. PICK s : s = cable[x]
    OBVIOUS
  <2>2. s \in Seq(Frames) /\ cable'[x] = Append(s, f)
    BY <1>5, <1>6, <2>1 DEF NetTypes
  <2>3. /\ \A k \in DOMAIN s : k \in DOMAIN Append(s, f) /\ Append(s, f)[k] = s[k]
        /\ \A k \in DOMAIN Append(s, f) :
               (k \in DOMAIN s /\ k <= Len(s)) \/ (k = Len(s) + 1 /\ Append(s, f)[k] = f)
        /\ Len(s) + 1 \in DOMAIN Append(s, f) /\ Append(s, f)[Len(s) + 1] = f
    BY <2>2, AppendOn
  <2>4. \A j, k : At(cable', x, k, j) <=> At(cable, x, k, j) \/ (j = f.id /\ k = Len(s) + 1)
    BY <1>5, <2>1, <2>2, <2>3 DEF At
  <2>5. \A j, e, k : e # x => (At(cable', e, k, j) <=> At(cable, e, k, j))
    BY <1>6 DEF At, Inner
  <2> QED
    BY <2>1, <2>4, <2>5
<1>8. CASE i \in DOMAIN sent
  <2>1. i # f.id /\ (One(i) \/ Two(i))
    BY <1>2, <1>8
  <2>2. \A e, k : At(cable', e, k, i) <=> At(cable, e, k, i)
    BY <1>7, <2>1
  <2> QED
    BY <1>1, <2>1, <2>2, SameRings
<1>9. CASE i = f.id
  <2>1. \A e, k : ~ At(cable, e, k, i)
    BY <1>2, <1>9, AtFacts
  <2>2. PICK n : n = Len(cable[x]) + 1
    OBVIOUS
  <2>3. OnlyAt(cable', i, x, n)
    BY <1>7, <1>9, <2>1, <2>2 DEF OnlyAt
  <2>4. x[1] \in Host
    BY <1>4
  <2>5. One(i)'
    BY <1>1, <2>3, <2>4, NextOne
  <2> QED
    BY <2>5
<1> QED
  BY <1>2, <1>8, <1>9

LEMMA TakeRings ==
    ASSUME NetTypes, NEW h \in Host, NEW b, NEW f, Takes(h, b, f),
           NEW i, One(i) \/ Two(i)
    PROVE  (One(i) \/ Two(i))'
<1>1. UNCHANGED net
  BY DEF Takes
<1>2. Moves(cable, cable', {<<b, h>>}, {}, f) /\ h \notin Box
  BY Kinds DEF Takes
<1>3. \A e \in Inner : cable'[e] = cable[e]
  BY <1>2 DEF Moves, Inner
<1>4. \A e, k : At(cable', e, k, i) <=> At(cable, e, k, i)
  BY <1>3 DEF At
<1> QED
  BY <1>1, <1>4, SameRings

LEMMA OnRingsStep ==
    ASSUME NetTypes, TableTypes, OnRings, [NetNext]_net_vars
    PROVE  OnRings'
<1>1. ASSUME UNCHANGED net PROVE (net.hubs /\ IsRing)' <=> net.hubs /\ IsRing
  BY <1>1, StaysNet DEF IsRing
<1>2. ASSUME NEW b \in Box, NEW m \in Node, HubStep(b, m) PROVE OnRings'
  <2>1. UNCHANGED <<net, sent>>
    BY <1>2 DEF HubStep, Forwards
  <2> QED
    BY <1>1, <1>2, <2>1, HubRings DEF OnRings
<1>3. ASSUME NEW s \in Box, NEW m \in Node, NEW f, SwitchStep(s, m, f) PROVE OnRings'
  BY <1>3 DEF SwitchStep, Forwards, OnRings
<1>4. ASSUME NEW h \in Host, NEW f, f.dst \in Host \cup {Bcast}, Starts(h, f) PROVE OnRings'
  <2>1. UNCHANGED net
    BY <1>4 DEF Starts
  <2> QED
    BY <1>1, <1>4, <2>1, StartRings DEF OnRings
<1>5. ASSUME NEW h \in Host, NEW b, NEW f, Takes(h, b, f) PROVE OnRings'
  <2>1. UNCHANGED <<net, sent>>
    BY <1>5 DEF Takes
  <2> QED
    BY <1>1, <1>5, <2>1, TakeRings DEF OnRings
<1>6. ASSUME Rest PROVE OnRings'
  <2>1. UNCHANGED <<net, sent, cable>>
    BY <1>6 DEF Rest
  <2>2. \A i : One(i) \/ Two(i) => (One(i) \/ Two(i))'
    BY <2>1, SameRings
  <2> QED
    BY <1>1, <2>1, <2>2 DEF OnRings
<1> QED
  BY <1>2, <1>3, <1>4, <1>5, <1>6, Steps

LEMMA RingPlaces ==
    ASSUME NetTypes, IsRing, NEW i
    PROVE  /\ \A p : p \in OnRing(i) <=>
                  \E e, k : p = <<e, k>> /\ At(cable, e, k, i) /\ e[1] \in Box
           /\ Entered(i) <=>
                  i <= Len(sent) /\ \A e, k : At(cable, e, k, i) => e[1] \notin Host
<1>1. \A e \in Wires : e[1] \in Node /\ e[2] \in Node /\ e = <<e[1], e[2]>> /\ e[2] \in Nbr[e[1]]
  BY Ends
<1>2. \A e : e \in Wires \cap (Box \X Box) <=> e \in Inner /\ e[1] \in Box
  BY <1>1 DEF Inner
<1>3. \A p : p \in OnRing(i) <=> \E e, k : p = <<e, k>> /\ At(cable, e, k, i) /\ e[1] \in Box
  <2>1. ASSUME NEW p, p \in OnRing(i)
        PROVE  \E e, k : p = <<e, k>> /\ At(cable, e, k, i) /\ e[1] \in Box
    <3>1. PICK e \in Wires \cap (Box \X Box) :
              p \in {e} \X {k \in DOMAIN cable[e] : cable[e][k].id = i}
      BY <2>1 DEF OnRing
    <3> QED
      BY <1>2, <3>1 DEF At
  <2>2. ASSUME NEW e, NEW k, At(cable, e, k, i), e[1] \in Box PROVE <<e, k>> \in OnRing(i)
    <3>1. e \in Wires \cap (Box \X Box) /\ k \in DOMAIN cable[e] /\ cable[e][k].id = i
      BY <1>2, <2>2 DEF At
    <3>2. <<e, k>> \in {e} \X {j \in DOMAIN cable[e] : cable[e][j].id = i}
      BY <3>1
    <3> QED
      BY <3>1, <3>2 DEF OnRing
  <2> QED
    BY <2>1, <2>2
<1>4. \A e \in Wires : \A k : k \in DOMAIN cable[e] <=> k \in 1 .. Len(cable[e])
  BY DEF NetTypes
<1>5. ASSUME NEW h \in Host, NEW m \in Nbr[h]
      PROVE  <<h, m>> \in Inner /\ <<h, m>> \in Wires
  <2>1. m \in Box
    BY HostAtBox DEF IsRing
  <2> QED
    BY <2>1, HostFacts DEF Inner
<1>6. ASSUME Entered(i), NEW e, NEW k, At(cable, e, k, i), e[1] \in Host PROVE FALSE
  <2>1. e \in Wires /\ k \in DOMAIN cable[e] /\ cable[e][k].id = i
    BY <1>6 DEF At, Inner
  <2>2. e = <<e[1], e[2]>> /\ e[2] \in Nbr[e[1]] /\ k \in 1 .. Len(cable[e])
    BY <1>1, <1>4, <2>1
  <2> QED
    BY <1>6, <2>1, <2>2 DEF Entered
<1>7. ASSUME i <= Len(sent), \A e, k : At(cable, e, k, i) => e[1] \notin Host PROVE Entered(i)
  <2> SUFFICES ASSUME NEW h \in Host, NEW m \in Nbr[h], NEW k \in 1 .. Len(cable[<<h, m>>]),
                      cable[<<h, m>>][k].id = i
               PROVE  FALSE
    BY <1>7 DEF Entered
  <2>1. PICK e : e = <<h, m>>
    OBVIOUS
  <2>2. At(cable, e, k, i) /\ e[1] \in Host
    BY <1>4, <1>5, <2>1 DEF At
  <2> QED
    BY <1>7, <2>2
<1>8. Entered(i) <=> i <= Len(sent) /\ \A e, k : At(cable, e, k, i) => e[1] \notin Host
  BY <1>6, <1>7 DEF Entered
<1> QED
  BY <1>3, <1>8

LEMMA RingCopies ==
    ASSUME NetTypes, OnRings, net.hubs, IsRing, NEW i \in 1 .. net.frames
    PROVE  Cardinality(OnRing(i)) = IF Entered(i) THEN 2 ELSE 0
<1>1. /\ \A p : p \in OnRing(i) <=>
                  \E e, k : p = <<e, k>> /\ At(cable, e, k, i) /\ e[1] \in Box
      /\ Entered(i) <=> i <= Len(sent) /\ \A e, k : At(cable, e, k, i) => e[1] \notin Host
  BY RingPlaces
<1>2. Host \cap Box = {} /\ net.frames \in Nat
  BY Kinds, LanAssumption DEF NetTypes
<1>3. Len(sent) \in Nat /\ (i \in DOMAIN sent <=> i <= Len(sent))
  BY DEF NetTypes
<1>4. CASE i \notin DOMAIN sent
  <2>1. ~ Entered(i) /\ OnRing(i) = {}
    BY <1>1, <1>3, <1>4, AtFacts
  <2> QED
    BY <2>1, FS_EmptySet
<1>5. CASE i \in DOMAIN sent /\ One(i)
  <2>1. PICK e, k : e[1] \in Host /\ \A d, l : At(cable, d, l, i) <=> (d = e /\ l = k)
    BY <1>5 DEF One, OnlyAt
  <2>2. ~ Entered(i) /\ OnRing(i) = {}
    BY <1>1, <1>2, <2>1
  <2> QED
    BY <2>2, FS_EmptySet
<1>6. CASE i \in DOMAIN sent /\ Two(i)
  <2>1. PICK e, k, d, l :
            /\ e[1] \in Box /\ d[1] \in Box /\ ~ (e = d /\ k = l)
            /\ \A c, j : At(cable, c, j, i) <=> (c = e /\ j = k) \/ (c = d /\ j = l)
    BY <1>6 DEF Two, OnlyTwo
  <2>2. Entered(i)
    BY <1>1, <1>2, <1>3, <1>6, <2>1
  <2>3. OnRing(i) = {<<e, k>>, <<d, l>>} /\ <<e, k>> # <<d, l>>
    BY <1>1, <2>1
  <2>4. PICK p, q : p = <<e, k>> /\ q = <<d, l>>
    OBVIOUS
  <2>5. OnRing(i) = {p} \cup {q} /\ q \notin {p}
    BY <2>3, <2>4
  <2>6. Cardinality({p} \cup {q}) = Cardinality({p}) + 1 /\ Cardinality({p}) = 1
    BY <2>5, FS_Singleton, FS_AddElement
  <2> QED
    BY <2>2, <2>5, <2>6
<1> QED
  BY <1>4, <1>5, <1>6 DEF OnRings

\* Once a frame has entered a ring of hubs, exactly two copies of it are on the ring for
\* ever: for rings of every length, with any hosts attached and any number of frames.
THEOREM FramesGoRound == NetSpec => []TwoCopiesStay
<1>1. NetInit => NetInv /\ OnRings
  <2>1. NetInit => OnRings
    BY DEF NetInit, LanInit, OnRings
  <2> QED
    BY <2>1, NetInvInit
<1>2. NetInv /\ OnRings /\ [NetNext]_net_vars => (NetInv /\ OnRings)'
  <2>1. NetInv => NetTypes /\ TableTypes
    BY DEF NetInv, NetBase
  <2> QED
    BY <2>1, NetInvNext, OnRingsStep
<1>3. NetInv /\ OnRings => TwoCopiesStay
  <2>1. NetInv => NetTypes
    BY DEF NetInv, NetBase
  <2> QED
    BY <2>1, RingCopies DEF TwoCopiesStay
<1> QED
  BY <1>1, <1>2, <1>3, PTL DEF NetSpec
================================================================================
