------------------------------- MODULE Nat_proofs -------------------------------
(***************************************************************************)
(* Proofs about the address translator: its types, that ports below        *)
(* NAT_PORT_MAX are never shared by live mappings, and that an answer      *)
(* reaches the inner endpoint that was talked to.  All hold for any number *)
(* of hosts, lists and ports.                                              *)
(***************************************************************************)
EXTENDS Nat, FiniteSetTheorems, FunctionTheorems, WellFoundedInduction, TLAPS

(* A non-empty set of naturals has a least element.                             *)
LEMMA LeastNat ==
    ASSUME NEW S, S \subseteq Nat, S # {}
    PROVE  \E n \in S : \A k \in S : n <= k
<1> DEFINE R == OpToRel(<, Nat)
<1>1. PICK n \in S : \A k \in S : ~ (<<k, n>> \in R)
  BY NatLessThanWellFounded, WFMin
<1>2. ASSUME NEW k \in S PROVE n <= k
  <2>1. ~ (k < n)
    BY <1>1, <1>2 DEF OpToRel
  <2> QED
    BY <2>1
<1> QED
  BY <1>1, <1>2

(* list_for_each_entry finds a mapping whenever one passes the test.            *)
LEMMA FirstOfIn ==
    ASSUME NEW ms, ms \subseteq Mapping, ms # {}
    PROVE  FirstOf(ms) \in ms
<1> DEFINE S == {m.ord : m \in ms}
<1>1. S \subseteq Nat /\ S # {}
  BY DEF Mapping
<1>2. PICK n \in S : \A k \in S : n <= k
  BY <1>1, LeastNat
<1>3. \E m \in ms : \A o \in ms : m.ord <= o.ord
  BY <1>2
<1> QED
  BY <1>3 DEF FirstOf

(* getport (nat.c:44-53) returns a port of the range, which is unmarked unless  *)
(* it is NAT_PORT_MAX.                                                          *)
LEMMA GetportFresh ==
    ASSUME assigned_ports \subseteq NAT_PORT_MIN .. NAT_PORT_MAX - 1
    PROVE  /\ getport \in ExtPort
           /\ getport < NAT_PORT_MAX => getport \notin assigned_ports
<1>1. CASE FreePorts = {}
  BY <1>1, NatPorts DEF getport, ExtPort
<1>2. CASE FreePorts # {}
  <2>1. FreePorts \subseteq Nat
    BY NatPorts DEF FreePorts
  <2>2. \E p \in FreePorts : \A q \in FreePorts : p <= q
    BY <2>1, <1>2, LeastNat
  <2>3. getport \in FreePorts
    BY <1>2, <2>2 DEF getport
  <2> QED
    BY <2>3, NatPorts DEF FreePorts, ExtPort
<1> QED
  BY <1>1, <1>2

--------------------------------------------------------------------------------
(* The inductive invariant.  The port pool and the history pin the table down:  *)
(* a port below NAT_PORT_MAX that a mapping or a remote host knows is marked,   *)
(* so getport never hands it out again, and all that know it agree on the inner *)
(* endpoint.                                                                    *)
PortsMarked ==
    /\ \A m \in mappings : m.external_port < NAT_PORT_MAX => m.external_port \in assigned_ports
    /\ \A h \in heard : h.port < NAT_PORT_MAX => h.port \in assigned_ports

HistoryAgrees ==
    \A h \in heard, m \in mappings :
        h.port < NAT_PORT_MAX /\ m.external_port = h.port =>
            m.internal_ip = h.ip /\ m.internal_port = h.sport

IInv == /\ TypeOK
        /\ IsFiniteSet(mappings)
        /\ UniqueExternalPorts
        /\ PortsMarked
        /\ HistoryAgrees

(* Dropping mappings and replacing others by ones with the same endpoints keeps *)
(* what IInv says: a sweep, a tick and an update of update_time do just that.   *)
LEMMA SameEndpoints ==
    ASSUME IInv,
           NEW K, K \subseteq mappings,
           NEW F \in [K -> Mapping],
           \A m \in K : /\ F[m].external_port = m.external_port
                        /\ F[m].internal_ip = m.internal_ip
                        /\ F[m].internal_port = m.internal_port,
           mappings' = {F[m] : m \in K},
           assigned_ports' = assigned_ports, heard' = heard, up' \in BOOLEAN
    PROVE  IInv'
<1>1. TypeOK'
  BY DEF IInv, TypeOK
<1>2. IsFiniteSet(mappings)'
  <2>1. IsFiniteSet(K)
    BY FS_Subset DEF IInv
  <2>2. F \in Surjection(K, mappings')
    BY DEF Surjection
  <2> QED
    BY <2>1, <2>2, FS_Surjection
<1>3. UniqueExternalPorts'
  BY DEF IInv, UniqueExternalPorts
<1>4. PortsMarked'
  BY DEF IInv, PortsMarked
<1>5. HistoryAgrees'
  BY DEF IInv, HistoryAgrees
<1> QED
  BY <1>1, <1>2, <1>3, <1>4, <1>5 DEF IInv

(* Setting the update_time of a mapping in the table.                           *)
LEMMA TouchKeeps ==
    ASSUME IInv, NEW m \in mappings, NEW side \in Side, NEW ack \in BOOLEAN,
           mappings' = (mappings \ {m}) \cup {Touch(m, side, ack)},
           assigned_ports' = assigned_ports, heard' = heard, up' \in BOOLEAN
    PROVE  IInv'
<1> DEFINE F == [n \in mappings |-> IF n = m THEN Touch(m, side, ack) ELSE n]
<1>1. Touch(m, side, ack) \in Mapping
  BY DEF IInv, TypeOK, Touch, Mapping
<1>2. F \in [mappings -> Mapping]
  BY <1>1 DEF IInv, TypeOK
<1>3. mappings' = {F[n] : n \in mappings}
  OBVIOUS
<1>4. \A n \in mappings : /\ F[n].external_port = n.external_port
                          /\ F[n].internal_ip = n.internal_ip
                          /\ F[n].internal_port = n.internal_port
  BY DEF Touch, IInv, TypeOK, Mapping
<1> HIDE DEF F
<1> QED
  BY <1>2, <1>3, <1>4, SameEndpoints

LEMMA InitIInv == Init => IInv
  BY FS_EmptySet DEF Init, IInv, TypeOK, UniqueExternalPorts, PortsMarked, HistoryAgrees

(* The outgoing direction: either a mapping is reused, and the history gains an *)
(* entry that agrees with it, or one is made with a port nobody has seen.       *)
LEMMA TranslateOutKeeps ==
    ASSUME IInv, NEW src \in Inside, NEW sport \in Ports, NEW dst \in OutAddr,
           TranslateOut(src, sport, dst)
    PROVE  IInv'
<1> DEFINE found == MatchOut(src, sport, dst)
           m == IF found = {} THEN insert_nat_entry(src, sport, dst) ELSE FirstOf(found)
           h == [remote |-> dst, port |-> m.external_port, ip |-> src, sport |-> sport]
<1>0. TypeOK /\ IsFiniteSet(mappings) /\ UniqueExternalPorts /\ PortsMarked /\ HistoryAgrees
  BY DEF IInv
<1>1. /\ \E ack \in BOOLEAN : mappings' = (mappings \ {m}) \cup {Touch(m, "external", ack)}
      /\ assigned_ports' = IF found = {} THEN MarkPort(m.external_port) ELSE assigned_ports
      /\ heard' = heard \cup {h}
      /\ up' = up
  BY DEF TranslateOut, Acks
<1> PICK ack \in BOOLEAN : mappings' = (mappings \ {m}) \cup {Touch(m, "external", ack)}
  BY <1>1
<1> DEFINE tm == Touch(m, "external", ack)
<1>2. /\ m \in Mapping
      /\ m.internal_ip = src
      /\ m.internal_port = sport
      /\ found = {} => /\ m.external_port = getport
                       /\ m.external_port < NAT_PORT_MAX => m.external_port \notin assigned_ports
      /\ found # {} => m \in mappings
  <2>1. CASE found = {}
    <3>1. Cardinality(InBucket(hash8[dst])) \in Nat
      BY <1>0, FS_Subset, FS_CardinalityType DEF InBucket
    <3>2. hash8[dst] \in Bucket
      BY NatHash DEF OutAddr
    <3>3. /\ getport \in ExtPort
          /\ getport < NAT_PORT_MAX => getport \notin assigned_ports
      BY <1>0, GetportFresh DEF TypeOK
    <3>4. m = [bucket |-> hash8[dst], ord |-> Cardinality(InBucket(hash8[dst])),
               internal_ip |-> src, internal_port |-> sport,
               external_port |-> getport, idle |-> 0, conn |-> ZeroConn, ended |-> {}]
      BY <2>1 DEF insert_nat_entry
    <3> HIDE DEF m
    <3> QED
      BY <2>1, <3>1, <3>2, <3>3, <3>4 DEF Mapping, Conn, ZeroConn
  <2>2. CASE found # {}
    <3>1. m \in found
      BY <1>0, <2>2, FirstOfIn DEF MatchOut, TypeOK
    <3> HIDE DEF m
    <3> QED
      BY <1>0, <2>2, <3>1 DEF MatchOut, TypeOK
  <2> QED
    BY <2>1, <2>2
<1> HIDE DEF m, found
<1>3. /\ tm \in Mapping
      /\ tm.external_port = m.external_port
      /\ tm.internal_ip = src
      /\ tm.internal_port = sport
  BY <1>2 DEF Touch, Mapping, Side
<1>a. mappings' = (mappings \ {m}) \cup {tm}
  OBVIOUS
<1> HIDE DEF tm
<1>4. m.external_port \in ExtPort
  BY <1>2 DEF Mapping
<1>5. h \in Heard
  BY <1>4 DEF Heard
<1>6. TypeOK'
  <2>1. assigned_ports' \subseteq NAT_PORT_MIN .. NAT_PORT_MAX - 1
    <3>1. m.external_port < NAT_PORT_MAX =>
              m.external_port \in NAT_PORT_MIN .. NAT_PORT_MAX - 1
      BY <1>4, NatPorts DEF ExtPort
    <3>2. assigned_ports \subseteq NAT_PORT_MIN .. NAT_PORT_MAX - 1
      BY <1>0 DEF TypeOK
    <3> QED
      BY <1>1, <3>1, <3>2 DEF MarkPort
  <2> QED
    BY <1>0, <1>1, <1>3, <1>5, <1>a, <2>1 DEF TypeOK
<1>7. IsFiniteSet(mappings)'
  <2>1. IsFiniteSet(mappings \ {m})
    BY <1>0, FS_Subset
  <2> QED
    BY <1>a, <2>1, FS_AddElement
<1>8. assigned_ports \subseteq assigned_ports'
  BY <1>1 DEF MarkPort
<1>9. ASSUME NEW n \in mappings, n # m, m.external_port < NAT_PORT_MAX
      PROVE  n.external_port # m.external_port
  <2>1. CASE found = {}
    BY <1>0, <1>2, <1>9, <2>1 DEF PortsMarked
  <2>2. CASE found # {}
    <3>1. m.external_port # NAT_PORT_MAX
      BY <1>4, <1>9, NatPorts DEF ExtPort
    <3> QED
      BY <1>0, <1>2, <1>9, <2>2, <3>1 DEF UniqueExternalPorts
  <2> QED
    BY <2>1, <2>2
<1>10. UniqueExternalPorts'
  <2>1. ASSUME NEW n \in mappings', NEW o \in mappings',
               n.external_port = o.external_port, n # o
        PROVE  n.external_port = NAT_PORT_MAX
    <3>1. CASE n \in mappings \ {m} /\ o \in mappings \ {m}
      BY <1>0, <2>1, <3>1 DEF UniqueExternalPorts
    <3>2. CASE n = tm \/ o = tm
      <4>1. ~ (m.external_port < NAT_PORT_MAX)
        BY <1>a, <1>3, <1>9, <2>1, <3>2
      <4> QED
        BY <1>3, <1>4, <2>1, <3>2, <4>1, NatPorts DEF ExtPort
    <3> QED
      BY <1>a, <3>1, <3>2
  <2> QED
    BY <2>1 DEF UniqueExternalPorts
<1>11. m.external_port < NAT_PORT_MAX => m.external_port \in assigned_ports'
  BY <1>0, <1>1, <1>2 DEF MarkPort, PortsMarked
<1>12. PortsMarked'
  BY <1>0, <1>1, <1>a, <1>3, <1>8, <1>11 DEF PortsMarked
<1>13. HistoryAgrees'
  <2>1. ASSUME NEW g \in heard', NEW n \in mappings',
               g.port < NAT_PORT_MAX, n.external_port = g.port
        PROVE  n.internal_ip = g.ip /\ n.internal_port = g.sport
    <3>1. CASE g \in heard /\ n \in mappings
      BY <1>0, <2>1, <3>1 DEF HistoryAgrees
    <3>2. CASE g = h /\ n \in mappings
      <4>1. n = m
        BY <1>9, <2>1, <3>2
      <4> QED
        BY <1>2, <3>2, <4>1
    <3>3. CASE g \in heard /\ n = tm
      <4>1. CASE found # {}
        BY <1>0, <1>2, <1>3, <2>1, <3>3, <4>1 DEF HistoryAgrees
      <4>2. CASE found = {}
        BY <1>0, <1>2, <1>3, <2>1, <3>3, <4>2 DEF PortsMarked
      <4> QED
        BY <4>1, <4>2
    <3>4. CASE g = h /\ n = tm
      BY <1>3, <3>4
    <3> QED
      BY <1>1, <1>a, <3>1, <3>2, <3>3, <3>4
  <2> QED
    BY <2>1 DEF HistoryAgrees
<1> QED
  BY <1>6, <1>7, <1>10, <1>12, <1>13 DEF IInv

(* Every step keeps the invariant.                                              *)
LEMMA StepIInv == IInv /\ [Next]_vars => IInv'
<1> SUFFICES ASSUME IInv, [Next]_vars PROVE IInv'
  OBVIOUS
<1>0. TypeOK /\ IsFiniteSet(mappings)
  BY DEF IInv
<1>1. ASSUME NEW src \in Inside, NEW sport \in Ports, NEW dst \in OutAddr,
             TranslateOut(src, sport, dst)
      PROVE  IInv'
  BY <1>1, TranslateOutKeeps
<1>2. ASSUME NEW src \in OutAddr, NEW dport \in ExtPort, TranslateIn(src, dport)
      PROVE  IInv'
  <2>1. FirstOf(MatchIn(src, dport)) \in mappings
    BY <1>0, <1>2, FirstOfIn DEF TranslateIn, MatchIn, TypeOK
  <2>2. PICK ack \in BOOLEAN :
            mappings' = (mappings \ {FirstOf(MatchIn(src, dport))})
                            \cup {Touch(FirstOf(MatchIn(src, dport)), "internal", ack)}
    BY <1>2 DEF TranslateIn, Acks
  <2> QED
    BY <1>0, <1>2, <2>1, <2>2, TouchKeeps DEF TranslateIn, TypeOK, Side
<1>3. ASSUME NEW src \in OutAddr, NEW dport \in ExtPort, TranslateMiss(src, dport)
      PROVE  IInv'
  BY <1>3 DEF TranslateMiss, IInv, TypeOK, UniqueExternalPorts, PortsMarked, HistoryAgrees
<1>4. ASSUME NEW src, NEW dst, DropInvalid(src, dst)
      PROVE  IInv'
  BY <1>4 DEF DropInvalid, IInv, TypeOK, UniqueExternalPorts, PortsMarked, HistoryAgrees
<1>5. CASE nat_timeout
  <2> DEFINE F == [m \in Kept |-> Moved(m)]
  <2>1. Kept \subseteq mappings
    BY DEF Kept
  <2>2. ASSUME NEW m \in Kept
        PROVE  /\ Moved(m) \in Mapping
               /\ Moved(m).external_port = m.external_port
               /\ Moved(m).internal_ip = m.internal_ip
               /\ Moved(m).internal_port = m.internal_port
    <3> DEFINE before == {o \in Kept : o.bucket = m.bucket /\ o.ord < m.ord}
    <3>1. IsFiniteSet(before)
      BY <1>0, <2>1, FS_Subset
    <3>2. Cardinality(before) \in Nat
      BY <3>1, FS_CardinalityType
    <3>3. m \in Mapping
      BY <1>0, <2>1 DEF TypeOK
    <3>4. Moved(m) = [m EXCEPT !.ord = Cardinality(before)]
      BY DEF Moved
    <3> HIDE DEF before
    <3> QED
      BY <3>2, <3>3, <3>4 DEF Mapping
  <2>3. F \in [Kept -> Mapping]
    BY <2>2
  <2>4. mappings' = {F[m] : m \in Kept}
    BY <1>5 DEF nat_timeout
  <2>5. \A m \in Kept : F[m] = Moved(m)
    OBVIOUS
  <2>6. assigned_ports' = assigned_ports /\ heard' = heard /\ up' \in BOOLEAN
    BY <1>0, <1>5 DEF nat_timeout, TypeOK
  <2> HIDE DEF F
  <2> QED
    BY <2>1, <2>2, <2>3, <2>4, <2>5, <2>6, SameEndpoints
<1>6. CASE Tick
  <2> DEFINE F == [m \in mappings |-> Older(m)]
  <2>1. ASSUME NEW m \in mappings
        PROVE  /\ Older(m) \in Mapping
               /\ Older(m).external_port = m.external_port
               /\ Older(m).internal_ip = m.internal_ip
               /\ Older(m).internal_port = m.internal_port
    BY <1>0 DEF Older, Mapping, TypeOK
  <2>2. F \in [mappings -> Mapping]
    BY <2>1
  <2>3. mappings' = {F[m] : m \in mappings}
    BY <1>6 DEF Tick
  <2>4. \A m \in mappings : F[m] = Older(m)
    OBVIOUS
  <2>5. assigned_ports' = assigned_ports /\ heard' = heard /\ up' \in BOOLEAN
    BY <1>0, <1>6 DEF Tick, TypeOK
  <2> HIDE DEF F
  <2> QED
    BY <2>1, <2>2, <2>3, <2>4, <2>5, SameEndpoints
<1>7. CASE UNCHANGED vars
  BY <1>7 DEF vars, IInv, TypeOK, UniqueExternalPorts, PortsMarked, HistoryAgrees
<1> QED
  BY <1>1, <1>2, <1>3, <1>4, <1>5, <1>6, <1>7 DEF Next, nat_translate_packet

LEMMA AlwaysIInv == Spec => []IInv
  BY InitIInv, StepIInv, PTL DEF Spec

--------------------------------------------------------------------------------
(* The table, the pool and the history keep their types in every behaviour.     *)
THEOREM TypeCorrect == Spec => []TypeOK
<1>1. IInv => TypeOK
  BY DEF IInv
<1> QED
  BY <1>1, AlwaysIInv, PTL

(* No two live mappings share a port that getport found free, for any number of *)
(* flows, timeouts and ports: only NAT_PORT_MAX is ever shared.                 *)
THEOREM PortsAreUnique == Spec => []UniqueExternalPorts
<1>1. IInv => UniqueExternalPorts
  BY DEF IInv
<1> QED
  BY <1>1, AlwaysIInv, PTL

(* do_translation sends an answer to the inner endpoint its sender heard from,  *)
(* however late it comes.                                                       *)
THEOREM AnswersReachOpener == Spec => []ReplyReachesOpener
<1>1. IInv => ReplyReachesOpener
  <2> SUFFICES ASSUME IInv, NEW h \in heard, h.port < NAT_PORT_MAX,
                      MatchIn(h.remote, h.port) # {}
               PROVE  LET m == FirstOf(MatchIn(h.remote, h.port))
                      IN  m.internal_ip = h.ip /\ m.internal_port = h.sport
    BY DEF ReplyReachesOpener
  <2>1. MatchIn(h.remote, h.port) \subseteq Mapping
    BY DEF IInv, TypeOK, MatchIn
  <2>2. FirstOf(MatchIn(h.remote, h.port)) \in MatchIn(h.remote, h.port)
    BY <2>1, FirstOfIn
  <2> QED
    BY <2>2 DEF IInv, HistoryAgrees, MatchIn
<1> QED
  BY <1>1, AlwaysIInv, PTL
--------------------------------------------------------------------------------
(* No step takes a flow's mapping from it, but a sweep that finds it idle for   *)
(* longer than the timeout: the other steps only renew it, let it age, or move  *)
(* it up in its list.                                                           *)
LEMMA StepKeepsFlow ==
    ASSUME TypeOK, [Next]_vars, NEW k \in mappings
    PROVE  (\E n \in mappings' : SameFlow(k, n)) \/ k.idle > TCP_ESTABLISHED_TIMEOUT
<1>0. k \in Mapping
  BY DEF TypeOK
<1>1. ASSUME NEW m, NEW side, NEW ack, mappings' = (mappings \ {m}) \cup {Touch(m, side, ack)}
      PROVE  \E n \in mappings' : SameFlow(k, n)
  <2>1. CASE k = m
    <3>1. SameFlow(k, Touch(k, side, ack))
      BY <1>0 DEF SameFlow, Touch, Mapping
    <3> QED
      BY <1>1, <2>1, <3>1
  <2>2. CASE k # m
    BY <1>1, <2>2 DEF SameFlow
  <2> QED
    BY <2>1, <2>2
<1>2. ASSUME mappings' = mappings
      PROVE  \E n \in mappings' : SameFlow(k, n)
  BY <1>2 DEF SameFlow
<1>3. ASSUME NEW src \in Inside, NEW sport \in Ports, NEW dst \in OutAddr,
             TranslateOut(src, sport, dst)
      PROVE  \E n \in mappings' : SameFlow(k, n)
  BY <1>1, <1>3 DEF TranslateOut
<1>4. ASSUME NEW src \in OutAddr, NEW dport \in ExtPort,
             TranslateIn(src, dport) \/ TranslateMiss(src, dport)
      PROVE  \E n \in mappings' : SameFlow(k, n)
  BY <1>1, <1>2, <1>4 DEF TranslateIn, TranslateMiss
<1>5. ASSUME NEW src, NEW dst, DropInvalid(src, dst)
      PROVE  \E n \in mappings' : SameFlow(k, n)
  BY <1>2, <1>5 DEF DropInvalid
<1>6. CASE nat_timeout
  <2>1. CASE Expired(k)
    BY <2>1 DEF Expired
  <2>2. CASE ~ Expired(k)
    <3>0. ~ Finished(k)
      BY <1>0 DEF Finished, Mapping, Conn
    <3>1. Moved(k) \in mappings'
      BY <1>6, <2>2, <3>0 DEF nat_timeout, Kept
    <3>2. SameFlow(k, Moved(k))
      BY <1>0 DEF SameFlow, Moved, Mapping
    <3> QED
      BY <3>1, <3>2
  <2> QED
    BY <2>1, <2>2
<1>7. CASE Tick
  <2>1. Older(k) \in mappings'
    BY <1>7 DEF Tick
  <2>2. SameFlow(k, Older(k))
    BY <1>0 DEF SameFlow, Older, Mapping
  <2> QED
    BY <2>1, <2>2
<1>8. CASE UNCHANGED vars
  BY <1>2, <1>8 DEF vars
<1> QED
  BY <1>3, <1>4, <1>5, <1>6, <1>7, <1>8 DEF Next, nat_translate_packet

(* A flow keeps its external port for as long as it is used (nat.c:166), for    *)
(* any number of hosts, flows, lists and ports.                                 *)
THEOREM FlowsKeepTheirPorts == Spec => FlowKeepsPort
<1>1. IInv /\ [Next]_vars =>
        [\A m \in mappings : \/ \E n \in mappings' : SameFlow(m, n)
                             \/ m.idle > TCP_ESTABLISHED_TIMEOUT
                             \/ Over(m)]_vars
  BY StepKeepsFlow DEF IInv
<1> QED
  BY <1>1, AlwaysIInv, PTL DEF Spec, FlowKeepsPort
================================================================================
