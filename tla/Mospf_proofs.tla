------------------------------ MODULE Mospf_proofs ------------------------------
(***************************************************************************)
(* Proof that the link state database is sound: what a router knows of     *)
(* another is what one LSU of that router said, for any topology, any      *)
(* intervals, any order of delivery, failing links and crashed routers.    *)
(***************************************************************************)
EXTENDS Mospf, SequenceTheorems, TLAPS

\* LSU n of router q told of the neighbours in a.
Said(q, n, a) == n \in 0 .. sequence_num[q] - 1 /\ a = advertised[q][n + 1]

Lsu == [rid : Router, seq : Nat, ttl : Int, array : SUBSET Router]
Taken == [rid : Router, seq : Nat, ttl : Int, array : SUBSET Router, from : Router]
Entry == [seq : Nat, array : SUBSET Router]

\* The packets, whole or half handled, that their router did send ...
SaidLsu == {m \in Lsu : Said(m.rid, m.seq, m.array)}
SaidTaken == {m \in Taken : Said(m.rid, m.seq, m.array)}

\* ... and the entries that hold what q said, no earlier than in the LSU of their seq.
SaidEntry(q) == {e \in Entry : \E n \in Nat : n >= e.seq /\ Said(q, n, e.array)}

\* The number of the next LSU counts those in the history.
Numbered ==
    /\ sequence_num \in [Router -> Nat]
    /\ advertised \in [Router -> Seq(SUBSET Router)]
    /\ \A r \in Router : Len(advertised[r]) = sequence_num[r]

WiresSound == wire \in [Wires -> Seq(SaidLsu)]
HandlingSound == \A r \in Router : handling[r] = NoLsu \/ handling[r] \in SaidTaken
TablesSound ==
    /\ mospf_db \in [Router -> [Router -> Entry \cup {NoEntry}]]
    /\ \A r, q \in Router : mospf_db[r][q] # NoEntry => mospf_db[r][q] \in SaidEntry(q)
HandlingType == handling \in [Router -> Taken \cup {NoLsu}]

SoundInv == Numbered /\ WiresSound /\ HandlingType /\ HandlingSound /\ TablesSound

--------------------------------------------------------------------------------
(* sendto() puts the packet at the end of some wires.                          *)
LEMMA SendToType ==
    ASSUME NEW S, NEW w \in [Wires -> Seq(S)], NEW r, NEW to, NEW m \in S
    PROVE  SendTo(r, to, m, w) \in [Wires -> Seq(S)]
  BY AppendProperties DEF SendTo

(* The neighbours of a router are routers.                                     *)
LEMMA KnownType == ASSUME NEW r \in Router PROVE Known(r) \in SUBSET Router
  BY DEF Known, Ifaces

(* What was said stays said when more is said.                                 *)
LEMMA SaidStays ==
    ASSUME Numbered, Numbered',
           \A q \in Router : /\ sequence_num[q] <= sequence_num'[q]
                             /\ \A n \in 1 .. sequence_num[q] :
                                    advertised'[q][n] = advertised[q][n]
    PROVE  /\ \A q \in Router, n \in Nat : \A a : Said(q, n, a) => Said(q, n, a)'
           /\ SaidLsu \subseteq SaidLsu'
           /\ SaidTaken \subseteq SaidTaken'
           /\ \A q \in Router : SaidEntry(q) \subseteq SaidEntry(q)'
<1>1. \A q \in Router, n \in Nat : \A a : Said(q, n, a) => Said(q, n, a)'
  <2>1. SUFFICES ASSUME NEW q \in Router, NEW n \in Nat, NEW a, Said(q, n, a)
                 PROVE  Said(q, n, a)'
    OBVIOUS
  <2>2. sequence_num[q] \in Nat /\ sequence_num'[q] \in Nat
    BY DEF Numbered
  <2>3. n + 1 \in 1 .. sequence_num[q] /\ n \in 0 .. sequence_num'[q] - 1
    BY <2>1, <2>2 DEF Said
  <2> QED
    BY <2>1, <2>3 DEF Said
<1>2. SaidLsu \subseteq SaidLsu'
  BY <1>1 DEF SaidLsu, Lsu
<1>3. SaidTaken \subseteq SaidTaken'
  BY <1>1 DEF SaidTaken, Taken
<1>4. \A q \in Router : SaidEntry(q) \subseteq SaidEntry(q)'
  BY <1>1 DEF SaidEntry
<1> QED
  BY <1>1, <1>2, <1>3, <1>4

(* The steps that neither send an LSU of their own nor change the history.     *)
LEMMA SameHistory ==
    ASSUME UNCHANGED <<sequence_num, advertised>>
    PROVE  /\ Numbered => Numbered'
           /\ SaidLsu' = SaidLsu /\ SaidTaken' = SaidTaken
           /\ \A q : SaidEntry(q)' = SaidEntry(q)
  BY DEF Numbered, SaidLsu, SaidTaken, SaidEntry, Said

LEMMA InitSound == Init => SoundInv
<1> SUFFICES ASSUME Init PROVE SoundInv
  OBVIOUS
<1>1. Numbered
  BY DEF Init, Numbered
<1>2. WiresSound
  BY DEF Init, WiresSound, Wires
<1>3. HandlingType /\ HandlingSound
  BY DEF Init, HandlingType, HandlingSound
<1>4. TablesSound
  BY DEF Init, TablesSound
<1> QED
  BY <1>1, <1>2, <1>3, <1>4 DEF SoundInv

(* A step that leaves the history, the database and the packets alone.         *)
LEMMA OtherStepsSound ==
    ASSUME SoundInv, UNCHANGED <<sequence_num, advertised, mospf_db, wire, handling>>
    PROVE  SoundInv'
<1>1. Numbered' /\ WiresSound'
  BY SameHistory DEF SoundInv, WiresSound
<1>2. HandlingType' /\ HandlingSound'
  BY SameHistory DEF SoundInv, HandlingType, HandlingSound
<1>3. TablesSound'
  BY SameHistory DEF SoundInv, TablesSound
<1> QED
  BY <1>1, <1>2, <1>3 DEF SoundInv

(* sending_mospf_lsu_thread: the LSU says what the history is given to keep.   *)
LEMMA LsuSound ==
    ASSUME SoundInv, NEW r \in Router, sending_mospf_lsu_thread(r)
    PROVE  SoundInv'
<1> USE DEF SoundInv
<1>1. /\ sequence_num' = [sequence_num EXCEPT ![r] = @ + 1]
      /\ advertised' = [advertised EXCEPT ![r] = Append(@, Known(r))]
      /\ wire' = SendTo(r, Known(r), mospf_init_lsu(r, Known(r)), wire)
      /\ UNCHANGED <<mospf_db, handling>>
  BY DEF sending_mospf_lsu_thread
<1>2. Known(r) \in SUBSET Router
  BY KnownType
<1>3. /\ advertised[r] \in Seq(SUBSET Router)
      /\ Len(advertised[r]) = sequence_num[r] /\ sequence_num[r] \in Nat
  BY DEF Numbered
<1>4. /\ Append(advertised[r], Known(r)) \in Seq(SUBSET Router)
      /\ Len(Append(advertised[r], Known(r))) = sequence_num[r] + 1
      /\ Append(advertised[r], Known(r))[sequence_num[r] + 1] = Known(r)
      /\ \A n \in 1 .. sequence_num[r] :
             Append(advertised[r], Known(r))[n] = advertised[r][n]
  BY <1>2, <1>3, AppendProperties
<1>5. Numbered'
  BY <1>1, <1>4 DEF Numbered
<1>6. /\ SaidLsu \subseteq SaidLsu' /\ SaidTaken \subseteq SaidTaken'
      /\ \A q \in Router : SaidEntry(q) \subseteq SaidEntry(q)'
  <2>1. \A q \in Router : /\ sequence_num[q] <= sequence_num'[q]
                          /\ \A n \in 1 .. sequence_num[q] :
                                 advertised'[q][n] = advertised[q][n]
    BY <1>1, <1>4 DEF Numbered
  <2> QED
    BY <2>1, <1>5, SaidStays
<1>7. mospf_init_lsu(r, Known(r)) \in SaidLsu'
  <2> DEFINE m == mospf_init_lsu(r, Known(r))
  <2>1. m \in Lsu /\ m.rid = r /\ m.seq = sequence_num[r] /\ m.array = Known(r)
    BY <1>2, <1>3, IntervalAssumption DEF mospf_init_lsu, Lsu
  <2>2. /\ sequence_num'[r] = sequence_num[r] + 1
        /\ advertised'[r][sequence_num[r] + 1] = Known(r)
    BY <1>1, <1>3, <1>4 DEF Numbered
  <2>3. \A n, a : n = sequence_num[r] /\ a = Known(r) => Said(r, n, a)'
    BY <2>2, <1>3 DEF Said
  <2>4. \A l \in Lsu : l.rid = r /\ l.seq = sequence_num[r] /\ l.array = Known(r)
                           => l \in SaidLsu'
    BY <2>3 DEF SaidLsu
  <2> QED
    BY <2>1, <2>4
<1>8. WiresSound'
  <2>1. \A S, T : S \subseteq T => \A w \in [Wires -> Seq(S)] : w \in [Wires -> Seq(T)]
    <3>1. SUFFICES ASSUME NEW S, NEW T, S \subseteq T, NEW w \in [Wires -> Seq(S)]
                   PROVE  w \in [Wires -> Seq(T)]
      OBVIOUS
    <3>2. \A e \in Wires : w[e] \in Seq(T)
      BY <3>1, SeqMonotonic
    <3> QED
      BY <3>2
  <2> DEFINE S == SaidLsu
             T == SaidLsu'
  <2>2. S \subseteq T /\ wire \in [Wires -> Seq(S)] /\ mospf_init_lsu(r, Known(r)) \in T
    BY <1>6, <1>7 DEF WiresSound
  <2> HIDE DEF S, T
  <2>3. wire \in [Wires -> Seq(T)]
    BY <2>1, <2>2
  <2>4. wire' \in [Wires -> Seq(T)]
    BY <1>1, <2>2, <2>3, SendToType
  <2> QED
    BY <2>4 DEF WiresSound, T
<1>9. HandlingType' /\ HandlingSound'
  BY <1>1, <1>6 DEF HandlingType, HandlingSound
<1>10. TablesSound'
  BY <1>1, <1>6 DEF TablesSound
<1> QED
  BY <1>5, <1>8, <1>9, <1>10

(* What an entry becomes holds what the router said: in the LSU just received, *)
(* which is newer than the seq the entry keeps, or before.                     *)
LEMMA UpdatedSound ==
    ASSUME NEW m \in SaidLsu, NEW e, e = NoEntry \/ e \in SaidEntry(m.rid)
    PROVE  Updated(e, m) \in SaidEntry(m.rid)
<1>1. m.seq \in Nat /\ m.array \in SUBSET Router /\ Said(m.rid, m.seq, m.array)
  BY DEF SaidLsu, Lsu
<1>2. CASE e = NoEntry
  <2> DEFINE n == [seq |-> m.seq, array |-> m.array]
  <2>1. n \in Entry /\ n.seq = m.seq /\ n.array = m.array
    BY <1>1 DEF Entry
  <2>2. Updated(e, m) = n
    BY <1>2 DEF Updated
  <2>3. n \in SaidEntry(m.rid)
    BY <2>1, <1>1 DEF SaidEntry
  <2> QED
    BY <2>2, <2>3
<1>3. CASE e # NoEntry /\ e.seq < m.seq
  <2> DEFINE n == [e EXCEPT !.array = m.array]
  <2>1. e \in Entry
    BY <1>3 DEF SaidEntry
  <2>2. n \in Entry /\ n.seq = e.seq /\ n.array = m.array /\ e.seq \in Nat
    BY <2>1, <1>1 DEF Entry
  <2>3. Updated(e, m) = n
    BY <1>3 DEF Updated
  <2>4. m.seq >= n.seq
    BY <2>2, <1>1, <1>3
  <2>5. n \in SaidEntry(m.rid)
    BY <2>2, <2>4, <1>1 DEF SaidEntry
  <2> QED
    BY <2>3, <2>5
<1>4. CASE e # NoEntry /\ ~ (e.seq < m.seq)
  BY <1>4 DEF Updated
<1> QED
  BY <1>2, <1>3, <1>4

(* handle_mospf_lsu: the packet comes off a wire and goes into the database.   *)
LEMMA HandleSound ==
    ASSUME SoundInv, NEW r \in Router, NEW q \in Ifaces[r], handle_mospf_lsu(r, q)
    PROVE  SoundInv'
<1> USE DEF SoundInv
<1> DEFINE m == Head(wire[<<q, r>>])
<1>1. /\ wire[<<q, r>>] # <<>>
      /\ wire' = [wire EXCEPT ![<<q, r>>] = Tail(@)]
      /\ UNCHANGED <<sequence_num, advertised>>
      /\ \/ UNCHANGED <<mospf_db, handling>>
         \/ /\ mospf_db' = [mospf_db EXCEPT ![r][m.rid] = Updated(@, m)]
            /\ handling' = [handling EXCEPT ![r] =
                   [rid |-> m.rid, seq |-> m.seq, ttl |-> m.ttl,
                    array |-> m.array, from |-> q]]
  BY DEF handle_mospf_lsu, Receive
<1>2. q \in Router /\ <<q, r>> \in Wires
  <2>1. q \in Router \ {r} /\ {r, q} \in Links
    BY DEF Ifaces
  <2>2. {q, r} = {r, q}
    OBVIOUS
  <2> QED
    BY <2>1, <2>2 DEF Wires
<1>3. wire[<<q, r>>] \in Seq(SaidLsu)
  BY <1>2 DEF WiresSound
<1>4. m \in SaidLsu /\ Tail(wire[<<q, r>>]) \in Seq(SaidLsu)
  BY <1>1, <1>3, HeadTailProperties
<1> HIDE DEF m
<1>5. /\ m.rid \in Router /\ m.seq \in Nat /\ m.ttl \in Int /\ m.array \in SUBSET Router
      /\ Said(m.rid, m.seq, m.array)
  BY <1>4 DEF SaidLsu, Lsu
<1>6. Numbered' /\ SaidLsu' = SaidLsu /\ SaidTaken' = SaidTaken
      /\ \A p : SaidEntry(p)' = SaidEntry(p)
  BY <1>1, SameHistory
<1>7. wire' \in [Wires -> Seq(SaidLsu)]
  BY <1>1, <1>4 DEF WiresSound
<1>8. WiresSound'
  BY <1>6, <1>7 DEF WiresSound
<1>9. CASE UNCHANGED <<mospf_db, handling>>
  <2>1. HandlingType' /\ HandlingSound'
    BY <1>9, <1>6 DEF HandlingType, HandlingSound
  <2>2. TablesSound'
    BY <1>9, <1>6 DEF TablesSound
  <2> QED
    BY <2>1, <2>2, <1>6, <1>8
<1>10. CASE /\ mospf_db' = [mospf_db EXCEPT ![r][m.rid] = Updated(@, m)]
            /\ handling' = [handling EXCEPT ![r] =
                   [rid |-> m.rid, seq |-> m.seq, ttl |-> m.ttl,
                    array |-> m.array, from |-> q]]
  <2> DEFINE t == [rid |-> m.rid, seq |-> m.seq, ttl |-> m.ttl,
                   array |-> m.array, from |-> q]
             u == Updated(mospf_db[r][m.rid], m)
  <2>1. t \in SaidTaken
    <3>1. t \in Taken /\ t.rid = m.rid /\ t.seq = m.seq /\ t.array = m.array
      BY <1>2, <1>5 DEF Taken
    <3> QED
      BY <3>1, <1>5 DEF SaidTaken
  <2>2. t \in Taken
    BY <2>1 DEF SaidTaken
  <2>3. handling' = [handling EXCEPT ![r] = t]
    BY <1>10
  <2> HIDE DEF t
  <2>4. HandlingType' /\ HandlingSound'
    BY <2>1, <2>2, <2>3, <1>6 DEF HandlingType, HandlingSound
  <2>5. u \in SaidEntry(m.rid)
    BY <1>4, <1>5, UpdatedSound DEF TablesSound
  <2>6. u \in Entry
    BY <2>5 DEF SaidEntry
  <2>7. mospf_db' = [mospf_db EXCEPT ![r] = [mospf_db[r] EXCEPT ![m.rid] = u]]
    BY <1>10
  <2> HIDE DEF u
  <2>8. mospf_db' \in [Router -> [Router -> Entry \cup {NoEntry}]]
    BY <2>6, <2>7, <1>5 DEF TablesSound
  <2>9. \A p, s \in Router : mospf_db'[p][s] =
            IF p = r /\ s = m.rid THEN u ELSE mospf_db[p][s]
    BY <2>7, <1>5 DEF TablesSound
  <2>10. TablesSound'
    BY <2>5, <2>8, <2>9, <1>6 DEF TablesSound
  <2> QED
    BY <2>4, <2>10, <1>6, <1>8
<1> QED
  BY <1>1, <1>9, <1>10

(* The second part of handle_mospf_lsu sends on what was received.             *)
LEMMA ForwardSound ==
    ASSUME SoundInv, NEW r \in Router, Forward(r)
    PROVE  SoundInv'
<1> USE DEF SoundInv
<1> DEFINE m == handling[r]
           n == [rid |-> m.rid, seq |-> m.seq, ttl |-> m.ttl - 1, array |-> m.array]
<1>1. /\ m # NoLsu
      /\ wire' = SendTo(r, Onward(r, m), n, wire)
      /\ handling' = [handling EXCEPT ![r] = NoLsu]
      /\ UNCHANGED <<sequence_num, mospf_db, advertised>>
  BY DEF Forward
<1>2. m \in SaidTaken
  BY <1>1 DEF HandlingSound
<1>3. n \in SaidLsu
  <2>1. /\ m.rid \in Router /\ m.seq \in Nat /\ m.ttl \in Int /\ m.array \in SUBSET Router
        /\ Said(m.rid, m.seq, m.array)
    BY <1>2 DEF SaidTaken, Taken
  <2>2. n \in Lsu /\ n.rid = m.rid /\ n.seq = m.seq /\ n.array = m.array
    BY <2>1 DEF Lsu
  <2> QED
    BY <2>1, <2>2 DEF SaidLsu
<1>4. Numbered' /\ SaidLsu' = SaidLsu /\ SaidTaken' = SaidTaken
      /\ \A p : SaidEntry(p)' = SaidEntry(p)
  BY <1>1, SameHistory
<1>5. SendTo(r, Onward(r, m), n, wire) \in [Wires -> Seq(SaidLsu)]
  BY <1>3, SendToType DEF WiresSound
<1>6. WiresSound'
  BY <1>1, <1>4, <1>5 DEF WiresSound
<1>7. HandlingType' /\ HandlingSound'
  BY <1>1, <1>4 DEF HandlingType, HandlingSound
<1>8. TablesSound'
  BY <1>1, <1>4 DEF TablesSound
<1> QED
  BY <1>4, <1>6, <1>7, <1>8

(* A link that fails empties two wires.                                        *)
LEMMA CutSound ==
    ASSUME SoundInv, NEW l \in Links, Cut(l)
    PROVE  SoundInv'
<1> USE DEF SoundInv
<1>1. /\ wire' = [e \in DOMAIN wire |-> IF {e[1], e[2]} = l THEN <<>> ELSE wire[e]]
      /\ UNCHANGED <<sequence_num, advertised, mospf_db, handling>>
  BY DEF Cut
<1>2. wire' \in [Wires -> Seq(SaidLsu)]
  BY <1>1 DEF WiresSound
<1>3. Numbered' /\ WiresSound'
  BY <1>1, <1>2, SameHistory DEF WiresSound
<1>4. HandlingType' /\ HandlingSound'
  BY <1>1, SameHistory DEF HandlingType, HandlingSound
<1>5. TablesSound'
  BY <1>1, SameHistory DEF TablesSound
<1> QED
  BY <1>3, <1>4, <1>5

--------------------------------------------------------------------------------

(* The database of every router holds, for each other one, what one LSU of that *)
(* one said, whole, and not older than the first LSU heard (handle_mospf_lsu,   *)
(* mospf_daemon.c), however LSUs are delayed, sent on, overtaken or lost.       *)
THEOREM DatabaseIsSound == Spec => []DbSound
<1>1. SoundInv /\ [Next]_vars => SoundInv'
  <2> SUFFICES ASSUME SoundInv, [Next]_vars PROVE SoundInv'
    OBVIOUS
  <2>1. ASSUME NEW r \in Router, Threads(r) PROVE SoundInv'
    <3>1. CASE sending_mospf_hello_thread(r)
      BY <3>1, OtherStepsSound DEF sending_mospf_hello_thread
    <3>2. CASE checking_nbr_thread(r)
      BY <3>2, OtherStepsSound DEF checking_nbr_thread
    <3>3. CASE sending_mospf_lsu_thread(r)
      BY <3>3, LsuSound
    <3> QED
      BY <2>1, <3>1, <3>2, <3>3 DEF Threads
  <2>2. ASSUME NEW r \in Router, Main(r) PROVE SoundInv'
    BY <2>2, HandleSound, ForwardSound DEF Main
  <2>3. CASE Tick
    BY <2>3, OtherStepsSound DEF Tick
  <2>4. ASSUME NEW l \in Links, Cut(l) PROVE SoundInv'
    BY <2>4, CutSound
  <2>5. CASE UNCHANGED vars
    BY <2>5, OtherStepsSound DEF vars
  <2> QED
    BY <2>1, <2>2, <2>3, <2>4, <2>5 DEF Next
<1>2. SoundInv => DbSound
  <2> SUFFICES ASSUME SoundInv, NEW r \in Router, NEW q \in Router, mospf_db[r][q] # NoEntry
               PROVE  \E n \in mospf_db[r][q].seq .. sequence_num[q] - 1 :
                          mospf_db[r][q].array = advertised[q][n + 1]
    BY DEF DbSound
  <2>1. mospf_db[r][q] \in SaidEntry(q) /\ sequence_num[q] \in Nat
    BY DEF SoundInv, TablesSound, Numbered
  <2>2. PICK n \in Nat : n >= mospf_db[r][q].seq /\ Said(q, n, mospf_db[r][q].array)
    BY <2>1 DEF SaidEntry
  <2>3. mospf_db[r][q].seq \in Nat
    BY <2>1 DEF SaidEntry, Entry
  <2> QED
    BY <2>1, <2>2, <2>3 DEF Said
<1> QED
  BY <1>1, <1>2, InitSound, PTL DEF Spec
================================================================================
