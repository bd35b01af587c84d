------------------------------- MODULE MospfRoutes ------------------------------
(***************************************************************************)
(* The mOSPF daemon of lab 12 (12-mospf/mospf_daemon.c): lab 11's exchange *)
(* of hellos and LSUs, a database whose entries time out, and a thread     *)
(* that computes routes from it.                                           *)
(*                                                                         *)
(* This is one router and whatever reaches it.  The handlers and the five  *)
(* threads hold mospf_lock from begin to end, so each is one step; the     *)
(* lock is a variable because handle_mospf_lsu may return with it.  The    *)
(* packets a step sends leave the model; the ones that come in are any of  *)
(* a given set, in any order, again and again, up to a bound.              *)
(***************************************************************************)
EXTENDS Integers, Sequences, FiniteSets, SequencesExt

CONSTANTS
    Self,           \* the router's id
    Rid,            \* the ids of the other routers
    Ifaces,         \* its interfaces, each by the router at the other end
    Lsus,           \* the LSUs that may come: [rid, seq, array], array a sequence
                    \* of [rid, subnet], rid 0 where a subnet has no router
    OwnSubnets,     \* subnets of the routes it starts with: [subnet, gw]
    HELLOINT, DB_TIMEOUT,
    MAX_IN,         \* bound: packets that come in
    MAX_SEQ         \* bound: LSUs it sends

MAX_INT == 255
None == 0           \* no router, no node
Unknown == -1

ASSUME RidAssumption == Self \notin Rid /\ Ifaces \subseteq Rid /\ None \notin Rid \cup {Self}
ASSUME LsuAssumption ==
    \A m \in Lsus : m.rid \in Rid \cup {Self} /\ m.seq \in Nat
ASSUME BoundAssumption ==
    HELLOINT \in Nat /\ DB_TIMEOUT \in Nat \ {0} /\ MAX_IN \in Nat /\ MAX_SEQ \in Nat

VARIABLES
    nbr_list,       \* nbr_list[q]: seconds since q's last hello, or Unknown
    sequence_num,   \* of its next LSU
    mospf_db,       \* the entries, in their order: [rid, seq, nadv, array, age]
    rtable,         \* the routes: [subnet, gw]
    mospf_lock,     \* "free" or "kept"
    crashed,        \* the process has ended
    calc,           \* the last computation: [Node, Edges, ok, Dist, Prev]
    in              \* packets that came in

vars == <<nbr_list, sequence_num, mospf_db, rtable, mospf_lock, crashed, calc, in>>

NoCalc == [Node |-> <<>>]
Locked == ~ crashed /\ mospf_lock = "free"

--------------------------------------------------------------------------------
(* Hellos and LSUs                                                             *)

\* A hello from router q, known or not.
handle_mospf_hello(q) ==
    /\ Locked /\ in < MAX_IN /\ in' = in + 1
    /\ nbr_list' = [nbr_list EXCEPT ![q] = 0]
    /\ UNCHANGED <<sequence_num, mospf_db, rtable, mospf_lock, crashed, calc>>

\* One second of the neighbours.
checking_nbr_thread ==
    /\ Locked
    /\ nbr_list' = [q \in Ifaces |->
           IF nbr_list[q] = Unknown \/ nbr_list[q] > 3 * HELLOINT THEN Unknown
           ELSE nbr_list[q] + 1]
    /\ UNCHANGED <<sequence_num, mospf_db, rtable, mospf_lock, crashed, calc, in>>

\* The router's own LSU goes to its neighbours.
sending_mospf_lsu_thread ==
    /\ Locked /\ sequence_num < MAX_SEQ
    /\ sequence_num' = sequence_num + 1
    /\ UNCHANGED <<nbr_list, mospf_db, rtable, mospf_lock, crashed, calc, in>>

\* A newer LSU replaces the array and the time of an entry, its seq and nadv stay.
Renewed(e, m) == [e EXCEPT !.array = m.array, !.age = 0]

NewEntry(m) ==
    [rid |-> m.rid, seq |-> m.seq, nadv |-> Len(m.array), array |-> m.array, age |-> 0]

\* The router's own LSU that came back: the handler returns and keeps the lock.
OwnLsu(m) ==
    /\ m.rid = Self /\ sequence_num > m.seq
    /\ mospf_lock' = "kept" /\ UNCHANGED mospf_db

OthersLsu(m) ==
    LET here == {i \in DOMAIN mospf_db : mospf_db[i].rid = m.rid}
    IN  /\ m.rid # Self
        /\ mospf_db' = IF here = {} THEN Append(mospf_db, NewEntry(m))
                       ELSE [i \in DOMAIN mospf_db |->
                                IF i \in here /\ mospf_db[i].seq < m.seq
                                THEN Renewed(mospf_db[i], m) ELSE mospf_db[i]]
        /\ UNCHANGED mospf_lock

\* An LSU comes in, and goes on to the neighbours of the other interfaces.
handle_mospf_lsu(m) ==
    /\ Locked /\ in < MAX_IN /\ in' = in + 1
    /\ OwnLsu(m) \/ OthersLsu(m)
    /\ UNCHANGED <<nbr_list, sequence_num, rtable, crashed, calc>>

\* Mutant: = for >=.
TimedOut_exactly(k) == IF k = DB_TIMEOUT THEN BOOLEAN ELSE {FALSE}

\* Whether `now - add_time >= DB_TIMEOUT' in the pass that makes the age k: clocks of
\* whole seconds differ by k-1 or k.
TimedOut(k) == IF k > DB_TIMEOUT THEN {TRUE} ELSE IF k = DB_TIMEOUT THEN BOOLEAN ELSE {FALSE}

\* Ages are counted as far as they matter.
Older(age) == IF age > DB_TIMEOUT THEN age ELSE age + 1

\* One second of the database: with an entry that goes, all routes through a
\* gateway go.
checking_database_thread ==
    /\ Locked
    /\ \E out \in [DOMAIN mospf_db -> BOOLEAN] :
          LET older == [i \in DOMAIN mospf_db |-> [mospf_db[i] EXCEPT !.age = Older(@)]]
          IN  /\ \A i \in DOMAIN out : out[i] \in TimedOut(older[i].age)
              /\ mospf_db' = FlattenSeq([i \in DOMAIN older |->
                                            IF out[i] THEN <<>> ELSE <<older[i]>>])
              /\ rtable' = IF \E i \in DOMAIN out : out[i]
                           THEN {r \in rtable : r.gw = None} ELSE rtable
    /\ UNCHANGED <<nbr_list, sequence_num, mospf_lock, crashed, calc, in>>

--------------------------------------------------------------------------------
(* The computation of routes                                                   *)

\* Node[1] is the router itself, the others have an entry each.
Nodes == <<Self>> \o [i \in DOMAIN mospf_db |-> mospf_db[i].rid]

\* The routers an entry names.  Where nadv is more than the array has, what lies
\* behind it is read.
Names(e, junk) ==
    {IF i <= Len(e.array) THEN e.array[i].rid ELSE junk : i \in 1 .. e.nadv} \ {None}

\* caculate_graph: the pairs <<named, naming>>, as indices of Node.
Index(node, rid) == {i \in DOMAIN node : node[i] = rid}
Edges(node, junk) ==
    UNION {UNION {Index(node, q) \X {i + 1} : q \in Names(mospf_db[i], junk)} :
              i \in DOMAIN mospf_db}

\* get_Node's assertion.
AllKnown(junk) ==
    \A i \in DOMAIN mospf_db : Names(mospf_db[i], junk) \subseteq ToSet(Nodes)

Graph(edges, i, j) ==
    IF <<i, j>> \in edges \/ <<j, i>> \in edges THEN 1 ELSE IF i = j THEN 0 ELSE MAX_INT

\* The first unvisited node of the least distance; none if all have MAX_INT.
Min_dist(s, n) ==
    {i \in 1 .. n :
        /\ ~ s.Visited[i] /\ s.Dist[i] < MAX_INT
        /\ \A j \in 1 .. n : s.Visited[j] \/ s.Dist[i] < s.Dist[j]
                                \/ (s.Dist[i] = s.Dist[j] /\ i <= j)}

\* Dijkstra, its loop from the k-th pass on; ok is false when Min_dist's assertion
\* fails.
Start(edges, n) ==
    [Dist |-> [i \in 1 .. n |-> IF i = 1 THEN 0 ELSE Graph(edges, 1, i)],
     Prev |-> [i \in 1 .. n |-> IF Graph(edges, 1, i) \in {0, MAX_INT} THEN None ELSE 1],
     Visited |-> [i \in 1 .. n |-> i = 1],
     ok |-> TRUE]

\* Mutant: the comparison is missing.
Relaxed_any(s, u, edges, n) ==
    LET nearer(v) == ~ s.Visited[v] /\ v # u /\ Graph(edges, u, v) > 0
    IN  [s EXCEPT !.Visited[u] = TRUE,
                  !.Dist = [v \in 1 .. n |-> IF nearer(v) THEN s.Dist[u] + Graph(edges, u, v)
                                             ELSE @[v]],
                  !.Prev = [v \in 1 .. n |-> IF nearer(v) THEN u ELSE @[v]]]

\* Node u is visited: what is nearer through it is taken.
Relaxed(s, u, edges, n) ==
    LET nearer(v) == /\ ~ s.Visited[v] /\ v # u /\ Graph(edges, u, v) > 0
                     /\ s.Dist[u] + Graph(edges, u, v) < s.Dist[v]
    IN  [s EXCEPT !.Visited[u] = TRUE,
                  !.Dist = [v \in 1 .. n |-> IF nearer(v) THEN s.Dist[u] + Graph(edges, u, v)
                                             ELSE @[v]],
                  !.Prev = [v \in 1 .. n |-> IF nearer(v) THEN u ELSE @[v]]]

Dijkstra(edges, n) ==
    LET pass[k \in 0 .. n - 1] ==
          IF k = 0 THEN Start(edges, n)
          ELSE LET s == pass[k - 1]
                   u == Min_dist(s, n)
               IN  IF ~ s.ok \/ u = {} THEN [s EXCEPT !.ok = FALSE]
                   ELSE Relaxed(s, CHOOSE i \in u : TRUE, edges, n)
    IN  pass[n - 1]

\* Whether the loops that sort Dist_rank end: the inner one tests i, which it does not
\* change.
SortEnds(n) == \A i \in 0 .. n - 2 : i = n - i - 1

\* A subnet some entry has, and the table has not.  (Where a path was found, its route
\* is written through iface_addr, which is NULL.)
Missing == \E i \in DOMAIN mospf_db : \E j \in DOMAIN mospf_db[i].array :
              \A r \in rtable : r.subnet # mospf_db[i].array[j].subnet

\* caculate_rtable_thread.  An assertion ends the process; the loop that does not end
\* keeps the lock, or runs out of the arrays and ends it.
caculate_rtable_thread ==
    /\ Locked
    /\ \E junk \in Rid \cup {Self, None} :
          LET n == Len(Nodes)
              edges == Edges(Nodes, junk)
              d == Dijkstra(edges, n)
              ok == AllKnown(junk) /\ d.ok
          IN  /\ calc' = [Node |-> Nodes, Edges |-> edges, ok |-> ok, known |-> AllKnown(junk),
                          Dist |-> d.Dist, Prev |-> d.Prev]
              /\ \/ ~ ok /\ crashed' = TRUE /\ UNCHANGED mospf_lock
                 \/ /\ ok /\ ~ SortEnds(n)
                    /\ \/ crashed' = TRUE /\ UNCHANGED mospf_lock
                       \/ mospf_lock' = "kept" /\ UNCHANGED crashed
                 \/ /\ ok /\ SortEnds(n)
                    /\ crashed' = (Missing /\ \E i \in 1 .. n : d.Prev[i] # None)
                    /\ UNCHANGED mospf_lock
    /\ UNCHANGED <<nbr_list, sequence_num, mospf_db, rtable, in>>

--------------------------------------------------------------------------------
Init ==
    /\ nbr_list = [q \in Ifaces |-> Unknown]
    /\ sequence_num = 0
    /\ mospf_db = <<>>
    /\ rtable = OwnSubnets
    /\ mospf_lock = "free" /\ crashed = FALSE
    /\ calc = NoCalc /\ in = 0

Threads ==
    \/ checking_nbr_thread
    \/ checking_database_thread
    \/ sending_mospf_lsu_thread
    \/ caculate_rtable_thread

Next ==
    \/ Threads
    \/ \E q \in Ifaces : handle_mospf_hello(q)
    \/ \E m \in Lsus : handle_mospf_lsu(m)

\* Each thread that times something out runs on, once it gets the lock.
Spec == Init /\ [][Next]_vars /\ WF_vars(checking_nbr_thread)
             /\ WF_vars(checking_database_thread)

--------------------------------------------------------------------------------
(* Properties                                                                  *)

\* Nodes within k links of the router.
Within(k) ==
    LET ball[i \in 0 .. k] ==
          IF i = 0 THEN {1}
          ELSE ball[i - 1] \cup {v \in DOMAIN calc.Node : \E u \in ball[i - 1] :
                                    <<u, v>> \in calc.Edges \/ <<v, u>> \in calc.Edges}
    IN  ball[k]

\* The distances are the shortest, and Prev leads back to the router along links, one
\* step nearer each time; the assertions of get_Node and Min_dist fail exactly when an
\* LSU names a router without an entry, or an entry is of a router no links lead to.
ComputesRight ==
    calc # NoCalc =>
        LET n == Len(calc.Node)
            whole == Within(n) = 1 .. n
        IN  /\ calc.ok <=> calc.known /\ whole
            /\ calc.ok => \A v \in 2 .. n :
                 /\ v \in Within(calc.Dist[v]) /\ v \notin Within(calc.Dist[v] - 1)
                 /\ LET u == calc.Prev[v]
                    IN  /\ u \in 1 .. n /\ calc.Dist[u] + 1 = calc.Dist[v]
                        /\ <<u, v>> \in calc.Edges \/ <<v, u>> \in calc.Edges

\* "generate the route entries according to the shortest paths"
\* (report/DesignDocument.tex:44) and "after a while, the route entries can be generated"
\* (:196): a computation whose assertions hold comes to its end, and then every subnet
\* of the database has a route.
RoutesAreMade ==
    [][calc' # calc /\ calc'.ok =>
          /\ ~ crashed' /\ mospf_lock' = "free"
          /\ \A i \in DOMAIN mospf_db : \A j \in DOMAIN mospf_db[i].array :
                \E route \in rtable' : route.subnet = mospf_db[i].array[j].subnet]_vars

Stopped == crashed \/ mospf_lock = "kept"

\* What is not renewed is forgotten, unless the router has stopped: by its own LSU that
\* came back, or in the computation of routes.
Forgets == <>[](Stopped \/ (mospf_db = <<>> /\ \A q \in Ifaces : nbr_list[q] = Unknown))
================================================================================
