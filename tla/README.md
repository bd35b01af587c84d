# A verification project for the computer network labs

The repository holds the programs of a computer network course: each directory
`NN-name` is one lab, a C program that runs on the nodes of an emulated network
(mininet) and implements one protocol on raw frames. This project models the
protocols and the threads that run them in TLA+, model-checks them with TLC on
small networks, and proves the central ones with TLAPS for every network.

## 1. The system

### Parts, their state and their operations

| Part | Source | State | Operations | What makes it correct |
|---|---|---|---|---|
| Letter count | `03-socket` | buffers of a master and two workers | split, count, add up | the sum is that of the file |
| Hub | `04-broadcast` | none | send a frame on every other interface | a frame is neither lost nor doubled by one hub |
| Learning switch | `05-switching` | a table of slots: address, port, time | look up, insert, sweep, forward | frames reach their addressee, once, and nobody else when the way is known |
| Spanning tree | `06-stp` | root, cost and root port of a switch; the config of each port; the hello timer | handle a config, hello | all switches settle on one root and a tree; costs are real |
| Router | `08-router` | routing table, ARP cache with pending packets | forward, answer ARP, ICMP errors, sweep | a packet is sent or its sender told |
| Prefix trees | `09-lookup` | a binary and a multi-bit trie | insert, search | the search is longest prefix match |
| NAT | `10-nat` | 256 lists of mappings, the port pool | translate in and out, time out | ports are not shared, answers reach the host that asked |
| Link state database | `11-mospf` | neighbours of each interface, database, sequence number | hello, LSU, flooding, time a neighbour out | the databases become those of the network, floods end |
| Route computation | `12-mospf` | lab 11's database with ages, the graph, the routing table | Dijkstra, routes, ageing | the routes are shortest |
| Host IP | `15-tcp_stack` (labs 16, 17 have the same) | routing table, ARP cache with pending packets | send, forward, answer pings, ICMP errors, sweep | a packet is in one place, segments leave in order |
| ARP cache | `12-mospf` (lab 11 has the same) | table of mappings, list of requests with their packets | look up, append, insert, sweep | no packet is lost, sent twice, or waits for ever |
| TCP connections | `15-tcp_stack` | socks with reference counts in three tables, listen and accept queues, wait structs, timer list | connect, listen, accept, close, segments, TIME_WAIT | the calls return, counts are exact, both sides close |
| TCP data | `16-tcp_stack` | as above and a receive buffer | read, write | the stream arrives in order, once, and nobody sleeps on data |
| Receive buffer | `16-tcp_stack/include/ring_buffer.h` | head, tail, bytes | read, write | a bounded queue |
| TCP with retransmission | `17-tcp_stack` | as above with send and out-of-order lists | retransmit, reorder | - (see section 5) |

The labs build on each other by copying files: the frame input and output, the
lists, ARP, IP and ICMP of one lab come back in the next with small changes. A
module models one copy, the one its header names.

### How the parts interact, and what is hard

Every program has a main thread that takes one frame after the other from the
interfaces (`ustack_run`) and calls the handler of its protocol. Beside it run
threads that sleep and sweep: the MAC table, the ARP cache, the NAT table,
neighbours, hellos and LSUs, TIME_WAIT. The TCP labs add an application thread
that calls the socket functions. Programs on different nodes meet by frames only.

What is hard to test in this, and what the modules are for:

* **threads without locks**: `tcp_process` decides on a state it read before the
  application changed it; `tcp_sock_close` sends its FIN before it changes the
  state; `handle_mospf_lsu` walks over neighbours another thread frees;
* **test, then act**: `iface_send_packet_by_arp` looks up and then appends, the
  applications test for data and then sleep;
* **messages that crossed or are old**: configs of switches, LSUs that come round
  a ring by two ways, answers that come after a NAT mapping expired;
* **limits**: the NAT's port pool, the ARP table, the ring buffer, sequence
  numbers that wrap;
* **things that must happen**: switches settle, databases agree, packets leave,
  calls return.

`PROJECT.json` lists these as hazards, each at its line, with the properties that
would show it going wrong.

## 2. Modules and code

| Module | Models | State of the module and the code's |
|---|---|---|
| `Lan` | links, hosts and frames around labs 04 and 05 | `net` the network (of `Nets`), `cable` the frames on each direction of a link in order, `sent`, `got` history |
| `Hub` | `04-broadcast/main.c` | none of its own; `handle_packet` |
| `Switch` | `05-switching/mac.c, main.c` | `hash_table` the slots of each switch, `hash8` the slot of each address (chosen from `Hashes`), `now` the clock; `known` history |
| `LanSystem` | composes `Lan` with `Hub` (`INSTANCE`) or `Switch` | theirs; every box of a network runs one of the two programs |
| `Stp` | `06-stp/stp.c`, `stp_timer.c` | `stp[s]`, `ports[s]`, `active[s]` the timer, `wire` |
| `Router` | `08-router` | `rtable` as parsed from what the kernel hands over, `entries`, `req_list`, `pkt` the packet between lookup and append, `lock` of the cache, `todo`, `sent`, `crashed` |
| `PrefixTree` | `09-lookup/src` | the two trees as functions from paths (the leaf-pushed one into a heap of objects, because it shares them), the compressed vectors, the last answer of the three |
| `Nat` | `10-nat/src/nat.c` | `mappings` with list, place in it and idle time, `assigned_ports`, `up` the process lives; `heard`, and of a mapping `ended` (the sides that have closed), history |
| `Mospf` | `11-mospf/src/mospf_daemon.c` | `nbr_list`, `sequence_num`, `mospf_db`, `handling` the LSU between the two halves of its handler, `due` the threads whose second has come, `phase`, `time`, `cut` links, `crashed` routers; bounds `MAX_LSU`, `LATE`, `MAX_CUTS`, `CUT_ROOM` |
| `MospfRoutes` | `12-mospf/mospf_daemon.c` | one router: `nbr_list`, `mospf_db` with ages and in order, `rtable`, `mospf_lock`, `calc` the last computation, `crashed` |
| `ArpCache` | `12-mospf/arpcache.c, arp.c`, `icmp.c` | `entries`, `req_list`, `pkt[t]` the packet a thread holds between lookup and append, `pkt_list` the packets the sweep gave up, `todo`, `sent`, `reported` |
| `HostIp` | `15-tcp_stack/ip.c, icmp.c, arp.c, arpcache.c, rtable.c` | `rtable`, `entries`, `req_list`, `pkt[t]` of three threads, `pkt_list`; `out`, `sent`, `ended`, `reported`, `raced` history |
| `TcpBase` | segments, flags, comparison of sequence numbers | none |
| `TcpHandshake` | `15-tcp_stack/tcp_sock.c, tcp_in.c, tcp_timer.c, tcp_apps.c` | `sk` the socks of each host, `lsn` the listening one, `app`, `main` where the threads are, `net`, `up`, `restarts`; `raced` history |
| `TcpStream` | the same files of `16-tcp_stack` | one sock per host with its receive buffer, `backlog`, `app`, `main`, `net`; `wrote`, `got`, `early` history |
| `RingBuffer` | `ring_buffer.h` | `head`, `tail`, `buf`; `got` what the last read returned |
| `ByteQueue` | what the ring buffer promises | a sequence |

`MC*` modules give topologies and small sets; `*_proofs` modules hold the theorems.
`MCLinkLayer` puts `LanSystem` and `Stp`, and `MCDataStructures` puts `PrefixTree` and
`RingBuffer`, side by side: the two parts do not interact, and in each behaviour one of
them runs (`layer`, `structure`) while the other keeps its initial state.
Definitions carry the names of the functions they model. A definition whose comment
starts with "Mutant" is the form a plausible bug would give to the definition that
follows it; it shows that a property can fail and is used by no specification.

A handler that runs under one lock for its whole length is one step. A handler that
does not is split where another thread can see it half-way:

* `handle_mospf_lsu` (lab 11): the database is updated in one step, and the walk over
  the neighbours is another (`Forward`); a neighbour that `checking_nbr_thread` frees
  in between is a choice: the freed memory is still readable, or the process ends.
* `iface_send_packet_by_arp` and `arpcache_append_packet` (lab 12) are two steps of
  either thread.
* lab 08 (`Router`): the lookup and the append are two steps of the main thread; the
  sweep holds the lock while it sends an ICMP error whose lookup takes the same lock,
  which is not recursive, so `lock` stays "sweep" and every later step that needs it is
  disabled.
* lab 12 (`MospfRoutes`): each handler and thread holds `mospf_lock` from begin to end
  and is one step. `handle_mospf_lsu` returns without unlocking when the router's own LSU
  comes back (`mospf_lock` is then "kept"), and `caculate_rtable_thread` runs to where it
  stops: an assertion, the loop at line 515 that does not end, or its end when the
  database is empty. The distances and the predecessors it had computed by then are in
  `calc`. What lies behind the end of an entry's array (`nadv` may be stale) is any value.
* labs 15, 16 (`HostIp`): lookup and append are two steps of each of three threads.
* `tcp_process` (lab 15): `Receive` finds the sock and reads its state, `Process` acts
  on what was read. `CloseFin` sends the FIN, `CloseState` changes the state.
* lab 16 adds: `Write` advances `snd_nxt`, `Emit` sends; `Process` stores bytes,
  `WakeReader` wakes and `Acknowledge` sends the ACK, so that the woken reader may read,
  write and send before it; `ReadTest` tests, `ReadWoken` sleeps until notified, `ReadTake`
  reads.

Data is kept as far as properties tell it apart. An address is the node that owns it, a
packet its identity, source and next hop, an LSU its origin, number, TTL and links, a
bulk of bytes one byte. Sequence numbers keep their arithmetic: they live in
`0 .. SEQ_MOD - 1` and `less_than_32b` compares the sign of the difference, as
`include/tcp.h` does with 32 bits. Time is what the code compares: seconds since an
entry was used, or the number of sweeps.

## 3. Runs

| Run | Network and bounds | States | Checks |
|---|---|---|---|
| `link_layer` | the ring of hubs of `loop_node.py` with two hosts and one frame; or two switches and three hosts, with three frames and a slot per address, or two frames and a slot shared with broadcast; or the ring of four switches of `four_node_ring.py` running lab 06 | 1.25 M | `TwoCopiesStay`; `NotLost`, `Once`, `Private`; `CostsAreReal`, `LeastIsRoot` |
| `stp_ring` (violation) | the ring of four switches, one config on a link at a time | 14 820 | `AllAgree` |
| `router` | two interfaces, addresses of 3 bits, two routing tables, four packets (forwarded, TTL used up, ping, no way back) | 44 892 | `PacketsConserved`, `NoneWaitsForKnown`, `SentRight`, `LeavesOrStops` |
| `data_structures` | the trees over addresses of 4 bits, files of up to five of seven prefixes in every order; or a ring buffer of four cells, two byte values, chunks of up to three | 182 415 | `SingleNeverWrong`, `LongestAtLeaves`, `CvLikeMul`; `IsQueue`: the buffer implements `ByteQueue` |
| `nat` | two inner hosts, one outside, an unroutable address, two lists, ports 1 to 3, one flow that may be closed by FINs | 201 612 | `UniqueExternalPorts`, `ReplyReachesOpener`, `FlowKeepsPort`, `IdleFlowsGo` |
| `mospf` | three routers in a ring, one link may fail, four LSUs, of which the first may be late | 569 890 | `DbSound`, `ConsistentOrCrashed`, `FloodsEnd` |
| `mospf_routes` | router 1 of the ring of `topo.py`, two LSUs of each other router and its own, five packets in any order | 133 460 | `ComputesRight`, `Forgets` |
| `mospf_no_route` (violation) | the same | - | `RoutesAreMade` |
| `arp_cache` | three packets, two slots, three hosts and a dead one, timeout 2, two retries | 175 790 | `PacketsConserved`, `NoneWaitsForKnown`, `PacketsLeave` |
| `host_ip` | two segments, one packet that comes in, two routing tables, two slots, two retries | 185 693 | `InOrder`, `OnePlace`, `Rests` |
| `tcp_handshake` | two hosts, numbers modulo 16, one restart of a process | 86 633 | `RefCountExact`, `AcksOnlyWhatWasSent`, `OrderlyClose`, `AcceptReturns`, `CloseEnds` |
| `tcp_stream` | two rounds of the echo, numbers modulo 32 | 109 594 | `StreamIntegrity`, `NoLostWakeup`, `AcksOnlyWhatWasSent`, `WriteReturns` |

What they show, in words:

* **link_layer**. In a ring of hubs each frame that enters is on the ring in exactly two
  copies for ever, one each way: the broadcast storm the report describes, and no worse
  (copies do not multiply). Between switches frames cross while both learn, in every
  order. No frame is lost or delivered twice as long as every address has a slot of its
  own; with a shared slot, only frames *to* a host that shares it can be lost. A frame
  whose way was known by all switches when it was sent reaches nobody else.
  Whatever configs cross on the links of lab 06, no switch believes in a way that does
  not exist, and the least switch never yields.
* **stp_ring**. The others need not follow it: the ring may settle with two switches that
  each take themselves for the root (section 6).
* **router**. A packet, or the one ICMP message made for it, is held once or was sent
  once; nothing waits for an address the table has, although `arpcache_insert` returns
  early; everything goes out by the longest route that covers it, the default route never
  being one. Packets leave, or the router has stopped: by the lock its sweeping thread
  waits for, or by an ICMP message to a source without a route.
* **data_structures**. The binary tree gives the longest prefix or a blank node that
  insertion made on the way to a longer one. The two-bit tree gives the longest prefix to
  every address that ends in a leaf insertion made; the places leaf pushing fills share
  objects it goes on writing to, and may show another subtree's prefix. The compressed tree
  gives the same as the two-bit one. For every position of head and tail, and every
  amount, the ring buffer is a queue.
* **nat**. Two live flows never share a port the pool handed out, an answer that comes
  at any later time reaches the endpoint that opened the flow or nobody, a flow in use
  keeps its port until both sides have closed it, an idle one is swept.
* **mospf**. Every entry is one LSU its origin really sent, not older than the first
  one heard, also when an older LSU comes by a slow link after a newer one; floods
  end; and in the end every router knows the links of the router that advertises, also when a link failed and its neighbours had to be timed out. The
  exception is the race in `handle_mospf_lsu`, which may end a process.
* **mospf_routes**. Whenever the assertions of the computation hold, its distances are
  the shortest and its predecessors lead along links; they fail exactly when an LSU names
  a router without an entry or an entry is of a router no link leads to. What is not
  renewed is forgotten, unless the router has stopped.
* **mospf_no_route**. No route comes of a computation whose assertions hold: the loop
  that collects the routes does not end (section 6).
* **host_ip**. A packet of a host, or the one ICMP error made for it, is in one place.
  Segments leave in order, except the one whose answer comes between its lookup and its
  append. The cache comes to rest, but for the errors a host makes for packets of its own:
  each goes to the host itself and is given up in its turn, for ever.
* **arp_cache**. A packet to forward is at each moment in exactly one place, and in the
  end sent or its sender told, whenever the answer comes.
* **tcp_handshake**, **tcp_stream**. With the threads interleaved at every point where
  they share a sock: reference counts are exact, a side never acknowledges what was not
  sent, `connect` and `accept` return unless the SYN came before the server listened, no
  wake-up is lost, and what is read is a prefix of what was written. A closed sock
  reaches CLOSED, and a write returns, but for the races named in section 6: `raced` and
  `early` record exactly these.

### Why the bounds are enough

* `link_layer`, `stp_ring`, `mospf`: small networks with a cycle, which is where copies of a
  message arrive by two ways and meet older ones; for lab 06 the repository's own ring. In
  `Stp` a hello is not put on a link that carries `ROOM` configs; answers always are.
  In `Lan` a hub waits while a host has `HOST_ROOM` frames to read. This removes longer backlogs and no order of delivery; without it both are infinite (hellos are sent
  whether or not the last ones were answered). The theorems about `Stp` and `LanSystem`
  hold for all values of the two.
* `link_layer` (switches): three frames are a question, an answer, and one that crosses both.
  Two are enough for a frame led astray by the entry of a shared slot. `MAX_TIME` and `MAC_PORT_TIMEOUT` make an entry older than its timeout.
* `mospf`: one router advertises. The LSUs of a router touch the entries of that router
  only, so several are independent, apart from the neighbours they list, which change
  with hellos and not with LSUs. The intervals keep the order of `mospf_proto.h` (hello <
  neighbour timeout < LSU), and every phase of the LSU timer is an initial state. An LSU
  that waits for ARP comes seconds late, so until `LATE` LSUs were sent those on one link may
  stay there while time passes, and an older one arrives after a newer one. `MAX_LSU` is
  large enough for the timeout of a neighbour after a failure at any moment of the first
  period (`CUT_ROOM`), and two LSUs after it. In a ring of three a flood ends at the router
  it came from before its TTL does: that half of the test at `mospf_daemon.c:264` is in the
  model, and no run reaches the TTL's end.
* `nat`: three ports and two inner hosts reach the exhausted pool; two lists reach a
  mapping moved up in its list; a timeout of one second is passed and not passed. The flow of
  `Closing` is closed from either side, or both, and goes on, while others share its list.
* `arp_cache`: two slots for three hosts fill the table; two retries are one that is not
  the last and one that is.
* `router`: addresses of 3 bits have routes of every relation to each other (longer
  before shorter, disjoint, default); one retry and one sweep of age are the last ones.
* `data_structures`: leaf pushing reaches from one subtree into another only with two
  subtrees that have a route and children each and a route above both; the seven prefixes
  have that, in every order of insertion. Two levels are the least with a node between the
  root and a leaf. With four cells a chunk of three starts at every offset of the ring buffer
  and wraps at each; the theorem below covers all sizes.
* `mospf_routes`: five packets are one more than the entries of the ring, so an entry is
  renewed or a neighbour's LSU is stale; the database timeout is passed and not passed.
* `host_ip`: two segments and one other packet are the least with which something
  overtakes, in a cache of two slots with two neighbours.
* TCP: the initial numbers straddle the middle and the end of the number space, so the
  signed comparison wraps during a connection. `TCP_DEFAULT_WINDOW` keeps its relation
  to what the applications send. `MaxRestarts` is the one restart that leaves the other
  side with a sock of a former connection.

### Fairness

Weak fairness is assumed of a thread's next step only: the threads are loops without
exit that the kernel schedules, and a step that stays enabled is taken. Time passes
(`Tick`). Nothing is assumed of the world: hosts need not send, links need not fail,
neighbours need not answer, processes need not be restarted. `Stp` has weak fairness for the handler of each port, for
the same reason: a config that has arrived stays until it is read. `LanSystem`, `PrefixTree`
and `RingBuffer` have safety properties only and no fairness. `MospfRoutes` needs it for
its two timeout threads only, `HostIp` for the sweeping thread and for a send that was
begun. Deadlock is checked where the
system never stops (`stp_ring`, `mospf`) and not where it may: all frames and
packets delivered, connections closed, a process dead or waiting for its own lock.

## 4. Theorems

All theorems hold for every value of the constants that satisfies the assumptions
named in the module that declares them.

**`Nat_proofs`** (assumptions `NatPorts`: `NAT_PORT_MIN <= NAT_PORT_MAX`, naturals;
`NatTimeout`; `NatHash`: the hash maps outside addresses to lists; `NatRouting`: the
address sets are disjoint).

* `TypeCorrect`, `PortsAreUnique` (`UniqueExternalPorts`), `AnswersReachOpener`
  (`ReplyReachesOpener`), `FlowsKeepTheirPorts` (`FlowKeepsPort`, an action property, of
  flows that not both sides have closed:
  `StepKeepsFlow` goes through the actions, from the types alone).
* Neither of the two invariants is inductive: a new mapping could take a port that a remote host
  still remembers from a mapping long gone. The inductive invariant adds `PortsMarked`
  (a port below `NAT_PORT_MAX` that a mapping or a remote host knows is marked in the
  pool, and so is never handed out again) and `HistoryAgrees` (all that know a port agree
  on its inner endpoint), and that the table is finite, which the choice of the first
  mapping of a list needs. `SameEndpoints` covers sweeps, ticks and reuse at once.
  The argument rests on `nat_timeout` never giving a port back: that is what makes late
  answers safe, and also what exhausts the pool.

**`LinkLayer_proofs`, the spanning tree** (assumptions: ids are positive naturals; a link joins ports of two
different switches, a port has one link, and the ports of a switch are numbered from 1).

* `TypeCorrect`, `WaysAreReal` (`CostsAreReal`), `LeastStaysRoot` (`LeastIsRoot`), for
  every topology and every order of delivery.
* The invariant says of each switch that its cost is the length of a walk to the root it
  names (`StpOK`), of each port that it holds a real config of its own or of its peer
  (`PortOK`), of each wire that it carries real configs of the switch at its end
  (`WireOK`), and pins down the least switch with all of its ports (`LeastOK`). That a
  port's config comes from its peer is what makes the walk one link longer a walk
  (`WalkStep`) when it is taken through that port.

**`LinkLayer_proofs`, hubs and learning switches** (assumptions: `LanAssumption`, a network
is finite, a link joins two nodes and a host has one link; `ConnectedAssumption`, it is in
one piece; `TreeAssumption`, each link between switches parts it in two, hubs may form
cycles; `NameAssumption`, no host has the broadcast address or the name of an empty or a
freed slot; `HashAssumption`, `TimeAssumption`, `BoundAssumption`: types). All four
invariants of `LanSystem` are proved, for any number of frames and any `HOST_ROOM`.

* `FramesAreNotLost` (`NotLost`). With hubs, `Spreads`: the nodes that a frame has reached
  are left only over cables that carry it, so when no cable does, they are all nodes. With
  switches a link `<<a, b>>` has two sides; `Side(a, b)` is the least set with `b` that no
  other link leaves, and the sides nest (`SideNested`) and are apart (`SideApart`).
  `TablesRight` says that an entry of a host with a slot of its own points to the side the
  host is on, and that the switch it points to has such an entry too, and of a frame that
  the switch it left knows its source, and the switch it goes to does or
  will learn it from the right side. The second half is what makes the first one
  inductive: a frame that was sent astray by someone else's entry may come to a switch
  from the wrong side, and is then already known there. `Arrives`: to each addressee that
  has no copy, one is moving.
* `FramesStayPrivate` (`Private`). `KnownWays`: entries are never removed (`SweepFacts`:
  `sweep_aged_mac_port_entry` subtracts in the wrong order, so nothing ages), so a frame
  whose destination all switches know only enters links to switches or to its destination.
* `FramesComeOnce` (`Once`). `NoTurns` adds: a frame moves away from its source
  (`Outward`); where it moves away from its destination, the switch ahead does not
  know that, and no frame from there precedes it on the cable (`Away`); the copies of a
  frame have disjoint parts of the tree before them (`Apart`), in which no host has it
  (`Fresh`). `Away` is the heart: the next switch would otherwise learn the destination
  just before the frame comes, and send it back.
* `FramesGoRound` (`TwoCopiesStay`). `OnRings`: a frame is at one place on a cable from a
  host and at none on the ring, or at none of the former and at two of the latter. A hub
  in a ring has two neighbours that are hubs, so it makes two copies of what
  comes from a host and one of what comes from a hub; `Passes` says which places the frames
  have after it read.

**`UnderTcp_proofs`** (of `HostIp`: the host's address is no neighbour's, the kernel routes
the host's own subnet over its interface (`SubnetAssumption`), packets that come have ids
of their own and come from elsewhere, bounds are positive naturals; of `RingBuffer`: the
size is a positive natural, chunks are sequences of bytes, sizes asked for are naturals).

* `PacketsAreInOnePlace` (`OnePlace`) and `SegmentsLeaveInOrder` (`InOrder`), for any
  segments, packets, neighbours and routes, any size of the cache and every interleaving of
  the application, the main and the sweeping thread.
* `BaseInv` is what both rest on: a hop has one request and what waits in it goes there
  (`OneRequest`, `RightRequest`); a packet to the host itself, or with a segment's number,
  comes from the host (`Types`); each thread holds only what it may (`Holds`: the
  application its last segment, the main thread none, the sweeping thread of a segment only
  the error). On top of it `Tracked` says of each id that it is in exactly one of the places
  a packet can be in, once, and that no two requests share it; `OwnInv` that the error for
  one of the host's own packets is held somewhere once the packet was given up, since it goes
  to the host itself and can never leave (`MeUnknown`: no neighbour answers for the host).
* For the order, `OrderInv` adds that a request holds the segments to a host in the order of
  their numbers and behind those that were sent to it (`RequestOrder`), each unless its id is
  in `raced`; and that a segment that waits although its hop is known, in a request or in the
  application's hands, is one of those (`RequestOrder`, `AppOrder`). The last is what the
  lookup of the next segment needs: it goes past only what has been marked.
* Each action is taken apart into the few things it does to the state (`Goes` sends or
  hands to the thread, an append, a flush, a sweep), and a lemma for each says what it keeps.
* `RingTypeCorrect`, and `RingIsQueue` (`IsQueue`): the ring buffer is a queue of `size - 1`
  bytes. The refinement mapping reads `used` cells from `head` on; lemmas say what the
  modulus does to two indices less than `size` apart, and that a write changes only free
  cells.

**`ArpCache_proofs`** (assumptions: the router's address is no neighbour's, packets go
to other addresses, bounds are positive naturals).

* `TablesAgree` (`NoneWaitsForKnown`) and `PacketsAreConserved` (`PacketsConserved`), for
  any packets, slots, timeouts and retries.
* For the first the invariant adds `OneRequest` (a hop has one request: `arpcache_insert`
  takes only one out of the list, so a second one would stay behind a mapping that is
  there), `MainUnknown` (what the main thread looked up in vain stays unknown until it
  appends it, because only the main thread inserts) and `SweepSendsErrors` (the thread whose
  lookup can be overtaken sends errors only).
* For the second it adds, of every packet to be forwarded, that it is in one of five places
  (with the main thread, in a request, given up, sent, reported) once it has come and in
  none before, that no two requests share it, and that it is once in its request and once
  in what was sent (`Tracked`). Without the last two an answer could send it twice.

**`Router_proofs`** (assumptions: interfaces have addresses and names of their own,
neighbours are addresses; the kernel hands over finitely many routes over its devices, with
masks of at most `W` bits; packets have their own ids and a TTL of 8 bits; sizes and timeouts
are naturals).

* `PacketsAreConserved` (`PacketsConserved`), `NoneIsLeftBehind` (`NoneWaitsForKnown`),
  `SentByTheLongestRoute` (`SentRight`), for every routing table, any packets and
  neighbours, any size of the cache and any number of retries.
* `MatchIsLongest` says what the loop of `longest_prefix_match` computes: a
  longest of the routes that cover the address, the default route aside, or nothing. It is an induction over the list, done
  with the set of the lengths for which the claim holds and the least number outside it
  (`LeastNatural`, `UpTo`); the recursion of `BestOf` has a solution by the same argument
  (`WalkExists`).
* The inductive invariant `Inv`: every packet the router handles was forwarded or made of a
  packet that came in, has a route and lives (`Types`); a request holds packets that go its
  way only (`Requests`), what was sent went its way (`Sent`); what the main thread looked up
  in vain is unknown (`Unknown`); the packets held and those sent are apart, no two have one
  id, and each packet that came in has one (`Conserved`). `Requests` is what makes the
  packets that an answer sends, and those that stay in the list, different ones.

**`Mospf_proofs`** (assumptions: a link joins two routers, routers advertise; intervals and
the TTL are positive naturals, bounds are naturals).

* `DatabaseIsSound` (`DbSound`), for any number of routers and links, any order of delivery,
  failing links and crashed routers.
* The invariant follows an LSU: the number of the next one counts those a router has sent
  (`Numbered`), and an LSU on a wire (`WiresSound`), one between the two halves of its
  handler (`HandlingSound`) and an entry (`TablesSound`) say what their router once said.
  An entry may be newer than its number says: the handler renews the links of an entry and
  leaves its number, so the invariant is about some LSU of that number or a later one.

**`TcpHandshake_proofs`** (assumptions of `TcpBase`, `IssAssumption`).

* `AlwaysTyped`, and `CountsAreExact` (`RefCountExact`), for every window, all initial
  sequence numbers and any number of restarts.
* A sock is put into tables and taken out by the main thread, the application and the
  timer, each on its own view of the state. The invariant `Parts` ties
  the state of a sock to where its application is (`SocksOK`: a sock in one of the closing
  states, and one whose timer runs, belongs to an application that has closed it), and the
  state the main thread has read to the sock it will change (`MainOK`: a thread that has read
  a closing state finds the timer off, so the TIME_WAIT timer is set once although
  `tcp_process` decides on a state that may be stale). `ListenOK` and `AppOK` say that
  the socks the queues and the applications refer to exist; `accept_backlog` is counted twice in
  the code, and the queue is yet not empty when `accept` dequeues.
* `AcksAreHonest` (`AcksOnlyWhatWasSent`) and `ClosesInOrder` (`OrderlyClose`): as the
  properties say, for connections without restarts. They need a second invariant, `Conn`, on top of `Parts`.
  While the connection opens (`Opening`) there is at most one SYN or one SYN|ACK under way, and
  the sock that has not answered yet knows nothing of its peer. Once both socks exist
  (`Linked`) an end has sent its SYN and, perhaps, its FIN, so each number is one of two
  neighbours on the circle, and the arithmetic that is needed is that `a` and `a + 1` differ and that
  `a` is behind `a + 1`. `Flow` says that the segments of a pipe, with
  the one in the hands of the main thread in front, are in order with respect to the FIN: those from before it,
  then those from it on; a segment that acknowledges a FIN is there only if that FIN was
  received. `EndOK` and `HandOK` tie this to the states of the socks and to what the
  threads have read: a sock that is closed, unhashed or in TIME_WAIT, and a RST, only exist
  when both ends are done (`Done`), so a reset cannot cut off what was not received. With
  a restart the pipes hold segments of two connections with the same 4-tuple and `Conn`
  says nothing, as the two properties do.

**`TcpStream_proofs`** (assumptions of `TcpBase`, `StreamAssumption`).

* `AlwaysTyped`, `WakeupsAreNotLost` (`NoLostWakeup`), `StreamsAreIntact`
  (`StreamIntegrity`) and `AcksAreHonest` (`AcksOnlyWhatWasSent`), for every window, all
  initial sequence numbers and any number of rounds, of which there is one at least (as in
  the loop of `tcp_client`) and which fit in the window, three bytes each.
* `NoLostWakeup` is inductive with the types. `StreamIntegrity` needs the whole protocol:
  `is_tcp_seq_valid` only asks that a segment touches the window and bytes are stored as they
  come, so their order rests on each host having one bulk under way. `Flight` says where it is (in the hands
  of the application, on the wire, with the main thread of the peer, stored and not
  acknowledged, its ACK on the way back, or notified) and what the peer has stored compared
  with what was written in each of these. The ACK of the handshake is an ACK that no bulk
  caused, and could be taken for that of the first bulk: `Blank`, `Child` and `HandshakeAck`
  say that it is ahead of the data and is used up before `accept` returns. After the
  client's FIN less is needed and less is true (`ClosedInv`): a bulk of the server may be
  dropped.
* `AcksOnlyWhatWasSent` does not follow from the order of the bytes: `rcv_nxt` is taken from
  every segment with an ACK that touches the window, the ones that overtake data and those
  of the closing included. `Numbers` says that an end has used
  the numbers from the one after its SYN on, one for each byte written and each FIN, that
  `snd_nxt` is the last of them, and that all its peer can know of (segments on
  the wire, with the main thread, in the hands of the application, and `rcv_nxt`) ends at
  one of these. A comparison on the circle is right while they are at most half of
  it: `Lengths` counts the bytes (the client writes one a round, the server two at most for
  each it reads), `Fins` the FINs. The client may send three (one from `tcp_sock_close`, one
  entering LAST_ACK and one entering TIME_WAIT), because `tcp_process` decides on a state it
  read before. `Greeting` is the handshake in four phases; it is needed because
  a reset carries sequence number 0, whatever its sender has used, and a sock in SYN_SENT would take
  `rcv_nxt` from it: in that state there is only the SYN|ACK to receive.

### What is model-checked only

Liveness (`AllAgree`, which fails, `LeavesOrStops`, `IdleFlowsGo`, `ConsistentOrCrashed`,
`FloodsEnd`, `Forgets`, `PacketsLeave`, `Rests`, `AcceptReturns`, `CloseEnds`,
`WriteReturns`) is outside the prover's reach, as is anything with ENABLED. `PrefixTree`
uses RECURSIVE operators (the walks over the trees), which the prover does not take, and
`MospfRoutes` compares a computation with a definition by recursion over the graph. All
other invariants and action properties of the runs are theorems.

## 5. Not modelled

* `03-socket`: two blocking exchanges on kernel sockets and a count of letters. The
  master keeps no state but its buffers; what can go wrong is what one `recv` returns
  (`master.c:103` takes it for the whole answer), which is the kernel's choice.
* `17-tcp_stack`: the lists of sent and of out-of-order packets are never initialised,
  so the first SYN follows a null pointer. There is no behaviour after it to check.
* The copies of IP, ICMP, ARP and the routing table in labs 11, 16 and 17: the same files
  as in labs 12 and 15, which `ArpCache` and `HostIp` model. The TCP modules take the wire
  between the two hosts as reliable and in order, which is what the labs' topologies give;
  labs 15 and 16 have no retransmission.
* Frame input and output, reading of interfaces and routes from the kernel, checksums,
  lists, logging; the emulated networks (`*.py`), reports and slides.

Left out of the modelled parts: `nat_table_destroy` and `stp_destroy` (the process ends),
closing a listening sock (no application does), hosts that move between switches, two
interfaces in one subnet, operations nobody calls (`arpcache_destroy`,
`remove_rt_entry`, `clear_rtable`, `Pleafpush`), the text of addresses in lab 09
(`StrToIp` reads one byte past its array), `run_application` handing a thread the address of a variable of
its own stack frame. The ports of bound socks are not compared, because
`tcp_port_in_use` never finds one in use (`15-tcp_stack/tcp_sock.c:170` walks the table
through the wrong list member).

## 6. Where code and text disagree

Two runs show a claim of a report violated:

* `stp_ring`, `AllAgree`: `06-stp/stp.c:169` looks for the root port among the alternate
  ports only, so a better config that comes in through the root port makes the switch take
  itself for the root, and two switches may settle on a root of their own in the ring of
  `four_node_ring.py`. The report (`DesignDocument.tex:166`) says that in the end all nodes
  agree on the root.
* `mospf_no_route`, `RoutesAreMade`: the loop at `12-mospf/mospf_daemon.c:515` tests `i` where it
  means `j` and does not end, so lab 12 makes no route. The report
  (`DesignDocument.tex:44`, `:196`) says that the routes are generated after a while.

Where a property repeats what the repository says of itself, it names the case in which
that fails:

* `CloseEnds`: the FIN of `tcp_sock_close`
  (`15-tcp_stack/tcp_sock.c:376`) can be answered before the state is FIN_WAIT_1, and
  FINs that cross have no transition; the client then stays half closed. `raced` is set in
  exactly these steps; without it `CloseEnds` fails, while the comment at
  `tcp_sock.c:359` promises that the state becomes closed.
* `WriteReturns`: data that comes before `accept` made the sock ESTABLISHED
  (`16-tcp_stack/tcp_in.c:211`) is dropped without an ACK and the client sleeps in
  `tcp_sock_write`; the comment at `tcp_in.c:158` promises an ACK. `early` is set there.
* `SentRight`, `LeavesOrStops`: in lab 08 a default route never matches (`ip.c:38`), and
  the sweeping thread waits for the lock it holds (`arpcache.c:202`).
* `LongestAtLeaves`: elsewhere the two-bit tree of lab 09 may give a shorter prefix than the
  longest, or another subtree's: `prefixTree.cpp:390` hangs one object in several places
  and writes to it later, while the report (`DesignDocument.tex:36`, `:118`) speaks of the
  longest match and of prefixes pushed down to the leaves.
* `FlowKeepsPort`, `IdleFlowsGo`: the FINs of lab 10 have no effect. The comment at
  `10-nat/src/nat.c:66` and the report (`DesignDocument.tex:136`) have a finished flow removed
  at once; `nat.c:159` tests fields of `conn` that nobody writes, so the branch is dead and the
  mapping stays until it was idle. `Nat` has the FINs (`ended`) and the branch (`Finished`);
  `FlowKeepsPort` allows the removal that the report describes, and no behaviour makes it.

Others, visible in the modules and their behaviours, for which no run is kept:

* `10-nat/src/nat.c:163`: a timeout does not give the port back; the comment at line 144
  says it frees the port (`ReplyReachesOpener` rests on it). When the pool is used up `NAT_PORT_MAX` is shared.
* `06-stp/stp.c:182`: a root port may lead by a longer way than another; `stp.c:232`: a
  port that is not designated answers a config equal to its own, so answers are answered
  (the comment at line 230 speaks of a designated port).
* `05-switching/mac.c:127`: `visited - now` is never positive, so entries do not age (the
  report has them age after 30 s); `mac.c:47`: the slot is taken for the address.
* `15-tcp_stack/icmp.c:53`: the error for a packet of the host itself goes to the host
  itself and is given up like it, for ever.
* `12-mospf/arpcache.c:103`: with a full table the entry written is `entries[-1]`.
  `arpcache.c:192`: an ICMP error that cannot be delivered is itself reported, to the
  router's own address, for ever.
* `15-tcp_stack/tcp_sock.c:314`: `accept_backlog` is counted twice; `tcp_in.c:59`: a
  segment with RST and ACK establishes a connection; `tcp_timer.c:24`: a sock stays in
  `established_table` after TIME_WAIT.
* `16-tcp_stack/tcp_apps.c:129`: a notification nobody slept for ends a later sleep, and
  a read returns no bytes; `tcp_sock.c:388`: as in lab 15, closing does not always end.

## 7. Sources of doubt

* Undefined behaviour is a choice of outcomes only where a module says so (`Mospf`'s
  freed neighbour, a segment without a sock in `TcpHandshake`).
* An unlocked field is taken to be read and written at once, which holds for aligned
  words on the machines the labs run on.
* `Switch` takes handling of a frame as one step; the sweeping thread cannot
  change what the packet thread looks up, because no entry ever ages.
* The sequence number of an LSU is 16 bits wide on the wire. `SeqAssumption` keeps the number
  of LSUs a router sends below 65 536, for the proof as for the run: at one every 30 s the
  number wraps after 22 days, when the comparison would take the new LSUs for old ones.
* `ArpCache` has the main and the sweeping thread. In lab 12 `sending_mospf_lsu_thread`
  (`mospf_daemon.c:241`) goes through the cache too, with LSUs of the router's own; the
  properties are about packets that are forwarded, which that thread never holds. In
  `HostIp` three threads use the cache.
* `Router` keeps what was sent as a set of packets and interfaces: a second copy on the same
  interface would not be seen by `PacketsConserved` there; `ArpCache` counts copies.
* Some eventualities have an escape that is itself one of the hazards (`LeavesOrStops`,
  `Forgets`, `CloseEnds`, `WriteReturns`, `AcceptReturns`). The hazard list says so where it
  is the case; the property shows that there is no other way not to get there.

## 8. Plan

All labs that have a behaviour to check are modelled, apart from lab 03. What is left:

1. An abstract specification of the stream (two queues and an end) that `TcpStream`
   implements for the reading side, and of ARP resolution for `ArpCache` and `HostIp`.
