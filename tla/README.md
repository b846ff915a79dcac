# Verification of the CSCI 551 labs

The repository holds the labs of a networking course. Four of its programs
have state and control worth a model: the software router of lab 1, the POX
server it is connected to, the user-level TCP (cTCP) of lab 3, and the library
that runs cTCP. This directory
holds TLA+ models of them, the TLC runs that check the models on small
instances, and TLAPS proofs of the results that hold for every instance.

`PROJECT.json` relates every definition to the source lines it translates, and
lists the runs, the mutants that show a run can fail, the hazards, the findings
and the theorems.

## The system

| Component | Source | State it keeps | Operations | Module |
|---|---|---|---|---|
| ARP cache and request queue | `lab1/router/sr_arpcache.c`, parts of `sr_router.c` | cache slots (valid, age), the list of ARP requests, each with its frames, `sent` and `times_sent`; a recursive mutex | lookup, queuereq, insert, arpreq_destroy; the sweeper thread; `process_arpreq` | `ArpCache` |
| Router: forwarding and ICMP | `sr_router.c` | none of its own; reads the table, the interfaces and the cache | `sr_handlepacket`, `process_ip_packet`, `process_arp_packet`, `send_fabricated_icmp_packet` | `Forwarding` |
| Routing table, interfaces | `sr_rt.c`, `sr_if.c`, `sr_main.c` | two lists, built once | load, add, verify, destroy | read by `Forwarding` |
| VNS client | `sr_vns_comm.c`, `sr_main.c` | socket, progress of the session, interfaces | connect, authenticate, `sr_handle_hwinfo`, read a frame, `sr_send_packet`, SIGINT | `VnsSession`; the address check of `sr_send_packet` is in `Forwarding` |
| POX handlers | `pox_module/cs144/srhandler.py`, `ofhandler.py` | clients, interfaces, port maps; no lock | hear the switch, broadcast frames; accept, authenticate and inform routers | `VnsSession` |
| cTCP endpoint | `lab3/ctcp.c` | two segment lists, sequence numbers, window counters, connection state | `ctcp_read`, `ctcp_receive`, `ctcp_output`, `ctcp_timer`, `ctcp_destroy`, `send_segment` | `Ctcp` |
| BBR estimator | `ctcp_bbr.c` | mode, gains, estimates | `on_ack_bbr_state_chk`; the samples of `ctcp_receive`, the look at the minimum of `ctcp_timer` | `Bbr`; its results are input of `Ctcp` |
| cTCP system library | `ctcp_sys_internal.c` | list of connections, output queues, poll flags, `new_connection` | `do_loop`, handshake, `conn_*`, unreliable `conn_send` | `CtcpServer` (the list), `CtcpIO` (input and output), `CtcpConnect` (handshake, filters, numbers); `conn_send` is in `Ctcp` |
| Lab 0 controller, lab 2 scripts, testers | `lab0`, `lab2`, `tester` | none, or configuration files | start-up, flooding, parsing of output | not modelled |

**Interactions.** The router has two threads. The packet thread takes frames
from the VNS socket one after the other; the sweeper wakes every second, ages
the cache and goes through the requests. Both call `process_arpreq`, the sweeper
with the lock and the packet thread without it. A router meets other routers and
hosts only through frames. POX has two threads as well: its own hears the switch
and broadcasts its frames to the connected routers, the reactor's answers the
routers. A cTCP process has one thread: `do_loop` hands input,
segments, room for output and timeouts to `ctcp.c`, which calls back into the
library (`conn_input`, `conn_send`, `conn_output`, `conn_remove`). Two processes
meet through segments that may be lost, duplicated and delayed.

**What is hard.** In the router: the two threads on one request queue, pointers
that outlive the lock, answers that arrive while a request is given up, routing
loops with ICMP errors about ICMP errors, masks compared in network byte order.
In POX: lists that one thread walks over while the other changes them, clients
that are on the list before they are greeted and after they are gone.
In cTCP: numbering at the time of queueing, a window that changes under queued
data, retransmission racing the answer, 16-bit counters, FINs that are neither
numbered nor repeated. In the library: several clients that come and go within
one turn of the loop, objects freed while they are walked over; output that is
queued because its reader is slow, and a flag that must bring the loop back to
it; processes on one host that hear each other's packets, and ports that are
used again. In BBR: a minimum and a maximum taken from samples at one place and
looked at, later, at another.

**What makes each part correct.** Cache: no frame is forgotten, forwarded twice,
or both forwarded and reported unreachable; a request's counter tells the truth;
a next hop is not given up early. Router: longest prefix, one fate for each
packet, no silent loss, addresses that tell the truth, loops that end. Session:
whole hardware information, no gap in the frames, an end only for the reason the
code has. Endpoint:
the peer's output is the input, once and in order, and all of it. Library: the
list holds the live connections, only ACKs are discarded as ACKs, every byte
received is written, queued or refused, and what `ctcp_receive` is given belongs
to its session. BBR: estimates on the safe side, modes in their order, each left.

## Modules

### `ArpCache`, `ArpService`, `ArpCacheProofs`

`ArpCache` has one action per stretch of code between two accesses to shared
memory. `Receive`, `Queue`, `Reply` and `Flush` are the packet thread in
`process_ip_packet`, `process_arp_packet` and `sr_arpcache_insert`; `SweepStart`,
`SweepNext` and `SweepDone` are the sweeper; `ReadSent` to `sr_arpreq_destroy`
are `process_arpreq`, taken by either thread (`Process(t)`). `times_sent =
times_sent + 1` is a load and a store. `Tick` is the clock. A request freed under
a thread is undefined behaviour: `UseFreed` lets the thread fall out of
`process_arpreq` or the process abort, and `ub` records it.
`ArpService` is what the cache promises: every frame has one fate, and an answer
releases all frames that wait for it. `Fate` is the refinement mapping.

### `Forwarding`, `ForwardingProofs`

A network of routers and hosts. One frame is one action (`Handle`), because the
VNS connection hands a router one frame at a time; what happens between the
threads of one router is `ArpCache`'s subject. `best_match` is the loop over the
table with its comparison of masks as little-endian integers; `Refuse`,
`Forward`, `Enqueue`, `AnswerForMe` are the exits of `process_ip_packet`;
`AnswerArp` and `Flushed` those of `process_arp_packet`; `Fabricated` and
`Answer` are `send_fabricated_icmp_packet`; `GiveUp` is the sweeper's report.
An address is the set of its 1 bits, a card stands for an interface with its
MAC, a checksum is right or wrong. Hosts, LANs and their users are external.

### `Ctcp`, `CtcpStream`, `CtcpProofs`

Two endpoints and the network. `Fill`, `Gate`, `Send`, `SendDone` are the loop
of `send_segment`, which sleeps and busy-waits between two segments, so that
each turn is an action; `ctcp_read`, `ReadPiece`, `ReadEof` are the reading;
`Receive`, `ReceiveFin`, `ReceiveAfterFin`, `Ack`, `ReceiveData` are
`ctcp_receive`; `ctcp_output` and `ctcp_timer` keep their names. `Lose`,
`Duplicate` and `Delay` are the options of `conn_send`. Bytes are numbered,
sizes scaled down, `uint16_t` and `unsigned int` counters wrap at `Wrap16` and
`Wrap32`. The window and the bandwidth-delay product that BBR computes are any
member of `Cwnds` and `Bdps`; the timer may find any segment overdue.
`CtcpStream` is the promise in one direction: what is written is a prefix of
what was typed, and the end comes after all of it. `Overtaken` and `Held` name
the two ways in which the bandwidth-delay product makes the code break it: a FIN
sent past data that the product holds back, and such data held for good.

### `CtcpServer`, `CtcpList`, `CtcpServerProofs`

The server's loop and its clients. A turn has the stages stdin, socket, timer
and delete. The list of `conn_t` objects is kept with its pointers: `next`, and
`prev` as the object whose `next` it points to, or `Stack` for the address of
`conn_add`'s local variable. `NewClient` is `tcp_new_connection` with `conn_add`,
`DiscardAck` the branch for handshake ACKs, `Segment` the call of
`ctcp_receive` reduced to what decides about destruction, `DeleteNext` one turn
of `delete_all_connections` with `conn_free`. A use of a freed state, or a write
through the dangling `prev`, goes on or ends the process (`crashed`). `CtcpList` is
what the list amounts to without its pointers: a set and its newest member, from
which members leave one at a time, and with the newest all of them.

### `CtcpIO`, `CtcpIOProofs`

What the library does between a connection and whoever reads its output: the
terminal, which all clients of a server share, or a program for each client
(`run_program`). `Poll` takes the answer of `poll()`, and what the loop does with
it comes afterwards, one action at a time: `DrainEnter`, `DrainWrite` (one
`write()`) and `DrainError` are `conn_drain`; `Programs` and the terminal's part
of `Poll` are `ctcp_read` as far as it reads; `ReceiveData` is `conn_output` as
`ctcp_receive` calls it, `ReceiveFin` and `ReceiveAfterFin` the end. `Timer` is
`ctcp_timer` and `delete_all_connections`.

The terminal is non-blocking, the pipe to a program is not: `async()` is called
for the standard descriptors and for the pipe *from* the program only
(`ctcp_sys_internal.c:1128`, `1253`, `1259`). `conn_output` to a program is
therefore two steps, `ReceiveForProgram` and then `WrittenToProgram` or
`ProgramGone`, with `do_loop` at stage `program` in between and nothing done for
anybody else; a segment is shorter than `PIPE_BUF`, so that a pipe takes it whole.
Nothing is ever queued for a program. A program whose own output is not read
waits in its write (`Wait`, `waiting`) and then reads nothing: if the loop waits
for that program, both wait forever (`Deadlock`).

Readers, programs and the terminal (`Consume`, `Produce`, `Exit`, ...) act at any
time, between `poll()` and `write()` too. A chunk is an interval of numbered
bytes. `stalled` is history: the connections whose POLLOUT flag the code loses, by
a write to the terminal that takes nothing, or by a queue that another
connection's `conn_drain` leaves behind (`ctcp_sys_internal.c:636`).

### `CtcpConnect`, `CtcpConnectProofs`

How connections begin, for clients on one host: `Start`, `send_resets` and
`SendSyn` are `do_config` with its thread, `GetSynAck`, `Continue` and `Fail`
the ends of `tcp_handshake`, `Say` and `Hear` a client's loop; `Accept`,
`Refuse`, `Segment`, `GetRst` are the server's, `Answer` and `Drop` what
`ctcp.c` does there. `ctcp.c` goes on sending for connections that `conn_free`
of the head took off the list with it (`ctcp_sys_internal.c:701`): they stay on
the `state_list` that `ctcp_timer` goes through, and are `orphans` here. Every
packet for the host reaches every process on it (`ToClients`), and `Passes` and
`Found` are `recv_filter`. `convert_to_datagram` and `ToCtcp` are the
translation of numbers. `of`, `seqno` and `ackno` in a packet are history.

### `Bbr`, `BbrProofs`

`Ack` is what `ctcp_receive` does for an acknowledged segment: the samples
(`SampleRtt`, `SampleBandwidth`), then `on_ack_bbr_state_chk`, with an operator
for each mode. `Timer` is the countdown of `ctcp_timer` and `CheckMinimum`; the
time of the last call is kept in an `unsigned int` (`ctcp.c:58`) and loses the
multiples of 2^32 ms that have gone by since 1970 (`SinceLastCall`, `Lost`), so
that the countdown of 10 seconds is over at every call. `Send` is a segment
that the window and the bandwidth-delay product let out. Counters are kept as
far as the code tells them apart; what is read and never assigned
(`startup_bw`, `stamp`) is what `malloc` left.

### `VnsSession`, `VnsSessionProofs`

The routers and the POX server. `ConnectionUp`, `LearnPort`, `StoreInterfaces`
are `OFHandler.__init__` and `_handle_RouterInfo`; `PacketIn`, `broadcast`,
`BroadcastDone` the loop over `srclients`, one client at a time and by index, as
Python iterates a list that changes. The handlers of the reactor keep their
names; `_handle_new_client` and `SendAuthRequest` are two steps because the list
is changed before the first message is sent. `Connect`, `Negotiate`,
`sr_handle_hwinfo`, `HandlePacket`, `SendPacket`, `Interrupt` are a router
process; its phases `failed` and `aborted` are the `return -1` of an unexpected
message and the `assert(iface)`. `early` and `seen` are history.

### Modules for TLC

`MCArpCache`, `MCForwarding`, `MCCtcp`, `MCCtcpServer`, `MCCtcpIO`,
`MCCtcpConnect`, `MCBbr`, `MCVnsSession` give the constants their values and declare symmetry where the constants are interchangeable (frames and
requests, ports and addresses; never in a run with a temporal property).

## Runs

| Run | Result | What it shows |
|---|---|---|
| `ArpCacheSafety` | passes | One request per next hop; the sweeper only meets usable requests; nobody waits behind a known address; each frame has one fate; the counter follows the wire up to a lost increment; unreachable only after all tries. Use of freed memory included. |
| `ArpCacheLive` | passes | Every waiting frame leaves the queue; the cache implements `ArpService`. |
| `Forwarding` | passes | Longest prefix, one carrier per packet, truthful sources, nothing lost silently, the network drains, under six combinations of tables with loops and a missing next hop. |
| `VnsSession` | passes | HWINFO is all or nothing, no client misses a frame or gets it twice while others come and go, only early frames end a session, and sessions open. |
| `CtcpSafety` | passes | Whole sender lists, output once and in order, and the exact error of the window counter, under a fault of each kind. |
| `CtcpStream` | passes | On a perfect network, for all windows and products, one direction implements `CtcpStream` except for the EOF of a FIN that has overtaken unsent data (`Overtaken`), and everything typed is output except what is held for good at the sender (`Held`). |
| `CtcpSkip` | violated: `OutputIsInput` | With data in both directions an ACK carries a number past queued data, which is then dropped as duplicate (`ctcp.c:422`). |
| `CtcpServer` | passes | The list's pointers stay right, a turn starts with live connections, only handshake ACKs are discarded. |
| `CtcpIO` | passes | Every byte received is written in order, queued or refused; what is queued is written unless its flag was lost in one of the ways `stalled` names; the output of programs is read unless the loop waits for a program that waits for it (`Deadlock`). |
| `CtcpConnect` | passes | Two clients, on two ports or on one after the other: what `ctcp_receive` is given is of its session, with the numbers it was sent with. |
| `Bbr` | passes | Estimates on the safe side, modes in their order, each mode left unless an unassigned field prevents it, although the timer looks at the minimum at every call. |
| `ServerOrphan` | violated: `ConnectedAreListed` | Freeing the newest connection empties the list: the others are never heard again (`ctcp_sys_internal.c:701`). |

The two violated properties each state what a comment, a header or a test of the
repository says; `findings` quotes it. The passing runs contain more behaviour
that nobody wanted, as transitions of the models: the packet thread uses a
request the sweeper has freed (`sr_router.c:180`, `UseFreed` of `ArpCache`); a
window smaller than a read makes bytes go out twice (`ctcp.c:265`); the timer and
the ACK both subtract a segment from the window counter, which wraps, so that
nothing is sent any more (`ctcp.c:495`, in `WindowAccounting` the exact
difference); with a product other than 0, segments are left unsent with nothing
pending, and then a FIN overtakes them (`ctcp.c:253`) or nothing sends them
although every segment sent is acknowledged (`ctcp.c:358`; `Overtaken` and `Held`:
`ImplementsStream` and `EverythingArrives` are violated in run `CtcpStream` as soon
as either exception is left out); the minimum of the round trip time is looked at
every time the timer runs and not every 10 seconds (`ctcp.c:58`, `461`); a server
and the program it started for a client wait for each other, and all other
clients with them (`ctcp_sys_internal.c:947`, `Deadlock` of `CtcpIO`); a RST that one client's thread sends
in answer to another's packet ends the server (`ctcp_sys_internal.c:449`,
`GetRst` of `CtcpConnect`); the POLLOUT flag is cleared with output queued
(`ctcp_sys_internal.c:636`, `stalled`).

### Bounds

- `ArpCacheSafety`: two next hops, three frames, two request objects, one slot,
  `MaxSent` 2 (5 in the code). Two objects let an address be freed and given out
  again under a dangling pointer; one slot makes the cache full; two tries leave
  room for a first, a repeated and a lost increment. `ArpCacheLive` has one next
  hop and one request object, so that a frame may also find none.
- `Forwarding`: four machines in a line, two packets, a TTL of 1 to 4,
  addresses of four bits in two "bytes" so that masks end inside a byte and
  differ in byte order. The six combinations of tables contain working routes, a
  loop between the routers, a route to nobody, and overlapping prefixes in
  either order.
- `CtcpSafety`: two bytes one way and one the other, `Window` 1 with reads of 2
  (split reads), windows 0 and 4, `Wrap16` 5 and headers of 1 so that the
  counter wraps, two tries, one fault, one FIN from an end. `CtcpStream`: three
  bytes one way, windows that grow and shrink, a product of 0 (none) or of 2, the
  length of the smallest segment, so that one segment in flight stops the send loop
  with others unsent; an output that is queued first; a timer that finds nothing
  overdue.
- `CtcpServer`: four clients for three places, three objects (all can be listed
  at once, and freed from the head, the middle and the end, two in one turn, and
  an address be used again), two segments at the socket, so that an ACK and first data
  wait together.
- `CtcpIO`: two connections that share a terminal, or each with a program. The
  terminal holds one byte and a segment has up to two, so that writes are partial;
  a queue has room for two bytes and four are received, so that it gets full. The
  pipe to a program holds two bytes, which is a whole segment, and three are
  received for programs (`MaxForPrograms`), so that a write must wait. With
  programs the server's own output stays open: nothing is queued for it.
- `CtcpConnect`: two clients on one host with the same port, one after the other,
  or with two; a server with zero to two of its two places used up by earlier
  clients; initial numbers 0 and 2, so that the filters can and cannot tell
  sessions apart; one packet at a socket (a process that does not read holds the
  others up, in every order), two segments of `ctcp.c`, numbers that do not wrap
  (`rand()` has 31 bits).
- `Bbr`: windows, segments and times scaled down so that the window, the product
  and the counter of data each are what limits; a round trip of 0 ms; two
  and three rounds where the code has three to ten; a countdown of 3, calls 1 or 2
  apart, and 4 or 8 lost from the time of the last, each more than the countdown; `RttWrap` is a multiple of both
  periods that `rtts_happened` is divided by; `MaxData` is more than any phase takes.
- `VnsSession`: two routers, so that one comes or goes while the other is served;
  two interfaces, so that a list could be half built; two frames, so that one
  could be missed; a routing table that fits and one that does not.

`MaxFaults`, `MaxFins`, `MaxArrived`, `MaxFrames`, `MaxReceived`, `MaxForPrograms`, `MaxPackets`,
`MaxSegments`, `MaxNumber`, `MaxData`, `RttWrap`, `ProgramConns` and the number of frames, ids and clients are
the bounds that only the models have.

### Fairness

- `ArpCache`: weak fairness of the sweeper and of the clock, strong fairness of
  the packet thread once it has a frame, for the mutex that the sweeper holds
  again and again but releases for a second each time. No packet or reply need
  arrive. `WaitersLeave` is for finitely many frames: an unbounded stream of
  frames to one next hop is not in the instance.
- `Forwarding`: machines take the frames they are sent and the sweeper gives up.
- `Ctcp`: a running handler goes on, a segment at the socket is read, the timer
  runs. Not `ctcp_output`: the library does not always drain its queue
  (`conn_drain` clears `POLLOUT`), and `CtcpStream` passes without. Nor reading: data
  that only more input would send counts as held.
- `VnsSession`: both threads of POX go on with what they have begun or been
  sent, and a router reads. Nobody need connect, send or be interrupted.
- `CtcpIO`: the loop goes on unless it waits in a write to a program, and whoever
  reads the output goes on reading (`Consume`), a program only as long as it does
  not wait for its own output to be read. Nobody need type, send or end.
- `Bbr`: the loop calls `ctcp_timer`. That samples go on to be counted is not
  assumed but a condition of `ModesLeft`.
- `CtcpServer` and `CtcpConnect` have safety properties only.

Deadlock is not checked in `Ctcp`, `CtcpServer`, `CtcpConnect` and `Forwarding`:
endpoints end, hang in `ctcp_read` with a window of 0, or have nothing more to
do; a crashed server stops; processes end; a network whose packets have all been
sent is quiet. Nor in `CtcpIO` and `Bbr`, whose loops are meant to have nothing
to do but turn.

## Proofs

For every value of the constants allowed by the named assumptions
(`ConstantsAssumption`, `ForwardingAssumption`, `PrefixAssumption`,
`NextHopAssumption`, `CtcpAssumption`, `ServerAssumption`, `SessionAssumption`,
`IOAssumption`, `BbrAssumption`, `ConnectAssumption`):

`ArpCacheProofs`
: `TypeCorrect` (types), `OneRequest`, `SweeperSafe`, `NoForgottenWaiter` and
  their conjunction `QueueSafe`, from the inductive invariant `QueueInv`. It adds
  to the properties that the sweeper holds the lock whenever it is inside
  `process_arpreq` (`SweepHoldsLock`): without it nothing keeps the packet thread
  from unlinking the request the sweeper is at. That the three properties support
  each other is the point: a request on the list is usable only because a second
  one for its next hop cannot exist when a reply removes it.
: `CounterSafe`, `CounterBounded` and `NoEarlyUnreachable` from `CounterInv`, which
  adds what a thread between its load and its store may have read (`ReadIsSent`
  and the bound `Overshoot`): the counter may lag behind the requests sent,
  by lost increments, but never leads.
: `FateSafe` from `FateInv`. A frame can be forwarded from a request only after
  `Reply` has unlinked it, and reported unreachable only while it is linked; the
  two exclude each other because a request with a frame reported stays in the
  hands of the thread that reported it until it is destroyed (`Reporting`), and
  an unlinked one is the one being flushed (`Unlinked`).
: `Refinement`: `ArpCache` implements `ArpService`, step by step, from
  `ServiceInv`. Frames leave together because all frames for a next hop wait on
  one request (`RightHops`), also while a reply's frames are being sent
  (`HopAnswered`), and a request goes only when its frames are finished
  (`FramesFinished`).

`ForwardingProofs`
: `LongestMatch` by induction over the table, for every table whose masks are
  prefixes (`PrefixAssumption`: `sr_load_rt` takes other masks too, and then the
  comparison need not find the most specific route). On prefixes the comparison in
  `sr_router.c:159` is right because one of two masks is contained in the other
  (`LongerExceeds`), whatever the weight of its bytes.
: `OneFate` and `SourcesTrue` from `ForwardingInv`. Every handler of an IP packet
  replaces a frame by at most one, about the same packet (`HandleIp`,
  `HandleEnqueue`, `HandleReply`, `HandleGiveUp`, with `Follows` for what may
  follow what); so all that a packet has become is in one frame, in one queue or
  at one host (`OnePlace`), which is more than that it is one packet. `Truthful`
  follows the addresses back to the packet a host sent; the report of the sweeper
  needs that a waiting frame still names the card it came to (`AddressInv`).
: `NoPacketLost` from `LinkInv`: a frame and its sender are on one LAN, and a
  mapping names the card that has the address, because only that card answers for
  it. So an answer, a report of the sweeper and a flushed frame each reach a
  machine. A packet that is forwarded by a mapping in the cache does if the card
  is on the LAN of the route, which is `NextHopAssumption`: a table that names a
  next hop on another LAN passes `sr_verify_routing_table`, and its packets would
  be sent to a card that is not there.

`CtcpProofs`
: `TypeCorrect`, `StreamIsWhole` and `NothingTwice` from `CtcpInv`. The stream is
  followed list by list (`Chained`), because `Fill` takes the head of
  `output_pending_segments` for the end of `unacknowledged_segments` and an ACK
  the head of the latter: where the one list ends the other begins, and where
  both end is the next number. Output never repeats because what was output lies
  below the number expected next, also on a network that repeats and delays
  without bound.
: `WindowExact` from `WindowInv`: the counter and what the timer took off it
  together are the bytes in `unacknowledged_segments`, up to a multiple of its
  width. The sum over the list is a recursive function; what appending, removing
  and marking do to it is proved by induction, for which `LeastNumber` and
  `Induction` are first derived from the well-foundedness of `<`.
: `OutputIsTyped` from `CopyInv`, for any network: every segment that is queued,
  under way, being received or output holds the bytes its number says (`Copies`),
  because the next number is always that of the next byte typed. Its hypothesis
  is `FittingReads`: no read is longer than a window. A longer one `ctcp_read`
  cuts up and then queues again whole, with bytes it never read
  (`ctcp.c:245`-`265`), so that numbers and bytes part.
: `StreamArrives`: `Ctcp` implements `CtcpStream`, from `PerfectInv`. What the
  server has output, what it is receiving, what is on the wire, what is unsent in
  the window and what is pending are one unbroken sequence of segments (`Run`,
  `Flow`, `Awaited`, `Unreached`), and the segments sent are the first of the
  window (`SentUpTo`). So a segment that arrives begins at the number expected,
  `ctcp_receive` neither takes it for a duplicate nor steps over a gap, and
  `Written` is `1..expected - 1` (`FlattenTyped`, by induction over the output).
  A FIN goes out only when nothing is pending, and from then on the client sends no
  more data, because only pending segments start the send loop again (`AfterEof`).
  If the product had left nothing of the window unsent, all data is ahead of the
  FIN, and the server has output it when the EOF is written; the other case is
  `Overtaken`. Each step of the two ends is then `Type`, `Close`, `Write` or `End`
  of `CtcpStream`, or changes nothing of it. Nothing is assumed of windows,
  products or the widths of the counters.
  The hypothesis `Undisturbed` names what the code does need: reads that fit
  the window (above); a network without faults (`ctcp_receive` outputs what follows
  a gap and later drops what fills it, and `ctcp_timer` may send a segment ahead of
  its turn; duplicates are ruled out with the rest); one direction in use (run
  `CtcpSkip`: an ACK is numbered past what is queued, and that is then dropped); and
  an output queue that can hold the stream (`ctcp_receive` acknowledges what
  `conn_output` refuses). The instance of run `CtcpStream` satisfies it.

`CtcpServerProofs`
: `TypeCorrect` and `ListSafe` from `ListInv`. `LinksAgree` alone is not
  inductive. `conn_add` overwrites the `prev` of the old head, so the head must
  have no predecessor (`HeadIsFirst`). The delete loop goes on at `next` of an
  object it has just freed, so an object must not be its own successor, and
  that survives the relinking of `conn_free` only if there is no cycle at all
  (`Acyclic`: a rank that `next` decreases). The rank of a new head is one more
  than the old head's; `conn_free` keeps the ranks.
: `TurnsStartClean` from `CleanInv`: during the delete stage, what is marked is
  still reachable from the cursor (`DeletesAhead`, with `From` as the closure of
  `next`), whatever `conn_free` has relinked behind it.
: `AcksOnly` from `AckInv`: a client sends the ACK of the handshake before all
  else and the socket keeps the order (`InPhase`), so the ACK is the first of its
  messages met while `new_connection` is the client (`AckFirst`).
: `ListImplementsSet` is the refinement of `CtcpList` (`ImplementsList`), with the
  objects the loops visit as the set. `Listed` is the least set that holds the
  head and is closed under `next` (`ListedLeast`), so each half of an equation
  such as `Listed' = Listed \ {c}` is shown by a closed set: for `conn_add` from
  the freshness of the object (`AddsOne`), for `conn_free` from both directions of
  the links and the absence of cycles (`FreesOne`); no other step touches the
  list. Freeing the head is `RemoveNewest`: the theorem says what the code does,
  and run `ServerOrphan` that it is not what it should do. This refinement is
  proved only; no run repeats it.

`VnsSessionProofs`
: `TypeCorrect`, `HwinfoSafe` and `EarlyFramesSafe` from `SessionInv`.
  `HwinfoComplete` needs the progress of the POX thread (`ListsAgree`: a port is
  known before the list of interfaces is published). `EarlyFramesEnd` needs to
  know, of both queues of a router that had no early frame, how far the session
  is (`Orderly`: waiting, one message of the negotiation under way, HWINFO before
  all frames, frames only), and of one that had, that the frame lies before any
  HWINFO (`Doomed`), which every message read and sent preserves.
: `FramesSafe` from `FramesInv`: the frames queued for a router are consecutive
  and go on where it stopped reading (`NoGap`), up to the one being broadcast if
  its turn has passed and the one before it if not (`LastSent`, `Awaits`). That it
  has its turn, although the list loses and gains members under the loop, rests
  on its being on the list once (`OnListOnce`).

`CtcpIOProofs`
: `TypeCorrect` and `EveryByteAccounted` from `IOInv`. `OutputAccounted` speaks of
  the listed connections; the invariant says it of all of them (`Accounted`),
  since a connection that is not listed has nothing yet, or nothing any more, and
  adds that chunks are intervals within what was received and that the queue is
  bounded, by cardinality and not only by the test in `conn_output`. Of programs it
  adds that nothing is queued for them, and that what the loop is writing to one
  stays within what may be received (`ForPrograms`).

`BbrProofs`
: `TypeCorrect`; `EstimatesSafe`, for which the minimum and `rt_prop` must begin
  together with the first sample and the bottleneck be drawn only from the
  maximum; and `ModesInOrder`: for every length of the modes, the second test in
  `ctcp_timer` that could end PROBE_RTT early is never true, because at that
  place `rt_prop` has just become the minimum.

`CtcpConnectProofs`
: `TypeCorrect`; `ClientHears` and `ServerHears` from `ConnectInv`. A port has one
  client that is alive or has messages on the way (`OnePresent`), and for each
  client the invariant follows its session: nothing is known of it before its SYN
  (`Unheard`); what it has sent, the SYN once (`Sent`, `SynOnce`); what its host
  was sent (`Delivered`); that both ends know each other's initial number
  (`Agreed`), so that converted numbers are the ones `ctcp.c` gave (`Numbered`);
  that its connection is the newest of its port, which is the one the server's search of
  its list finds (`Newest`); and that to a fresh port the SYN-ACK comes first (`Led`).
  `ConnectAssumption` has numbers that do not wrap: `rand()` leaves 31 bits, and a
  session of 2 GB is not modelled.

Model-checked only: liveness (`WaitersLeave`, `NetworkDrains`,
`EverythingArrives`, `SessionOpens`, `NothingWaits`, `ModesLeft`) and everything
about fairness, which the prover does not reach. Every invariant, every action
property and both refinements that a passing run checks are theorems.

## What is not modelled

- Parsing of files and command lines, logging, printing, the arithmetic of
  checksums, SHA-1, packet dumps: no control that another part depends on.
- A loss of the ACK that ends the handshake (`CtcpServer`, `CtcpConnect`): the
  server could take the first data for it and discard that, until it is sent again.
- Corruption and truncation of cTCP segments, the C string handling of payloads,
  leaks. `ctcp_receive` resets the checksum without testing it.
- `main` of the library and its options, Unix sockets, the look-up of addresses,
  what `execute_program` does to start a program. `Ctcp` has only the number of
  chunks in the output queue, any window and any bandwidth-delay product; the
  queue is in `CtcpIO`, the window in `Bbr`.
- The pauses between segments, which divide by a gain that can be 0
  (`ctcp.c:218`), and BBR's float arithmetic beyond its truncation.
- Expiry of mappings and repeated requests in `Forwarding`: they are in `ArpCache`.
- What the router's threads do during its shutdown by a signal (in `VnsSession` a
  router just ends).
- The byte stream under the VNS session: two threads writing to one socket, short
  writes, and `recv` returning 0, which makes the router spin. Templates, invalid
  messages, a second switch. Twisted's `transport.write` called from POX's thread
  is taken to append the message at once.
- The data of an echo reply: `Answer` in `Forwarding` says what the code builds
  (a reply that matches no request, with a wrong checksum, because the zeroed
  buffer is copied onto itself at `sr_router.c:218` and `icmp_sum` is reset at
  `sr_router.c:224`), and no property is stated about it.
- Lab 0's controller has no state, lab 2 configures Quagga and contains no
  routing protocol, `sr_nat` is a skeleton.

## Plan

Done, in this order: `ArpCache` with `ArpService` and its proofs; `Ctcp` with
`CtcpStream`; `Forwarding`; `CtcpServer` and `VnsSession` with their proofs;
`CtcpIO` and `Bbr` with their proofs; `CtcpConnect`; `CtcpProofs` and
`ForwardingProofs`; the refinement of `ArpService`; `CtcpConnectProofs`; the
remaining safety properties of every module as theorems; the refinement of
`CtcpStream`; the refinement of `CtcpList`.

Next, the most important first:

1. A specification of the end of a connection. `ctcp.h:89`-`104` says when one may
   be destroyed: both ends have sent their FIN, everything including the FIN is
   acknowledged and output, or the other side is unresponsive after five
   retransmissions. The code departs from it (hazards at `ctcp.c:254` and `435`),
   and no property states it yet.
2. The byte stream under `VnsSession`: framing with two writers, a server that
   closes.
