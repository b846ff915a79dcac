----------------------------- MODULE Forwarding -----------------------------
(***************************************************************************)
(* A network of lab 1 routers and of hosts: what sr_handlepacket does with *)
(* each frame (sr_router.c), frame after frame, router after router.       *)
(*                                                                         *)
(* One frame is one action: the VNS connection hands a router its frames   *)
(* one at a time.  What happens between two threads of one router is in    *)
(* ArpCache; here an ARP cache is the set of mappings it holds, which do   *)
(* not expire while the few packets of an instance live, requests are not  *)
(* repeated (no LAN loses a frame), and waiting frames are given up at any *)
(* moment, as far as the other machines can tell.                          *)
(*                                                                         *)
(* Data kept: an address is the set of its 1 bits, numbered from the left, *)
(* so that & is \cap; a card stands for an interface, its name and its     *)
(* hardware address.  The length and checksum tests are reduced to what    *)
(* fails them.  Hosts, LANs and the users of the network are external.     *)
(***************************************************************************)
EXTENDS Integers, FiniteSets, Functions, SequencesExt

CONSTANTS
    Routers, Hosts,   \* machines
    Cards,            \* network cards
    Node, Lan, Ip,    \* of each card: its machine, its LAN, its address
    Gateway,          \* of each host: the card it sends everything to
    Width, Octet,     \* bits of an address, and of one of its bytes
    Tables,           \* of each router: the routing tables it may be given
    InitTtl,          \* INIT_TTL
    Ids,              \* the packets hosts send, each once
    Traffic,          \* what they may be, and which host sends them
    Broadcast, NoRoute

IPs == SUBSET (1..Width)
IfList(r) == {c \in Cards : Node[c] = r}
Mine(r) == {Ip[c] : c \in IfList(r)}
Route(r) == [dest : IPs, mask : IPs, gw : IPs, interface : IfList(r)]

\* sr_verify_routing_table: the interfaces of the table exist.
ASSUME ForwardingAssumption ==
    /\ Node \in [Cards -> Routers \cup Hosts] /\ Ip \in [Cards -> IPs]
    /\ \A h \in Hosts : \E c \in Cards : Node[c] = h
    /\ Lan \in [Cards -> Nat] /\ Gateway \in [Hosts -> Cards]
    /\ Routers \cap Hosts = {} /\ Broadcast \notin Cards
    /\ Width \in Nat /\ Octet \in Nat \ {0}
    /\ \A r \in Routers : Tables[r] \subseteq Seq(Route(r)) /\ NoRoute \notin Route(r)
    /\ InitTtl \in Nat \ {0} /\ 0 \notin Ids
    /\ Traffic \subseteq [by : Hosts, id : Ids, kind : {"data", "echo"}, dst : IPs,
                           ttl : Nat \ {0}, intact : BOOLEAN, sum : BOOLEAN]

\* sr_load_rt takes any mask; tables are written with masks that are prefixes.
ASSUME PrefixAssumption ==
    \A r \in Routers : \A table \in Tables[r] : \A n \in 1..Len(table) :
        \E length \in 0..Width : table[n].mask = 1..length

\* A next hop is on the LAN of the interface towards it, as in the tables of
\* the labs; sr_verify_routing_table does not test it.
ASSUME NextHopAssumption ==
    \A r \in Routers : \A table \in Tables[r] : \A n \in 1..Len(table) : \A c \in Cards :
        Ip[c] = table[n].gw => Lan[c] = Lan[table[n].interface] /\ c # table[n].interface

VARIABLES
    routing_table,   \* of each router, in the order of the file
    arp,             \* of each router: the valid mappings of its ARP cache
    waiting,         \* of each router: frames queued for their next hop
    frames,          \* under way, each to the card that will take it
    captured,        \* IP packets each host received for itself
    asked            \* the packets sent by hosts

vars == <<routing_table, arp, waiting, frames, captured, asked>>

\* An IP packet.  kind: "data" is any protocol but ICMP, "echo" a request,
\* "reply" its answer, "expired" ICMP 11/0, "net", "host" and "port" 3/0, 3/1
\* and 3/3.  intact: the tests on the IP header pass; sum: the test on the
\* ICMP checksum passes; id: the bytes ping tells its requests apart by.
\* about and via are not in the packet: the packet it goes back to, and the
\* LAN on which a router received what it answers.
Errors == {"expired", "net", "host", "port"}
Packet == [src : IPs, dst : IPs, ttl : Nat, kind : {"data", "echo", "reply"} \cup Errors,
           intact : BOOLEAN, sum : BOOLEAN, id : Ids \cup {0}, about : Ids, via : Nat]
Arp == [op : {"request", "reply"}, sip : IPs, sha : Cards, tip : IPs]
Frame == [to : Cards, shost : Cards, dhost : Cards \cup {Broadcast},
          body : Packet \cup Arp]
IsIp(f) == "ttl" \in DOMAIN f.body

\* A queued frame, with its next hop and the interface towards it.
Waiter == [hop : IPs, iface : Cards, frame : Frame]

TypeOK ==
    /\ \A r \in Routers : routing_table[r] \in Tables[r]
    /\ arp \in [Routers -> SUBSET [ip : IPs, mac : Cards]]
    /\ waiting \in [Routers -> SUBSET Waiter]
    /\ frames \subseteq Frame
    /\ captured \in [Hosts -> SUBSET Packet]
    /\ asked \subseteq Packet

Init ==
    /\ routing_table \in {t \in [Routers -> UNION {Tables[r] : r \in Routers}] :
                             \A r \in Routers : t[r] \in Tables[r]}
    /\ arp = [r \in Routers |-> {}] /\ waiting = [r \in Routers |-> {}]
    /\ frames = {} /\ captured = [h \in Hosts |-> {}] /\ asked = {}

----------------------------------------------------------------------------
\* The routing table

\* Masks compared as integers of a little-endian machine: the bytes are in
\* network order, so that the last one counts most, and the greater integer is
\* the one that has the heaviest bit in which the two differ.
Weight(bit) == LET byte == (bit - 1) \div Octet IN (2 * byte + 1) * Octet - bit
Exceeds(mask, other) ==
    \E bit \in mask \ other : \A b \in other \ mask : Weight(b) < Weight(bit)

Matches(rt, ip) == rt.dest \cap rt.mask = ip \cap rt.mask

\* A faulty search that stops at the first route.
FirstMatch(r, ip) ==
    FoldLeft(LAMBDA best, rt : IF Matches(rt, ip) /\ best = NoRoute THEN rt ELSE best,
             NoRoute, routing_table[r])

\* The loop over the routing table.
Better(rt, best, ip) ==
    Matches(rt, ip) /\ (best = NoRoute \/ Exceeds(rt.mask, best.mask))
Search(table, ip) ==
    LET best[n \in 0..Len(table)] ==
            IF n = 0 THEN NoRoute
            ELSE IF Better(table[n], best[n - 1], ip) THEN table[n] ELSE best[n - 1]
    IN  best
best_match(r, ip) == Search(routing_table[r], ip)[Len(routing_table[r])]

----------------------------------------------------------------------------
\* Sending and receiving

\* sr_send_packet on card c, whose address is the frame's ether_shost: a copy
\* for every other card of the LAN that takes it.
sr_send_packet(c, dhost, body) ==
    {[to |-> d, shost |-> c, dhost |-> dhost, body |-> body] :
        d \in {d \in Cards \ {c} : Lan[d] = Lan[c] /\ dhost \in {d, Broadcast}}}

\* Frame f was received and s is sent.
Exchange(f, s) == frames' = (frames \ {f}) \cup s

\* A faulty one that answers from the address of the interface used.
FabricatedHere(p, kind, c, dest, via) ==
    [src |-> Ip[c], dst |-> p.src, ttl |-> InitTtl, kind |-> kind,
     intact |-> TRUE, sum |-> FALSE, id |-> 0, about |-> p.about, via |-> via]

\* send_fabricated_icmp_packet: the packet it sends about p on card c, dest
\* being the card p was for, if any.  The data of an echo reply is copied from
\* the new, zeroed buffer itself, and the checksum is reset to 0 after it was
\* computed; cksum never returns 0.
Fabricated(p, kind, c, dest, via) ==
    [src |-> IF dest # {} THEN Ip[CHOOSE d \in dest : TRUE] ELSE Ip[c],
     dst |-> p.src, ttl |-> InitTtl, kind |-> kind,
     intact |-> TRUE, sum |-> FALSE, id |-> 0, about |-> p.about, via |-> via]

\* It goes out on the card that received f, to the machine that sent f.
Answer(f, kind, dest) ==
    sr_send_packet(f.to, f.shost, Fabricated(f.body, kind, f.to, dest, Lan[f.to]))

----------------------------------------------------------------------------
\* process_ip_packet

TakesIp(r, f) == f \in frames /\ Node[f.to] = r /\ IsIp(f)
dest_intf(r, f) == {c \in IfList(r) : Ip[c] = f.body.dst}
ForMe(r, f) == TakesIp(r, f) /\ f.body.intact /\ dest_intf(r, f) # {}

\* The early returns: length or checksum wrong; ICMP for this router that
\* fails its own tests or is no echo request.
Discard(r, f) ==
    /\ \/ TakesIp(r, f) /\ ~f.body.intact
       \/ /\ ForMe(r, f) /\ f.body.kind # "data"
          /\ ~f.body.sum \/ f.body.kind # "echo"
    /\ Exchange(f, {})
    /\ UNCHANGED <<routing_table, arp, waiting, captured, asked>>

\* Echo reply, or port unreachable for another protocol.
AnswerForMe(r, f) ==
    /\ ForMe(r, f)
    /\ \/ /\ f.body.kind = "echo" /\ f.body.sum
          /\ Exchange(f, Answer(f, "reply", dest_intf(r, f)))
       \/ /\ f.body.kind = "data"
          /\ Exchange(f, Answer(f, "port", dest_intf(r, f)))
    /\ UNCHANGED <<routing_table, arp, waiting, captured, asked>>

ToForward(r, f) == TakesIp(r, f) /\ f.body.intact /\ dest_intf(r, f) = {}

\* A faulty test that forwards a packet on its last hop after all.
AliveAtZero(p) == p.ttl >= 0

\* if (1 >= ip_ttl) ... else
Alive(p) == p.ttl > 1

\* Time exceeded, or no route.
Refuse(r, f) ==
    /\ ToForward(r, f)
    /\ \/ /\ ~Alive(f.body)
          /\ Exchange(f, Answer(f, "expired", {}))
       \/ /\ Alive(f.body) /\ best_match(r, f.body.dst) = NoRoute
          /\ Exchange(f, Answer(f, "net", {}))
    /\ UNCHANGED <<routing_table, arp, waiting, captured, asked>>

\* A faulty one that leaves the TTL as it is.
SameTtl(p) == p

\* ip_ttl--, with the header checksum recomputed.
Aged(p) == [p EXCEPT !.ttl = @ - 1]

\* The address of the next hop is known: sent at once.
Forward(r, f) ==
    /\ ToForward(r, f) /\ Alive(f.body) /\ best_match(r, f.body.dst) # NoRoute
    /\ LET rt == best_match(r, f.body.dst) IN
       \E entry \in arp[r] :
          /\ entry.ip = rt.gw
          /\ Exchange(f, sr_send_packet(rt.interface, entry.mac, Aged(f.body)))
    /\ UNCHANGED <<routing_table, arp, waiting, captured, asked>>

\* It is not: the frame waits.  The first one makes process_arpreq send an
\* ARP request; for a later one that depends on the time.
Enqueue(r, f) ==
    /\ ToForward(r, f) /\ Alive(f.body) /\ best_match(r, f.body.dst) # NoRoute
    /\ LET rt == best_match(r, f.body.dst)
           request == [op |-> "request", sip |-> Ip[rt.interface],
                       sha |-> rt.interface, tip |-> rt.gw]
       IN
       /\ \A entry \in arp[r] : entry.ip # rt.gw
       /\ waiting' = [waiting EXCEPT ![r] = @ \cup
             {[hop |-> rt.gw, iface |-> rt.interface,
               frame |-> [f EXCEPT !.body = Aged(f.body)]]}]
       /\ \/ Exchange(f, sr_send_packet(rt.interface, Broadcast, request))
          \/ (\E w \in waiting[r] : w.hop = rt.gw) /\ Exchange(f, {})
    /\ UNCHANGED <<routing_table, arp, captured, asked>>

----------------------------------------------------------------------------
\* process_arp_packet and the ARP cache

TakesArp(r, f, op) == /\ f \in frames /\ Node[f.to] = r /\ ~IsIp(f)
                      /\ f.body.op = op

ArpAnswer(f) == [op |-> "reply", sip |-> Ip[f.to], sha |-> f.to, tip |-> f.body.sip]

\* A request is answered when it asks for the interface it came in on; any
\* other does not get past sr_arp_req_not_for_us.
AnswerArp(r, f) ==
    /\ TakesArp(r, f, "request")
    /\ Exchange(f, IF f.body.tip = Ip[f.to]
                   THEN sr_send_packet(f.to, f.shost, ArpAnswer(f)) ELSE {})
    /\ UNCHANGED <<routing_table, arp, waiting, captured, asked>>

\* A faulty flush that leaves the frames queued.
StillWaiting(r, hop) == waiting[r]

\* The request for the hop is unlinked and destroyed with its frames.
Flushed(r, hop) == {w \in waiting[r] : w.hop # hop}

\* A reply: the mapping is stored, and the frames that wait for it are sent
\* on the interface the reply came in on.
TakeArpReply(r, f) ==
    /\ TakesArp(r, f, "reply")
    /\ arp' = [arp EXCEPT ![r] = @ \cup {[ip |-> f.body.sip, mac |-> f.body.sha]}]
    /\ Exchange(f, UNION {sr_send_packet(f.to, f.body.sha, w.frame.body) :
                             w \in {w \in waiting[r] : w.hop = f.body.sip}})
    /\ waiting' = [waiting EXCEPT ![r] = Flushed(r, f.body.sip)]
    /\ UNCHANGED <<routing_table, captured, asked>>

\* A faulty choice of the interface: the one towards the hop that is silent.
RouteInterface(r, w) == {w.iface}

\* get_interface_from_eth, for the ether_dhost of a waiting frame.
ReportInterface(r, w) == {c \in IfList(r) : c = w.frame.dhost}

\* Host unreachable for a waiting frame, to the machine it came from; a frame
\* with no such interface is dropped.
Report(r, w) == UNION {sr_send_packet(c, w.frame.shost,
                          Fabricated(w.frame.body, "host", c, {}, Lan[w.frame.to])) :
                       c \in ReportInterface(r, w)}

\* The sweeper gives a next hop up.
GiveUp(r, hop) ==
    /\ \E w \in waiting[r] : w.hop = hop
    /\ frames' = frames \cup UNION {Report(r, w) : w \in {w \in waiting[r] : w.hop = hop}}
    /\ waiting' = [waiting EXCEPT ![r] = {w \in @ : w.hop # hop}]
    /\ UNCHANGED <<routing_table, arp, captured, asked>>

----------------------------------------------------------------------------
\* Hosts

\* A host sends a packet.
Ask(q) ==
    LET c == CHOOSE d \in Cards : Node[d] = q.by
        p == [src |-> Ip[c], dst |-> q.dst, ttl |-> q.ttl, kind |-> q.kind,
              intact |-> q.intact, sum |-> q.sum, id |-> q.id, about |-> q.id,
              via |-> Lan[c]]
    IN  /\ \A old \in asked : old.id # q.id
        /\ asked' = asked \cup {p}
        /\ frames' = frames \cup sr_send_packet(c, Gateway[q.by], p)
        /\ UNCHANGED <<routing_table, arp, waiting, captured>>

\* It takes what is for it, and answers ARP requests for its address.
HostTakes(h, f) ==
    /\ f \in frames /\ Node[f.to] = h
    /\ IF IsIp(f) THEN /\ captured' = [captured EXCEPT ![h] =
                              IF f.body.dst = Ip[f.to] THEN @ \cup {f.body} ELSE @]
                       /\ Exchange(f, {})
       ELSE /\ Exchange(f, IF f.body.op = "request" /\ f.body.tip = Ip[f.to]
                           THEN sr_send_packet(f.to, f.shost, ArpAnswer(f)) ELSE {})
            /\ UNCHANGED captured
    /\ UNCHANGED <<routing_table, arp, waiting, asked>>

----------------------------------------------------------------------------
Handle(r) == \E f \in frames :
    \/ Discard(r, f) \/ AnswerForMe(r, f) \/ Refuse(r, f) \/ Forward(r, f)
    \/ Enqueue(r, f) \/ AnswerArp(r, f) \/ TakeArpReply(r, f)
Sweep(r) == \E w \in waiting[r] : GiveUp(r, w.hop)

Next ==
    \/ \E r \in Routers : Handle(r) \/ Sweep(r)
    \/ \E h \in Hosts : \E f \in frames : HostTakes(h, f)
    \/ \E q \in Traffic : Ask(q)

Spec == Init /\ [][Next]_vars

\* Machines take the frames they are sent, and a hop that does not answer is
\* given up after five seconds.
Fairness == /\ \A r \in Routers : WF_vars(Handle(r)) /\ WF_vars(Sweep(r))
            /\ \A h \in Hosts : WF_vars(\E f \in frames : HostTakes(h, f))
FairSpec == Spec /\ Fairness
----------------------------------------------------------------------------
\* Properties

\* A packet under way would take, at any router, a route with the longest
\* prefix of those that agree with its address bit by bit, although the loop
\* compares masks in network byte order.
AgreeTo(n, a, b) == \A bit \in 1..n : bit \in a <=> bit \in b
LongestPrefix ==
    \A r \in Routers : \A f \in {g \in frames : IsIp(g)} :
        LET prefix(rt) == Cardinality(rt.mask)
            good == {rt \in Range(routing_table[r]) :
                        AgreeTo(prefix(rt), rt.dest, f.body.dst)}
            best == best_match(r, f.body.dst)
        IN  IF good = {} THEN best = NoRoute
            ELSE best \in good /\ \A rt \in good : prefix(rt) <= prefix(best)

\* Where packet k, or what was sent about it, is.
Carriers(k) ==
    {f.body : f \in {f \in frames : IsIp(f) /\ f.body.about = k}}
    \cup {w.frame.body : w \in {w \in UNION Range(waiting) : w.frame.body.about = k}}
    \cup {p \in UNION Range(captured) : p.about = k}

\* A packet is in one place, and answered once: never both forwarded and
\* answered, however often it waited for an address or turned in a loop.
OneCarrier == \A k \in Ids : Cardinality(Carriers(k)) <= 1

\* And what a packet became disappears only at a host, at a router it is
\* addressed to, or when its own header is broken.  Nothing is dropped on the
\* way without an ICMP message back.
MayEnd(k) ==
    \E f \in frames : /\ IsIp(f) /\ f.body.about = k
                      /\ \/ Node[f.to] \in Hosts \/ ~f.body.intact
                         \/ f.body.dst \in Mine(Node[f.to])
NothingLost ==
    [][\A k \in Ids : Carriers(k) # {} => Carriers(k)' # {} \/ MayEnd(k)]_vars

\* traceanal.py reads the path off the source addresses: an ICMP error comes
\* from the router's interface on the LAN the packet arrived on, even when it
\* is sent later by the sweeper; a reply from the address that was asked.
Answered(k) == CHOOSE q \in asked : q.id = k
TruthfulSource ==
    \A k \in Ids : \A p \in Carriers(k) :
        /\ p.kind \in {"expired", "net", "host"} =>
              \E r \in Routers : \E c \in IfList(r) : Lan[c] = p.via /\ Ip[c] = p.src
        /\ p.kind = "reply" => p.src = Answered(k).dst /\ p.dst = Answered(k).src

\* Whatever the routing tables, loops between routers included, every packet
\* and every ICMP message about it leaves the network.
NetworkDrains ==
    []<>(frames = {} /\ \A r \in Routers : waiting[r] = {})
=============================================================================
