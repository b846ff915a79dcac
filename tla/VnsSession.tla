----------------------------- MODULE VnsSession -----------------------------
(***************************************************************************)
(* The sessions between lab 1's router processes (sr_main.c,               *)
(* sr_vns_comm.c) and the VNS server in POX (srhandler.py), which passes   *)
(* on the frames of one switch (ofhandler.py).                             *)
(*                                                                         *)
(* POX runs two threads on the server's lists: its own, which hears the    *)
(* switch and broadcasts frames, and the reactor's, which hears the        *)
(* routers.  A broadcast is one action for each client, and everything the *)
(* reactor does may come in between.  Sockets keep the order of messages;  *)
(* messages arrive whole (LTProtocol and the read loops put them together).*)
(*                                                                         *)
(* An interface stands for its name, its number and its port.  Frames from *)
(* ports that are no interface of the router are dropped and left out, as  *)
(* are templates, which this server does not handle, and frames shorter    *)
(* than an ARP packet (no ICMP, UDP or TCP packet is).                     *)
(***************************************************************************)
EXTENDS Naturals, SequencesExt

CONSTANTS
    Routers,     \* router processes, each started once
    Interfaces,  \* of the switch, with an address in IP_CONFIG
    Rtables,     \* the sets of interfaces a routing table may name
    MaxFrames    \* bound: frames the switch passes on

ASSUME SessionAssumption ==
    Interfaces # {} /\ MaxFrames \in Nat

VARIABLES
    srclients, online,   \* all clients so far; those whose connection is open
    greeting,            \* the reactor is between the two steps for these (one)
    interfaces, ports,   \* self.interfaces; the names in both port maps
    pox, todo, at,       \* the POX thread: what it does, and how far it is
    frames, arriving,    \* frames of the switch so far; where the broadcast one came in
    phase, if_list, seen,   \* of each router; seen: the last frame it was handed
    early,               \* routers sent a frame before their HWINFO
    toRouter, toServer   \* messages under way

poxVars    == <<interfaces, ports, pox, todo, at, frames, arriving>>
clientVars == <<srclients, online, greeting>>
routerVars == <<phase, if_list, seen>>
vars == <<poxVars, clientVars, routerVars, early, toRouter, toServer>>

Plain(type) == [type |-> type]
Hwinfo(S) == [type |-> "hwinfo", interfaces |-> S]
Packet(i, n) == [type |-> "packet", interface |-> i, frame |-> n]
Downs == {Packet(i, n) : i \in Interfaces, n \in 1..MaxFrames}
Ups == {Packet(i, 0) : i \in Interfaces}
FromServer == {Plain("auth request"), Plain("auth status")}
              \cup {Hwinfo(S) : S \in SUBSET Interfaces} \cup Downs
FromRouter == {Plain("auth reply"), Plain("open")} \cup Ups

Phases == {"off", "auth request", "auth status", "loop", "failed", "aborted", "ended"}
Gone == {"failed", "aborted", "ended"}

TypeOK ==
    /\ srclients \in Seq(Routers)
    /\ online \subseteq ToSet(srclients) /\ greeting \subseteq online
    /\ interfaces \subseteq Interfaces /\ ports \subseteq Interfaces
    /\ pox \in {"idle", "info", "broadcast"} /\ todo \subseteq Interfaces
    /\ at \in 1..Len(srclients) + 1
    /\ frames \in 0..MaxFrames /\ arriving \subseteq Interfaces
    /\ phase \in [Routers -> Phases] /\ early \subseteq Routers
    /\ if_list \in [Routers -> SUBSET Interfaces]
    /\ seen \in [Routers -> 0..MaxFrames]
    /\ toRouter \in [Routers -> Seq(FromServer)]
    /\ toServer \in [Routers -> Seq(FromRouter)]

\* SRServerListener; interfaces is not set yet, which is {} here: an open
\* message then sends nothing.
Init ==
    /\ srclients = <<>> /\ online = {} /\ greeting = {} /\ interfaces = {} /\ ports = {}
    /\ pox = "idle" /\ todo = {} /\ at = 1
    /\ frames = 0 /\ arriving = {}
    /\ phase = [r \in Routers |-> "off"]
    /\ if_list = [r \in Routers |-> {}] /\ seen = [r \in Routers |-> 0]
    /\ early = {}
    /\ toRouter = [r \in Routers |-> <<>>] /\ toServer = [r \in Routers |-> <<>>]

----------------------------------------------------------------------------
\* The POX thread

\* The switch connects, again perhaps: OFHandler announces its interfaces.
ConnectionUp ==
    /\ pox = "idle" /\ pox' = "info" /\ todo' = Interfaces
    /\ UNCHANGED <<interfaces, ports, at, frames, arriving, clientVars,
                   routerVars, early, toRouter, toServer>>

\* _handle_RouterInfo: the ports one by one, at last the list of interfaces.
LearnPort(i) ==
    /\ pox = "info" /\ i \in todo /\ todo' = todo \ {i}
    /\ ports' = ports \cup {i}
    /\ UNCHANGED <<interfaces, pox, at, frames, arriving, clientVars,
                   routerVars, early, toRouter, toServer>>

\* A faulty one that publishes the list when it has some interfaces.
PublishSome == pox = "info" /\ todo # Interfaces

PublishAll == pox = "info" /\ todo = {}

StoreInterfaces ==
    /\ PublishAll /\ interfaces' = Interfaces \ todo /\ todo' = {} /\ pox' = "idle"
    /\ UNCHANGED <<ports, at, frames, arriving, clientVars, routerVars, early,
                   toRouter, toServer>>

\* A frame comes in from the switch: broadcast begins.
PacketIn(i) ==
    /\ pox = "idle" /\ i \in ports /\ frames < MaxFrames
    /\ pox' = "broadcast" /\ at' = 1
    /\ frames' = frames + 1 /\ arriving' = {i}
    /\ UNCHANGED <<interfaces, ports, todo, clientVars, routerVars, early,
                   toRouter, toServer>>

\* HWINFO has been sent to r.
Informed(r) == if_list[r] # {} \/ \E k \in 1..Len(toRouter[r]) : toRouter[r][k].type = "hwinfo"

\* One turn of the loop over srclients: nothing comes of sending to a client
\* whose connection is lost.  The list may grow before the next turn.
broadcast ==
    /\ pox = "broadcast" /\ at <= Len(srclients) /\ at' = at + 1
    /\ LET r == srclients[at] IN
          IF r \in online
          THEN /\ \E i \in arriving :
                     toRouter' = [toRouter EXCEPT ![r] = Append(@, Packet(i, frames))]
               /\ early' = IF Informed(r) THEN early ELSE early \cup {r}
          ELSE UNCHANGED <<toRouter, early>>
    /\ UNCHANGED <<interfaces, ports, pox, todo, frames, arriving, clientVars,
                   routerVars, toServer>>

BroadcastDone ==
    /\ pox = "broadcast" /\ at > Len(srclients) /\ pox' = "idle" /\ at' = 1
    /\ arriving' = {}
    /\ UNCHANGED <<interfaces, ports, todo, frames, clientVars, routerVars,
                   early, toRouter, toServer>>

----------------------------------------------------------------------------
\* The reactor thread

\* The client is on the list before the first message is sent to it.
_handle_new_client(r) ==
    /\ phase[r] # "off" /\ r \notin ToSet(srclients) /\ greeting = {}
    /\ srclients' = Append(srclients, r) /\ online' = online \cup {r}
    /\ greeting' = {r}
    /\ UNCHANGED <<poxVars, routerVars, early, toRouter, toServer>>

SendAuthRequest(r) ==
    /\ r \in greeting /\ greeting' = greeting \ {r}
    /\ toRouter' = [toRouter EXCEPT ![r] = Append(@, Plain("auth request"))]
    /\ UNCHANGED <<poxVars, srclients, online, routerVars, early, toServer>>

\* A faulty one that also takes the client off the list.
Forget(r) == SelectSeq(srclients, LAMBDA s : s # r)

\* The client stays on the list.
Clients(r) == srclients

_handle_client_disconnected(r) ==
    /\ r \in online /\ phase[r] \in Gone /\ greeting = {}
    /\ online' = online \ {r} /\ srclients' = Clients(r) /\ UNCHANGED greeting
    /\ toRouter' = [toRouter EXCEPT ![r] = <<>>]
    /\ toServer' = [toServer EXCEPT ![r] = <<>>]
    /\ UNCHANGED <<poxVars, routerVars, early>>

\* A message of r, if its connection is still there.
Takes(r, type) ==
    /\ r \in online /\ greeting = {}
    /\ toServer[r] # <<>> /\ Head(toServer[r]).type = type
    /\ toServer' = [toServer EXCEPT ![r] = Tail(@)]

_handle_auth_reply(r) ==
    /\ Takes(r, "auth reply")
    /\ toRouter' = [toRouter EXCEPT ![r] = Append(@, Plain("auth status"))]
    /\ UNCHANGED <<poxVars, clientVars, routerVars, early>>

\* A faulty one, with a list that is cleared while it is put together.
Rebuilt == interfaces # {} /\ pox # "info"

HasInterfaces == interfaces # {}

_handle_open_msg(r) ==
    /\ Takes(r, "open")
    /\ toRouter' = IF HasInterfaces
                   THEN [toRouter EXCEPT ![r] = Append(@, Hwinfo(interfaces))]
                   ELSE toRouter
    /\ UNCHANGED <<poxVars, clientVars, routerVars, early>>

\* The frame goes to the switch, by the port of its interface.
_handle_packet_msg(r) ==
    /\ Takes(r, "packet")
    /\ UNCHANGED <<poxVars, clientVars, routerVars, early, toRouter>>

----------------------------------------------------------------------------
\* A router

Connect(r) ==
    /\ phase[r] = "off" /\ phase' = [phase EXCEPT ![r] = "auth request"]
    /\ UNCHANGED <<poxVars, clientVars, if_list, seen, early, toRouter, toServer>>

\* expected_cmd.
Expected(r) == Head(toRouter[r]).type = phase[r]

Reads(r) == /\ toRouter[r] # <<>> /\ toRouter' = [toRouter EXCEPT ![r] = Tail(@)]
            /\ UNCHANGED <<poxVars, clientVars, early>>

\* sr_connect_to_server: each of two messages is the expected one, and answered.
Negotiate(r) ==
    /\ phase[r] \in {"auth request", "auth status"} /\ Reads(r)
    /\ \/ /\ Expected(r)
          /\ \/ /\ phase[r] = "auth request"
                /\ phase' = [phase EXCEPT ![r] = "auth status"]
                /\ toServer' = [toServer EXCEPT ![r] = Append(@, Plain("auth reply"))]
             \/ /\ phase[r] = "auth status"
                /\ phase' = [phase EXCEPT ![r] = "loop"]
                /\ toServer' = [toServer EXCEPT ![r] = Append(@, Plain("open"))]
       \/ /\ ~Expected(r) /\ phase' = [phase EXCEPT ![r] = "failed"]
          /\ UNCHANGED toServer
    /\ UNCHANGED <<if_list, seen>>

\* HWINFO: the process ends when its routing table names other interfaces.
sr_handle_hwinfo(r) ==
    /\ phase[r] = "loop" /\ Reads(r) /\ Head(toRouter[r]).type = "hwinfo"
    /\ if_list' = [if_list EXCEPT ![r] = @ \cup Head(toRouter[r]).interfaces]
    /\ \E table \in Rtables :
           phase' = IF table \subseteq if_list'[r] THEN phase
                    ELSE [phase EXCEPT ![r] = "ended"]
    /\ UNCHANGED <<seen, toServer>>

\* A build without assertions.
Unchecked(r) == TRUE

\* What sr_arp_req_not_for_us asserts: the frame's interface is known.
Known(r) == Head(toRouter[r]).interface \in if_list[r]

\* A frame: the assertion fails, or it is handled.
HandlePacket(r) ==
    /\ phase[r] = "loop" /\ Reads(r) /\ Head(toRouter[r]).type = "packet"
    /\ seen' = [seen EXCEPT ![r] = Head(toRouter[r]).frame]
    /\ phase' = IF Known(r) THEN phase
                ELSE [phase EXCEPT ![r] = "aborted"]
    /\ UNCHANGED <<if_list, toServer>>

\* sr_send_packet, on an interface the router has.
SendPacket(r) ==
    /\ phase[r] = "loop" /\ toServer[r] = <<>>
    /\ \E i \in if_list[r] : toServer' = [toServer EXCEPT ![r] = <<Packet(i, 0)>>]
    /\ UNCHANGED <<poxVars, clientVars, routerVars, early, toRouter>>

\* SIGINT.
Interrupt(r) ==
    /\ phase[r] \notin Gone \cup {"off"} /\ phase' = [phase EXCEPT ![r] = "ended"]
    /\ UNCHANGED <<poxVars, clientVars, if_list, seen, early, toRouter, toServer>>

----------------------------------------------------------------------------
Pox == \/ ConnectionUp \/ StoreInterfaces \/ broadcast \/ BroadcastDone
       \/ \E i \in Interfaces : LearnPort(i) \/ PacketIn(i)
PoxGoesOn == StoreInterfaces \/ broadcast \/ BroadcastDone \/ \E i \in Interfaces : LearnPort(i)
Reactor(r) == \/ _handle_new_client(r) \/ SendAuthRequest(r) \/ _handle_client_disconnected(r)
              \/ _handle_auth_reply(r) \/ _handle_open_msg(r) \/ _handle_packet_msg(r)
Router(r) == Negotiate(r) \/ sr_handle_hwinfo(r) \/ HandlePacket(r)

Next == \/ Pox
        \/ \E r \in Routers : Reactor(r) \/ Router(r) \/ Connect(r) \/ SendPacket(r) \/ Interrupt(r)
Spec == Init /\ [][Next]_vars

\* Both threads of POX go on with what they do, and a router reads.
Fairness == /\ WF_vars(PoxGoesOn)
            /\ \A r \in Routers : WF_vars(Reactor(r)) /\ WF_vars(Router(r))
FairSpec == Spec /\ Fairness
----------------------------------------------------------------------------
\* Properties

\* Although the two threads of POX use the lists without a lock, the
\* interfaces of a HWINFO are always all of them, and each has its port: a
\* router's frame never meets the KeyError branch of _handle_packet_msg.
HwinfoComplete ==
    \A r \in Routers :
        /\ if_list[r] \in {{}, Interfaces} /\ if_list[r] \subseteq ports
        /\ \A k \in 1..Len(toRouter[r]) :
              LET msg == toRouter[r][k]
              IN  msg.type = "hwinfo" => msg.interfaces = Interfaces /\ Interfaces \subseteq ports

\* The frames in m are first to last, each once and in this order.
Packets(m) == {k \in 1..Len(m) : m[k].type = "packet"}
InARow(m, first, last) ==
    /\ \A j, k \in Packets(m) : j < k => m[j].frame < m[k].frame
    /\ {m[k].frame : k \in Packets(m)} = first..last

\* Clients that connect or leave while a frame is broadcast make no other
\* client miss a frame or get it twice: what is on its way to a client follows
\* what it was handed last without a gap, up to the last frame, or the one
\* before it while the last one is broadcast.
NoFrameSkipped ==
    \A r \in online : \E first \in 1..frames + 1, last \in 0..frames :
        /\ InARow(toRouter[r], first, last) /\ first <= last + 1
        /\ seen[r] # 0 => first = seen[r] + 1
        /\ last = frames \/ (pox = "broadcast" /\ last + 1 = frames)

\* Frames are broadcast to clients that are not ready for them.  Only such a
\* frame makes a router fail an expectation or an assertion, and none to which
\* it happened goes on with its interfaces, as if nothing had been.
EarlyFramesEnd ==
    \A r \in Routers : /\ phase[r] \in {"failed", "aborted"} => r \in early
                       /\ if_list[r] # {} => r \notin early

\* A router whose server has its interfaces when it connects gets them, unless
\* it ends.
SessionOpens ==
    \A r \in Routers :
        interfaces # {} /\ phase[r] = "auth request"
            ~> if_list[r] # {} \/ phase[r] \in Gone
=============================================================================
