---------------------------- MODULE CtcpConnect ----------------------------
(***************************************************************************)
(* How cTCP connections begin (ctcp_sys_internal.c): do_config and its     *)
(* thread that answers leftover packets with resets, the handshake, and    *)
(* the translation between the numbers of cTCP, which begin with 1, and    *)
(* those of TCP, which begin with a random number.                         *)
(*                                                                         *)
(* All clients are on one host, the case that the filters are for: every   *)
(* packet that reaches the host reaches the raw socket of every process    *)
(* there.  A port may be used again by a later process, when nothing to or *)
(* from the earlier one is under way; the server does not learn of its     *)
(* end and may go on sending to it.  What ctcp.c sends is any segment; how *)
(* it numbers them is in Ctcp.                                             *)
(***************************************************************************)
EXTENDS Naturals, Sequences, SequencesExt

CONSTANTS
    Clients,      \* client processes
    Ports,        \* ports given to clients on the command line
    ServerPort,
    MaxClients,   \* MAX_NUM_CLIENTS
    InitNumbers,  \* what rand() returns
    MaxNumber,    \* bound: the numbers of cTCP
    MaxPackets,   \* bound: packets at a socket
    MaxSegments,  \* bound: segments that ctcp.c sends, of all ends
    Wrap32        \* of the numbers of TCP

\* rand() has 31 bits: numbers do not wrap in a session of less than 2 GB.
ASSUME ConnectAssumption ==
    /\ ServerPort \notin Ports /\ 0 \notin Ports
    /\ MaxClients \in Nat \ {0} /\ MaxNumber \in Nat \ {0} /\ MaxPackets \in Nat
    /\ MaxSegments \in Nat
    /\ Wrap32 \in Nat \ {0} /\ InitNumbers \subseteq Nat
    /\ \A i \in InitNumbers : i + MaxNumber + 1 < Wrap32

VARIABLES
    port,              \* config->port of each client
    phase,             \* of each client
    init, their_init,  \* init_seqno and their_init_seqno of config->sconn
    greeted,           \* clients whose handshake was answered with a SYN
    gave_up,           \* reset threads that ended with an error
    inbox,             \* packets at the socket of each client
    rst_dropped,       \* the host's firewall drops RSTs
    connections,       \* get_connections() of the server, the newest first
    orphans,           \* connections of ctcp.c's state_list that are not listed
    num_connected, new_connection,
    arrived,           \* packets at the server's socket
    down,              \* the server process has ended
    segments,          \* segments that ctcp.c sent
    handed             \* the last segment given to ctcp_receive, and to whom

clientVars == <<port, phase, init, their_init, greeted, gave_up>>
serverVars == <<connections, orphans, num_connected, new_connection, down>>
vars == <<clientVars, inbox, rst_dropped, serverVars, arrived, segments, handed>>

Tcp == 0..Wrap32 - 1
Ctcp == 1..MaxNumber

\* of is the process whose session a packet belongs to; number and ackno are
\* those of cTCP for what ctcp.c sent.
Packets == [from : Ports \cup {ServerPort}, to : Ports \cup {ServerPort},
            kind : {"syn", "synack", "segment", "rst"}, seq : Tcp, ack : Tcp,
            of : Clients, seqno : Ctcp, ackno : Ctcp]
Connections == [port : Ports, init : InitNumbers, their_init : InitNumbers, of : Clients]

TypeOK ==
    /\ port \in [Clients -> Ports]
    /\ phase \in [Clients -> {"new", "resets", "handshake", "connected", "ended"}]
    /\ init \in [Clients -> Tcp] /\ their_init \in [Clients -> Tcp]
    /\ greeted \subseteq Clients /\ gave_up \subseteq Clients
    /\ inbox \in [Clients -> Seq(Packets)] /\ arrived \in Seq(Packets)
    /\ connections \in Seq(Connections) /\ orphans \subseteq Connections
    /\ num_connected \in Len(connections)..MaxClients
    /\ new_connection \in Ports \cup {0}
    /\ rst_dropped \in BOOLEAN /\ down \in BOOLEAN /\ segments \in 0..MaxSegments
    /\ handed \subseteq [side : {"client", "server"}, owner : Clients, packet : Packets,
                         seqno : Tcp, ackno : Tcp]

\* A client process before it begins, and a server that has served some
\* clients, who are gone but whose places are not given back.
Init ==
    /\ port \in [Clients -> Ports]
    /\ phase = [c \in Clients |-> "new"]
    /\ init = [c \in Clients |-> 0] /\ their_init = [c \in Clients |-> 0]
    /\ greeted = {} /\ gave_up = {}
    /\ inbox = [c \in Clients |-> <<>>] /\ arrived = <<>>
    /\ rst_dropped \in BOOLEAN
    /\ connections = <<>> /\ orphans = {}
    /\ num_connected \in 0..MaxClients /\ new_connection = 0
    /\ down = FALSE /\ handed = {} /\ segments = 0

----------------------------------------------------------------------------
\* Packets

In(c, p) == phase[c] = p
Go(c, p) == phase' = [phase EXCEPT ![c] = p]

\* create_tcp_seg and create_tcp_rst: no number of cTCP is meant.
Plain(kind, from, to, seq, ack, c) ==
    [kind |-> kind, from |-> from, to |-> to, seq |-> seq, ack |-> ack,
     of |-> c, seqno |-> 1, ackno |-> 1]

\* convert_to_datagram, for seqno and for ackno: the number of the end that
\* counts these bytes is added; convert_to_ctcp subtracts it.
ToTcp(n, mine, theirs) == (mine + n) % Wrap32

ToCtcp(n, theirs) == (n + Wrap32 - theirs) % Wrap32

convert_to_datagram(from, to, mine, theirs, c, s, a) ==
    [kind |-> "segment", from |-> from, to |-> to, seq |-> ToTcp(s, mine, theirs),
     ack |-> ToTcp(a, theirs, mine), of |-> c, seqno |-> s, ackno |-> a]

\* ctcp_receive, for the session of owner.
Hand(side, owner, p, mine, theirs) ==
    handed' = {[side |-> side, owner |-> owner, packet |-> p,
                seqno |-> ToCtcp(p.seq, theirs), ackno |-> ToCtcp(p.ack, mine)]}
Nothing == handed' = {}

\* Processes on the clients' host that have a socket.
Live == {c \in Clients : phase[c] \in {"resets", "handshake", "connected"}}

\* send_pkt to the clients' host, whatever the port.
ToClients(p) == inbox' = [c \in Clients |-> IF c \in Live THEN Append(inbox[c], p) ELSE <<>>]
RoomAtClients == \A c \in Clients : Len(inbox[c]) < MaxPackets

\* To the server, in the order sent.
ToServer(p) == arrived' = IF down THEN arrived ELSE Append(arrived, p)
RoomAtServer == Len(arrived) < MaxPackets

----------------------------------------------------------------------------
\* A client starts

\* The ports in use, and those that packets are under way from.
InUse == {port[c] : c \in Live} \cup {p.from : p \in ToSet(arrived)}

\* start_client: do_config_server (conn_setup), then do_config up to the
\* thread.
Start(c) ==
    /\ In(c, "new") /\ port[c] \notin InUse /\ Go(c, "resets")
    /\ \E i \in InitNumbers : init' = [init EXCEPT ![c] = i]
    /\ UNCHANGED <<port, their_init, greeted, gave_up, inbox, rst_dropped, segments, serverVars, arrived>>
    /\ Nothing

\* send_resets: any packet that reaches the host is answered, until sendto
\* fails.
send_resets(c) ==
    /\ In(c, "resets") /\ inbox[c] # <<>> /\ c \notin gave_up /\ RoomAtServer
    /\ inbox' = [inbox EXCEPT ![c] = Tail(@)]
    /\ LET p == Head(inbox[c]) IN
       IF rst_dropped
       THEN gave_up' = gave_up \cup {c} /\ UNCHANGED arrived
       ELSE ToServer(Plain("rst", p.to, p.from, p.ack, 0, c)) /\ UNCHANGED gave_up
    /\ UNCHANGED <<port, phase, init, their_init, greeted, rst_dropped, segments, serverVars>>
    /\ Nothing

\* The second is over; tcp_handshake sends a SYN.
SendSyn(c) ==
    /\ In(c, "resets") /\ Go(c, "handshake")
    /\ ToServer(Plain("syn", port[c], ServerPort, init[c], 0, c))
    /\ UNCHANGED <<port, init, their_init, greeted, gave_up, inbox, rst_dropped, segments, serverVars>>
    /\ Nothing

\* A faulty filter without the port.
AnyPort(c, p) == TRUE

\* recv_filter at a client: the packet is for its port, and a SYN or one of a
\* connection that it may know.
ForMe(c, p) == p.to = port[c]

Passes(c, p) ==
    /\ ForMe(c, p)
    /\ \/ p.kind = "synack"
       \/ p.seq >= their_init[c] /\ p.ack >= init[c]

\* tcp_handshake: the answer is a SYN-ACK and is acknowledged.
GetSynAck(c) ==
    /\ In(c, "handshake") /\ inbox[c] # <<>>
    /\ LET p == Head(inbox[c]) IN
       /\ Passes(c, p) /\ p.kind = "synack"
       /\ their_init' = [their_init EXCEPT ![c] = p.seq]
       /\ ToServer(Plain("segment", port[c], ServerPort, (init[c] + 1) % Wrap32,
                         (p.seq + 1) % Wrap32, c))
    /\ inbox' = [inbox EXCEPT ![c] = Tail(@)]
    /\ Go(c, "connected") /\ greeted' = greeted \cup {c}
    /\ UNCHANGED <<port, init, gave_up, rst_dropped, segments, serverVars>>
    /\ Nothing

\* An ACK instead of a SYN-ACK: a previous connection is continued.
Continue(c) ==
    /\ In(c, "handshake") /\ inbox[c] # <<>>
    /\ LET p == Head(inbox[c]) IN
       /\ Passes(c, p) /\ p.kind # "synack"
       /\ init' = [init EXCEPT ![c] = (p.ack + Wrap32 - 1) % Wrap32]
       /\ their_init' = [their_init EXCEPT ![c] = (p.seq + Wrap32 - 1) % Wrap32]
    /\ inbox' = [inbox EXCEPT ![c] = Tail(@)]
    /\ Go(c, "connected")
    /\ UNCHANGED <<port, greeted, gave_up, rst_dropped, segments, serverVars, arrived>>
    /\ Nothing

\* The process ends, with its socket and its numbers.
Leave(c) == /\ Go(c, "ended") /\ inbox' = [inbox EXCEPT ![c] = <<>>]
            /\ init' = [init EXCEPT ![c] = 0] /\ their_init' = [their_init EXCEPT ![c] = 0]

\* Anything else, or nothing within CONN_TIMEOUT, is no answer: tcp_handshake
\* returns NULL.
Fail(c) ==
    /\ In(c, "handshake")
    /\ inbox[c] # <<>> => ~Passes(c, Head(inbox[c]))
    /\ Leave(c)
    /\ UNCHANGED <<port, greeted, gave_up, rst_dropped, segments, serverVars, arrived>>
    /\ Nothing

----------------------------------------------------------------------------
\* A client that is connected

\* ctcp.c sends a segment.
Say(c) ==
    /\ In(c, "connected") /\ RoomAtServer
    /\ segments < MaxSegments /\ segments' = segments + 1
    /\ \E s, a \in Ctcp :
          ToServer(convert_to_datagram(port[c], ServerPort, init[c], their_init[c], c, s, a))
    /\ UNCHANGED <<clientVars, inbox, rst_dropped, serverVars>>
    /\ Nothing

\* do_loop reads the socket.  A SYN at a client is of no use.
Hear(c) ==
    /\ In(c, "connected") /\ inbox[c] # <<>>
    /\ LET p == Head(inbox[c]) IN
       IF Passes(c, p) /\ p.kind # "synack"
       THEN Hand("client", c, p, init[c], their_init[c])
       ELSE Nothing
    /\ inbox' = [inbox EXCEPT ![c] = Tail(@)]
    /\ UNCHANGED <<clientVars, rst_dropped, segments, serverVars, arrived>>

\* end_client, or the process is killed.
End(c) ==
    /\ c \in Live /\ Leave(c)
    /\ UNCHANGED <<port, greeted, gave_up, rst_dropped, segments, serverVars, arrived>>
    /\ Nothing

----------------------------------------------------------------------------
\* The server

Read == ~down /\ arrived # <<>> /\ arrived' = Tail(arrived)
serverFrame == <<clientVars, rst_dropped, segments>>

\* recv_filter: a RST ends the process.
GetRst ==
    /\ ~down /\ arrived # <<>> /\ Head(arrived).kind = "rst"
    /\ down' = TRUE /\ arrived' = <<>>
    /\ connections' = <<>> /\ orphans' = {}
    /\ UNCHANGED <<serverFrame, inbox, num_connected, new_connection>>
    /\ Nothing

\* A faulty conn_add at the end of the list.
AddLast(list, conn) == Append(list, conn)

AddFirst(list, conn) == <<conn>> \o list

\* A faulty limit that is one too high.
HasPlaceLate == num_connected <= MaxClients

HasPlace == num_connected < MaxClients

\* tcp_new_connection.
Accept ==
    /\ Read /\ Head(arrived).kind = "syn"
    /\ HasPlace /\ num_connected' = num_connected + 1
    /\ RoomAtClients
    /\ LET p == Head(arrived) IN
       /\ \E i \in InitNumbers :
             /\ connections' = AddFirst(connections, [port |-> p.from, init |-> i,
                                                      their_init |-> p.seq, of |-> p.of])
             /\ ToClients(Plain("synack", ServerPort, p.from, i, (p.seq + 1) % Wrap32, p.of))
       /\ new_connection' = p.from
    /\ UNCHANGED <<serverFrame, orphans, down>>
    /\ Nothing

Refuse ==
    /\ Read /\ Head(arrived).kind = "syn" /\ ~HasPlace
    /\ UNCHANGED <<serverFrame, inbox, serverVars>>
    /\ Nothing

\* recv_filter: the first connection of that port that may expect the numbers.
Matches(conn, p) ==
    conn.port = p.from /\ p.seq >= conn.their_init /\ p.ack >= conn.init
Found(p) == {i \in 1..Len(connections) :
                /\ Matches(connections[i], p)
                /\ \A j \in 1..i - 1 : ~Matches(connections[j], p)}

\* do_loop: what looks like the ACK of the last handshake is discarded,
\* anything else of a connection goes to ctcp_receive.
Segment ==
    /\ Read /\ Head(arrived).kind = "segment"
    /\ LET p == Head(arrived) IN
       IF Found(p) = {} THEN Nothing /\ UNCHANGED new_connection
       ELSE \E i \in Found(p) :
              LET conn == connections[i] IN
              IF /\ p.from = new_connection
                 /\ ToCtcp(p.seq, conn.their_init) = 1 /\ ToCtcp(p.ack, conn.init) = 1
              THEN new_connection' = 0 /\ Nothing
              ELSE /\ Hand("server", conn.of, p, conn.init, conn.their_init)
                   /\ UNCHANGED new_connection
    /\ UNCHANGED <<serverFrame, inbox, connections, orphans, num_connected, down>>

\* The connections that ctcp.c has a state for.
Kept == ToSet(connections) \cup orphans

\* ctcp.c sends a segment on any of them; ctcp_timer does so for the orphans.
Answer ==
    /\ ~down /\ RoomAtClients
    /\ segments < MaxSegments /\ segments' = segments + 1
    /\ \E conn \in Kept, s, a \in Ctcp :
          ToClients(convert_to_datagram(ServerPort, conn.port, conn.init, conn.their_init,
                                        conn.of, s, a))
    /\ UNCHANGED <<clientVars, rst_dropped, serverVars, arrived>>
    /\ Nothing

\* A connection is destroyed; conn_free of the head loses the list, and ctcp.c
\* keeps the others until it gives them up.
Drop ==
    /\ ~down
    /\ \/ \E i \in 1..Len(connections) :
             IF i = 1
             THEN connections' = <<>> /\ orphans' = orphans \cup ToSet(Tail(connections))
             ELSE connections' = RemoveAt(connections, i) /\ UNCHANGED orphans
       \/ \E conn \in orphans : orphans' = orphans \ {conn} /\ UNCHANGED connections
    /\ UNCHANGED <<serverFrame, inbox, num_connected, new_connection, down, arrived>>
    /\ Nothing

----------------------------------------------------------------------------
ClientNext(c) ==
    \/ Start(c) \/ send_resets(c) \/ SendSyn(c) \/ GetSynAck(c) \/ Continue(c) \/ Fail(c)
    \/ Say(c) \/ Hear(c) \/ End(c)
Serve == GetRst \/ Accept \/ Refuse \/ Segment
Next == Serve \/ Answer \/ Drop \/ \E c \in Clients : ClientNext(c)

Spec == Init /\ [][Next]_vars
----------------------------------------------------------------------------
\* Properties

\* A client whose port nobody had before.
Fresh(c) == \A d \in Clients \ {c} : port[d] = port[c] => In(d, "new")

\* The session a packet was sent in.
Own(h) ==
    /\ h.packet.of = h.owner
    /\ h.seqno = h.packet.seqno /\ h.ackno = h.packet.ackno

\* Whatever other processes there are on the host, and whatever the server
\* sends them: what ctcp_receive is given at a client is from its server
\* connection, with the numbers it had there, if the client is the first that
\* has its port.  (A later one may hear what the server goes on sending to the
\* one before.)
ClientHearsItsServer ==
    \A h \in handed : h.side = "client" /\ Fresh(h.owner) => Own(h)

\* What ctcp_receive is given at the server is from the client of that
\* connection, with the numbers it had there, also when the port was used
\* before and the old connections of that port are still listed: as long as the
\* client's own is, and began with a SYN-ACK.
ServerHearsItsClient ==
    \A h \in handed :
        /\ h.side = "server" /\ h.packet.of \in greeted
        /\ \E conn \in ToSet(connections) : conn.of = h.packet.of
        => Own(h)
=============================================================================
