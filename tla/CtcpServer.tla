----------------------------- MODULE CtcpServer -----------------------------
(***************************************************************************)
(* The server side of the cTCP library (ctcp_sys_internal.c) and the       *)
(* clients that connect to it: the list of conn_t objects, and the loop    *)
(* that hands input, segments and timeouts to ctcp.c and then frees the    *)
(* connections that ctcp_destroy scheduled for removal.                    *)
(*                                                                         *)
(* One turn of do_loop goes through the stages stdin, socket, timer and    *)
(* delete.  What ctcp.c does with its state is in Ctcp; here a handler     *)
(* notes what decides whether a later one destroys the connection.  The    *)
(* pointers are kept as they are: prev is the object whose next field it   *)
(* points to, or Stack for the local variable of conn_add.                 *)
(*                                                                         *)
(* Each client process connects once, from a port of its own; the segments *)
(* of one client keep their order (the handshake does not go through       *)
(* conn_send).  The output queues and the poll flags are left out.         *)
(***************************************************************************)
EXTENDS Naturals, Sequences

CONSTANTS
    Clients,      \* client processes, each its port
    Conns,        \* addresses calloc can return for a conn_t
    MaxClients,   \* MAX_NUM_CLIENTS
    MaxArrived,   \* bound: segments at the server's socket
    Null, Stack

ASSUME ServerAssumption ==
    /\ MaxClients \in Nat \ {0} /\ MaxArrived \in Nat \ {0}
    /\ Null \notin Conns \cup Clients /\ Stack \notin Conns \cup {Null}

VARIABLES
    connections,   \* config->connections, the head of the list
    next, prev,    \* conn->next, and what conn->prev points to
    allocated,     \* conn_t objects not yet freed
    port,          \* conn->port
    delete_me,     \* objects scheduled for removal
    finished,      \* connections whose client sent a FIN (connection_state)
    unacked,       \* connections with segments the timer may give up
    num_connected, new_connection,
    stage, cursor, \* where do_loop is; the object its delete loop is at
    crashed,       \* undefined behaviour, or an assertion, ended the process
    phase,         \* of each client
    arrived        \* datagrams at the server's socket

listVars   == <<connections, next, prev, allocated, port>>
stateVars  == <<delete_me, finished, unacked>>
clientVars == <<phase, arrived>>
vars == <<listVars, stateVars, num_connected, new_connection, stage, cursor,
          crashed, clientVars>>

\* The handshake's segments; then data and FIN, and those that like the
\* handshake's ACK have the flag and seqno 1 and ackno 1: a client's first
\* data, or a first FIN where convert_to_datagram adds the flag (IP sockets).
Handshake == {"syn", "ack"}
First == {"first data", "first fin"}
Kinds == Handshake \cup First \cup {"data", "fin"}

TypeOK ==
    /\ connections \in Conns \cup {Null} /\ cursor \in Conns \cup {Null}
    /\ next \in [Conns -> Conns \cup {Null}]
    /\ prev \in [Conns -> Conns \cup {Null, Stack}]
    /\ allocated \subseteq Conns /\ port \in [Conns -> Clients \cup {Null}]
    /\ delete_me \subseteq allocated /\ finished \subseteq allocated
    /\ unacked \subseteq allocated
    /\ num_connected \in 0..MaxClients
    /\ new_connection \in Clients \cup {Null}
    /\ stage \in {"stdin", "socket", "timer", "delete"} /\ crashed \in BOOLEAN
    /\ phase \in [Clients -> {"new", "connecting", "accepted", "connected", "sending"}]
    /\ arrived \in Seq([from : Clients, kind : Kinds])

\* start_server.
Init ==
    /\ connections = Null /\ cursor = Null
    /\ next = [c \in Conns |-> Null] /\ prev = [c \in Conns |-> Null]
    /\ allocated = {} /\ port = [c \in Conns |-> Null]
    /\ delete_me = {} /\ finished = {} /\ unacked = {}
    /\ num_connected = 0 /\ new_connection = Null
    /\ stage = "stdin" /\ crashed = FALSE
    /\ phase = [p \in Clients |-> "new"] /\ arrived = <<>>

----------------------------------------------------------------------------
\* The list

\* The objects the loops over get_connections() visit: those in every set
\* that holds the head and, with an object, the next one.
Listed ==
    LET Holds(S) == /\ connections \in S \cup {Null}
                    /\ \A c \in S : next[c] \in S \cup {Null}
    IN  {c \in Conns : \A S \in SUBSET Conns : Holds(S) => c \in S}

\* A faulty one that does not link the old head back.
ForwardOnly(c) ==
    /\ next' = [next EXCEPT ![c] = connections]
    /\ prev' = [prev EXCEPT ![c] = Stack]
    /\ connections' = c

\* The new object becomes the head; its prev is the address of a local.
conn_add(c) ==
    /\ next' = [next EXCEPT ![c] = connections]
    /\ prev' = [d \in Conns |-> IF d = c THEN Stack
                                ELSE IF d = connections THEN c ELSE prev[d]]
    /\ connections' = c

\* The object leaves the list.  When it was the head the list is set to NULL,
\* whatever followed, and conn->next is written through the dangling prev.
conn_free(c) ==
    /\ prev' = [d \in Conns |-> IF d = next[c] THEN prev[c] ELSE prev[d]]
    /\ next' = [d \in Conns |-> IF d = prev[c] THEN next[c] ELSE next[d]]
    /\ connections' = IF c = connections THEN Null ELSE connections
    /\ allocated' = allocated \ {c}
    /\ delete_me' = delete_me \ {c} /\ finished' = finished \ {c}
    /\ unacked' = unacked \ {c}
    /\ crashed' \in {FALSE, prev[c] = Stack}

----------------------------------------------------------------------------
\* The server's loop

At(s) == ~crashed /\ stage = s
Then(s) == stage' = s

\* ctcp_destroy frees the cTCP state and calls conn_remove.
Destroy(S) == delete_me' = delete_me \cup S

\* Input, for the client that connected last; at the end of it a FIN is sent,
\* and a connection whose client sent one is destroyed.
Stdin ==
    /\ At("stdin") /\ Then("socket")
    /\ \/ UNCHANGED stateVars
       \/ /\ connections # Null
          /\ \/ unacked' = unacked \cup {connections} /\ UNCHANGED <<delete_me, finished>>
             \/ /\ connections \in finished /\ Destroy({connections})
                /\ UNCHANGED <<finished, unacked>>
    /\ UNCHANGED <<listVars, num_connected, new_connection, cursor, crashed, clientVars>>

\* recv_filter: the first listed connection of that port.
Found(p) == {c \in Listed : port[c] = p}

\* A SYN, with a client too many: nothing is sent.
RefuseClient ==
    /\ At("socket") /\ arrived # <<>> /\ Head(arrived).kind = "syn"
    /\ num_connected >= MaxClients
    /\ arrived' = Tail(arrived) /\ Then("timer")
    /\ UNCHANGED <<listVars, stateVars, num_connected, new_connection, cursor,
                   crashed, phase>>

\* A faulty test that lets one client too many in.
RoomForOne == num_connected <= MaxClients

HasRoom == num_connected < MaxClients

\* tcp_new_connection: the object is added and the SYN-ACK sent.
NewClient(c) ==
    /\ At("socket") /\ arrived # <<>> /\ Head(arrived).kind = "syn"
    /\ HasRoom /\ num_connected' = num_connected + 1
    /\ c \in Conns \ allocated /\ allocated' = allocated \cup {c}
    /\ port' = [port EXCEPT ![c] = Head(arrived).from]
    /\ conn_add(c)
    /\ new_connection' = Head(arrived).from
    /\ phase' = [phase EXCEPT ![Head(arrived).from] = "accepted"]
    /\ arrived' = Tail(arrived) /\ Then("timer")
    /\ UNCHANGED <<stateVars, cursor, crashed>>

\* A faulty loop that forgets to reset new_connection.
ResetNever == UNCHANGED new_connection

Reset == new_connection' = Null

\* The ACK of the handshake: told by the port of the last client to connect
\* and by its numbers, which those of first data are too.
TakesForAck(m) == m.from = new_connection /\ m.kind \in First \cup {"ack"}

DiscardAck ==
    /\ At("socket") /\ arrived # <<>> /\ TakesForAck(Head(arrived))
    /\ Found(Head(arrived).from) # {}
    /\ Reset /\ arrived' = Tail(arrived) /\ Then("timer")
    /\ UNCHANGED <<listVars, stateVars, num_connected, cursor, crashed, phase>>

\* ctcp_receive for a connection: a first FIN is noted, and any segment after
\* it destroys the connection.
Segment(c) ==
    /\ At("socket") /\ arrived # <<>> /\ Head(arrived).kind # "syn"
    /\ ~TakesForAck(Head(arrived)) /\ c \in Found(Head(arrived).from) \ delete_me
    /\ \/ c \in finished /\ Destroy({c}) /\ UNCHANGED <<finished, unacked>>
       \/ /\ c \notin finished /\ Head(arrived).kind \in {"first fin", "fin"}
          /\ finished' = finished \cup {c} /\ UNCHANGED <<delete_me, unacked>>
       \/ /\ c \notin finished /\ Head(arrived).kind \notin {"first fin", "fin"}
          /\ unacked' \in {unacked, unacked \ {c}} /\ UNCHANGED <<delete_me, finished>>
    /\ arrived' = Tail(arrived) /\ Then("timer")
    /\ UNCHANGED <<listVars, num_connected, new_connection, cursor, crashed, phase>>

\* ctcp_receive on a state that ctcp_read destroyed in the same turn: freed
\* memory is used, and ASSERT_CONN may end the process.
SegmentDestroyed ==
    /\ At("socket") /\ arrived # <<>> /\ Head(arrived).kind # "syn"
    /\ ~TakesForAck(Head(arrived)) /\ Found(Head(arrived).from) \cap delete_me # {}
    /\ crashed' \in BOOLEAN /\ arrived' = Tail(arrived) /\ Then("timer")
    /\ UNCHANGED <<listVars, stateVars, num_connected, new_connection, cursor, phase>>

\* recv_filter drops the segments of a client it does not find.
Ignore ==
    /\ At("socket") /\ arrived # <<>> /\ Head(arrived).kind # "syn"
    /\ Found(Head(arrived).from) = {}
    /\ arrived' = Tail(arrived) /\ Then("timer")
    /\ UNCHANGED <<listVars, stateVars, num_connected, new_connection, cursor,
                   crashed, phase>>

NothingArrived ==
    /\ At("socket") /\ arrived = <<>> /\ Then("timer")
    /\ UNCHANGED <<listVars, stateVars, num_connected, new_connection, cursor,
                   crashed, clientVars>>

\* ctcp_timer goes through all states, those of forgotten connections too, and
\* destroys any number of those it has retransmitted for.
Timer ==
    /\ At("timer") /\ Then("delete") /\ cursor' = connections
    /\ \E S \in SUBSET (unacked \ delete_me) : Destroy(S)
    /\ UNCHANGED <<listVars, finished, unacked, num_connected, new_connection,
                   crashed, clientVars>>

\* A faulty loop that ends with the first object it frees.
StopAfterFree(c) == IF c \in delete_me THEN Null ELSE next[c]

\* next = conn->next, read before the object is freed.
NextToDelete(c) == next[c]

\* One turn of delete_all_connections.
DeleteNext ==
    /\ At("delete") /\ cursor # Null
    /\ cursor' = NextToDelete(cursor)
    /\ IF cursor \in delete_me THEN conn_free(cursor)
       ELSE UNCHANGED <<next, prev, connections, allocated, stateVars, crashed>>
    /\ UNCHANGED <<port, num_connected, new_connection, stage, clientVars>>

DeleteDone ==
    /\ At("delete") /\ cursor = Null /\ Then("stdin")
    /\ UNCHANGED <<listVars, stateVars, num_connected, new_connection, cursor,
                   crashed, clientVars>>

----------------------------------------------------------------------------
\* Clients

ClientSends(p, kind) ==
    /\ Len(arrived) < MaxArrived
    /\ arrived' = Append(arrived, [from |-> p, kind |-> kind])
    /\ UNCHANGED <<listVars, stateVars, num_connected, new_connection, stage,
                   cursor, crashed>>

\* tcp_handshake: the SYN, and the ACK once the SYN-ACK is there.
Connect(p) == /\ phase[p] = "new" /\ ClientSends(p, "syn")
              /\ phase' = [phase EXCEPT ![p] = "connecting"]
Acknowledge(p) == /\ phase[p] = "accepted" /\ ClientSends(p, "ack")
                  /\ phase' = [phase EXCEPT ![p] = "connected"]

\* What its ctcp.c sends.
SendFirst(p) == /\ phase[p] = "connected"
                /\ \E kind \in First \cup {"fin"} : ClientSends(p, kind)
                /\ phase' = [phase EXCEPT ![p] = "sending"]
SendMore(p) == /\ phase[p] = "sending" /\ UNCHANGED phase
               /\ \E kind \in {"data", "fin"} : ClientSends(p, kind)

----------------------------------------------------------------------------
Server == \/ Stdin \/ RefuseClient \/ (\E c \in Conns : NewClient(c) \/ Segment(c))
          \/ DiscardAck \/ SegmentDestroyed \/ Ignore \/ NothingArrived \/ Timer
          \/ DeleteNext \/ DeleteDone
Client(p) == Connect(p) \/ Acknowledge(p) \/ SendFirst(p) \/ SendMore(p)

Next == Server \/ \E p \in Clients : Client(p)
Spec == Init /\ [][Next]_vars
----------------------------------------------------------------------------
\* Properties

\* Whatever is freed, in whatever order and however many in one turn, and also
\* after the list was lost: no pointer leads to a freed object, and both
\* directions agree, so that the next conn_free repairs the right neighbours.
LinksAgree ==
    /\ {connections, cursor} \subseteq allocated \cup {Null}
    /\ \A c \in allocated :
          /\ next[c] # Null => next[c] \in allocated /\ prev[next[c]] = c
          /\ prev[c] \in Conns => prev[c] \in allocated /\ next[prev[c]] = c

\* A turn of the loop starts with no destroyed connection on the list, or
\* ctcp_read would be called on a freed state.
TurnStartsClean == stage = "stdin" => Listed \cap delete_me = {}

\* What is discarded as the ACK of a handshake is one, and never the first
\* segment of a client, which has the same numbers, whatever order the
\* clients connect, send and are destroyed in (a client that is no longer
\* listed loses its segments anyway).
OnlyAcksDiscarded ==
    \A i \in 1..Len(arrived) :
        /\ arrived[i].kind \in First /\ arrived[i].from = new_connection
        /\ Found(arrived[i].from) # {}
        => \E j \in 1..i - 1 : arrived[j] = [from |-> arrived[i].from, kind |-> "ack"]

\* config->connections has the "Connection details for clients connected to
\* this server": at the start of a turn every live connection is on the list.
ConnectedAreListed == stage = "stdin" => allocated \ delete_me \subseteq Listed

\* The pointers implement a set of connections: conn_add puts one in, and
\* conn_free takes out the one it is given and no other, in the middle of the
\* delete loop too, unless it is the head, with which all go.
List == INSTANCE CtcpList WITH listed <- Listed, newest <- connections
ImplementsList == List!Spec
=============================================================================
