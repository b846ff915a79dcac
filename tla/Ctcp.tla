-------------------------------- MODULE Ctcp --------------------------------
(***************************************************************************)
(* Two cTCP endpoints of lab 3 (ctcp.c) and the network between them.      *)
(*                                                                         *)
(* An endpoint is one thread: do_loop calls ctcp_read, ctcp_receive,       *)
(* ctcp_output (through conn_drain) and ctcp_timer one after the other.    *)
(* The handlers that send queued data sleep and busy-wait between two      *)
(* segments, so that each turn of their loops is an action here and pc     *)
(* says where the running handler is; a handler starts only at "idle".     *)
(*                                                                         *)
(* Data kept: bytes are numbered in the order they are typed, 0 being a    *)
(* byte that was never read; sizes are scaled down, with Header and the    *)
(* two integer widths as parameters.  The estimates of BBR are any member  *)
(* of Cwnds and Bdps.  Times are not kept: the timer may find any segment  *)
(* overdue, one per pass (a pass that finds several is several passes).    *)
(* That includes a segment never sent, whose time stamp is malloc's.       *)
(***************************************************************************)
EXTENDS Integers, Functions, SequencesExt

CONSTANTS
    Input,       \* how many bytes are typed at each end
    Closes,      \* the ends whose input then reaches its end
    Chunks,      \* the sizes conn_input may return, up to MAX_SEG_DATA_SIZE
    Header,      \* sizeof(ctcp_segment_t)
    Window,      \* the window negotiated by the handshake
    Cwnds, Bdps, \* values of bbr->cwnd and of the bandwidth-delay product
    Wrap16, Wrap32,    \* 2^16 and 2^32
    MaxTries,    \* retransmissions before teardown (5)
    Room,        \* chunks that fill MAX_BUF_SPACE
    Faults,      \* what can go wrong: see below
    MaxFaults, MaxFins   \* bounds of the model

Ends == {"client", "server"}
Peer(e) == IF e = "client" THEN "server" ELSE "client"

\* conn_send can be told to lose, duplicate and delay segments; "late": an
\* answer can take longer than rt_timeout; "slow": writes to stdout can block.
AllFaults == {"lose", "duplicate", "delay", "late", "slow"}

ASSUME CtcpAssumption ==
    /\ Input \in [Ends -> Nat] /\ Closes \subseteq Ends
    /\ Chunks \subseteq Nat \ {0} /\ Header \in Nat \ {0}
    /\ Wrap16 \in Nat \ {0} /\ Wrap32 \in Nat \ {0}
    /\ Window \in 0..Wrap16 - 1 /\ Cwnds \subseteq 0..Wrap16 - 1 /\ Cwnds # {}
    /\ Bdps \subseteq Int /\ Bdps # {}
    /\ MaxTries \in Nat \ {0} /\ Room \in Nat /\ Faults \subseteq AllFaults
    /\ MaxFaults \in Nat /\ MaxFins \in Nat

VARIABLES
    status,              \* "up", "down" once ctcp_destroy ran, "hung"
    connection_state,    \* 1 once a FIN was received
    sequence_number,     \* most_recent_sequence_number: the next to use
    received,            \* most_recent_received_acknowledgement: the ackno to send
    expected,            \* second_most_recent_acknowledgement: older data is duplicate
    send_window,
    sliding_window,      \* sliding_window_size_bytes, uint16_t
    inflight,            \* inflight_data, unsigned int
    pending,             \* output_pending_segments
    unacknowledged,      \* unacknowledged_segments
    pc, pieces, in,      \* the running handler: its step, input left, segment
    backlog,             \* chunks in conn->out_queue
    wrote_eof,
    typed, fins,         \* bytes read from the input, FINs sent
    output,              \* what was output at each end: seqno and bytes
    resent,              \* bytes ctcp_timer took off sliding_window_size_bytes
    wire,                \* segments under way to each end
    faults               \* network faults so far

sendVars == <<sequence_number, send_window, sliding_window, inflight, pending,
              unacknowledged, resent>>
recvVars == <<connection_state, received, expected, backlog, wrote_eof, output>>
runVars  == <<pc, pieces, in>>
vars == <<status, sendVars, recvVars, runVars, typed, fins, wire, faults>>

Bytes == Seq(Nat)
Segment == [seqno : Nat, ackno : Nat, data : Bytes, fin : BOOLEAN]
NoSegment == [seqno |-> 0, ackno |-> 0, data |-> <<>>, fin |-> TRUE]
Queued == [seg : Segment, sent : BOOLEAN, tries : 0..MaxTries - 1]
Size(seg) == Len(seg.data)
Length(seg) == Header + Size(seg)     \* segment->len

TypeOK ==
    /\ status \in [Ends -> {"up", "down", "hung"}]
    /\ connection_state \in [Ends -> 0..1]
    /\ sequence_number \in [Ends -> Nat] /\ received \in [Ends -> Nat]
    /\ expected \in [Ends -> Nat]
    /\ send_window \in [Ends -> 0..Wrap16 - 1]
    /\ sliding_window \in [Ends -> 0..Wrap16 - 1]
    /\ inflight \in [Ends -> 0..Wrap32 - 1]
    /\ pending \in [Ends -> Seq(Segment)]
    /\ unacknowledged \in [Ends -> Seq(Queued)]
    /\ pc \in [Ends -> {"idle", "read", "fill", "send", "acks"}]
    /\ pieces \in [Ends -> Seq(Bytes)] /\ in \in [Ends -> Segment]
    /\ backlog \in [Ends -> Nat] /\ wrote_eof \in [Ends -> BOOLEAN]
    /\ typed \in [Ends -> Nat] /\ fins \in [Ends -> Nat]
    /\ output \in [Ends -> Seq([seqno : Nat, data : Bytes])]
    /\ resent \in [Ends -> Nat]
    /\ wire \in [Ends -> Seq(Segment)] /\ faults \in Nat

\* ctcp_init, at both ends, after the handshake.
Init ==
    /\ status = [e \in Ends |-> "up"]
    /\ connection_state = [e \in Ends |-> 0]
    /\ sequence_number = [e \in Ends |-> 1]
    /\ received = [e \in Ends |-> 1] /\ expected = [e \in Ends |-> 1]
    /\ send_window = [e \in Ends |-> Window]
    /\ sliding_window = [e \in Ends |-> 0] /\ inflight = [e \in Ends |-> 0]
    /\ pending = [e \in Ends |-> <<>>]
    /\ unacknowledged = [e \in Ends |-> <<>>]
    /\ pc = [e \in Ends |-> "idle"] /\ pieces = [e \in Ends |-> <<>>]
    /\ in = [e \in Ends |-> NoSegment]
    /\ backlog = [e \in Ends |-> 0] /\ wrote_eof = [e \in Ends |-> FALSE]
    /\ typed = [e \in Ends |-> 0] /\ fins = [e \in Ends |-> 0]
    /\ output = [e \in Ends |-> <<>>] /\ resent = [e \in Ends |-> 0]
    /\ wire = [e \in Ends |-> <<>>] /\ faults = 0

----------------------------------------------------------------------------
\* Sending

Up(e, step) == status[e] = "up" /\ pc[e] = step
Goto(e, step) == pc' = [pc EXCEPT ![e] = step]

\* The segment send_segment builds.
NewSegment(e, data, fin, ackno) ==
    [seqno |-> sequence_number[e], ackno |-> ackno, data |-> data, fin |-> fin]

\* conn_send, to the other end.
conn_send(e, seg) == wire' = [wire EXCEPT ![Peer(e)] = Append(@, seg)]

\* A faulty one that numbers the header's bytes too.
EnqueueWhole(e, data) ==
    /\ pending' = [pending EXCEPT ![e] =
                      Append(@, NewSegment(e, data, FALSE, received[e]))]
    /\ sequence_number' = [sequence_number EXCEPT ![e] = @ + Header + Len(data)]

\* send_segment with req_ack: the data is queued as the next of the stream.
Enqueue(e, data) ==
    /\ pending' = [pending EXCEPT ![e] =
                      Append(@, NewSegment(e, data, FALSE, received[e]))]
    /\ sequence_number' = [sequence_number EXCEPT ![e] = @ + Len(data)]

\* What a handler does after its send loop: ctcp_read takes the next piece,
\* ctcp_receive looks at the next unacknowledged segment.
AfterSend(e) == IF in[e] # NoSegment THEN "acks"
                ELSE IF pieces[e] # <<>> THEN "read" ELSE "idle"

\* A return out of the send loop ends ctcp_receive, but only one send_segment
\* of ctcp_read.
EarlyReturn(e) ==
    /\ Goto(e, IF in[e] # NoSegment \/ pieces[e] = <<>> THEN "idle" ELSE "read")
    /\ in' = [in EXCEPT ![e] = NoSegment]

\* Faulty loops: one that does not count the segment it moves, one whose
\* counter does not wrap.
MoveUncounted(e) ==
    /\ unacknowledged' = [unacknowledged EXCEPT ![e] =
          Append(@, [seg |-> Head(pending[e]), sent |-> FALSE, tries |-> 0])]
    /\ pending' = [pending EXCEPT ![e] = Tail(@)]
    /\ UNCHANGED sliding_window

MoveUnwrapped(e) ==
    /\ unacknowledged' = [unacknowledged EXCEPT ![e] =
          Append(@, [seg |-> Head(pending[e]), sent |-> FALSE, tries |-> 0])]
    /\ pending' = [pending EXCEPT ![e] = Tail(@)]
    /\ sliding_window' = [sliding_window EXCEPT ![e] = @ + Length(Head(pending[e]))]

\* One turn of the loop that moves segments into the window.
Move(e) ==
    /\ unacknowledged' = [unacknowledged EXCEPT ![e] =
          Append(@, [seg |-> Head(pending[e]), sent |-> FALSE, tries |-> 0])]
    /\ pending' = [pending EXCEPT ![e] = Tail(@)]
    /\ sliding_window' = [sliding_window EXCEPT ![e] =
                             (@ + Length(Head(pending[e]))) % Wrap16]

Fits(e) == pending[e] # <<>> /\ sliding_window[e] < send_window[e]

Fill(e) ==
    /\ Up(e, "fill") /\ Fits(e) /\ Move(e)
    /\ UNCHANGED <<status, sequence_number, send_window, inflight, resent,
                   recvVars, runVars, typed, fins, wire, faults>>

\* The two tests before the send loop: the bandwidth-delay product, an int
\* compared with an unsigned one, and can_send_how_much == 0 with nothing
\* pending.
Gate(e, bdp) ==
    /\ Up(e, "fill") /\ ~Fits(e)
    /\ IF \/ inflight[e] >= bdp % Wrap32 /\ bdp # 0
          \/ pending[e] = <<>> /\ sliding_window[e] = inflight[e]
       THEN EarlyReturn(e)
       ELSE Goto(e, "send") /\ UNCHANGED in
    /\ UNCHANGED <<status, sendVars, recvVars, pieces, typed, fins, wire, faults>>

Unsent(e) == {i \in 1..Len(unacknowledged[e]) : ~unacknowledged[e][i].sent}

\* A faulty loop that goes through the list from its tail.
IsLast(e, i) == \A j \in Unsent(e) : j <= i

\* The loop goes through the list from its head.
IsNext(e, i) == \A j \in Unsent(e) : i <= j

\* One turn of the send loop, for its next segment not yet sent.
Send(e) ==
    /\ Up(e, "send")
    /\ \E i \in Unsent(e) :
          /\ IsNext(e, i)
          /\ conn_send(e, unacknowledged[e][i].seg)
          /\ unacknowledged' = [unacknowledged EXCEPT ![e][i].sent = TRUE]
          /\ inflight' = [inflight EXCEPT ![e] =
                             (@ + Length(unacknowledged[e][i].seg)) % Wrap32]
    /\ UNCHANGED <<status, sequence_number, send_window, sliding_window, pending,
                   resent, recvVars, runVars, typed, fins, faults>>

SendDone(e) ==
    /\ Up(e, "send") /\ Unsent(e) = {} /\ Goto(e, AfterSend(e))
    /\ UNCHANGED <<status, sendVars, recvVars, pieces, in, typed, fins, wire, faults>>

----------------------------------------------------------------------------
\* ctcp_destroy: the end is gone, and so are its queues.

ctcp_destroy(e) ==
    /\ status' = [status EXCEPT ![e] = "down"]
    /\ unacknowledged' = [unacknowledged EXCEPT ![e] = <<>>]
    /\ pending' = [pending EXCEPT ![e] = <<>>]

----------------------------------------------------------------------------
\* ctcp_read

\* What ctcp_read passes to send_segment for n bytes read.  With more than a
\* window of them it first sends window-sized pieces, the last of which may
\* run past the n bytes, and then the n bytes again.
Byte(e, k, n) == IF k <= n THEN typed[e] + k ELSE 0
Whole(e, n) == [k \in 1..n |-> typed[e] + k]
Pieces(e, n) ==
    LET w == send_window[e]
        count == IF n > w THEN (n + w - 1) \div w ELSE 0
    IN  [i \in 1..count |-> [k \in 1..w |-> Byte(e, (i - 1) * w + k, n)]]
            \o <<Whole(e, n)>>

\* conn_input returns n bytes; the first piece is queued.  With a window of
\* zero bytes the loop over the pieces never advances.
ctcp_read(e, n) ==
    /\ Up(e, "idle") /\ typed[e] + n <= Input[e]
    /\ typed' = [typed EXCEPT ![e] = @ + n]
    /\ IF send_window[e] = 0
       THEN /\ status' = [status EXCEPT ![e] = "hung"]
            /\ UNCHANGED <<sequence_number, pending, pieces, pc>>
       ELSE /\ Enqueue(e, Head(Pieces(e, n))) /\ Goto(e, "fill")
            /\ pieces' = [pieces EXCEPT ![e] = Tail(Pieces(e, n))]
            /\ UNCHANGED status
    /\ UNCHANGED <<send_window, sliding_window, inflight, unacknowledged, resent,
                   recvVars, in, fins, wire, faults>>

\* The next turn of the loop, or the send_segment after it.
ReadPiece(e) ==
    /\ Up(e, "read") /\ Enqueue(e, Head(pieces[e])) /\ Goto(e, "fill")
    /\ pieces' = [pieces EXCEPT ![e] = Tail(@)]
    /\ UNCHANGED <<status, send_window, sliding_window, inflight, unacknowledged,
                   resent, recvVars, in, typed, fins, wire, faults>>

\* conn_input returns -1, now and whenever stdin is readable again: a FIN,
\* once nothing is pending.  It is neither queued nor numbered.
ReadEof(e) ==
    /\ Up(e, "idle") /\ e \in Closes /\ typed[e] = Input[e]
    /\ pending[e] = <<>> /\ fins[e] < MaxFins
    /\ fins' = [fins EXCEPT ![e] = @ + 1]
    /\ conn_send(e, NewSegment(e, <<>>, TRUE, received[e]))
    /\ IF connection_state[e] = 1 THEN ctcp_destroy(e)
       ELSE UNCHANGED <<status, unacknowledged, pending>>
    /\ UNCHANGED <<sequence_number, send_window, sliding_window, inflight, resent,
                   recvVars, runVars, typed, faults>>

----------------------------------------------------------------------------
\* ctcp_receive

\* The first tests, on the flags: a first FIN is acknowledged and ends the
\* output; after it any segment tears the connection down.
ReceiveFin(e) ==
    /\ Up(e, "idle") /\ wire[e] # <<>>
    /\ Head(wire[e]).fin /\ connection_state[e] = 0
    /\ connection_state' = [connection_state EXCEPT ![e] = 1]
    /\ wire' = [wire EXCEPT ![e] = Tail(@), ![Peer(e)] =
                   Append(@, NewSegment(e, <<>>, FALSE, received[e]))]
    /\ wrote_eof' = [wrote_eof EXCEPT ![e] = TRUE]
    /\ UNCHANGED <<status, sendVars, received, expected, backlog, output, runVars,
                   typed, fins, faults>>

ReceiveAfterFin(e) ==
    /\ Up(e, "idle") /\ wire[e] # <<>> /\ connection_state[e] = 1
    /\ wire' = [wire EXCEPT ![e] = Tail(@)]
    /\ ctcp_destroy(e)
    /\ UNCHANGED <<sequence_number, send_window, sliding_window, inflight, resent,
                   recvVars, runVars, typed, fins, faults>>

Receive(e) ==
    /\ Up(e, "idle") /\ wire[e] # <<>>
    /\ ~Head(wire[e]).fin /\ connection_state[e] = 0
    /\ in' = [in EXCEPT ![e] = Head(wire[e])]
    /\ wire' = [wire EXCEPT ![e] = Tail(@)] /\ Goto(e, "acks")
    /\ UNCHANGED <<status, sendVars, recvVars, pieces, typed, fins, faults>>

\* The acknowledgement covers the oldest unacknowledged segment.
Acked(e) ==
    /\ unacknowledged[e] # <<>>
    /\ Head(unacknowledged[e]).seg.seqno < in[e].ackno

\* A faulty one that gives the window nothing back.
ReleaseNothing(e, length) ==
    /\ inflight' = [inflight EXCEPT ![e] = (@ - length) % Wrap32]
    /\ UNCHANGED sliding_window

\* The acknowledged bytes leave the window and the network.
Release(e, length) ==
    /\ sliding_window' = [sliding_window EXCEPT ![e] = (@ - length) % Wrap16]
    /\ inflight' = [inflight EXCEPT ![e] = (@ - length) % Wrap32]

\* One turn of the loop over the acknowledged segments.  BBR sets the window.
Ack(e, cwnd) ==
    /\ Up(e, "acks") /\ Acked(e)
    /\ Release(e, Length(Head(unacknowledged[e]).seg))
    /\ unacknowledged' = [unacknowledged EXCEPT ![e] = Tail(@)]
    /\ send_window' = [send_window EXCEPT ![e] = cwnd]
    /\ IF pending[e] # <<>> THEN Goto(e, "fill") ELSE UNCHANGED pc
    /\ UNCHANGED <<status, sequence_number, pending, resent, recvVars, pieces, in,
                   typed, fins, wire, faults>>

\* conn_output: nothing after EOF; nothing when the queue is full; written at
\* once when the queue is empty and stdout takes it, else queued.
Outputs(e) == ~wrote_eof[e] /\ backlog[e] < Room
conn_output(e, seg) ==
    IF Outputs(e)
    THEN /\ output' = [output EXCEPT ![e] =
                          Append(@, [seqno |-> seg.seqno, data |-> seg.data])]
         /\ \/ backlog[e] = 0 /\ UNCHANGED backlog
            \/ /\ backlog[e] > 0 \/ "slow" \in Faults
               /\ backlog' = [backlog EXCEPT ![e] = @ + 1]
    ELSE UNCHANGED <<output, backlog>>

\* A faulty test that takes the data of a segment received again for new.
FreshTwice(e) == in[e].seqno + Size(in[e]) >= expected[e]

\* dup_flag == 0
Fresh(e) == in[e].seqno >= expected[e]

\* ntohl(segment->seqno) + data_len
After(e) == in[e].seqno + Size(in[e])

\* The rest of ctcp_receive, on the data; ackno and expected follow the
\* segment even when it carries none.
ReceiveData(e) ==
    /\ Up(e, "acks") /\ ~Acked(e)
    /\ received' = [received EXCEPT ![e] = After(e)]
    /\ expected' = [expected EXCEPT ![e] = IF Fresh(e) THEN After(e) ELSE @]
    /\ IF Size(in[e]) > 0 /\ Fresh(e)
       THEN /\ conn_send(e, NewSegment(e, <<>>, FALSE, After(e)))
            /\ conn_output(e, in[e])
       ELSE UNCHANGED <<wire, output, backlog>>
    /\ Goto(e, "idle") /\ in' = [in EXCEPT ![e] = NoSegment]
    /\ UNCHANGED <<status, sendVars, connection_state, wrote_eof, pieces, typed,
                   fins, faults>>

----------------------------------------------------------------------------
\* ctcp_output and ctcp_timer

\* conn_drain writes some of out_queue, and the library calls ctcp_output,
\* which sends an ACK.
ctcp_output(e) ==
    /\ Up(e, "idle") /\ backlog[e] > 0
    /\ \E left \in 0..backlog[e] - 1 : backlog' = [backlog EXCEPT ![e] = left]
    /\ conn_send(e, NewSegment(e, <<>>, FALSE, received[e]))
    /\ UNCHANGED <<status, sendVars, connection_state, received, expected,
                   wrote_eof, output, runVars, typed, fins, faults>>

\* The timer finds the i-th unacknowledged segment overdue: it is taken off
\* the window and sent again; the last retransmission tears the connection
\* down.
ctcp_timer(e, i) ==
    /\ Up(e, "idle") /\ "late" \in Faults /\ i \in 1..Len(unacknowledged[e])
    /\ LET q == unacknowledged[e][i] IN
       /\ conn_send(e, q.seg)
       /\ sliding_window' = [sliding_window EXCEPT ![e] = (@ - Length(q.seg)) % Wrap16]
       /\ resent' = [resent EXCEPT ![e] = @ + Length(q.seg)]
       /\ IF q.tries + 1 >= MaxTries THEN ctcp_destroy(e)
          ELSE /\ unacknowledged' = [unacknowledged EXCEPT ![e][i].tries = @ + 1]
               /\ UNCHANGED <<status, pending>>
    /\ UNCHANGED <<sequence_number, send_window, inflight, recvVars, runVars, typed,
                   fins, faults>>

----------------------------------------------------------------------------
\* The network: conn_send's drop, duplicate and delay options, or a real one.

Fault(e, kind) ==
    /\ kind \in Faults /\ faults < MaxFaults /\ faults' = faults + 1
    /\ wire[e] # <<>>
    /\ UNCHANGED <<status, sendVars, recvVars, runVars, typed, fins>>

Lose(e)      == Fault(e, "lose") /\ wire' = [wire EXCEPT ![e] = Tail(@)]
Duplicate(e) == Fault(e, "duplicate") /\ wire' = [wire EXCEPT ![e] = <<Head(@)>> \o @]
Delay(e)     == /\ Fault(e, "delay") /\ Len(wire[e]) > 1
                /\ wire' = [wire EXCEPT ![e] = Append(Tail(@), Head(@))]

----------------------------------------------------------------------------
Sending(e) == \/ Fill(e) \/ Send(e) \/ SendDone(e)
              \/ \E bdp \in Bdps : Gate(e, bdp)
Reading(e) == (\E n \in Chunks : ctcp_read(e, n)) \/ ReadPiece(e) \/ ReadEof(e)
Receiving(e) == \/ ReceiveFin(e) \/ ReceiveAfterFin(e) \/ Receive(e)
                \/ (\E cwnd \in Cwnds : Ack(e, cwnd)) \/ ReceiveData(e)
Network(e) == Lose(e) \/ Duplicate(e) \/ Delay(e)

Endpoint(e) == \/ Sending(e) \/ Reading(e) \/ Receiving(e) \/ ctcp_output(e)
               \/ \E i \in 1..Len(unacknowledged[e]) : ctcp_timer(e, i)

Next == \E e \in Ends : Endpoint(e) \/ Network(e)
Spec == Init /\ [][Next]_vars

\* do_loop runs the handlers that have segments to receive, and a handler that
\* runs goes on; poll wakes for the timer.  Nothing obliges anyone to type or
\* to close, nor the library to drain its output queue.
Fairness ==
    \A e \in Ends :
       /\ WF_vars(Sending(e)) /\ WF_vars(ReadPiece(e)) /\ WF_vars(Receiving(e))
       /\ WF_vars(\E i \in 1..Len(unacknowledged[e]) : ctcp_timer(e, i))
FairSpec == Spec /\ Fairness
----------------------------------------------------------------------------
\* Properties

\* The segments of e not yet acknowledged, in the order of both lists.
SendQueue(e) == [i \in 1..Len(unacknowledged[e]) |-> unacknowledged[e][i].seg]
                   \o pending[e]

\* Nothing is lost, reordered or numbered twice between the two lists of the
\* sender: one after the other they hold consecutive pieces of the stream, up
\* to the next sequence number.
StreamWhole ==
    \A e \in Ends : LET q == SendQueue(e) IN
       /\ \A i \in 1..Len(q) - 1 : q[i].seqno + Size(q[i]) = q[i + 1].seqno
       /\ q # <<>> => Last(q).seqno + Size(Last(q)) = sequence_number[e]

\* Whatever the network loses, repeats or delays, an end never outputs a
\* sequence number twice nor goes back.
OutputOnce ==
    \A e \in Ends : \A i, j \in 1..Len(output[e]) : i < j =>
        output[e][i].seqno + Len(output[e][i].data) <= output[e][j].seqno

\* sliding_window_size_bytes is off by exactly the bytes ctcp_timer took off
\* when it retransmitted, and right as long as it did not.
Total(u) ==
    LET sum[n \in 0..Len(u)] == IF n = 0 THEN 0 ELSE sum[n - 1] + Length(u[n].seg)
    IN  sum
InWindow(e) == Total(unacknowledged[e])[Len(unacknowledged[e])]
WindowAccounting ==
    \A e \in Ends : status[e] # "down" =>
        (sliding_window[e] + resent[e]) % Wrap16 = InWindow(e) % Wrap16

\* The bytes output at e.
Written(e) == FlattenSeq([i \in 1..Len(output[e]) |-> output[e][i].data])

\* ctcp_read's test before a FIN is on output_pending_segments alone, and the
\* product of BBR stops the send loop without putting anything back there: the
\* client then sends its FIN past data that it has not sent.
Overtaken == fins["client"] > 0 /\ Unsent("client") # {}

\* The stream from the client to the server, as CtcpStream promises it, except
\* that an end of file that has overtaken data counts for nothing.
Stream == INSTANCE CtcpStream WITH
    typed <- typed["client"], closing <- fins["client"] > 0,
    written <- Written("server"), closed <- wrote_eof["server"] /\ ~Overtaken,
    Bytes <- Input["client"]

\* On a network that delivers in order and in time, one direction in use, the
\* bytes typed are written, each once and in order, whatever window and product
\* BBR sets; and where no FIN has overtaken data, EOF comes after the last one.
ImplementsStream == Stream!Spec

\* The product has stopped the send loop, and every segment sent has been
\* acknowledged: no handler sends the rest until more input is read (358), or
\* ctcp_timer finds it overdue by a time stamp that nobody has set.
Held == /\ pc["client"] = "idle" /\ pending["client"] = <<>>
        /\ Unsent("client") = 1..Len(unacknowledged["client"])
        /\ Unsent("client") # {}

\* On that network what is typed is output at the other end, whatever window
\* and product BBR sets, unless it is held for good at the sender.
EverythingArrives ==
    \A n \in 1..Input["client"] :
        typed["client"] >= n ~> Len(Written("server")) >= n \/ []Held

\* ctcp_tests.py: what one end reads is what the other end was given.
OutputIsInput ==
    \A e \in Ends : IsPrefix(Written(Peer(e)), [k \in 1..typed[e] |-> k])
=============================================================================
