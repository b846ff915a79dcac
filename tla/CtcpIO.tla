------------------------------- MODULE CtcpIO -------------------------------
(***************************************************************************)
(* The input and output of the cTCP library (ctcp_sys_internal.c): what    *)
(* conn_output queues when the standard output does not take it; the       *)
(* POLLOUT flag that is to bring the loop back to it; conn_drain; what it  *)
(* writes to the program started for a connection; and what ctcp_read      *)
(* finds to read.                                                          *)
(*                                                                         *)
(* A server either joins its clients to its own terminal, which they share *)
(* for output, or runs a program for each of them (run_program).  The loop *)
(* decides what is ready when it calls poll, and acts on it afterwards;    *)
(* write() is a step of its own, because whoever reads the other end goes  *)
(* on meanwhile.  Bytes are numbered in the order of their segments.       *)
(*                                                                         *)
(* setup_poll makes the terminal non-blocking, but execute_program only    *)
(* the pipe it reads, not the one it writes: a write to a program waits,   *)
(* and do_loop with it, until the pipe has room for the whole segment      *)
(* (which is less than PIPE_BUF) or its reader is gone.  So nothing is     *)
(* ever queued for a program, and the branches for one in conn_drain and   *)
(* behind the write in conn_output are not reached.                        *)
(***************************************************************************)
EXTENDS Naturals, Sequences, FiniteSets, SequencesExt

CONSTANTS
    Conns,          \* connections, numbered in the order they are made
    ProgramConns,   \* bound: those of them a server with programs has
    Terminal,       \* the server's own stdin and stdout
    MAX_BUF_SPACE,
    MaxLen,         \* bytes in a segment
    Capacity,       \* what the terminal holds for its reader
    PipeCapacity,   \* what the pipe to a program holds
    MaxReceived,    \* bound: bytes received on the connections of a server
    MaxForPrograms  \* bound: of them, with programs

ASSUME IOAssumption ==
    /\ Conns \subseteq Nat /\ ProgramConns \subseteq Conns /\ Terminal \notin Conns
    /\ MAX_BUF_SPACE \in Nat \ {0} /\ MaxLen \in Nat \ {0}
    /\ Capacity \in Nat \ {0} /\ MaxReceived \in Nat
    /\ MaxForPrograms \in 0..MaxReceived
    /\ PipeCapacity \in Nat /\ PipeCapacity >= MaxLen

VARIABLES
    run_program,
    connections,    \* get_connections(): the list, the newest first, has each once
    fresh,          \* clients that have not connected yet
    out_queue,      \* chunks of a connection, each with the bytes left in it
    wrote_eof, wrote_err, read_eof, delete_me,   \* flags of conn_t
    pollout,
    room, closed,   \* of each reader: what it takes now; those that are gone
    pending, ended, \* sources with something to read; those at their end
    waiting,        \* programs that wait for what they print to be read
    stage,          \* where do_loop is
    segment,        \* what it writes to a program
    ready,          \* programs that poll reported
    draining,       \* the connections do_loop has still to drain
    received, written, refused,  \* history: bytes received, written, refused
    stalled         \* history: queues whose POLLOUT was cleared

listVars == <<run_program, connections, fresh>>
flagVars == <<wrote_eof, wrote_err, read_eof, delete_me>>
peerVars == <<room, closed, pending, ended, waiting>>
byteVars == <<received, written, refused>>
vars == <<listVars, out_queue, flagVars, pollout, peerVars, stage, segment, ready,
          draining, byteVars, stalled>>

Peers == Conns \cup {Terminal}
Bytes == 1..MaxReceived
Chunks == {k \in [first : Bytes, last : Bytes] : k.first <= k.last}
NoSegment == [conn |-> 0, length |-> 0]
Limit(p) == IF p = Terminal THEN Capacity ELSE PipeCapacity

\* The bytes in a queue.
Queued(c) == UNION {k.first..k.last : k \in ToSet(out_queue[c])}

\* conn_output takes a whole segment when there is room for one byte, and so
\* the queue outgrows MAX_BUF_SPACE, but by less than a segment.
QueueBounded == \A c \in Conns : Cardinality(Queued(c)) < MAX_BUF_SPACE + MaxLen

TypeOK ==
    /\ run_program \in BOOLEAN /\ pollout \in BOOLEAN
    /\ connections \subseteq Conns /\ draining \subseteq Conns /\ fresh \subseteq Conns
    /\ out_queue \in [Conns -> Seq(Chunks)]
    /\ wrote_eof \subseteq Conns /\ wrote_err \subseteq Conns
    /\ read_eof \subseteq Conns /\ delete_me \subseteq Conns
    /\ room \in [Peers -> Nat] /\ (\A p \in Peers : room[p] <= Limit(p))
    /\ closed \subseteq Peers /\ waiting \subseteq Conns
    /\ pending \subseteq Peers /\ ended \subseteq Peers
    /\ stage \in {"poll", "drain", "write", "programs", "socket", "program", "timer"}
    /\ segment \in [conn : Nat, length : 0..MaxLen]
    /\ stage = "program" => segment.conn \in connections /\ segment.length > 0
    /\ ready \subseteq Conns
    /\ received \in [Conns -> 0..MaxReceived]
    /\ written \in [Conns -> SUBSET Bytes] /\ refused \in [Conns -> SUBSET Bytes]
    /\ stalled \subseteq Conns
    /\ QueueBounded

\* start_server and setup_poll: the first poll asks for POLLOUT.
Init ==
    /\ run_program \in BOOLEAN
    /\ connections = {} /\ fresh = (IF run_program THEN ProgramConns ELSE Conns)
    /\ out_queue = [c \in Conns |-> <<>>]
    /\ wrote_eof = {} /\ wrote_err = {} /\ read_eof = {} /\ delete_me = {}
    /\ pollout = TRUE
    /\ room = [p \in Peers |-> Limit(p)] /\ closed = {}
    /\ pending = {} /\ ended = {} /\ waiting = {}
    /\ stage = "poll" /\ segment = NoSegment /\ ready = {}
    /\ draining = {}
    /\ received = [c \in Conns |-> 0]
    /\ written = [c \in Conns |-> {}] /\ refused = [c \in Conns |-> {}]
    /\ stalled = {}

Peer(c) == IF run_program THEN c ELSE Terminal

\* The first of those in a list.
IsNewest(c, list) == c \in list /\ \A d \in list : d <= c

At(s) == stage = s
Then(s) == stage' = s

----------------------------------------------------------------------------
\* write()

\* What a write of n bytes to the terminal takes: what there is room for;
\* nothing is EAGAIN.
Takes(n) == IF n <= room[Terminal] THEN n ELSE room[Terminal]

Gone(p) == p \in closed

WriteTo(c, from, w) ==
    /\ room' = [room EXCEPT ![Peer(c)] = @ - w]
    /\ written' = [written EXCEPT ![c] = @ \cup (from..from + w - 1)]

Size(k) == k.last - k.first + 1

\* A faulty test that finds room in a full queue.
HasSpaceOrFull(c) == Cardinality(Queued(c)) <= MAX_BUF_SPACE

\* conn_bufspace, no more than whether it is 0.
HasSpace(c) == Cardinality(Queued(c)) < MAX_BUF_SPACE

----------------------------------------------------------------------------
\* poll, and the input of the connections

\* A program that has exited makes its pipe report POLLHUP, and POLLIN only
\* as long as there is output left in it; the terminal reports its end as
\* POLLIN.
Readable == pending \cup (ended \cap {Terminal})

CanOutput == \/ pollout /\ room[Terminal] > 0
             \/ Terminal \in closed

\* conn_input, until it returns 0 or -1: everything there is, and the end.
ReadToEnd(S) == read_eof \cup {c \in S : Peer(c) \in ended}

\* ctcp_read for the connections in S: nothing is read after an end, at which
\* a connection is destroyed if its client has sent a FIN, unless it has
\* segments to send.
ctcp_read(S) ==
    /\ pending' = pending \ {Peer(c) : c \in S \ read_eof}
    /\ waiting' = waiting \ {Peer(c) : c \in S \ read_eof}
    /\ read_eof' = ReadToEnd(S \ read_eof)
    /\ \E D \in SUBSET (S \cap read_eof' \cap wrote_eof) : delete_me' = delete_me \cup D

\* What do_loop does with the connections that it has still to drain.
DrainNext(rest) == Then(IF rest # {} THEN "drain"
                        ELSE IF run_program THEN "programs" ELSE "socket")

\* poll; then the newest connection, and no other, reads the terminal.
Poll ==
    /\ At("poll")
    /\ ctcp_read(IF ~run_program /\ Terminal \in Readable
                 THEN {c \in connections : IsNewest(c, connections)} ELSE {})
    /\ ready' = IF run_program THEN Readable \cap connections ELSE {}
    /\ draining' = IF CanOutput THEN connections ELSE {}
    /\ DrainNext(draining')
    /\ UNCHANGED <<listVars, out_queue, wrote_eof, wrote_err, pollout, room, closed,
                   ended, segment, byteVars, stalled>>

\* Every connection reads the output of its program.
Programs ==
    /\ At("programs") /\ Then("socket")
    /\ ctcp_read(ready) /\ ready' = {}
    /\ UNCHANGED <<listVars, out_queue, wrote_eof, wrote_err, pollout, room, closed,
                   ended, segment, draining, byteVars, stalled>>

----------------------------------------------------------------------------
\* conn_drain

\* Queues that it has been through for others.
Left == {d \in connections \ draining : out_queue[d] # <<>>}

\* The end of conn_drain.  (If it wrote anything it calls ctcp_output, which
\* sends an ACK, but not for a connection that ctcp_read destroyed.)
Leave(c) == draining' = draining \ {c} /\ DrainNext(draining')

\* An empty queue after the EOF ends the output.
EndOutput(c, queue) == wrote_err' = IF c \in wrote_eof /\ queue = <<>>
                                    THEN wrote_err \cup {c} ELSE wrote_err

\* The flag is cleared for each connection anew.
DrainEnter(c) ==
    /\ At("drain") /\ IsNewest(c, draining) /\ pollout' = FALSE
    /\ stalled' = (stalled \ {c}) \cup Left
    /\ IF c \in wrote_err \/ out_queue[c] = <<>>
       THEN Leave(c) /\ EndOutput(c, out_queue[c])
       ELSE Then("write") /\ UNCHANGED <<draining, wrote_err>>
    /\ UNCHANGED <<listVars, out_queue, wrote_eof, read_eof, delete_me, peerVars,
                   segment, ready, byteVars>>

\* The queue when w bytes of its first chunk have been written.
AfterWrite(q, w) == IF w = Size(Head(q)) THEN Tail(q)
                    ELSE [q EXCEPT ![1] = [first |-> @.first + w, last |-> @.last]]

\* One write of the head of the queue: the whole chunk, and the loop goes on;
\* a part, and POLLOUT is asked for; nothing, and it is not.
DrainWrite(c) ==
    LET k == Head(out_queue[c])
        w == Takes(Size(k))
    IN
    /\ At("write") /\ IsNewest(c, draining) /\ out_queue[c] # <<>> /\ ~Gone(Peer(c))
    /\ WriteTo(c, k.first, w)
    /\ out_queue' = [out_queue EXCEPT ![c] = AfterWrite(@, w)]
    /\ pollout' = (0 < w /\ w < Size(k))
    /\ stalled' = IF w = 0 THEN stalled \cup {c}
                  ELSE IF pollout' THEN {} ELSE stalled
    /\ IF w = Size(k) /\ out_queue'[c] # <<>>
       THEN UNCHANGED <<stage, draining, wrote_err>>
       ELSE Leave(c) /\ EndOutput(c, out_queue'[c])
    /\ UNCHANGED <<listVars, wrote_eof, read_eof, delete_me, closed, pending, ended,
                   waiting, segment, ready, received, refused>>

DrainError(c) ==
    /\ At("write") /\ IsNewest(c, draining) /\ Gone(Peer(c)) /\ Leave(c)
    /\ wrote_err' = wrote_err \cup {c}
    /\ UNCHANGED <<listVars, out_queue, wrote_eof, read_eof, delete_me, pollout,
                   peerVars, segment, ready, byteVars, stalled>>

----------------------------------------------------------------------------
\* The socket: ctcp_receive and conn_output

\* Segments for a connection that was destroyed in this turn are in CtcpServer.
Open(c) == c \in connections \ delete_me

\* A faulty conn_output that queues and does not ask for POLLOUT.
AsksNever(queues) == FALSE

\* The flag for a queue.
AsksForOutput(queues) == queues

\* conn_output for the bytes first..last, of which w are written at once.
Store(c, first, last, w) ==
    /\ out_queue' = [out_queue EXCEPT ![c] =
                        IF first + w <= last THEN Append(@, [first |-> first + w, last |-> last])
                        ELSE @]
    /\ LET queues == out_queue'[c] # <<>> IN
       /\ pollout' = (pollout \/ AsksForOutput(queues))
       /\ stalled' = IF queues THEN {} ELSE stalled

\* A faulty test that lets a segment overtake the queue.
WriteFirst(c) == TRUE

WriteNow(c) == out_queue[c] = <<>>

\* Within the bound for all connections of a server.
InBound(c, last) ==
    LET most == IF run_program THEN MaxForPrograms ELSE MaxReceived
    IN  last <= most /\ \A d \in Conns \ {c} : received[d] + last <= most

\* ctcp_receive acknowledges n bytes, then calls conn_output and does not look
\* at what it returns.
ReceiveData(c, n) ==
    LET first == received[c] + 1
        last == received[c] + n
    IN
    /\ At("socket") /\ Then("timer") /\ Open(c) /\ c \notin wrote_eof
    /\ InBound(c, last) /\ received' = [received EXCEPT ![c] = last]
    /\ IF c \in wrote_err \/ ~HasSpace(c) \/ (WriteNow(c) /\ Gone(Peer(c)))
       THEN /\ refused' = [refused EXCEPT ![c] = @ \cup (first..last)]
            /\ wrote_err' = IF HasSpace(c) THEN wrote_err \cup {c} ELSE wrote_err
            /\ UNCHANGED <<out_queue, pollout, room, written, stalled>>
       ELSE /\ ~run_program
            /\ LET w == IF WriteNow(c) THEN Takes(n) ELSE 0
               IN  WriteTo(c, first, w) /\ Store(c, first, last, w)
            /\ UNCHANGED <<refused, wrote_err>>
    /\ UNCHANGED <<listVars, wrote_eof, read_eof, delete_me, closed, pending, ended,
                   waiting, segment, ready, draining>>

\* The same for a program: the write begins, and do_loop with all it does for
\* the others waits in it.
ReceiveForProgram(c, n) ==
    /\ run_program /\ At("socket") /\ Then("program") /\ Open(c)
    /\ c \notin wrote_eof \cup wrote_err /\ ~Gone(c) /\ InBound(c, received[c] + n)
    /\ segment' = [conn |-> c, length |-> n]
    /\ UNCHANGED <<listVars, out_queue, flagVars, pollout, peerVars, ready, draining,
                   byteVars, stalled>>

\* The end of the write: the pipe has room for all of it.
WrittenToProgram(c) ==
    LET last == received[c] + segment.length IN
    /\ At("program") /\ Then("timer") /\ c = segment.conn /\ segment' = NoSegment
    /\ ~Gone(c) /\ segment.length <= room[c]
    /\ received' = [received EXCEPT ![c] = last]
    /\ WriteTo(c, received[c] + 1, segment.length)
    /\ UNCHANGED <<listVars, out_queue, flagVars, pollout, closed, pending, ended,
                   waiting, ready, draining, refused, stalled>>

\* The program has exited meanwhile: EPIPE.
ProgramGone(c) ==
    LET last == received[c] + segment.length IN
    /\ At("program") /\ Then("timer") /\ c = segment.conn /\ segment' = NoSegment
    /\ Gone(c) /\ wrote_err' = wrote_err \cup {c}
    /\ received' = [received EXCEPT ![c] = last]
    /\ refused' = [refused EXCEPT ![c] = @ \cup (received[c] + 1..last)]
    /\ UNCHANGED <<listVars, out_queue, wrote_eof, read_eof, delete_me, pollout,
                   peerVars, ready, draining, written, stalled>>

\* A first FIN: conn_output with a length of 0.
ReceiveFin(c) ==
    /\ At("socket") /\ Then("timer") /\ Open(c) /\ c \notin wrote_eof
    /\ wrote_eof' = wrote_eof \cup {c}
    /\ UNCHANGED <<listVars, out_queue, wrote_err, read_eof,
                   delete_me, pollout, peerVars, segment, ready, draining, byteVars,
                   stalled>>

\* Anything after it: ctcp_destroy.
ReceiveAfterFin(c) ==
    /\ At("socket") /\ Then("timer") /\ Open(c) /\ c \in wrote_eof
    /\ delete_me' = delete_me \cup {c}
    /\ UNCHANGED <<listVars, out_queue, wrote_eof, wrote_err,
                   read_eof, pollout, peerVars, segment, ready, draining, byteVars,
                   stalled>>

\* tcp_new_connection, and execute_program in run_program.
NewClient(c) ==
    /\ At("socket") /\ Then("timer") /\ c \in fresh /\ \A d \in fresh : c <= d
    /\ fresh' = fresh \ {c} /\ connections' = connections \cup {c}
    /\ UNCHANGED <<run_program, out_queue, flagVars, pollout, peerVars, segment, ready,
                   draining, byteVars, stalled>>

NothingArrived ==
    /\ At("socket") /\ Then("timer")
    /\ UNCHANGED <<listVars, out_queue, flagVars, pollout, peerVars, segment, ready,
                   draining, byteVars, stalled>>

----------------------------------------------------------------------------
\* ctcp_timer gives up any connections, then delete_all_connections frees the
\* destroyed ones and their queues; freeing the head loses the list.  What has
\* left the list is forgotten here.
Timer ==
    /\ At("timer") /\ Then("poll")
    /\ \E S \in SUBSET connections :
          LET gone == delete_me \cup S IN
          connections' = IF \E c \in gone : IsNewest(c, connections) THEN {}
                         ELSE connections \ gone
    /\ out_queue' = [c \in Conns |-> IF c \in connections' THEN out_queue[c] ELSE <<>>]
    /\ received' = [c \in Conns |-> IF c \in connections' THEN received[c] ELSE 0]
    /\ written' = [c \in Conns |-> IF c \in connections' THEN written[c] ELSE {}]
    /\ refused' = [c \in Conns |-> IF c \in connections' THEN refused[c] ELSE {}]
    /\ wrote_eof' = wrote_eof \cap connections'
    /\ wrote_err' = wrote_err \cap connections'
    /\ read_eof' = read_eof \cap connections'
    /\ stalled' = stalled \cap connections'
    /\ delete_me' = {} /\ waiting' = waiting \cap connections'
    /\ UNCHANGED <<run_program, fresh, pollout, room, closed, pending, ended, segment,
                   ready, draining>>

----------------------------------------------------------------------------
\* Whoever reads the output, writes the input, and ends.

peerFrame == <<listVars, out_queue, flagVars, pollout, stage, segment, ready, draining,
               byteVars, stalled>>

\* A connection's program, while the connection is there, or the terminal.
Running(p) == p = Terminal \/ (run_program /\ p \in connections)

\* Some of the output is read.
Consume(p) ==
    /\ Running(p) /\ p \notin waiting
    /\ \E r \in room[p] + 1..Limit(p) : room' = [room EXCEPT ![p] = r]
    /\ UNCHANGED <<peerFrame, closed, pending, ended, waiting>>

\* Something is typed, or printed by a program.
Produce(p) ==
    /\ Running(p) /\ (p = Terminal => ~run_program) /\ p \notin ended
    /\ pending' = pending \cup {p}
    /\ UNCHANGED <<peerFrame, room, closed, ended, waiting>>

\* What a program has printed fills its pipe, and it waits in its own write.
Wait(p) ==
    /\ Running(p) /\ p # Terminal /\ p \in pending \ ended
    /\ waiting' = waiting \cup {p}
    /\ UNCHANGED <<peerFrame, room, closed, pending, ended>>

\* A program exits.
Exit(p) ==
    /\ Running(p) /\ p # Terminal
    /\ ended' = ended \cup {p} /\ closed' = closed \cup {p}
    /\ waiting' = waiting \ {p}
    /\ UNCHANGED <<peerFrame, room, pending>>

\* The terminal's input ends, or its output is closed.  (With programs the output
\* of the server itself is left open: conn_drain would find nothing queued.)
EndInput == /\ ~run_program /\ ended' = ended \cup {Terminal}
            /\ UNCHANGED <<peerFrame, room, closed, pending, waiting>>
CloseOutput == /\ ~run_program /\ closed' = closed \cup {Terminal}
               /\ UNCHANGED <<peerFrame, room, pending, ended, waiting>>

----------------------------------------------------------------------------
Receive == \/ NothingArrived
           \/ \E c \in Conns : \/ ReceiveFin(c) \/ ReceiveAfterFin(c) \/ NewClient(c)
                               \/ WrittenToProgram(c) \/ ProgramGone(c)
                               \/ \E n \in 1..MaxLen :
                                     ReceiveData(c, n) \/ ReceiveForProgram(c, n)
Drain(c) == DrainEnter(c) \/ DrainWrite(c) \/ DrainError(c)
Loop == Poll \/ Programs \/ Receive \/ Timer \/ \E c \in Conns : Drain(c)
Outside == \/ EndInput \/ CloseOutput
           \/ \E p \in Peers : Consume(p) \/ Produce(p) \/ Wait(p) \/ Exit(p)

Next == Loop \/ Outside

\* The loop goes on unless it waits in a write; whoever reads the output goes
\* on reading, but a program that waits for its own output to be read does not.
Fairness == WF_vars(Loop) /\ \A p \in ProgramConns \cup {Terminal} : WF_vars(Consume(p))

Spec == Init /\ [][Next]_vars
FairSpec == Spec /\ Fairness
----------------------------------------------------------------------------
\* Properties

\* Whatever the reader takes of each write, and whichever connections share
\* it: every byte received on a connection was written, waits in its queue or
\* was refused, exactly one of these, and nothing overtakes the queue.  Nothing
\* is queued for a program.
OutputAccounted ==
    \A c \in connections :
        /\ run_program => out_queue[c] = <<>>
        /\ written[c] \cup Queued(c) \cup refused[c] = 1..received[c]
        /\ written[c] \cap Queued(c) = {} /\ refused[c] \cap (written[c] \cup Queued(c)) = {}
        /\ \A b \in written[c], q \in Queued(c) : b < q
        /\ \A i, j \in 1..Len(out_queue[c]) :
              i < j => out_queue[c][i].last < out_queue[c][j].first

\* What is queued is written, an EOF after it notwithstanding, as long as
\* someone reads it and the flag was not lost in one of the ways stalled
\* records.
QueueDrains ==
    \A c \in Conns : out_queue[c] # <<>> ~>
        \/ out_queue[c] = <<>> \/ Gone(Peer(c)) \/ c \in stalled \/ c \notin connections

\* The loop waits for a program to read, and the program for the loop.
Deadlock ==
    /\ At("program") /\ segment.conn \in waiting
    /\ segment.length > room[segment.conn]

\* A program's output is read, and its end too if there was output left then
\* (without, there is only POLLHUP, which the loop does not look at), although
\* the loop waits in writes to programs: unless in the end it waits for one
\* that waits for it, which holds up every other program too.
ProgramsRead ==
    \A c \in ProgramConns :
        /\ c \in pending ~> c \notin pending \/ c \notin connections \/ []Deadlock
        /\ c \in pending \cap ended ~>
              c \in read_eof \/ c \notin connections \/ []Deadlock

\* The loop forgets nothing that waits: neither output nor input.
NothingWaits == QueueDrains /\ ProgramsRead
=============================================================================
