------------------------------ MODULE ArpCache ------------------------------
(***************************************************************************)
(* The ARP cache of the lab 1 router and the two threads that share it.    *)
(*                                                                         *)
(* Main is the thread that reads packets from the VNS connection and runs  *)
(* sr_handlepacket; Sweeper runs sr_arpcache_timeout, once a second.  The  *)
(* operations of sr_arpcache.c take the mutex cache->lock, and so does the *)
(* whole sweep.  process_arpreq takes it only for its final destroy: Main  *)
(* calls it, after sr_arpcache_queuereq has released the lock, on a        *)
(* request that is still linked where the sweeper finds it.  Each of its   *)
(* reads and writes is therefore an action of its own here, whichever      *)
(* thread runs it; what Main does entirely under the lock is one action.   *)
(*                                                                         *)
(* Data kept: a frame is a member of Pkts with its next hop Hop[p]; Ours   *)
(* are the frames whose ether_dhost is the address of an interface.  The   *)
(* lists cache->requests and request->packets are sets, as nothing below   *)
(* depends on their order: sr_arpcache_sweepreqs saves the next pointer    *)
(* before each call, so that one sweep visits the requests linked at its   *)
(* start.  A time stamp is kept as its age in whole seconds (difftime with *)
(* time(NULL)), counted up to the first value past the threshold.          *)
(***************************************************************************)
EXTENDS Naturals

CONSTANTS
    IPs,       \* next-hop addresses
    MACs,      \* hardware addresses
    Pkts,      \* frames to be forwarded
    Hop,       \* the gateway the routing table gives each frame
    Ours,      \* frames whose ether_dhost is an address of this router
    Reqs,      \* addresses malloc can return for a struct sr_arpreq
    Size,      \* SR_ARPCACHE_SZ
    Timeout,   \* SR_ARPCACHE_TO
    MaxSent,   \* ARP requests sent before host unreachable (5)
    NoReq, NoPkt, NoEntry, NoMac

ASSUME ConstantsAssumption ==
    /\ Hop \in [Pkts -> IPs]
    /\ IPs # {} /\ Ours \subseteq Pkts
    /\ Size \in Nat /\ Timeout \in Nat /\ MaxSent \in Nat \ {0}
    /\ NoReq \notin Reqs /\ NoPkt \notin Pkts /\ NoMac \notin MACs
    /\ NoEntry \notin [ip : IPs, mac : MACs, age : 0..Timeout + 1]

VARIABLES
    entries,     \* cache->entries, NoEntry where valid = 0
    requests,    \* the requests linked from cache->requests
    live,        \* the requests allocated and not yet freed
    ip,          \* request->ip
    packets,     \* request->packets
    times_sent,  \* request->times_sent
    age,         \* seconds since request->sent, 1 for one or more (and never)
    lock,        \* who holds cache->lock across actions
    due,         \* the sweeper's sleep has ended
    pc, cur,     \* per thread: its next step, the request it works on
    loaded,      \* per thread: times_sent as read for the increment
    rest,        \* per thread: packets its host-unreachable loop has left
    todo,        \* requests the running sweep has left
    held,        \* the frame Main has looked up and not yet queued
    ub,          \* whether freed memory was used, and what came of it
    seen, forwards, bounces,  \* what became of each frame
    answered,    \* hops an ARP reply was received for
    wire         \* ARP requests sent for each request since it was allocated

reqVars  == <<requests, live, ip, packets, times_sent, age>>
mainVars == <<held, seen, answered, forwards>>
vars == <<entries, reqVars, lock, due, pc, cur, loaded, rest, todo, mainVars,
          ub, bounces, wire>>

Threads == {"main", "sweep"}
Slots == 1..Size
Entry == [ip : IPs, mac : MACs, age : 0..Timeout + 1]

\* The steps of process_arpreq, shared by both threads.
ProcessSteps == {"age", "count", "load", "storeTimes", "storeSent", "bounce", "destroy"}
MainSteps  == ProcessSteps \cup {"idle", "queue", "flush"}
SweepSteps == ProcessSteps \cup {"sleep", "next"}

TypeOK ==
    /\ entries \in [Slots -> Entry \cup {NoEntry}]
    /\ requests \subseteq Reqs /\ live \subseteq Reqs
    /\ ip \in [Reqs -> IPs] /\ packets \in [Reqs -> SUBSET Pkts]
    /\ times_sent \in [Reqs -> Nat] /\ age \in [Reqs -> 0..1]
    /\ lock \in {"free", "sweep"} /\ due \in BOOLEAN
    /\ pc \in [Threads -> MainSteps \cup SweepSteps]
    /\ pc["main"] \in MainSteps /\ pc["sweep"] \in SweepSteps
    /\ cur \in [Threads -> Reqs \cup {NoReq}]
    /\ loaded \in [Threads -> Nat] /\ rest \in [Threads -> SUBSET Pkts]
    /\ todo \subseteq Reqs /\ held \in Pkts \cup {NoPkt}
    /\ pc["main"] = "queue" => held \in Pkts
    /\ ub \in {"none", "survived", "aborted"}
    /\ seen \subseteq Pkts /\ answered \subseteq IPs
    /\ forwards \in [Pkts -> Nat] /\ bounces \in [Pkts -> Nat]
    /\ wire \in [Reqs -> Nat]

\* What an unallocated request holds does not matter.
SomeIP == CHOOSE i \in IPs : TRUE

\* sr_arpcache_init: memset(0) invalidates the entries, requests = NULL.  The
\* sweeper thread starts with its sleep.
Init ==
    /\ entries = [s \in Slots |-> NoEntry]
    /\ requests = {} /\ live = {}
    /\ ip = [r \in Reqs |-> SomeIP]
    /\ packets = [r \in Reqs |-> {}]
    /\ times_sent = [r \in Reqs |-> 0] /\ age = [r \in Reqs |-> 1]
    /\ lock = "free" /\ due = FALSE
    /\ pc = [t \in Threads |-> IF t = "main" THEN "idle" ELSE "sleep"]
    /\ cur = [t \in Threads |-> NoReq]
    /\ loaded = [t \in Threads |-> 0] /\ rest = [t \in Threads |-> {}]
    /\ todo = {} /\ held = NoPkt /\ ub = "none"
    /\ seen = {} /\ answered = {}
    /\ forwards = [p \in Pkts |-> 0] /\ bounces = [p \in Pkts |-> 0]
    /\ wire = [r \in Reqs |-> 0]

----------------------------------------------------------------------------
\* The cache

Matching(i) == {s \in Slots : entries[s] # NoEntry /\ entries[s].ip = i}
Invalid == {s \in Slots : entries[s] = NoEntry}

\* sr_arpcache_lookup: the loop has no break, so the last matching slot wins.
sr_arpcache_lookup(i) ==
    IF Matching(i) = {} THEN NoMac
    ELSE entries[CHOOSE s \in Matching(i) : \A u \in Matching(i) : u <= s].mac

\* A faulty insertion that does not test for a full table.
StorePastEnd(i, m) ==
    [s \in 1..Size + 1 |-> IF s \in Slots THEN entries[s]
                           ELSE [ip |-> i, mac |-> m, age |-> 0]]

\* The second half of sr_arpcache_insert: the first invalid slot takes the
\* mapping, and with every slot valid the mapping is dropped.
Store(i, m) ==
    IF Invalid = {} THEN entries
    ELSE [entries EXCEPT ![CHOOSE s \in Invalid : \A u \in Invalid : s <= u] =
             [ip |-> i, mac |-> m, age |-> 0]]

\* The requests the search loops over cache->requests stop at.
Queued(i) == {r \in requests : ip[r] = i}

----------------------------------------------------------------------------
\* Main: sr_handlepacket, one packet at a time

Running == ub # "aborted"
Goto(t, step) == pc' = [pc EXCEPT ![t] = step]
\* process_arpreq returns: to the socket loop, or to sr_arpcache_sweepreqs.
Return(t) == /\ Goto(t, IF t = "main" THEN "idle" ELSE "next")
             /\ cur' = [cur EXCEPT ![t] = NoReq]

\* process_ip_packet, from the lookup of the next hop.  A hit is sent with
\* the copy the lookup returned; a miss goes on to sr_arpcache_queuereq, and
\* the lock is free in between.
Receive(p) ==
    /\ Running /\ pc["main"] = "idle" /\ p \notin seen /\ lock = "free"
    /\ seen' = seen \cup {p}
    /\ IF Matching(Hop[p]) # {}
       THEN /\ forwards' = [forwards EXCEPT ![p] = @ + 1]
            /\ UNCHANGED <<held, pc>>
       ELSE held' = p /\ Goto("main", "queue") /\ UNCHANGED forwards
    /\ UNCHANGED <<entries, reqVars, lock, due, cur, loaded, rest, todo,
                   answered, ub, bounces, wire>>

\* A faulty sr_arpcache_queuereq that always adds a request.
QueueNew(p, r) ==
    /\ r \in Reqs \ live
    /\ requests' = requests \cup {r} /\ live' = live \cup {r}
    /\ ip' = [ip EXCEPT ![r] = Hop[p]]
    /\ packets' = [packets EXCEPT ![r] = {p}]
    /\ times_sent' = [times_sent EXCEPT ![r] = 0]
    /\ age' = [age EXCEPT ![r] = 1] /\ wire' = [wire EXCEPT ![r] = 0]

\* A faulty one that links a request before its packet is on it.
QueueEmpty(p, r) ==
    \/ r \in Queued(Hop[p]) /\ UNCHANGED <<reqVars, wire>>
    \/ Queued(Hop[p]) = {} /\ r \in Reqs \ live
       /\ requests' = requests \cup {r} /\ live' = live \cup {r}
       /\ ip' = [ip EXCEPT ![r] = Hop[p]]
       /\ UNCHANGED <<packets, times_sent, age, wire>>

\* sr_arpcache_queuereq: add the frame to the request for its next hop, which
\* is allocated (calloc) and linked first when there is none.
sr_arpcache_queuereq(p, r) ==
    \/ /\ r \in Queued(Hop[p])
       /\ packets' = [packets EXCEPT ![r] = @ \cup {p}]
       /\ UNCHANGED <<requests, live, ip, times_sent, age, wire>>
    \/ Queued(Hop[p]) = {} /\ QueueNew(p, r)

\* process_ip_packet queues the frame and calls process_arpreq on what
\* sr_arpcache_queuereq returned, the lock released.
Queue(r) ==
    /\ Running /\ pc["main"] = "queue" /\ lock = "free"
    /\ sr_arpcache_queuereq(held, r)
    /\ held' = NoPkt
    /\ Goto("main", "age") /\ cur' = [cur EXCEPT !["main"] = r]
    /\ UNCHANGED <<entries, lock, due, loaded, rest, todo, seen, answered,
                   forwards, ub, bounces>>

\* A faulty sr_arpcache_insert that leaves the request it returns linked.
InsertKeepsLinked(i, m) ==
    /\ entries' = Store(i, m)
    /\ UNCHANGED requests

\* sr_arpcache_insert: store the mapping and unlink the request for it.
sr_arpcache_insert(i, m) ==
    /\ entries' = Store(i, m)
    /\ requests' = requests \ Queued(i)

\* process_arp_packet, an ARP reply, solicited or not: insert the mapping; if
\* frames waited for it, flush them.
Reply(i, m) ==
    /\ Running /\ pc["main"] = "idle" /\ lock = "free"
    /\ sr_arpcache_insert(i, m)
    /\ answered' = answered \cup {i}
    /\ \/ Queued(i) = {} /\ UNCHANGED <<pc, cur>>
       \/ \E r \in Queued(i) :
             Goto("main", "flush") /\ cur' = [cur EXCEPT !["main"] = r]
    /\ UNCHANGED <<live, ip, packets, times_sent, age, lock, due, loaded, rest,
                   todo, held, seen, forwards, ub, bounces, wire>>

\* A faulty loop that stops after the first frame.
FlushedFirst(r) == {CHOOSE p \in packets[r] : TRUE}

\* The frames the loop over cached_arp_request->packets sends.
Flushed(r) == packets[r]

\* process_arp_packet sends every waiting frame; sr_arpreq_destroy follows.
Flush ==
    /\ Running /\ pc["main"] = "flush" /\ cur["main"] \in live
    /\ forwards' = [p \in Pkts |-> IF p \in Flushed(cur["main"])
                                   THEN forwards[p] + 1 ELSE forwards[p]]
    /\ Goto("main", "destroy")
    /\ UNCHANGED <<entries, reqVars, lock, due, cur, loaded, rest, todo, held,
                   seen, answered, ub, bounces, wire>>

----------------------------------------------------------------------------
\* process_arpreq, by either thread

At(t, step) == Running /\ pc[t] = step /\ cur[t] \in live

\* if (difftime(time(NULL), request->sent) >= 1)
ReadSent(t) ==
    /\ At(t, "age")
    /\ \/ age[cur[t]] = 1 /\ Goto(t, "count") /\ UNCHANGED cur
       \/ age[cur[t]] = 0 /\ Return(t)
    /\ UNCHANGED <<entries, reqVars, lock, due, loaded, rest, todo, mainVars,
                   ub, bounces, wire>>

\* A faulty test that gives up one request early.
CountOneShort(t) ==
    \/ /\ times_sent[cur[t]] < MaxSent - 1 /\ Goto(t, "load") /\ UNCHANGED rest
    \/ /\ times_sent[cur[t]] >= MaxSent - 1 /\ Goto(t, "bounce")
       /\ rest' = [rest EXCEPT ![t] = packets[cur[t]]]

\* A faulty test that never gives up.
CountForever(t) == Goto(t, "load") /\ UNCHANGED rest

\* if (request->times_sent < 5) ... else if (request->times_sent >= 5).  Both
\* branches go on to dereference or walk request->packets.
CountTest(t) ==
    \/ /\ times_sent[cur[t]] < MaxSent /\ Goto(t, "load") /\ UNCHANGED rest
    \/ /\ times_sent[cur[t]] >= MaxSent /\ Goto(t, "bounce")
       /\ rest' = [rest EXCEPT ![t] = packets[cur[t]]]

Count(t) ==
    /\ At(t, "count") /\ CountTest(t)
    /\ UNCHANGED <<entries, reqVars, lock, due, cur, loaded, todo, mainVars,
                   ub, bounces, wire>>

\* request->times_sent = request->times_sent + 1 is a read, ...
LoadTimes(t) ==
    /\ At(t, "load") /\ Goto(t, "storeTimes")
    /\ loaded' = [loaded EXCEPT ![t] = times_sent[cur[t]]]
    /\ UNCHANGED <<entries, reqVars, lock, due, cur, rest, todo, mainVars,
                   ub, bounces, wire>>

\* ... a write, ...
StoreTimes(t) ==
    /\ At(t, "storeTimes") /\ Goto(t, "storeSent")
    /\ times_sent' = [times_sent EXCEPT ![cur[t]] = loaded[t] + 1]
    /\ loaded' = [loaded EXCEPT ![t] = 0]
    /\ UNCHANGED <<entries, requests, live, ip, packets, age, lock, due, cur,
                   rest, todo, mainVars, ub, bounces, wire>>

\* ... and request->sent = time(NULL) follows, with the send of the ARP request.
StoreSent(t) ==
    /\ At(t, "storeSent") /\ Return(t)
    /\ age' = [age EXCEPT ![cur[t]] = 0]
    /\ wire' = [wire EXCEPT ![cur[t]] = @ + 1]
    /\ UNCHANGED <<entries, requests, live, ip, packets, times_sent, lock, due,
                   loaded, rest, todo, mainVars, ub, bounces>>

\* A faulty loop whose "continue" does not advance to the next frame.
BounceStuck(t, p) ==
    /\ At(t, "bounce") /\ p \in rest[t] \cap Ours
    /\ rest' = [rest EXCEPT ![t] = @ \ {p}]
    /\ bounces' = [bounces EXCEPT ![p] = @ + 1]
    /\ UNCHANGED <<entries, reqVars, lock, due, pc, cur, loaded, todo, mainVars,
                   ub, wire>>

\* One turn of the host-unreachable loop: a frame whose ether_dhost is no
\* address of ours is skipped.
BounceOne(t, p) ==
    /\ At(t, "bounce") /\ p \in rest[t]
    /\ rest' = [rest EXCEPT ![t] = @ \ {p}]
    /\ bounces' = IF p \in Ours THEN [bounces EXCEPT ![p] = @ + 1] ELSE bounces
    /\ UNCHANGED <<entries, reqVars, lock, due, pc, cur, loaded, todo, mainVars,
                   ub, wire>>

BounceDone(t) ==
    /\ At(t, "bounce") /\ rest[t] = {} /\ Goto(t, "destroy")
    /\ UNCHANGED <<entries, reqVars, lock, due, cur, loaded, rest, todo,
                   mainVars, ub, bounces, wire>>

\* sr_arpreq_destroy: the mutex is recursive, so the sweeper takes it again.
sr_arpreq_destroy(t) ==
    /\ At(t, "destroy") /\ lock \in {"free", t}
    /\ requests' = requests \ {cur[t]}
    /\ live' = live \ {cur[t]}
    /\ packets' = [packets EXCEPT ![cur[t]] = {}]
    /\ Return(t)
    /\ UNCHANGED <<entries, ip, times_sent, age, lock, due, loaded, rest, todo,
                   mainVars, ub, bounces, wire>>

\* The request was freed under the thread.  What follows is undefined: what
\* glibc builds do is read or write the freed chunk and fall out of the
\* function, or abort in free or on a wild pointer.
UseFreed(t) ==
    /\ Running /\ pc[t] \in ProcessSteps \cup {"flush"} /\ cur[t] \notin live
    /\ \/ ub' = "survived" /\ Return(t)
       \/ ub' = "aborted" /\ UNCHANGED <<pc, cur>>
    /\ rest' = [rest EXCEPT ![t] = {}] /\ loaded' = [loaded EXCEPT ![t] = 0]
    /\ UNCHANGED <<entries, reqVars, lock, due, todo, mainVars, bounces, wire>>

----------------------------------------------------------------------------
\* Sweeper: sr_arpcache_timeout and sr_arpcache_sweepreqs

\* The loop over the entries: valid = 0 past SR_ARPCACHE_TO seconds.
Expired == [s \in Slots |->
    IF entries[s] # NoEntry /\ entries[s].age > Timeout THEN NoEntry ELSE entries[s]]

SweepStart ==
    /\ Running /\ pc["sweep"] = "sleep" /\ due /\ lock = "free"
    /\ lock' = "sweep" /\ entries' = Expired /\ todo' = requests
    /\ Goto("sweep", "next")
    /\ UNCHANGED <<reqVars, due, cur, loaded, rest, mainVars, ub, bounces, wire>>

SweepNext(r) ==
    /\ Running /\ pc["sweep"] = "next" /\ r \in todo
    /\ todo' = todo \ {r} /\ cur' = [cur EXCEPT !["sweep"] = r]
    /\ Goto("sweep", "age")
    /\ UNCHANGED <<entries, reqVars, lock, due, loaded, rest, mainVars, ub,
                   bounces, wire>>

\* The lock is released, and sleep(1.0) begins.
SweepDone ==
    /\ Running /\ pc["sweep"] = "next" /\ todo = {}
    /\ lock' = "free" /\ due' = FALSE /\ Goto("sweep", "sleep")
    /\ UNCHANGED <<entries, reqVars, cur, loaded, rest, todo, mainVars, ub,
                   bounces, wire>>

\* time(NULL) advances by a second.
Tick ==
    /\ due' = TRUE
    /\ age' = [r \in Reqs |-> 1]
    /\ entries' = [s \in Slots |->
          IF entries[s] # NoEntry /\ entries[s].age <= Timeout
          THEN [entries[s] EXCEPT !.age = @ + 1] ELSE entries[s]]
    /\ UNCHANGED <<requests, live, ip, packets, times_sent, lock, pc, cur, loaded,
                   rest, todo, mainVars, ub, bounces, wire>>

----------------------------------------------------------------------------
Process(t) ==
    \/ ReadSent(t) \/ Count(t) \/ LoadTimes(t) \/ StoreTimes(t) \/ StoreSent(t)
    \/ \E p \in Pkts : BounceOne(t, p)
    \/ BounceDone(t) \/ sr_arpreq_destroy(t) \/ UseFreed(t)

MainCont == (\E r \in Reqs : Queue(r)) \/ Flush \/ Process("main")
Main == \/ \E p \in Pkts : Receive(p)
        \/ \E i \in IPs, m \in MACs : Reply(i, m)
        \/ MainCont
Sweeper == \/ SweepStart \/ (\E r \in Reqs : SweepNext(r)) \/ SweepDone
           \/ Process("sweep")

Next == Main \/ Sweeper \/ Tick
Spec == Init /\ [][Next]_vars

\* The scheduler runs both threads and the clock advances.  Main needs strong
\* fairness for the mutex: the sweeper holds it intermittently and sleeps a
\* second between two sweeps.  Nothing obliges a packet or a reply to arrive.
Fairness == SF_vars(MainCont) /\ WF_vars(Sweeper) /\ WF_vars(Tick)
FairSpec == Spec /\ Fairness
----------------------------------------------------------------------------
\* Properties

\* ARP requests for r that a thread has counted and is about to send.
Sending(t, r) == IF pc[t] = "storeSent" /\ cur[t] = r THEN 1 ELSE 0
InFlight(r) == Sending("main", r) + Sending("sweep", r)
Waiting(p) == p = held \/ \E r \in live : p \in packets[r]

\* The search and the insertion of sr_arpcache_queuereq are one critical
\* section: two requests are never queued for one next hop, or a reply would
\* release the frames of one and leave the others waiting.
OneRequestPerNextHop ==
    \A r, s \in requests : ip[r] = ip[s] => r = s

\* The sweeper follows only live requests, each with a frame on it: its
\* process_arpreq dereferences request->packets->iface without a test.
LinkedRequestsUsable ==
    /\ \A r \in requests : r \in live /\ packets[r] # {}
    /\ pc["sweep"] \in ProcessSteps => cur["sweep"] \in live

\* No frame waits for an address the cache knows: between the lookup that
\* missed and the queueing, and as long as the request is linked, no valid
\* entry for that next hop appears (a reply unlinks the request it answers).
NoWaitingBehindAMapping ==
    /\ \A r \in requests : Matching(ip[r]) = {}
    /\ pc["main"] = "queue" => Matching(Hop[held]) = {}

\* A frame is on one request at most, and one that was delivered to its next
\* hop is neither still waiting nor reported unreachable, whatever the sweeper
\* does: forwarded at most once, and never both forwarded and bounced.
OneFate ==
    /\ \A r, s \in live : packets[r] \cap packets[s] # {} => r = s
    /\ \A p \in Pkts : forwards[p] + (IF bounces[p] > 0 THEN 1 ELSE 0) <= 1
    /\ \A r \in requests : \A p \in packets[r] : forwards[p] = 0

\* times_sent may lag behind the ARP requests really sent (the two threads
\* can lose an increment) and never runs ahead of them by more than the ones
\* being sent, and it passes the limit by one at most.
CounterFollowsWire ==
    \A r \in live : /\ times_sent[r] <= wire[r] + InFlight(r)
                    /\ times_sent[r] <= MaxSent + 1

\* Host unreachable is sent only for a request on which at least MaxSent ARP
\* requests were sent or were being sent.
UnreachableAfterAllTries ==
    \A t \in Threads : pc[t] = "bounce" /\ cur[t] \in live =>
        wire[cur[t]] + InFlight(cur[t]) >= MaxSent

\* The service the cache implements: the fate of a frame, read off the queue
\* and off what was sent for it.
Fate == [p \in Pkts |->
    CASE p \notin seen -> "new"
      [] p \in seen /\ forwards[p] > 0 -> "forwarded"
      [] p \in seen /\ forwards[p] = 0 /\ bounces[p] > 0 -> "unreachable"
      [] p \in seen /\ forwards[p] = 0 /\ bounces[p] = 0 /\ Waiting(p) -> "waiting"
      [] OTHER -> "dropped"]

Service == INSTANCE ArpService WITH fate <- Fate

\* Every interleaving of the two threads keeps the promise of ArpService, up
\* to duplicated host-unreachable messages.
ImplementsService == Service!Spec

\* Every frame that waits for its next hop leaves the queue, answered or not,
\* unless the process has used freed memory.
WaitersLeave == \A p \in Pkts : Waiting(p) ~> (~Waiting(p) \/ ub # "none")
=============================================================================
