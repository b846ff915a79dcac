-------------------------- MODULE ArpCacheProofs --------------------------
(***************************************************************************)
(* Proofs about ArpCache for every number of next hops, frames, slots and  *)
(* tries: type correctness, the safety of the request queue under the two  *)
(* threads, that every frame has one fate, and that the cache implements   *)
(* ArpService.                                                             *)
(***************************************************************************)
EXTENDS ArpCache, TLAPS

\* The steps of process_arpreq keep the types, whichever thread takes them.
LEMMA ProcessType ==
    ASSUME TypeOK, NEW t \in Threads, Process(t) PROVE TypeOK'
<1> USE ConstantsAssumption DEF TypeOK, Threads, ProcessSteps, MainSteps,
        SweepSteps, At, Goto, Return, reqVars, mainVars
<1>1. CASE ReadSent(t)
  BY <1>1 DEF ReadSent
<1>2. CASE Count(t)
  BY <1>2 DEF Count, CountTest
<1>3. CASE LoadTimes(t)
  BY <1>3 DEF LoadTimes
<1>4. CASE StoreTimes(t)
  BY <1>4 DEF StoreTimes
<1>5. CASE StoreSent(t)
  BY <1>5 DEF StoreSent
<1>6. ASSUME NEW p \in Pkts, BounceOne(t, p) PROVE TypeOK'
  BY <1>6 DEF BounceOne
<1>7. CASE BounceDone(t)
  BY <1>7 DEF BounceDone
<1>8. CASE sr_arpreq_destroy(t)
  BY <1>8 DEF sr_arpreq_destroy
<1>9. CASE UseFreed(t)
  BY <1>9 DEF UseFreed
<1> QED
  BY <1>1, <1>2, <1>3, <1>4, <1>5, <1>6, <1>7, <1>8, <1>9 DEF Process

\* A step of the packet thread outside process_arpreq keeps the types.
LEMMA MainType ==
    ASSUME TypeOK, Main PROVE TypeOK'
<1> USE ConstantsAssumption DEF TypeOK, Threads, ProcessSteps, MainSteps,
        SweepSteps, Goto, reqVars, mainVars
<1>1. ASSUME NEW p \in Pkts, Receive(p) PROVE TypeOK'
  BY <1>1 DEF Receive
<1>2. ASSUME NEW i \in IPs, NEW m \in MACs, Reply(i, m) PROVE TypeOK'
  <2>1. entries' \in [Slots -> Entry \cup {NoEntry}]
    <3>1. [ip |-> i, mac |-> m, age |-> 0] \in Entry
      BY DEF Entry
    <3> QED
      BY <1>2, <3>1 DEF Reply, sr_arpcache_insert, Store
  <2> QED
    BY <1>2, <2>1 DEF Reply, sr_arpcache_insert, Queued
<1>3. ASSUME NEW r \in Reqs, Queue(r) PROVE TypeOK'
  <2>1. held \in Pkts /\ Hop[held] \in IPs
    BY <1>3 DEF Queue
  <2> QED
    BY <1>3, <2>1 DEF Queue, sr_arpcache_queuereq, QueueNew
<1>4. CASE Flush
  BY <1>4 DEF Flush
<1>5. CASE Process("main")
  BY <1>5, ProcessType
<1> QED
  BY <1>1, <1>2, <1>3, <1>4, <1>5 DEF Main, MainCont

\* A step of the sweeper keeps the types.
LEMMA SweeperType ==
    ASSUME TypeOK, Sweeper PROVE TypeOK'
<1> USE ConstantsAssumption DEF TypeOK, Threads, ProcessSteps, MainSteps,
        SweepSteps, Goto, reqVars, mainVars
<1>1. CASE SweepStart
  BY <1>1 DEF SweepStart, Expired
<1>2. ASSUME NEW r \in Reqs, SweepNext(r) PROVE TypeOK'
  BY <1>2 DEF SweepNext
<1>3. CASE SweepDone
  BY <1>3 DEF SweepDone
<1>4. CASE Process("sweep")
  BY <1>4, ProcessType
<1> QED
  BY <1>1, <1>2, <1>3, <1>4 DEF Sweeper

\* An entry a second older is an entry of the same address.
LEMMA AgedEntry ==
    ASSUME NEW e \in Entry, e.age <= Timeout
    PROVE  /\ [e EXCEPT !.age = @ + 1] \in Entry
           /\ [e EXCEPT !.age = @ + 1].ip = e.ip
BY ConstantsAssumption DEF Entry

\* The passing of a second keeps the types.
LEMMA TickType ==
    ASSUME TypeOK, Tick PROVE TypeOK'
<1>1. ASSUME NEW s \in Slots, entries[s] # NoEntry, entries[s].age <= Timeout
      PROVE [entries[s] EXCEPT !.age = @ + 1] \in Entry
  BY <1>1, AgedEntry DEF TypeOK
<1>2. entries' \in [Slots -> Entry \cup {NoEntry}]
  BY <1>1 DEF TypeOK, Tick
<1> QED
  BY <1>2 DEF TypeOK, Tick, mainVars, reqVars, MainSteps, SweepSteps, ProcessSteps

\* The initial values of sr_arpcache_init have their types.
LEMMA InitType == Init => TypeOK
<1>1. SomeIP \in IPs
    BY ConstantsAssumption DEF SomeIP
<1> SUFFICES ASSUME Init PROVE TypeOK
    OBVIOUS
<1> USE DEF Init, Threads, MainSteps, SweepSteps, ProcessSteps
<1>2. pc \in [Threads -> MainSteps \cup SweepSteps] /\ pc["main"] = "idle" /\ pc["sweep"] = "sleep"
    OBVIOUS
<1>3. ip \in [Reqs -> IPs]
    BY <1>1
<1>4. entries \in [Slots -> Entry \cup {NoEntry}]
    OBVIOUS
<1>5. packets \in [Reqs -> SUBSET Pkts] /\ rest \in [Threads -> SUBSET Pkts]
    OBVIOUS
<1>6. times_sent \in [Reqs -> Nat] /\ age \in [Reqs -> 0..1] /\ wire \in [Reqs -> Nat]
    OBVIOUS
<1>7. cur \in [Threads -> Reqs \cup {NoReq}] /\ loaded \in [Threads -> Nat]
    OBVIOUS
<1>8. forwards \in [Pkts -> Nat] /\ bounces \in [Pkts -> Nat]
    OBVIOUS
<1> QED
    BY <1>1, <1>2, <1>3, <1>4, <1>5, <1>6, <1>7, <1>8, ConstantsAssumption DEF TypeOK

\* The variables keep their types in every behaviour of the two threads.
THEOREM TypeCorrect == Spec => []TypeOK
<1>1. Init => TypeOK
  BY InitType
<1>2. TypeOK /\ [Next]_vars => TypeOK'
  <2> SUFFICES ASSUME TypeOK, [Next]_vars PROVE TypeOK'
    OBVIOUS
  <2>1. CASE UNCHANGED vars
    BY <2>1 DEF vars, reqVars, mainVars, TypeOK
  <2> QED
    BY <2>1, MainType, SweeperType, TickType DEF Next
<1> QED
  BY <1>1, <1>2, PTL DEF Spec

----------------------------------------------------------------------------
(***************************************************************************)
(* The request queue.  OneRequestPerNextHop, LinkedRequestsUsable and      *)
(* NoWaitingBehindAMapping are not inductive without the lock protocol:    *)
(* while the sweeper is awake it holds the lock, so that Main, whose own   *)
(* changes of the queue need it, cannot unlink what the sweep has left to  *)
(* visit or is visiting.                                                   *)
(***************************************************************************)
SweepHoldsLock ==
    /\ lock = "sweep" <=> pc["sweep"] # "sleep"
    /\ pc["sweep"] = "sleep" => todo = {}
    /\ todo \subseteq requests
    /\ pc["sweep"] \in ProcessSteps => cur["sweep"] \in requests \ todo

QueueInv == /\ TypeOK /\ SweepHoldsLock /\ OneRequestPerNextHop
            /\ LinkedRequestsUsable /\ NoWaitingBehindAMapping

\* Steps of process_arpreq that touch neither the queue nor the cache.
Quiet(t) ==
    /\ UNCHANGED <<entries, requests, live, ip, packets, lock, todo, held>>
    /\ pc[t] \in ProcessSteps
    /\ \/ cur' = cur /\ \E step \in ProcessSteps : Goto(t, step)
       \/ Return(t)

\* A quiet step keeps the queue invariant.
LEMMA QuietStep ==
    ASSUME QueueInv, TypeOK', NEW t \in Threads, Quiet(t) PROVE QueueInv'
<1> USE DEF QueueInv, TypeOK, Threads, ProcessSteps, MainSteps, SweepSteps,
        Quiet, Goto, Return
<1>1. SweepHoldsLock'
  BY DEF SweepHoldsLock
<1>2. OneRequestPerNextHop'
  BY DEF OneRequestPerNextHop
<1>3. LinkedRequestsUsable'
  BY <1>1 DEF LinkedRequestsUsable, SweepHoldsLock
<1>4. NoWaitingBehindAMapping'
  BY DEF NoWaitingBehindAMapping, Matching
<1> QED
  BY <1>1, <1>2, <1>3, <1>4

\* A step of process_arpreq, by either thread, keeps the queue invariant.
LEMMA ProcessQueue ==
    ASSUME QueueInv, TypeOK', NEW t \in Threads, Process(t) PROVE QueueInv'
<1>a. Quiet(t) => QueueInv'
  BY QuietStep
<1> USE DEF At, reqVars, mainVars
<1>1. CASE ReadSent(t)
  BY <1>1, <1>a DEF ReadSent, Quiet, ProcessSteps
<1>2. CASE Count(t)
  BY <1>2, <1>a DEF Count, CountTest, Quiet, ProcessSteps
<1>3. CASE LoadTimes(t)
  BY <1>3, <1>a DEF LoadTimes, Quiet, ProcessSteps
<1>4. CASE StoreTimes(t)
  BY <1>4, <1>a DEF StoreTimes, Quiet, ProcessSteps
<1>5. CASE StoreSent(t)
  BY <1>5, <1>a DEF StoreSent, Quiet, ProcessSteps
<1>6. ASSUME NEW p \in Pkts, BounceOne(t, p) PROVE QueueInv'
  <2>1. Goto(t, "bounce")
    BY <1>6 DEF BounceOne, QueueInv, TypeOK, Goto
  <2> QED
    BY <1>6, <1>a, <2>1 DEF BounceOne, Quiet, ProcessSteps
<1>7. CASE BounceDone(t)
  BY <1>7, <1>a DEF BounceDone, Quiet, ProcessSteps
<1> USE DEF QueueInv, TypeOK, Threads, ProcessSteps, MainSteps, SweepSteps,
        Goto, Return
<1>8. CASE sr_arpreq_destroy(t)
  <2>1. SweepHoldsLock'
    BY <1>8 DEF sr_arpreq_destroy, SweepHoldsLock
  <2>2. OneRequestPerNextHop'
    BY <1>8 DEF sr_arpreq_destroy, OneRequestPerNextHop
  <2>3. LinkedRequestsUsable'
    BY <1>8, <2>1 DEF sr_arpreq_destroy, LinkedRequestsUsable, SweepHoldsLock
  <2>4. NoWaitingBehindAMapping'
    BY <1>8 DEF sr_arpreq_destroy, NoWaitingBehindAMapping, Matching
  <2> QED
    BY <2>1, <2>2, <2>3, <2>4
<1>9. CASE UseFreed(t)
  <2>1. t = "main"
    BY <1>9 DEF UseFreed, LinkedRequestsUsable
  <2>2. SweepHoldsLock'
    BY <1>9, <2>1 DEF UseFreed, SweepHoldsLock
  <2>3. LinkedRequestsUsable'
    BY <1>9, <2>1, <2>2 DEF UseFreed, LinkedRequestsUsable
  <2>4. OneRequestPerNextHop' /\ NoWaitingBehindAMapping'
    BY <1>9, <2>1
    DEF UseFreed, OneRequestPerNextHop, NoWaitingBehindAMapping, Matching
  <2> QED
    BY <2>2, <2>3, <2>4
<1> QED
  BY <1>1, <1>2, <1>3, <1>4, <1>5, <1>6, <1>7, <1>8, <1>9 DEF Process

\* A packet, a reply, or the flush it starts keeps the queue invariant.
LEMMA MainQueue ==
    ASSUME QueueInv, TypeOK', Main PROVE QueueInv'
<1> USE DEF QueueInv, TypeOK, Threads, ProcessSteps, MainSteps, SweepSteps,
        Goto, reqVars, mainVars
<1>1. ASSUME NEW p \in Pkts, Receive(p) PROVE QueueInv'
  <2>1. SweepHoldsLock' /\ LinkedRequestsUsable' /\ OneRequestPerNextHop'
    BY <1>1
    DEF Receive, SweepHoldsLock, LinkedRequestsUsable, OneRequestPerNextHop
  <2>2. NoWaitingBehindAMapping'
    BY <1>1 DEF Receive, NoWaitingBehindAMapping, Matching
  <2> QED
    BY <2>1, <2>2
<1>2. ASSUME NEW i \in IPs, NEW m \in MACs, Reply(i, m) PROVE QueueInv'
  <2>0. requests' = requests \ Queued(i) /\ lock = "free" /\ entries' = Store(i, m)
    BY <1>2 DEF Reply, sr_arpcache_insert
  <2>1. SweepHoldsLock'
    BY <1>2, <2>0 DEF Reply, SweepHoldsLock
  <2>2. LinkedRequestsUsable' /\ OneRequestPerNextHop'
    BY <1>2, <2>0, <2>1
    DEF Reply, SweepHoldsLock, LinkedRequestsUsable, OneRequestPerNextHop
  <2>3. \A j \in IPs : j # i => Matching(j)' \subseteq Matching(j)
    BY <2>0 DEF Matching, Store
  <2>4. \A r \in requests' : ip'[r] # i
    BY <1>2, <2>0 DEF Reply, Queued
  <2>5. NoWaitingBehindAMapping'
    BY <1>2, <2>0, <2>3, <2>4 DEF Reply, NoWaitingBehindAMapping
  <2> QED
    BY <2>1, <2>2, <2>5
<1>3. ASSUME NEW r \in Reqs, Queue(r) PROVE QueueInv'
  <2>0. lock = "free" /\ pc["sweep"] = "sleep" /\ pc' = [pc EXCEPT !["main"] = "age"]
    BY <1>3 DEF Queue, SweepHoldsLock
  <2>1. SweepHoldsLock'
    BY <1>3, <2>0 DEF Queue, sr_arpcache_queuereq, QueueNew, SweepHoldsLock
  <2>2. CASE r \in Queued(Hop[held]) /\ UNCHANGED <<requests, live, ip>>
    BY <1>3, <2>0, <2>1, <2>2
    DEF Queue, sr_arpcache_queuereq, QueueNew, Queued, LinkedRequestsUsable,
        OneRequestPerNextHop, NoWaitingBehindAMapping, Matching
  <2>3. CASE Queued(Hop[held]) = {} /\ QueueNew(held, r)
    <3>1. requests' = requests \cup {r} /\ r \notin requests
      BY <2>3 DEF QueueNew, LinkedRequestsUsable
    <3>2. ip'[r] = Hop[held] /\ \A q \in requests : ip'[q] = ip[q]
      BY <2>3, <3>1 DEF QueueNew
    <3>3. OneRequestPerNextHop'
      BY <2>3, <3>1, <3>2 DEF Queued, OneRequestPerNextHop
    <3>4. LinkedRequestsUsable'
      BY <2>0, <2>3, <3>1 DEF QueueNew, LinkedRequestsUsable
    <3>5. NoWaitingBehindAMapping'
      BY <1>3, <2>0, <3>1, <3>2 DEF Queue, NoWaitingBehindAMapping, Matching
    <3> QED
      BY <2>1, <3>3, <3>4, <3>5
  <2> QED
    BY <1>3, <2>2, <2>3 DEF Queue, sr_arpcache_queuereq
<1>4. CASE Flush
  <2>1. SweepHoldsLock' /\ LinkedRequestsUsable' /\ OneRequestPerNextHop'
    BY <1>4
    DEF Flush, SweepHoldsLock, LinkedRequestsUsable, OneRequestPerNextHop
  <2>2. NoWaitingBehindAMapping'
    BY <1>4 DEF Flush, NoWaitingBehindAMapping, Matching
  <2> QED
    BY <2>1, <2>2
<1>5. CASE Process("main")
  BY <1>5, ProcessQueue
<1> QED
  BY <1>1, <1>2, <1>3, <1>4, <1>5 DEF Main, MainCont

\* A step of the sweep keeps the queue invariant.
LEMMA SweeperQueue ==
    ASSUME QueueInv, TypeOK', Sweeper PROVE QueueInv'
<1> USE DEF QueueInv, TypeOK, Threads, ProcessSteps, MainSteps, SweepSteps,
        Goto, reqVars, mainVars
<1>1. CASE SweepStart
  <2>1. \A i \in IPs : Matching(i)' \subseteq Matching(i)
    BY <1>1 DEF SweepStart, Matching, Expired
  <2>2. SweepHoldsLock' /\ LinkedRequestsUsable' /\ OneRequestPerNextHop'
    BY <1>1
    DEF SweepStart, SweepHoldsLock, LinkedRequestsUsable, OneRequestPerNextHop
  <2>3. NoWaitingBehindAMapping'
    BY <1>1, <2>1, ConstantsAssumption DEF SweepStart, NoWaitingBehindAMapping
  <2> QED
    BY <2>2, <2>3
<1>2. ASSUME NEW r \in Reqs, SweepNext(r) PROVE QueueInv'
  BY <1>2
  DEF SweepNext, SweepHoldsLock, LinkedRequestsUsable, OneRequestPerNextHop,
      NoWaitingBehindAMapping, Matching
<1>3. CASE SweepDone
  BY <1>3
  DEF SweepDone, SweepHoldsLock, LinkedRequestsUsable, OneRequestPerNextHop,
      NoWaitingBehindAMapping, Matching
<1>4. CASE Process("sweep")
  BY <1>4, ProcessQueue
<1> QED
  BY <1>1, <1>2, <1>3, <1>4 DEF Sweeper

\* The passing of a second keeps the queue invariant: only ages change.
LEMMA TickQueue ==
    ASSUME QueueInv, TypeOK', Tick PROVE QueueInv'
<1> USE DEF QueueInv, TypeOK, reqVars, mainVars
<1>1. \A i \in IPs : Matching(i)' = Matching(i)
  <2>1. ASSUME NEW s \in Slots
        PROVE /\ entries'[s] = NoEntry <=> entries[s] = NoEntry
              /\ entries[s] # NoEntry => entries'[s].ip = entries[s].ip
    <3>1. CASE entries[s] # NoEntry /\ entries[s].age <= Timeout
      <4>1. entries[s] \in Entry /\ entries'[s] = [entries[s] EXCEPT !.age = @ + 1]
        BY <3>1 DEF Tick
      <4>2. entries'[s] \in Entry /\ entries'[s].ip = entries[s].ip
        BY <3>1, <4>1, AgedEntry
      <4> QED
        BY <3>1, <4>2, ConstantsAssumption DEF Entry
    <3>2. CASE ~(entries[s] # NoEntry /\ entries[s].age <= Timeout)
      BY <3>2 DEF Tick
    <3> QED
      BY <3>1, <3>2
  <2> QED
    BY <2>1 DEF Matching
<1>2. SweepHoldsLock' /\ LinkedRequestsUsable' /\ OneRequestPerNextHop'
  BY DEF Tick, SweepHoldsLock, LinkedRequestsUsable, OneRequestPerNextHop
<1>3. NoWaitingBehindAMapping'
  BY <1>1, ConstantsAssumption DEF Tick, NoWaitingBehindAMapping
<1> QED
  BY <1>2, <1>3

\* The queue invariant holds initially.
LEMMA InitQueue == Init => QueueInv
<1> SUFFICES ASSUME Init PROVE QueueInv
  OBVIOUS
<1>1. TypeOK
  BY InitType
<1> QED
  BY <1>1
  DEF Init, QueueInv, SweepHoldsLock, OneRequestPerNextHop, Threads,
      LinkedRequestsUsable, NoWaitingBehindAMapping, ProcessSteps

\* The lock protocol and the queue's safety, together inductive.
THEOREM QueueSafe == Spec => []QueueInv
<1>1. Init => QueueInv
  BY InitQueue
<1>2. QueueInv /\ TypeOK' /\ [Next]_vars => QueueInv'
  <2> SUFFICES ASSUME QueueInv, TypeOK', [Next]_vars PROVE QueueInv'
    OBVIOUS
  <2>1. CASE UNCHANGED vars
    BY <2>1
    DEF vars, reqVars, mainVars, QueueInv, SweepHoldsLock, LinkedRequestsUsable,
        OneRequestPerNextHop, NoWaitingBehindAMapping, Matching
  <2> QED
    BY <2>1, MainQueue, SweeperQueue, TickQueue DEF Next
<1> QED
  BY <1>1, <1>2, TypeCorrect, PTL DEF Spec

\* At any moment one request at most is queued for a next hop, whatever the
\* interleaving of the packet thread and the sweeper.
THEOREM OneRequest == Spec => []OneRequestPerNextHop
BY QueueSafe, PTL DEF QueueInv

\* The sweeper meets live requests with a frame only: it never uses freed
\* memory, and request->packets->iface is never a null dereference there.
THEOREM SweeperSafe == Spec => []LinkedRequestsUsable
BY QueueSafe, PTL DEF QueueInv

\* No frame is left waiting for a hardware address the cache knows.
THEOREM NoForgottenWaiter == Spec => []NoWaitingBehindAMapping
BY QueueSafe, PTL DEF QueueInv

----------------------------------------------------------------------------
(***************************************************************************)
(* The counter of ARP requests.  The threads read, add and write           *)
(* times_sent without mutual exclusion.  The counter follows the wire      *)
(* because a value read is never above what was sent or is being sent.  It *)
(* passes MaxSent by one at most because a thread that read MaxSent has    *)
(* the increment for itself: while both threads are between the test and   *)
(* the write, what they read and what is stored are below MaxSent.         *)
(***************************************************************************)
Incrementing(t, r) == pc[t] \in {"load", "storeTimes"} /\ cur[t] = r

ReadIsSent ==
    /\ \A r \in live : times_sent[r] <= wire[r] + InFlight(r)
    /\ \A t \in Threads : pc[t] = "storeTimes" /\ cur[t] \in live =>
          loaded[t] <= wire[cur[t]] + InFlight(cur[t])

Overshoot ==
    /\ \A r \in Reqs : times_sent[r] <= MaxSent + 1
    /\ \A t \in Threads : pc[t] = "load" => times_sent[cur[t]] <= MaxSent
    /\ \A t \in Threads : pc[t] = "storeTimes" =>
          /\ loaded[t] <= MaxSent
          /\ loaded[t] = MaxSent => times_sent[cur[t]] >= MaxSent
    /\ \A r \in Reqs :
          Incrementing("main", r) /\ Incrementing("sweep", r) =>
             /\ times_sent[r] < MaxSent
             /\ \A t \in Threads : pc[t] = "storeTimes" => loaded[t] < MaxSent

CursorTyped == \A t \in Threads : pc[t] \in ProcessSteps => cur[t] \in Reqs

CounterInv == QueueInv /\ CursorTyped /\ ReadIsSent /\ Overshoot /\ UnreachableAfterAllTries

\* A step of process_arpreq keeps the counter invariant: the lost update of
\* times_sent only makes the counter lag.
LEMMA ProcessCounter ==
    ASSUME CounterInv, QueueInv', NEW t \in Threads, Process(t)
    PROVE  CounterInv'
<1> USE ConstantsAssumption DEF CounterInv, QueueInv, TypeOK, Threads,
        ProcessSteps, MainSteps, SweepSteps, At, Goto, Return, CursorTyped,
        InFlight, Sending
<1>1. CASE ReadSent(t)
  BY <1>1 DEF ReadSent, reqVars, mainVars, ReadIsSent, Overshoot,
              Incrementing, UnreachableAfterAllTries
<1>2. CASE Count(t)
  <2>1. ReadIsSent'
    BY <1>2 DEF Count, CountTest, reqVars, mainVars, ReadIsSent
  <2>2. Overshoot'
    BY <1>2 DEF Count, CountTest, reqVars, mainVars, Overshoot, Incrementing
  <2>3. UnreachableAfterAllTries'
    BY <1>2 DEF Count, CountTest, reqVars, mainVars, ReadIsSent,
                UnreachableAfterAllTries
  <2> QED
    BY <1>2, <2>1, <2>2, <2>3 DEF Count, CountTest
<1>3. CASE LoadTimes(t)
  <2>1. ReadIsSent'
    BY <1>3 DEF LoadTimes, reqVars, mainVars, ReadIsSent
  <2>2. Overshoot'
    BY <1>3 DEF LoadTimes, reqVars, mainVars, Overshoot, Incrementing
  <2>3. UnreachableAfterAllTries'
    BY <1>3 DEF LoadTimes, reqVars, mainVars, UnreachableAfterAllTries
  <2> QED
    BY <1>3, <2>1, <2>2, <2>3 DEF LoadTimes
<1>4. CASE StoreTimes(t)
  <2>1. ReadIsSent'
    BY <1>4 DEF StoreTimes, mainVars, ReadIsSent
  <2>2. Overshoot'
    BY <1>4 DEF StoreTimes, mainVars, Overshoot, Incrementing
  <2>3. UnreachableAfterAllTries'
    BY <1>4 DEF StoreTimes, mainVars, UnreachableAfterAllTries
  <2> QED
    BY <1>4, <2>1, <2>2, <2>3 DEF StoreTimes
<1>5. CASE StoreSent(t)
  <2>1. ReadIsSent'
    BY <1>5 DEF StoreSent, mainVars, ReadIsSent
  <2>2. Overshoot'
    BY <1>5 DEF StoreSent, mainVars, Overshoot, Incrementing
  <2>3. UnreachableAfterAllTries'
    BY <1>5 DEF StoreSent, mainVars, UnreachableAfterAllTries
  <2> QED
    BY <1>5, <2>1, <2>2, <2>3 DEF StoreSent
<1>6. ASSUME NEW p \in Pkts, BounceOne(t, p) PROVE CounterInv'
  BY <1>6 DEF BounceOne, reqVars, mainVars, ReadIsSent, Overshoot,
              Incrementing, UnreachableAfterAllTries
<1>7. CASE BounceDone(t)
  BY <1>7 DEF BounceDone, reqVars, mainVars, ReadIsSent, Overshoot,
              Incrementing, UnreachableAfterAllTries
<1>8. CASE sr_arpreq_destroy(t)
  BY <1>8 DEF sr_arpreq_destroy, mainVars, ReadIsSent, Overshoot,
              Incrementing, UnreachableAfterAllTries
<1>9. CASE UseFreed(t)
  BY <1>9 DEF UseFreed, reqVars, mainVars, ReadIsSent, Overshoot,
              Incrementing, UnreachableAfterAllTries
<1> QED
  BY <1>1, <1>2, <1>3, <1>4, <1>5, <1>6, <1>7, <1>8, <1>9 DEF Process

\* A step of the packet thread keeps the counter invariant.
LEMMA MainCounter ==
    ASSUME CounterInv, QueueInv', Main PROVE CounterInv'
<1> USE ConstantsAssumption DEF CounterInv, QueueInv, TypeOK, Threads,
        ProcessSteps, MainSteps, SweepSteps, Goto, CursorTyped, InFlight,
        Sending, ReadIsSent, Overshoot, Incrementing, UnreachableAfterAllTries
<1>1. ASSUME NEW p \in Pkts, Receive(p) PROVE CounterInv'
  BY <1>1 DEF Receive, reqVars
<1>2. ASSUME NEW i \in IPs, NEW m \in MACs, Reply(i, m) PROVE CounterInv'
  BY <1>2 DEF Reply, Queued
<1>3. ASSUME NEW r \in Reqs, Queue(r) PROVE CounterInv'
  <2>1. pc["sweep"] = "sleep" /\ pc["main"] = "queue"
    BY <1>3 DEF Queue, SweepHoldsLock
  <2> QED
    BY <1>3, <2>1 DEF Queue, sr_arpcache_queuereq, QueueNew
<1>4. CASE Flush
  BY <1>4 DEF Flush, reqVars
<1>5. CASE Process("main")
  BY <1>5, ProcessCounter
<1> QED
  BY <1>1, <1>2, <1>3, <1>4, <1>5 DEF Main, MainCont

\* A step of the sweeper keeps the counter invariant.
LEMMA SweeperCounter ==
    ASSUME CounterInv, QueueInv', Sweeper PROVE CounterInv'
<1> USE ConstantsAssumption DEF CounterInv, QueueInv, TypeOK, Threads,
        ProcessSteps, MainSteps, SweepSteps, Goto, CursorTyped, InFlight,
        Sending, ReadIsSent, Overshoot, Incrementing, UnreachableAfterAllTries,
        reqVars, mainVars
<1>1. CASE SweepStart
  BY <1>1 DEF SweepStart
<1>2. ASSUME NEW r \in Reqs, SweepNext(r) PROVE CounterInv'
  BY <1>2 DEF SweepNext
<1>3. CASE SweepDone
  BY <1>3 DEF SweepDone
<1>4. CASE Process("sweep")
  BY <1>4, ProcessCounter
<1> QED
  BY <1>1, <1>2, <1>3, <1>4 DEF Sweeper

\* The invariant of the counter, in every behaviour.
THEOREM CounterSafe == Spec => []CounterInv
<1>1. Init => CounterInv
  <2> SUFFICES ASSUME Init PROVE CounterInv
    OBVIOUS
  <2>1. QueueInv
    BY InitQueue
  <2> QED
    BY <2>1, ConstantsAssumption
    DEF Init, CounterInv, CursorTyped, ReadIsSent, Overshoot, Incrementing,
        UnreachableAfterAllTries, InFlight, Sending, Threads, ProcessSteps
<1>2. CounterInv /\ QueueInv' /\ [Next]_vars => CounterInv'
  <2> SUFFICES ASSUME CounterInv, QueueInv', [Next]_vars PROVE CounterInv'
    OBVIOUS
  <2>1. CASE UNCHANGED vars \/ Tick
    BY <2>1
    DEF vars, reqVars, mainVars, Tick, CounterInv, CursorTyped, ReadIsSent,
        Overshoot, Incrementing, UnreachableAfterAllTries, InFlight, Sending
  <2> QED
    BY <2>1, MainCounter, SweeperCounter DEF Next
<1> QED
  BY <1>1, <1>2, QueueSafe, PTL DEF Spec

\* times_sent never runs ahead of the ARP requests sent, nor past the limit by
\* more than one, for every limit and whatever increments the threads lose.
THEOREM CounterBounded == Spec => []CounterFollowsWire
<1>1. CounterInv => CounterFollowsWire
  BY DEF CounterInv, QueueInv, TypeOK, ReadIsSent, Overshoot, CounterFollowsWire
<1> QED
  BY <1>1, CounterSafe, PTL

\* No frame is reported unreachable before MaxSent ARP requests.
THEOREM NoEarlyUnreachable == Spec => []UnreachableAfterAllTries
BY CounterSafe, PTL DEF CounterInv

----------------------------------------------------------------------------
(***************************************************************************)
(* The fate of a frame.  A frame can be forwarded from a request only when *)
(* Reply has unlinked it, which it does while no other thread works on it, *)
(* and can be reported unreachable only while its request is linked.  So   *)
(* the two exclude each other, provided that a request with a frame        *)
(* reported stays in the hands of the thread that reported it, up to its   *)
(* destruction, and that a frame is queued once.                           *)
(***************************************************************************)
\* Nothing has become of a frame that is not received, or not yet queued.
NotYet(p) == forwards[p] = 0 /\ bounces[p] = 0 /\ \A r \in live : p \notin packets[r]

ReceivedOnce ==
    /\ \A p \in Pkts \ seen : NotYet(p)
    /\ pc["main"] = "queue" => held \in seen /\ NotYet(held)

\* A live request that is not linked is the one a reply is flushed from.
Unlinked ==
    /\ \A r \in live \ requests : pc["main"] \in {"flush", "destroy"} /\ cur["main"] = r
    /\ pc["main"] = "flush" =>
          /\ cur["main"] \in live \ requests
          /\ \A p \in packets[cur["main"]] : forwards[p] = 0

\* A frame of r has been reported unreachable: r is linked, and a thread is
\* on its way to destroy it.
Reporting ==
    /\ \A t \in Threads : pc[t] = "bounce" /\ cur[t] \in live => rest[t] \subseteq packets[cur[t]]
    /\ \A r \in live : \A p \in packets[r] : bounces[p] > 0 =>
          r \in requests /\ \E t \in Threads : pc[t] \in {"bounce", "destroy"} /\ cur[t] = r

FateInv == QueueInv /\ OneFate /\ ReceivedOnce /\ Unlinked /\ Reporting

\* A step of thread t that touches no frame, and starts or ends no report.
Idle(t) ==
    /\ UNCHANGED <<requests, live, packets, forwards, bounces, seen, held, rest>>
    /\ pc[t] \notin {"bounce", "destroy", "flush"}
    /\ \E step \in MainSteps \cup SweepSteps :
          step \notin {"bounce", "queue", "flush"} /\ Goto(t, step)
    /\ \A u \in Threads \ {t} : cur'[u] = cur[u]

LEMMA IdleFate ==
    ASSUME FateInv, QueueInv', NEW t \in Threads, Idle(t) PROVE FateInv'
<1> USE DEF FateInv, QueueInv, TypeOK, Threads, Idle, Goto
<1>1. OneFate'
  BY DEF OneFate
<1>2. ReceivedOnce'
  BY DEF ReceivedOnce, NotYet
<1>3. Unlinked'
  BY DEF Unlinked
<1>4. Reporting'
  BY DEF Reporting
<1> QED
  BY <1>1, <1>2, <1>3, <1>4

\* A step of process_arpreq, by either thread, keeps the invariant of the
\* fates: the report is made only on a linked request.
LEMMA ProcessFate ==
    ASSUME FateInv, QueueInv', NEW t \in Threads, Process(t) PROVE FateInv'
<1>a. Idle(t) => FateInv'
  BY IdleFate
<1>b. TypeOK
  BY DEF FateInv, QueueInv
<1> USE DEF At, reqVars, mainVars, Goto, Return, ProcessSteps, MainSteps, SweepSteps
<1>1. CASE ReadSent(t) \/ LoadTimes(t) \/ StoreTimes(t) \/ StoreSent(t)
  BY <1>1, <1>a, <1>b DEF ReadSent, LoadTimes, StoreTimes, StoreSent, Idle, TypeOK, Threads
<1>2. CASE Count(t)
  <2>1. CASE UNCHANGED rest /\ Goto(t, "load")
    BY <1>2, <2>1, <1>a, <1>b DEF Count, Idle, TypeOK, Threads
  <2>2. CASE Goto(t, "bounce") /\ rest' = [rest EXCEPT ![t] = packets[cur[t]]]
    <3> USE DEF FateInv, QueueInv, TypeOK, Threads
    <3>1. OneFate'
      BY <1>2, <2>2 DEF Count, OneFate
    <3>2. ReceivedOnce'
      BY <1>2, <2>2 DEF Count, ReceivedOnce, NotYet
    <3>3. Unlinked'
      BY <1>2, <2>2 DEF Count, Unlinked
    <3>4. Reporting'
      BY <1>2, <2>2 DEF Count, Reporting
    <3> QED
      BY <3>1, <3>2, <3>3, <3>4
  <2> QED
    BY <1>2, <2>1, <2>2 DEF Count, CountTest
<1> USE DEF FateInv, QueueInv, TypeOK, Threads
<1>6. ASSUME NEW p \in Pkts, BounceOne(t, p) PROVE FateInv'
  <2>1. cur[t] \in live \cap requests /\ p \in packets[cur[t]]
    BY <1>6 DEF BounceOne, Reporting, Unlinked, SweepHoldsLock
  <2>2. forwards[p] = 0 /\ p \in seen
    BY <2>1 DEF OneFate, ReceivedOnce, NotYet
  <2>3. /\ bounces' \in [Pkts -> Nat] /\ \A q \in Pkts \ {p} : bounces'[q] = bounces[q]
        /\ UNCHANGED <<requests, live, packets, forwards, seen, held, pc, cur>>
        /\ rest' = [rest EXCEPT ![t] = @ \ {p}]
    BY <1>6 DEF BounceOne
  <2>4. OneFate'
    <3>1. ASSUME NEW q \in Pkts
          PROVE  forwards[q] + (IF bounces'[q] > 0 THEN 1 ELSE 0) <= 1
      <4>1. CASE q = p
        BY <2>2, <2>3, <4>1
      <4>2. CASE q # p
        BY <2>3, <4>2 DEF OneFate
      <4> QED
        BY <4>1, <4>2
    <3>2. /\ \A r, q \in live' : packets'[r] \cap packets'[q] # {} => r = q
          /\ \A r \in requests' : \A q \in packets'[r] : forwards'[q] = 0
      BY <2>3 DEF OneFate
    <3>3. forwards' = forwards
      BY <2>3
    <3> QED
      BY <3>1, <3>2, <3>3 DEF OneFate
  <2>5. ReceivedOnce'
    BY <2>1, <2>2, <2>3 DEF ReceivedOnce, NotYet
  <2>6. Unlinked'
    BY <2>3 DEF Unlinked
  <2>7. Reporting'
    <3>1. ASSUME NEW r \in live, NEW q \in packets[r], bounces'[q] > 0
          PROVE  r \in requests /\ \E u \in Threads : pc[u] \in {"bounce", "destroy"} /\ cur[u] = r
      <4>1. CASE q = p
        BY <1>6, <2>1, <4>1, <3>1 DEF OneFate, BounceOne
      <4>2. CASE q # p
        BY <2>3, <3>1, <4>2 DEF Reporting
      <4> QED
        BY <4>1, <4>2
    <3> QED
      BY <2>3, <3>1 DEF Reporting
  <2> QED
    BY <2>4, <2>5, <2>6, <2>7
<1>7. CASE BounceDone(t)
  <2>1. OneFate' /\ ReceivedOnce'
    BY <1>7 DEF BounceDone, OneFate, ReceivedOnce, NotYet
  <2>2. Unlinked'
    BY <1>7 DEF BounceDone, Unlinked
  <2>3. Reporting'
    BY <1>7 DEF BounceDone, Reporting
  <2> QED
    BY <2>1, <2>2, <2>3
<1>8. CASE sr_arpreq_destroy(t)
  <2>0. /\ live' = live \ {cur[t]} /\ requests' = requests \ {cur[t]}
        /\ cur[t] \in live /\ cur[t] \in Reqs
        /\ \A r \in live' : packets'[r] = packets[r]
        /\ UNCHANGED <<forwards, bounces, seen, held, rest>>
        /\ pc' = [pc EXCEPT ![t] = IF t = "main" THEN "idle" ELSE "next"]
        /\ \A u \in Threads \ {t} : cur'[u] = cur[u]
    BY <1>8 DEF sr_arpreq_destroy
  <2>1. OneFate'
    <3>1. requests' \subseteq live'
      BY <2>0 DEF LinkedRequestsUsable
    <3>2. \A p \in Pkts : forwards'[p] + (IF bounces'[p] > 0 THEN 1 ELSE 0) <= 1
      BY <2>0 DEF OneFate
    <3>3. \A r, q \in live' : packets'[r] \cap packets'[q] # {} => r = q
      BY <2>0 DEF OneFate
    <3>4. \A r \in requests' : \A p \in packets'[r] : forwards'[p] = 0
      BY <2>0, <3>1 DEF OneFate
    <3> QED
      BY <3>2, <3>3, <3>4 DEF OneFate
  <2>2. ReceivedOnce'
    BY <2>0 DEF ReceivedOnce, NotYet
  <2>3. Unlinked'
    <3>1. t = "sweep" => cur[t] \in requests
      BY <1>8 DEF sr_arpreq_destroy, SweepHoldsLock
    <3> QED
      BY <2>0, <3>1 DEF Unlinked
  <2>4. Reporting'
    BY <1>8, <2>0 DEF Reporting
  <2> QED
    BY <2>1, <2>2, <2>3, <2>4
<1>9. CASE UseFreed(t)
  <2>0. /\ UNCHANGED <<requests, live, packets, forwards, bounces, seen, held>>
        /\ cur[t] \notin live /\ t = "main" /\ pc[t] # "flush"
        /\ pc' = pc \/ pc' = [pc EXCEPT ![t] = "idle"]
        /\ cur'["sweep"] = cur["sweep"] /\ rest' = [rest EXCEPT ![t] = {}]
    BY <1>9 DEF UseFreed, LinkedRequestsUsable, Unlinked
  <2>1. OneFate' /\ ReceivedOnce'
    BY <2>0 DEF OneFate, ReceivedOnce, NotYet
  <2>2. Unlinked'
    BY <2>0 DEF Unlinked
  <2>3. Reporting'
    BY <2>0 DEF Reporting
  <2> QED
    BY <2>1, <2>2, <2>3
<1> QED
  BY <1>1, <1>2, <1>6, <1>7, <1>8, <1>9 DEF Process

\* A step of the packet thread keeps it: a reply unlinks a request of which no
\* frame has been reported, for no thread is at work on one.
LEMMA MainFate ==
    ASSUME FateInv, QueueInv', Main PROVE FateInv'
<1> USE DEF FateInv, QueueInv, TypeOK, Threads, Goto, reqVars, mainVars
<1>1. ASSUME NEW p \in Pkts, Receive(p) PROVE FateInv'
  <2>0. NotYet(p)
    BY <1>1 DEF Receive, ReceivedOnce
  <2>1. OneFate'
    <3>1. /\ UNCHANGED <<requests, live, packets, bounces>>
          /\ \A q \in Pkts \ {p} : forwards'[q] = forwards[q]
          /\ forwards'[p] \in 0..1
      BY <1>1, <2>0 DEF Receive, NotYet
    <3>2. ASSUME NEW q \in Pkts
          PROVE  forwards'[q] + (IF bounces'[q] > 0 THEN 1 ELSE 0) <= 1
      <4>1. CASE q = p
        BY <2>0, <3>1, <4>1 DEF NotYet
      <4>2. CASE q # p
        BY <3>1, <4>2 DEF OneFate
      <4> QED
        BY <4>1, <4>2
    <3>3. ASSUME NEW r \in requests, NEW q \in packets[r] PROVE forwards'[q] = 0
      BY <2>0, <3>1, <3>3 DEF OneFate, NotYet, LinkedRequestsUsable
    <3> QED
      BY <3>1, <3>2, <3>3 DEF OneFate
  <2>2. ReceivedOnce'
    BY <1>1, <2>0 DEF Receive, ReceivedOnce, NotYet
  <2>3. Unlinked'
    BY <1>1 DEF Receive, Unlinked
  <2>4. Reporting'
    BY <1>1 DEF Receive, Reporting
  <2> QED
    BY <2>1, <2>2, <2>3, <2>4
<1>2. ASSUME NEW i \in IPs, NEW m \in MACs, Reply(i, m) PROVE FateInv'
  <2>0. /\ requests' = requests \ Queued(i) /\ lock = "free" /\ pc["main"] = "idle"
        /\ UNCHANGED <<live, packets, forwards, bounces, seen, held, rest>>
    BY <1>2 DEF Reply, sr_arpcache_insert
  <2>1. pc["sweep"] = "sleep"
    BY <2>0 DEF SweepHoldsLock
  <2>2. \A r \in live : \A p \in packets[r] : bounces[p] = 0
    BY <2>0, <2>1 DEF Reporting
  <2>3. live = requests
    BY <2>0 DEF Unlinked, LinkedRequestsUsable
  <2>4. OneFate'
    BY <2>0 DEF OneFate
  <2>5. ReceivedOnce'
    BY <1>2, <2>0 DEF Reply, ReceivedOnce, NotYet
  <2>6. CASE Queued(i) = {} /\ UNCHANGED <<pc, cur>>
    <3>1. Unlinked'
      BY <2>0, <2>6 DEF Unlinked
    <3>2. Reporting'
      BY <2>0, <2>1, <2>2, <2>6 DEF Reporting
    <3> QED
      BY <2>4, <2>5, <3>1, <3>2
  <2>7. ASSUME NEW r \in Queued(i), Goto("main", "flush"), cur' = [cur EXCEPT !["main"] = r]
        PROVE  FateInv'
    <3>1. Queued(i) = {r} /\ r \in requests
      BY <2>7 DEF Queued, OneRequestPerNextHop
    <3>2. \A p \in packets[r] : forwards[p] = 0
      BY <3>1 DEF OneFate
    <3>3. Unlinked'
      BY <2>0, <2>3, <2>7, <3>1, <3>2 DEF Unlinked
    <3>4. Reporting'
      BY <2>0, <2>1, <2>2, <2>7 DEF Reporting
    <3> QED
      BY <2>4, <2>5, <3>3, <3>4
  <2> QED
    BY <1>2, <2>6, <2>7 DEF Reply
<1>3. ASSUME NEW r \in Reqs, Queue(r) PROVE FateInv'
  <2>0. /\ lock = "free" /\ pc["sweep"] = "sleep" /\ held \in Pkts
        /\ pc' = [pc EXCEPT !["main"] = "age"]
        /\ UNCHANGED <<forwards, bounces, seen, rest>>
        /\ held \in seen /\ NotYet(held)
    BY <1>3 DEF Queue, SweepHoldsLock, ReceivedOnce
  <2>1. \A q \in live : q \in requests /\ \A p \in packets[q] : bounces[p] = 0
    BY <1>3, <2>0 DEF Queue, Reporting, Unlinked
  <2>2. /\ live' = live \cup {r} /\ requests' = requests \cup {r} /\ r \in requests'
        /\ \A q \in live \ {r} : packets'[q] = packets[q]
        /\ r \in live => packets'[r] = packets[r] \cup {held}
        /\ r \notin live => packets'[r] = {held}
    BY <1>3 DEF Queue, sr_arpcache_queuereq, QueueNew, Queued, LinkedRequestsUsable
  <2>3. \A q \in live' : \A p \in packets'[q] :
            bounces[p] = 0 /\ p \in seen /\ ((p = held /\ q = r) \/ (q \in live /\ p \in packets[q]))
    BY <2>0, <2>1, <2>2 DEF NotYet, ReceivedOnce
  <2>4. \A q \in live : held \notin packets[q]
    BY <2>0 DEF NotYet
  <2>5. OneFate'
    <3>1. ASSUME NEW q \in live', NEW s \in live', NEW p \in packets'[q], p \in packets'[s]
          PROVE  q = s
      BY <2>3, <2>4, <3>1 DEF OneFate
    <3>2. ASSUME NEW q \in requests', NEW p \in packets'[q] PROVE forwards[p] = 0
      BY <2>0, <2>1, <2>2, <2>3, <3>2 DEF OneFate, NotYet, LinkedRequestsUsable
    <3>3. packets' \in [Reqs -> SUBSET Pkts] /\ live' \subseteq Reqs
      OBVIOUS
    <3> QED
      BY <2>0, <3>1, <3>2, <3>3 DEF OneFate
  <2>6. ReceivedOnce'
    <3>1. ASSUME NEW p \in Pkts \ seen PROVE NotYet(p)'
      BY <2>0, <2>3, <3>1 DEF ReceivedOnce, NotYet
    <3> QED
      BY <2>0, <3>1 DEF ReceivedOnce
  <2>7. Unlinked'
    BY <2>0, <2>1, <2>2 DEF Unlinked
  <2>8. Reporting'
    BY <2>0, <2>3 DEF Reporting
  <2> QED
    BY <2>5, <2>6, <2>7, <2>8
<1>4. CASE Flush
  <2> DEFINE r == cur["main"]
  <2>0. /\ r \in live \ requests /\ \A p \in packets[r] : forwards[p] = 0 /\ bounces[p] = 0
        /\ UNCHANGED <<requests, live, packets, bounces, seen, held, rest, cur>>
        /\ pc["main"] = "flush" /\ pc' = [pc EXCEPT !["main"] = "destroy"]
    BY <1>4 DEF Flush, Unlinked, Reporting
  <2>1. \A p \in Pkts : forwards'[p] = IF p \in packets[r] THEN 1 ELSE forwards[p]
    BY <1>4, <2>0 DEF Flush, Flushed
  <2>2. OneFate'
    <3>1. ASSUME NEW p \in Pkts
          PROVE  forwards'[p] + (IF bounces'[p] > 0 THEN 1 ELSE 0) <= 1
      <4>1. CASE p \in packets[r]
        BY <2>0, <2>1, <4>1
      <4>2. CASE p \notin packets[r]
        BY <2>0, <2>1, <4>2 DEF OneFate
      <4> QED
        BY <4>1, <4>2
    <3>2. ASSUME NEW q \in requests, NEW p \in packets[q] PROVE forwards'[p] = 0
      <4>1. p \notin packets[r]
        BY <2>0, <3>2 DEF OneFate, LinkedRequestsUsable
      <4> QED
        BY <2>1, <3>2, <4>1 DEF OneFate
    <3> QED
      BY <2>0, <3>1, <3>2 DEF OneFate
  <2>3. ReceivedOnce'
    BY <2>0, <2>1 DEF ReceivedOnce, NotYet
  <2>4. Unlinked'
    BY <2>0 DEF Unlinked
  <2>5. Reporting'
    BY <2>0 DEF Reporting
  <2> QED
    BY <2>2, <2>3, <2>4, <2>5
<1>5. CASE Process("main")
  BY <1>5, ProcessFate
<1> QED
  BY <1>1, <1>2, <1>3, <1>4, <1>5 DEF Main, MainCont

\* A step of the sweeper keeps it.
LEMMA SweeperFate ==
    ASSUME FateInv, QueueInv', Sweeper PROVE FateInv'
<1> SUFFICES ASSUME SweepStart \/ (\E r \in Reqs : SweepNext(r)) \/ SweepDone
             PROVE  Idle("sweep")
  BY ProcessFate, IdleFate DEF Sweeper, Threads
<1> QED
  BY DEF SweepStart, SweepNext, SweepDone, Idle, Goto, MainSteps, SweepSteps,
         ProcessSteps, reqVars, mainVars, FateInv, QueueInv, TypeOK, Threads

LEMMA InitFate == Init => FateInv
<1> SUFFICES ASSUME Init PROVE FateInv
  OBVIOUS
<1>1. QueueInv
  BY InitQueue
<1> QED
  BY <1>1 DEF Init, FateInv, OneFate, ReceivedOnce, NotYet, Unlinked, Reporting, Threads

LEMMA FateHolds == Spec => []FateInv
<1>1. FateInv /\ QueueInv' /\ [Next]_vars => FateInv'
  <2> SUFFICES ASSUME FateInv, QueueInv', [Next]_vars PROVE FateInv'
    OBVIOUS
  <2>1. CASE UNCHANGED vars \/ Tick
    BY <2>1
    DEF vars, reqVars, mainVars, Tick, FateInv, OneFate, ReceivedOnce, NotYet,
        Unlinked, Reporting
  <2> QED
    BY <2>1, MainFate, SweeperFate DEF Next
<1> QED
  BY <1>1, InitFate, QueueSafe, PTL DEF Spec

\* A frame waits on one request at most, it is forwarded at most once, and
\* none is both forwarded and reported unreachable, for any number of frames
\* and next hops and every interleaving of the two threads.
THEOREM FateSafe == Spec => []OneFate
BY FateHolds, PTL DEF FateInv

----------------------------------------------------------------------------
(***************************************************************************)
(* The refinement of ArpService.  Frames leave together because a request  *)
(* holds all the frames that wait for its next hop: they were queued on it *)
(* and no other request for that hop is linked, not even while a reply's   *)
(* frames are being sent.  And a request is destroyed only when its frames *)
(* have been sent, or those of ours have been reported.                    *)
(***************************************************************************)
RightHops ==
    /\ \A r \in live : \A p \in packets[r] : Hop[p] = ip[r]
    /\ pc["main"] # "queue" => held = NoPkt

HopAnswered ==
    /\ \A s \in Slots : entries[s] # NoEntry => entries[s].ip \in answered
    /\ pc["main"] = "flush" =>
          /\ ip[cur["main"]] \in answered /\ packets[cur["main"]] # {}
          /\ \A r \in requests : ip[r] # ip[cur["main"]]

\* What a thread that goes to destroy request r has done with frame p.
Finished(t, r) ==
    \A p \in packets[r] :
        /\ r \in requests /\ p \in Ours /\ (pc[t] = "bounce" => p \notin rest[t]) => bounces[p] > 0
        /\ r \notin requests => forwards[p] > 0

FramesFinished ==
    \A t \in Threads : pc[t] \in {"bounce", "destroy"} /\ cur[t] \in live => Finished(t, cur[t])

ServiceInv == FateInv /\ RightHops /\ HopAnswered /\ FramesFinished

\* A step of process_arpreq: what the thread leaves behind is finished.
LEMMA ProcessService ==
    ASSUME ServiceInv, FateInv', NEW t \in Threads, Process(t) PROVE ServiceInv'
<1> USE DEF At, reqVars, mainVars, Goto, Return, ProcessSteps, MainSteps, SweepSteps,
        ServiceInv, FateInv, QueueInv, TypeOK, Threads
<1>1. CASE ReadSent(t) \/ LoadTimes(t) \/ StoreTimes(t) \/ StoreSent(t)
  <2>1. /\ UNCHANGED <<ip, answered, entries, live, requests, packets, forwards, bounces, rest, held>>
        /\ pc[t] \notin {"bounce", "destroy", "flush", "queue"} /\ pc'[t] \notin {"bounce", "destroy", "flush", "queue"}
        /\ \A u \in Threads \ {t} : pc'[u] = pc[u] /\ cur'[u] = cur[u]
    BY <1>1 DEF ReadSent, LoadTimes, StoreTimes, StoreSent
  <2>2. RightHops'
    BY <2>1 DEF RightHops
  <2>3. HopAnswered'
    BY <2>1 DEF HopAnswered
  <2>4. FramesFinished'
    BY <2>1 DEF FramesFinished, Finished
  <2> QED
    BY <2>2, <2>3, <2>4
<1>2. CASE Count(t)
  <2>1. /\ UNCHANGED <<ip, answered, entries, live, requests, packets, forwards, bounces, held, cur>>
        /\ pc[t] = "count" /\ cur[t] \in live
        /\ \/ pc' = [pc EXCEPT ![t] = "load"] /\ rest' = rest
           \/ pc' = [pc EXCEPT ![t] = "bounce"] /\ rest' = [rest EXCEPT ![t] = packets[cur[t]]]
    BY <1>2 DEF Count, CountTest
  <2>2. RightHops'
    BY <2>1 DEF RightHops
  <2>3. HopAnswered'
    BY <2>1 DEF HopAnswered
  <2>4. cur[t] \in requests
    BY <2>1 DEF Unlinked, SweepHoldsLock
  <2>5. FramesFinished'
    BY <2>1, <2>4 DEF FramesFinished, Finished
  <2> QED
    BY <2>2, <2>3, <2>5
<1>6. ASSUME NEW p \in Pkts, BounceOne(t, p) PROVE ServiceInv'
  <2>1. /\ UNCHANGED <<ip, answered, entries, live, requests, packets, forwards, held, pc, cur>>
        /\ pc[t] = "bounce" /\ rest' = [rest EXCEPT ![t] = @ \ {p}]
        /\ \A q \in Pkts : bounces[q] > 0 => bounces'[q] > 0
        /\ p \in Ours => bounces'[p] > 0
    BY <1>6 DEF BounceOne
  <2>2. RightHops'
    BY <2>1 DEF RightHops
  <2>3. HopAnswered'
    BY <2>1 DEF HopAnswered
  <2>4. FramesFinished'
    BY <2>1 DEF FramesFinished, Finished
  <2> QED
    BY <2>2, <2>3, <2>4
<1>7. CASE BounceDone(t)
  <2>1. /\ UNCHANGED <<ip, answered, entries, live, requests, packets, forwards, bounces, held, rest, cur>>
        /\ pc[t] = "bounce" /\ rest[t] = {} /\ pc' = [pc EXCEPT ![t] = "destroy"]
    BY <1>7 DEF BounceDone
  <2>2. RightHops'
    BY <2>1 DEF RightHops
  <2>3. HopAnswered'
    BY <2>1 DEF HopAnswered
  <2>4. FramesFinished'
    BY <2>1 DEF FramesFinished, Finished
  <2> QED
    BY <2>2, <2>3, <2>4
<1>8. CASE sr_arpreq_destroy(t)
  <2>1. /\ UNCHANGED <<ip, answered, entries, forwards, bounces, held, rest>>
        /\ live' = live \ {cur[t]} /\ requests' = requests \ {cur[t]}
        /\ \A r \in live' : packets'[r] = packets[r]
        /\ pc[t] = "destroy" /\ cur[t] \in live
        /\ pc' = [pc EXCEPT ![t] = IF t = "main" THEN "idle" ELSE "next"]
        /\ \A u \in Threads \ {t} : cur'[u] = cur[u]
    BY <1>8 DEF sr_arpreq_destroy
  <2>2. RightHops'
    BY <2>1 DEF RightHops
  <2>3. HopAnswered'
    <3>1. t = "sweep" => cur[t] \in requests
      BY <2>1 DEF SweepHoldsLock
    <3>2. ASSUME pc'["main"] = "flush" PROVE cur["main"] \in live'
      BY <2>1, <3>1, <3>2 DEF Unlinked
    <3> QED
      BY <2>1, <3>2 DEF HopAnswered
  <2>4. FramesFinished'
    BY <2>1 DEF FramesFinished, Finished
  <2> QED
    BY <2>2, <2>3, <2>4
<1>9. CASE UseFreed(t)
  <2>1. /\ UNCHANGED <<ip, answered, entries, requests, live, packets, forwards, bounces, held>>
        /\ cur[t] \notin live /\ t = "main" /\ pc[t] \notin {"flush", "queue"}
        /\ \/ pc' = pc /\ cur' = cur
           \/ pc' = [pc EXCEPT ![t] = "idle"] /\ cur' = [cur EXCEPT ![t] = NoReq]
        /\ rest' = [rest EXCEPT ![t] = {}]
    BY <1>9 DEF UseFreed, LinkedRequestsUsable, Unlinked
  <2>2. RightHops'
    BY <2>1 DEF RightHops
  <2>3. HopAnswered'
    BY <2>1 DEF HopAnswered
  <2>4. FramesFinished'
    BY <2>1, ConstantsAssumption DEF FramesFinished, Finished
  <2> QED
    BY <2>2, <2>3, <2>4
<1> QED
  BY <1>1, <1>2, <1>6, <1>7, <1>8, <1>9 DEF Process

\* A step of the packet thread.
LEMMA MainService ==
    ASSUME ServiceInv, FateInv', Main PROVE ServiceInv'
<1> USE DEF ServiceInv, FateInv, QueueInv, TypeOK, Threads, Goto, reqVars, mainVars
<1>1. ASSUME NEW p \in Pkts, Receive(p) PROVE ServiceInv'
  <2>1. /\ UNCHANGED <<ip, answered, entries, requests, live, packets, bounces, rest, cur>>
        /\ pc["main"] = "idle" /\ pc'["main"] \in {"idle", "queue"} /\ pc'["sweep"] = pc["sweep"]
        /\ pc'["main"] = "idle" => held' = held
        /\ \A q \in Pkts : forwards[q] > 0 => forwards'[q] > 0
    BY <1>1 DEF Receive
  <2>2. RightHops'
    BY <2>1 DEF RightHops
  <2>3. HopAnswered'
    BY <2>1 DEF HopAnswered
  <2>4. FramesFinished'
    BY <2>1 DEF FramesFinished, Finished
  <2> QED
    BY <2>2, <2>3, <2>4
<1>2. ASSUME NEW i \in IPs, NEW m \in MACs, Reply(i, m) PROVE ServiceInv'
  <2>1. /\ UNCHANGED <<ip, live, packets, bounces, rest, forwards, held>>
        /\ requests' = requests \ Queued(i) /\ answered' = answered \cup {i}
        /\ entries' = Store(i, m) /\ pc["main"] = "idle" /\ lock = "free"
        /\ \/ pc' = pc /\ cur' = cur
           \/ \E r \in Queued(i) : /\ pc' = [pc EXCEPT !["main"] = "flush"]
                                   /\ cur' = [cur EXCEPT !["main"] = r]
    BY <1>2 DEF Reply, sr_arpcache_insert
  <2>2. RightHops'
    BY <2>1 DEF RightHops
  <2>3. HopAnswered'
    <3>1. \A s \in Slots : entries'[s] # NoEntry => entries'[s].ip \in answered'
      BY <2>1 DEF HopAnswered, Store
    <3>2. pc'["main"] = "flush" =>
             /\ ip'[cur'["main"]] = i /\ packets'[cur'["main"]] # {}
             /\ \A r \in requests' : ip'[r] # i
      BY <2>1 DEF Queued, LinkedRequestsUsable
    <3> QED
      BY <2>1, <3>1, <3>2 DEF HopAnswered
  <2>4. pc["sweep"] = "sleep"
    BY <2>1 DEF SweepHoldsLock
  <2>5. FramesFinished'
    BY <2>1, <2>4 DEF FramesFinished, Finished
  <2> QED
    BY <2>2, <2>3, <2>5
<1>3. ASSUME NEW r \in Reqs, Queue(r) PROVE ServiceInv'
  <2>1. /\ UNCHANGED <<entries, answered>> /\ held \in Pkts /\ held' = NoPkt
        /\ pc' = [pc EXCEPT !["main"] = "age"] /\ pc["sweep"] = "sleep"
    BY <1>3 DEF Queue, SweepHoldsLock
  <2>2. /\ live' = live \cup {r} /\ ip'[r] = Hop[held]
        /\ \A q \in live \ {r} : packets'[q] = packets[q] /\ ip'[q] = ip[q]
        /\ r \in live => packets'[r] = packets[r] \cup {held} /\ ip'[r] = ip[r]
        /\ r \notin live => packets'[r] = {held}
    BY <1>3 DEF Queue, sr_arpcache_queuereq, QueueNew, Queued, LinkedRequestsUsable
  <2>3. RightHops'
    BY <2>1, <2>2 DEF RightHops
  <2>4. HopAnswered'
    BY <2>1 DEF HopAnswered
  <2>5. FramesFinished'
    BY <2>1 DEF FramesFinished
  <2> QED
    BY <2>3, <2>4, <2>5
<1>4. CASE Flush
  <2>1. /\ UNCHANGED <<ip, answered, entries, requests, live, packets, bounces, rest, cur, held>>
        /\ pc["main"] = "flush" /\ pc' = [pc EXCEPT !["main"] = "destroy"]
        /\ cur["main"] \in live \ requests
        /\ \A p \in Pkts : /\ forwards[p] > 0 => forwards'[p] > 0
                           /\ p \in packets[cur["main"]] => forwards'[p] > 0
    BY <1>4 DEF Flush, Flushed, Unlinked
  <2>2. RightHops'
    BY <2>1 DEF RightHops
  <2>3. HopAnswered'
    BY <2>1 DEF HopAnswered
  <2>4. FramesFinished'
    BY <2>1 DEF FramesFinished, Finished
  <2> QED
    BY <2>2, <2>3, <2>4
<1>5. CASE Process("main")
  BY <1>5, ProcessService
<1> QED
  BY <1>1, <1>2, <1>3, <1>4, <1>5 DEF Main, MainCont

\* A second that passes changes the age of an entry, not its address.
LEMMA TickEntries ==
    ASSUME TypeOK, Tick, NEW s \in Slots, entries'[s] # NoEntry
    PROVE  entries[s] # NoEntry /\ entries'[s].ip = entries[s].ip
<1> USE DEF TypeOK
<1>1. CASE entries[s] # NoEntry /\ entries[s].age <= Timeout
  BY <1>1, AgedEntry DEF Tick
<1>2. CASE ~(entries[s] # NoEntry /\ entries[s].age <= Timeout)
  BY <1>2 DEF Tick
<1> QED
  BY <1>1, <1>2

\* A step of the sweeper, or the passing of a second.
LEMMA SweeperService ==
    ASSUME ServiceInv, FateInv', Sweeper \/ Tick PROVE ServiceInv'
<1> USE DEF ServiceInv, FateInv, QueueInv, TypeOK, Threads, Goto, reqVars, mainVars
<1>1. CASE SweepStart \/ (\E r \in Reqs : SweepNext(r)) \/ SweepDone \/ Tick
  <2>1. /\ UNCHANGED <<ip, answered, requests, live, packets, bounces, forwards, rest, held>>
        /\ pc'["main"] = pc["main"] /\ cur'["main"] = cur["main"]
        /\ \/ pc' = pc /\ cur' = cur
           \/ pc'["sweep"] \in {"next", "age", "sleep"}
    BY <1>1 DEF SweepStart, SweepNext, SweepDone, Tick
  <2>2. \A s \in Slots : entries'[s] # NoEntry =>
            entries[s] # NoEntry /\ entries'[s].ip = entries[s].ip
    <3>1. CASE Tick
      BY <3>1, TickEntries
    <3>2. CASE SweepStart \/ (\E r \in Reqs : SweepNext(r)) \/ SweepDone
      BY <3>2 DEF SweepStart, SweepNext, SweepDone, Expired
    <3> QED
      BY <1>1, <3>1, <3>2
  <2>3. RightHops'
    BY <2>1 DEF RightHops
  <2>4. HopAnswered'
    BY <2>1, <2>2 DEF HopAnswered
  <2>5. FramesFinished'
    BY <2>1 DEF FramesFinished, Finished
  <2> QED
    BY <2>3, <2>4, <2>5
<1>2. CASE Process("sweep")
  BY <1>2, ProcessService
<1> QED
  BY <1>1, <1>2 DEF Sweeper

LEMMA ServiceHolds == Spec => []ServiceInv
<1>1. Init => ServiceInv
  <2> SUFFICES ASSUME Init PROVE ServiceInv
    OBVIOUS
  <2>1. FateInv
    BY InitFate
  <2> QED
    BY <2>1 DEF Init, ServiceInv, RightHops, HopAnswered, FramesFinished, Threads
<1>2. ServiceInv /\ FateInv' /\ [Next]_vars => ServiceInv'
  <2> SUFFICES ASSUME ServiceInv, FateInv', [Next]_vars PROVE ServiceInv'
    OBVIOUS
  <2>1. CASE UNCHANGED vars
    BY <2>1
    DEF vars, reqVars, mainVars, ServiceInv, RightHops, HopAnswered, FramesFinished, Finished
  <2> QED
    BY <2>1, MainService, SweeperService DEF Next
<1> QED
  BY <1>1, <1>2, FateHolds, PTL DEF Spec

----------------------------------------------------------------------------
\* The steps of the two threads, seen as steps of ArpService.

\* The value of Fate, without CASE.
FateIs(p, f) ==
    f = IF p \notin seen THEN "new"
        ELSE IF forwards[p] > 0 THEN "forwarded"
        ELSE IF bounces[p] > 0 THEN "unreachable"
        ELSE IF Waiting(p) THEN "waiting" ELSE "dropped"

LEMMA FateValue ==
    ASSUME TypeOK, TypeOK'
    PROVE  /\ Fate = [p \in Pkts |-> Fate[p]] /\ Fate' = [p \in Pkts |-> Fate'[p]]
           /\ \A p \in Pkts : FateIs(p, Fate[p]) /\ FateIs(p, Fate[p])'
<1>1. Fate = [p \in Pkts |-> Fate[p]] /\ Fate' = [p \in Pkts |-> Fate'[p]]
  BY DEF Fate
<1>2. ASSUME NEW p \in Pkts PROVE FateIs(p, Fate[p])
  <2>1. forwards[p] \in Nat /\ bounces[p] \in Nat
    BY DEF TypeOK
  <2> QED
    BY <2>1 DEF Fate, FateIs
<1>3. ASSUME NEW p \in Pkts PROVE FateIs(p, Fate[p])'
  <2>1. forwards'[p] \in Nat /\ bounces'[p] \in Nat
    BY DEF TypeOK
  <2> QED
    BY <2>1 DEF Fate, FateIs
<1> QED
  BY <1>1, <1>2, <1>3

\* A frame keeps its fate as long as it waits where it waited and nothing is
\* sent for it.
LEMMA SameFate ==
    ASSUME TypeOK, TypeOK', NEW p \in Pkts, p \in seen' <=> p \in seen,
           forwards'[p] = forwards[p], bounces'[p] = bounces[p], Waiting(p)' <=> Waiting(p)
    PROVE  Fate'[p] = Fate[p]
BY FateValue DEF FateIs

\* What most steps leave alone, and with it the fates.
LEMMA SameFates ==
    ASSUME TypeOK, TypeOK', UNCHANGED <<seen, forwards, bounces, held, live, packets>>
    PROVE  Fate' = Fate
BY DEF Fate, Waiting

\* The frames of S, and no other, change their fate, to f.
LEMMA FatesBecome ==
    ASSUME TypeOK, TypeOK', NEW S, NEW f,
           \A p \in Pkts : Fate'[p] = IF p \in S THEN f ELSE Fate[p]
    PROVE  Service!Become(S, f)
BY FateValue DEF Service!Become

ServiceStep == [Service!Next]_<<Fate, answered>>

LEMMA ProcessRefines ==
    ASSUME ServiceInv, TypeOK', NEW t \in Threads, Process(t) PROVE ServiceStep
<1> USE DEF At, reqVars, mainVars, ServiceInv, FateInv, QueueInv
<1>1. CASE ReadSent(t) \/ Count(t) \/ LoadTimes(t) \/ StoreTimes(t) \/ StoreSent(t)
           \/ BounceDone(t) \/ UseFreed(t)
  <2>1. UNCHANGED <<seen, forwards, bounces, held, live, packets, answered>>
    BY <1>1 DEF ReadSent, Count, LoadTimes, StoreTimes, StoreSent, BounceDone, UseFreed
  <2> QED
    BY <2>1, SameFates DEF ServiceStep
<1>2. ASSUME NEW p \in Pkts, BounceOne(t, p) PROVE ServiceStep
  <2>1. /\ UNCHANGED <<seen, forwards, held, live, packets, answered>>
        /\ \A q \in Pkts \ {p} : bounces'[q] = bounces[q]
        /\ p \in Ours => bounces'[p] = bounces[p] + 1
        /\ p \notin Ours => bounces' = bounces
    BY <1>2 DEF BounceOne, TypeOK
  <2>2. CASE p \notin Ours
    BY <2>1, <2>2, SameFates DEF ServiceStep
  <2>3. CASE p \in Ours
    <3>1. cur[t] \in live \cap requests /\ p \in packets[cur[t]]
      BY <1>2 DEF BounceOne, Reporting, Unlinked, SweepHoldsLock, ProcessSteps, Threads
    <3>2. forwards[p] = 0 /\ p \in seen /\ Waiting(p)
      BY <3>1 DEF OneFate, ReceivedOnce, NotYet, Waiting
    <3>3. \A q \in Pkts \ {p} : Fate'[q] = Fate[q]
      BY <2>1, SameFate DEF Waiting
    <3>4. bounces[p] \in Nat /\ bounces'[p] > 0
      BY <2>1, <2>3 DEF TypeOK
    <3>5. Fate'[p] = "unreachable"
      BY <2>1, <3>2, <3>4, FateValue DEF FateIs
    <3>6. CASE bounces[p] > 0
      <4>1. Fate[p] = "unreachable"
        BY <3>2, <3>6, FateValue DEF FateIs
      <4>2. Fate' = Fate
        BY <3>3, <3>5, <4>1, FateValue
      <4> QED
        BY <2>1, <4>2 DEF ServiceStep
    <3>7. CASE bounces[p] = 0
      <4>1. Fate[p] = "waiting"
        BY <3>2, <3>7, FateValue DEF FateIs
      <4>2. Service!Become({p}, "unreachable")
        BY <3>3, <3>5, FatesBecome
      <4> QED
        BY <2>1, <2>3, <4>1, <4>2 DEF ServiceStep, Service!Next, Service!Unreachable
    <3> QED
      BY <3>4, <3>6, <3>7
  <2> QED
    BY <2>2, <2>3
<1>3. CASE sr_arpreq_destroy(t)
  <2> DEFINE r == cur[t]
             S == {p \in packets[r] : forwards[p] = 0 /\ bounces[p] = 0}
  <2>1. /\ UNCHANGED <<seen, forwards, bounces, held, answered>>
        /\ pc[t] = "destroy" /\ r \in live /\ live' = live \ {r}
        /\ \A q \in live' : packets'[q] = packets[q]
        /\ r \in Reqs /\ packets[r] \subseteq Pkts
    BY <1>3 DEF sr_arpreq_destroy, TypeOK
  <2>2. ASSUME NEW p \in packets[r]
        PROVE  p \in Pkts /\ p \in seen /\ Waiting(p) /\ ~Waiting(p)' /\ Hop[p] = ip[r]
    <3>1. p \in Pkts /\ p \in seen /\ Hop[p] = ip[r] /\ Waiting(p)
      BY <2>1, <2>2 DEF ReceivedOnce, NotYet, RightHops, Waiting
    <3>2. p # held
      BY <2>1, <2>2, <3>1, ConstantsAssumption DEF RightHops, ReceivedOnce, NotYet, TypeOK
    <3>3. \A q \in live' : p \notin packets'[q]
      BY <2>1, <2>2 DEF OneFate
    <3> QED
      BY <2>1, <3>1, <3>2, <3>3 DEF Waiting
  <2>3. \A p \in Pkts \ packets[r] : Waiting(p)' <=> Waiting(p)
    BY <2>1 DEF Waiting
  <2>4. \A p \in Pkts : Fate'[p] = IF p \in S THEN "dropped" ELSE Fate[p]
    <3>1. ASSUME NEW p \in Pkts \ packets[r] PROVE Fate'[p] = Fate[p]
      BY <2>1, <2>3, SameFate
    <3>2. ASSUME NEW p \in S PROVE Fate'[p] = "dropped"
      BY <2>1, <2>2, FateValue DEF FateIs
    <3>3. ASSUME NEW p \in packets[r] \ S PROVE Fate'[p] = Fate[p]
      <4>1. forwards[p] \in Nat /\ bounces[p] \in Nat /\ (forwards[p] > 0 \/ bounces[p] > 0)
        BY <2>2 DEF TypeOK
      <4> QED
        BY <2>1, <2>2, <4>1, FateValue DEF FateIs
    <3> QED
      BY <3>1, <3>2, <3>3
  <2>5. \A p \in S : Fate[p] = "waiting" /\ p \notin Ours
    <3>1. ASSUME NEW p \in S PROVE p \notin Ours
      BY <2>1, <2>2 DEF FramesFinished, Finished, TypeOK
    <3> QED
      BY <2>2, <3>1, FateValue DEF FateIs
  <2>6. CASE S = {}
    <3>1. Fate' = Fate
      BY <2>4, <2>6, FateValue
    <3> QED
      BY <2>1, <3>1 DEF ServiceStep
  <2>7. CASE S # {}
    <3>1. ip[r] \in IPs /\ S \subseteq Service!Batch(ip[r]) \ Ours
      BY <2>1, <2>2, <2>5 DEF Service!Batch, TypeOK
    <3>2. Service!Become(S, "dropped")
      BY <2>4, FatesBecome
    <3>3. Service!GiveUp(ip[r])
      BY <2>1, <2>7, <3>1, <3>2 DEF Service!GiveUp
    <3> QED
      BY <3>1, <3>3 DEF ServiceStep, Service!Next
  <2> QED
    BY <2>6, <2>7
<1> QED
  BY <1>1, <1>2, <1>3 DEF Process

\* The packet thread: a frame is sent or waits, and a flush sends all the
\* frames that wait for the hop the reply was about.
LEMMA MainRefines ==
    ASSUME ServiceInv, TypeOK', Main PROVE ServiceStep
<1> USE DEF reqVars, mainVars, ServiceInv, FateInv, QueueInv
<1>1. ASSUME NEW p \in Pkts, Receive(p) PROVE ServiceStep
  <2>1. /\ UNCHANGED <<bounces, live, packets, answered>>
        /\ seen' = seen \cup {p} /\ p \notin seen /\ NotYet(p) /\ held = NoPkt
    BY <1>1 DEF Receive, ReceivedOnce, RightHops
  <2>2. Fate[p] = "new"
    BY <2>1, FateValue DEF FateIs
  <2>3. CASE /\ Matching(Hop[p]) # {} /\ forwards' = [forwards EXCEPT ![p] = @ + 1]
             /\ held' = held
    <3>1. \A q \in Pkts \ {p} : Fate'[q] = Fate[q]
      BY <2>1, <2>3, SameFate DEF Waiting, TypeOK
    <3>2. Fate'[p] = "forwarded"
      BY <2>1, <2>3, FateValue DEF FateIs, NotYet, TypeOK
    <3>3. Hop[p] \in answered
      BY <2>3 DEF Matching, HopAnswered
    <3>4. Service!Become({p}, "forwarded")
      BY <3>1, <3>2, FatesBecome
    <3> QED
      BY <2>1, <2>2, <3>3, <3>4 DEF ServiceStep, Service!Next, Service!ForwardNow
  <2>4. CASE held' = p /\ forwards' = forwards
    <3>1. \A q \in Pkts \ {p} : Fate'[q] = Fate[q]
      BY <2>1, <2>4, SameFate, ConstantsAssumption DEF Waiting
    <3>2. Fate'[p] = "waiting"
      BY <2>1, <2>4, FateValue DEF FateIs, NotYet, Waiting
    <3>3. Service!Become({p}, "waiting")
      BY <3>1, <3>2, FatesBecome
    <3> QED
      BY <2>1, <2>2, <3>3 DEF ServiceStep, Service!Next, Service!Wait
  <2> QED
    BY <1>1, <2>3, <2>4 DEF Receive
<1>2. ASSUME NEW i \in IPs, NEW m \in MACs, Reply(i, m) PROVE ServiceStep
  <2>1. UNCHANGED <<seen, forwards, bounces, held, live, packets>> /\ answered' = answered \cup {i}
    BY <1>2 DEF Reply
  <2>2. Fate' = Fate
    BY <2>1, SameFates
  <2> QED
    BY <2>1, <2>2 DEF ServiceStep, Service!Next, Service!Answer
<1>3. ASSUME NEW r \in Reqs, Queue(r) PROVE ServiceStep
  <2>1. /\ UNCHANGED <<seen, forwards, bounces, answered>> /\ held \in Pkts /\ held' = NoPkt
        /\ live' = live \cup {r} /\ \A q \in live \ {r} : packets'[q] = packets[q]
        /\ r \in live => packets'[r] = packets[r] \cup {held}
        /\ r \notin live => packets'[r] = {held}
    BY <1>3 DEF Queue, sr_arpcache_queuereq, QueueNew, Queued, LinkedRequestsUsable, TypeOK
  <2>2. \A p \in Pkts : Waiting(p)' <=> Waiting(p)
    BY <2>1, ConstantsAssumption DEF Waiting
  <2>3. \A p \in Pkts : Fate'[p] = Fate[p]
    BY <2>1, <2>2, SameFate
  <2>4. Fate' = Fate
    BY <2>3, FateValue
  <2> QED
    BY <2>1, <2>4 DEF ServiceStep
<1>4. CASE Flush
  <2> DEFINE r == cur["main"]
  <2>1. /\ UNCHANGED <<seen, bounces, held, live, packets, answered>>
        /\ r \in live \ requests /\ pc["main"] = "flush" /\ held = NoPkt
        /\ \A p \in packets[r] : forwards[p] = 0 /\ bounces[p] = 0 /\ p \in seen
        /\ ip[r] \in answered /\ packets[r] # {} /\ ip[r] \in IPs /\ packets[r] \subseteq Pkts
    BY <1>4 DEF Flush, Unlinked, Reporting, ReceivedOnce, NotYet, HopAnswered, RightHops, TypeOK
  <2>2. \A p \in Pkts : forwards'[p] = IF p \in packets[r] THEN 1 ELSE forwards[p]
    BY <1>4, <2>1 DEF Flush, Flushed
  <2>3. \A p \in Pkts : Fate'[p] = IF p \in packets[r] THEN "forwarded" ELSE Fate[p]
    <3>1. ASSUME NEW p \in Pkts \ packets[r] PROVE Fate'[p] = Fate[p]
      BY <2>1, <2>2, SameFate DEF Waiting
    <3>2. ASSUME NEW p \in packets[r] PROVE Fate'[p] = "forwarded"
      BY <2>1, <2>2, FateValue DEF FateIs
    <3> QED
      BY <3>1, <3>2
  <2>4. Service!Batch(ip[r]) = packets[r]
    <3>1. ASSUME NEW p \in packets[r] PROVE p \in Service!Batch(ip[r])
      <4>1. p \in Pkts /\ Waiting(p) /\ Hop[p] = ip[r]
        BY <2>1 DEF Waiting, RightHops
      <4>2. Fate[p] = "waiting"
        BY <2>1, <4>1, FateValue DEF FateIs
      <4> QED
        BY <4>1, <4>2 DEF Service!Batch
    <3>2. ASSUME NEW p \in Pkts, Hop[p] = ip[r], Fate[p] = "waiting" PROVE p \in packets[r]
      <4>1. Waiting(p)
        BY <3>2, FateValue DEF FateIs
      <4>2. PICK q \in live : p \in packets[q]
        BY <2>1, <4>1, ConstantsAssumption DEF Waiting
      <4>3. q \notin requests
        BY <2>1, <3>2, <4>2 DEF HopAnswered, RightHops
      <4> QED
        BY <2>1, <4>2, <4>3 DEF Unlinked
    <3> QED
      BY <3>1, <3>2 DEF Service!Batch
  <2>5. Service!Become(packets[r], "forwarded")
    BY <2>3, FatesBecome
  <2>6. Service!ForwardWaiting(ip[r])
    BY <2>1, <2>4, <2>5 DEF Service!ForwardWaiting
  <2> QED
    BY <2>1, <2>6 DEF ServiceStep, Service!Next
<1>5. CASE Process("main")
  BY <1>5, ProcessRefines DEF Threads
<1> QED
  BY <1>1, <1>2, <1>3, <1>4, <1>5 DEF Main, MainCont

\* The cache, its queue and the two threads implement the service: for any
\* number of frames, next hops, cache slots and requests, every step of either
\* thread is a step of ArpService or leaves the fates alone.
THEOREM Refinement == Spec => ImplementsService
<1>1. Init => Service!Init
  BY DEF Init, Service!Init, Fate
<1>2. ServiceInv /\ TypeOK' /\ [Next]_vars => [Service!Next]_<<Fate, answered>>
  <2> SUFFICES ASSUME ServiceInv, TypeOK', [Next]_vars PROVE ServiceStep
    BY DEF ServiceStep
  <2>1. CASE UNCHANGED vars \/ Tick \/ SweepStart \/ (\E r \in Reqs : SweepNext(r)) \/ SweepDone
    <3>1. UNCHANGED <<seen, forwards, bounces, held, live, packets, answered>>
      BY <2>1 DEF vars, reqVars, mainVars, Tick, SweepStart, SweepNext, SweepDone
    <3> QED
      BY <3>1, SameFates DEF ServiceStep, ServiceInv, FateInv, QueueInv
  <2>2. CASE Process("sweep")
    BY <2>2, ProcessRefines DEF Threads
  <2> QED
    BY <2>1, <2>2, MainRefines DEF Next, Sweeper
<1> QED
  BY <1>1, <1>2, ServiceHolds, TypeCorrect, PTL DEF Spec, ImplementsService, Service!Spec
===========================================================================
