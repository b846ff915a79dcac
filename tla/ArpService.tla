---------------------------- MODULE ArpService ----------------------------
(***************************************************************************)
(* What the ARP cache and its request queue promise to the forwarding      *)
(* path, with neither threads nor cache: a frame handed over is sent once  *)
(* the hardware address of its next hop is known, or waits; frames that    *)
(* wait for an address leave together when a reply gives it; those of a    *)
(* next hop that does not answer are reported unreachable, or given up     *)
(* when there is no interface to report them from.  A frame has one fate.  *)
(***************************************************************************)
EXTENDS Naturals

CONSTANTS IPs, Pkts, Hop, Ours

VARIABLES
    fate,       \* what became of each frame
    answered    \* next hops a reply was received for

Fates == {"new", "waiting", "forwarded", "unreachable", "dropped"}

Init == /\ fate = [p \in Pkts |-> "new"]
        /\ answered = {}

\* Frames for one next hop that wait together.
Batch(i) == {p \in Pkts : Hop[p] = i /\ fate[p] = "waiting"}
Become(S, f) == fate' = [p \in Pkts |-> IF p \in S THEN f ELSE fate[p]]

ForwardNow(p) == /\ fate[p] = "new" /\ Hop[p] \in answered
                 /\ Become({p}, "forwarded") /\ UNCHANGED answered

Wait(p) == fate[p] = "new" /\ Become({p}, "waiting") /\ UNCHANGED answered

Answer(i) == answered' = answered \cup {i} /\ UNCHANGED fate

ForwardWaiting(i) == /\ i \in answered /\ Batch(i) # {}
                     /\ Become(Batch(i), "forwarded") /\ UNCHANGED answered

Unreachable(p) == /\ fate[p] = "waiting" /\ p \in Ours
                  /\ Become({p}, "unreachable") /\ UNCHANGED answered

GiveUp(i) == /\ \E S \in SUBSET (Batch(i) \ Ours) : S # {} /\ Become(S, "dropped")
             /\ UNCHANGED answered

Next == \/ \E p \in Pkts : ForwardNow(p) \/ Wait(p) \/ Unreachable(p)
        \/ \E i \in IPs : Answer(i) \/ ForwardWaiting(i) \/ GiveUp(i)

Spec == Init /\ [][Next]_<<fate, answered>>
===========================================================================
