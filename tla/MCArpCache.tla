---------------------------- MODULE MCArpCache ----------------------------
\* Instances of ArpCache for TLC.
EXTENDS ArpCache, TLC

CONSTANTS i1, i2, p1, p2, p3

\* Two frames to one next hop, one to another; the frame p2 came with a
\* broadcast ether_dhost, so that no host unreachable can be sent for it.
MCHop == p1 :> i1 @@ p2 :> i1 @@ p3 :> i2
MCOurs == {p1, p3}

\* One next hop, for the runs that need longer behaviours.
MCHop1 == p1 :> i1 @@ p2 :> i1 @@ p3 :> i1

Symmetry == Permutations(Reqs) \cup Permutations(MACs)
===========================================================================
