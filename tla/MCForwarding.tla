---------------------------- MODULE MCForwarding ----------------------------
\* Instances of Forwarding for TLC: two hosts, two routers in between.
\*
\*     alice --- LAN 1 --- r1 --- LAN 2 --- r2 --- LAN 3 --- bob
EXTENDS Forwarding, TLC

CONSTANTS alice, bob, r1, r2, ca, c11, c12, c22, c23, cb

MCCards == {ca, c11, c12, c22, c23, cb}
MCNode == ca :> alice @@ c11 :> r1 @@ c12 :> r1 @@ c22 :> r2 @@ c23 :> r2 @@ cb :> bob
MCLan == ca :> 1 @@ c11 :> 1 @@ c12 :> 2 @@ c22 :> 2 @@ c23 :> 3 @@ cb :> 3
\* Four bits: LAN 1 is 00xx, LAN 2 is 01xx, LAN 3 is 11xx.
MCIp == ca :> {4} @@ c11 :> {3} @@ c12 :> {2, 4} @@ c22 :> {2, 3}
           @@ c23 :> {1, 2, 3} @@ cb :> {1, 2, 4}
MCGateway == alice :> c11 @@ bob :> c23

To(dest, n, gw, c) == [dest |-> dest, mask |-> 1..n, gw |-> gw, interface |-> c]
ToAlice == To({}, 2, {4}, c11)
ToBob   == To({1, 2}, 2, {1, 2, 4}, c23)
Nobody  == To({1}, 3, {1, 3, 4}, c23)   \* a next hop that does not exist
Over(c, gw) == To({}, 0, gw, c)         \* a default route
\* Tables that work, a more specific route leading to no machine, default
\* routes that make a loop, routes of one octet and of three bits.
MCTables ==
    r1 :> {<<To({1, 2}, 2, {2, 3}, c12), ToAlice>>, <<Over(c12, {2, 3})>>}
    @@ r2 :> {<<ToBob, To({}, 2, {2, 4}, c22), Nobody>>,
              <<To({1}, 1, {1, 2, 4}, c23), Over(c22, {2, 4}), To({1, 2}, 3, {1, 2, 3, 4}, c23)>>,
              <<Over(c22, {2, 4})>>}
Send(h, k, kind, dst, ttl, intact, sum) ==
    [by |-> h, id |-> k, kind |-> kind, dst |-> dst, ttl |-> ttl,
     intact |-> intact, sum |-> sum]
\* To bob, to a machine that does not exist, to the near and the far side of
\* r1 and to the far side of r2; and another packet from alice to bob.
MCTraffic ==
    {Send(alice, 1, "data", dst, ttl, TRUE, TRUE) :
        dst \in {{1, 2, 4}, {1}, {3}, {2, 4}, {1, 2, 3}}, ttl \in {1, 4}}
    \cup {Send(bob, 1, "data", dst, 2, TRUE, TRUE) : dst \in {{4}, {1}, {2, 4}}}
    \cup {Send(alice, 1, "echo", dst, 4, TRUE, TRUE) : dst \in {{3}, {2, 4}, {1, 2, 3}}}
    \cup {Send(alice, 1, "echo", {2, 4}, 4, intact, ~intact) : intact \in BOOLEAN}
    \cup {Send(alice, 2, "data", {1, 2, 4}, 4, TRUE, TRUE)}
=============================================================================
