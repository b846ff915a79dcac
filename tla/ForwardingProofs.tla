-------------------------- MODULE ForwardingProofs --------------------------
(***************************************************************************)
(* Proofs about Forwarding for every network, set of routing tables and    *)
(* traffic: types, the longest match, that a packet is in one place, the   *)
(* addresses of ICMP messages, and that nothing is lost on the way.        *)
(***************************************************************************)
EXTENDS Forwarding, FiniteSetTheorems, SequenceTheorems, WellFoundedInduction, TLAPS

----------------------------------------------------------------------------
\* The search in the routing table

\* On prefixes, the comparison of masks as integers of a little-endian machine
\* finds the longer one.
LEMMA LongerExceeds ==
    ASSUME NEW a \in Nat, NEW b \in Nat PROVE Exceeds(1..a, 1..b) <=> a > b
<1>1. ASSUME a > b PROVE Exceeds(1..a, 1..b)
  <2>1. a \in (1..a) \ (1..b) /\ (1..b) \ (1..a) = {}
    BY <1>1
  <2> QED
    BY <2>1 DEF Exceeds
<1>2. ASSUME Exceeds(1..a, 1..b) PROVE a > b
  <2>1. PICK bit \in (1..a) \ (1..b) : TRUE
    BY <1>2 DEF Exceeds
  <2> QED
    BY <2>1
<1> QED
  BY <1>1, <1>2

LEMMA LeastNumber ==
    ASSUME NEW T \in SUBSET Nat, T # {} PROVE \E n \in T : \A m \in T : n <= m
<1>1. PICK x \in T : \A y \in T : ~ (<<y, x>> \in OpToRel(<, Nat))
  BY WFMin, NatLessThanWellFounded
<1>2. \A y \in T : y < x => <<y, x>> \in OpToRel(<, Nat)
  BY DEF OpToRel
<1>3. ASSUME NEW y \in T PROVE x <= y
  <2>1. ~(y < x) /\ x \in Nat /\ y \in Nat
    BY <1>1, <1>2
  <2> QED
    BY <2>1
<1> QED
  BY <1>3

LEMMA Induction ==
    ASSUME NEW S, 0 \in S, \A n \in Nat : n \in S => n + 1 \in S
    PROVE  \A n \in Nat : n \in S
<1> DEFINE T == {n \in Nat : n \notin S}
<1>1. ASSUME T # {} PROVE FALSE
  <2>1. PICK n \in T : \A m \in T : n <= m
    BY <1>1, LeastNumber
  <2>2. n # 0 /\ n - 1 \in Nat /\ n - 1 \notin T
    BY <2>1
  <2> QED
    BY <2>2
<1> QED
  BY <1>1

\* One turn of the loop.
Turn(table, ip, b, n) == IF Better(table[n], b, ip) THEN table[n] ELSE b

LEMMA SearchIs ==
    ASSUME NEW S, NEW table \in Seq(S), NEW ip
    PROVE  /\ Search(table, ip)[0] = NoRoute
           /\ \A n \in 1..Len(table) :
                 Search(table, ip)[n] = Turn(table, ip, Search(table, ip)[n - 1], n)
<1> DEFINE Runs(f, n) == /\ f = [i \in 0..n |-> f[i]] /\ f[0] = NoRoute
                         /\ \A i \in 1..n : f[i] = Turn(table, ip, f[i - 1], i)
           R == {n \in Nat : \E f : Runs(f, n)}
<1>1. Len(table) \in Nat
  BY LenProperties
<1>2. 0 \in R
  <2> DEFINE z == [i \in 0..0 |-> NoRoute]
  <2>1. z = [i \in 0..0 |-> z[i]] /\ z[0] = NoRoute /\ 1..0 = {}
    OBVIOUS
  <2> HIDE DEF z
  <2>2. Runs(z, 0)
    BY <2>1
  <2> HIDE DEF Runs
  <2> QED
    BY <2>2
<1>3. ASSUME NEW n \in Nat, n \in R PROVE n + 1 \in R
  <2>0. \E f : Runs(f, n)
    <3> HIDE DEF Runs
    <3> QED
      BY <1>3
  <2>1. PICK f : Runs(f, n)
    BY <2>0
  <2> DEFINE g == [i \in 0..n + 1 |-> IF i <= n THEN f[i] ELSE Turn(table, ip, f[n], n + 1)]
  <2>2. g = [i \in 0..n + 1 |-> g[i]] /\ g[0] = NoRoute
    BY <2>1
  <2>3. ASSUME NEW i \in 1..n + 1 PROVE g[i] = Turn(table, ip, g[i - 1], i)
    <3>1. CASE i <= n
      <4>1. i \in 1..n /\ g[i] = f[i] /\ g[i - 1] = f[i - 1]
        BY <3>1
      <4> QED
        BY <4>1, <2>1
    <3>2. CASE i = n + 1
      <4>1. g[i] = Turn(table, ip, f[n], n + 1) /\ g[i - 1] = f[n]
        BY <3>2
      <4> QED
        BY <4>1, <3>2
    <3> QED
      BY <3>1, <3>2
  <2> HIDE DEF g
  <2>4. Runs(g, n + 1)
    BY <2>2, <2>3
  <2> HIDE DEF Runs
  <2> QED
    BY <2>4
<1> HIDE DEF Runs
<1>4. \A n \in Nat : n \in R
  <2> HIDE DEF R
  <2> QED
    BY <1>2, <1>3, Induction
<1>5. PICK f : Runs(f, Len(table))
  BY <1>1, <1>4
<1> DEFINE Body(g) == [n \in 0..Len(table) |->
                          IF n = 0 THEN NoRoute
                          ELSE IF Better(table[n], g[n - 1], ip) THEN table[n] ELSE g[n - 1]]
<1>6. f = Body(f)
  <2>1. f = [n \in 0..Len(table) |-> f[n]] /\ f[0] = NoRoute
    BY <1>5 DEF Runs
  <2>2. \A i \in 1..Len(table) : f[i] = Turn(table, ip, f[i - 1], i)
    BY <1>5 DEF Runs
  <2>3. \A n \in 0..Len(table) : f[n] = IF n = 0 THEN NoRoute
             ELSE IF Better(table[n], f[n - 1], ip) THEN table[n] ELSE f[n - 1]
    <3> TAKE n \in 0..Len(table)
    <3>1. CASE n = 0
      BY <2>1, <3>1
    <3>2. CASE n # 0
      <4>1. n \in 1..Len(table)
        BY <1>1, <3>2
      <4> QED
        BY <2>2, <3>2, <4>1 DEF Turn
    <3> QED
      BY <3>1, <3>2
  <2> QED
    BY <2>1, <2>3
<1>7. Search(table, ip) = CHOOSE g : g = Body(g)
  BY DEF Search
<1> DEFINE t == Search(table, ip)
<1>8. t = Body(t)
  <2> HIDE DEF Body
  <2> QED
    BY <1>6, <1>7
<1> HIDE DEF t
<1>9. \A n \in 0..Len(table) : t[n] = IF n = 0 THEN NoRoute
           ELSE IF Better(table[n], t[n - 1], ip) THEN table[n] ELSE t[n - 1]
  BY <1>8
<1>10. t[0] = NoRoute
  BY <1>1, <1>9
<1>11. \A n \in 1..Len(table) : t[n] = Turn(table, ip, t[n - 1], n)
  <2> TAKE n \in 1..Len(table)
  <2>1. n \in 0..Len(table) /\ n # 0
    BY <1>1
  <2> QED
    BY <1>9, <2>1 DEF Turn
<1> QED
  BY <1>10, <1>11 DEF t

\* Among the first n routes: none matches, or the one found matches and no
\* matching one has a longer mask.
Found(table, ip, best, n) ==
    \/ best = NoRoute /\ \A i \in 1..n : ~Matches(table[i], ip)
    \/ \E i \in 1..n :
          /\ best = table[i] /\ Matches(table[i], ip)
          /\ \A j \in 1..n : Matches(table[j], ip) =>
                Cardinality(table[j].mask) <= Cardinality(table[i].mask)

LEMMA SearchFinds ==
    ASSUME NEW S, NEW table \in Seq(S), NEW ip, NoRoute \notin S,
           \A i \in 1..Len(table) : \E length \in 0..Width : table[i].mask = 1..length
    PROVE  Found(table, ip, Search(table, ip)[Len(table)], Len(table))
<1> DEFINE t == Search(table, ip)
           R == {n \in Nat : n <= Len(table) => Found(table, ip, t[n], n)}
           size(i) == Cardinality(table[i].mask)
<1>1. /\ Len(table) \in Nat /\ t[0] = NoRoute
      /\ \A n \in 1..Len(table) : t[n] = Turn(table, ip, t[n - 1], n)
  BY LenProperties, SearchIs
<1>2. \A i \in 1..Len(table) : table[i] # NoRoute
  BY ElementOfSeq
<1>3. ASSUME NEW i \in 1..Len(table), NEW j \in 1..Len(table)
      PROVE  /\ size(i) \in Nat /\ size(j) \in Nat
             /\ Exceeds(table[i].mask, table[j].mask) <=> size(i) > size(j)
  <2>1. PICK a \in 0..Width : table[i].mask = 1..a
    OBVIOUS
  <2>2. PICK b \in 0..Width : table[j].mask = 1..b
    OBVIOUS
  <2>3. a \in Nat /\ b \in Nat
    BY ForwardingAssumption
  <2>4. Cardinality(1..a) = a /\ Cardinality(1..b) = b
    BY <2>3, FS_Interval
  <2> QED
    BY <2>1, <2>2, <2>3, <2>4, LongerExceeds
<1> HIDE DEF t, size
<1>4. 0 \in R
  BY <1>1 DEF Found
<1>5. ASSUME NEW n \in Nat, n \in R PROVE n + 1 \in R
  <2> SUFFICES ASSUME n + 1 <= Len(table) PROVE Found(table, ip, t[n + 1], n + 1)
    OBVIOUS
  <2> DEFINE m == n + 1
  <2>1. /\ m \in 1..Len(table) /\ m - 1 = n /\ n <= Len(table)
        /\ \A i \in 1..n : i \in 1..Len(table) /\ i \in 1..m
        /\ \A i \in 1..m : i \in 1..n \/ i = m
        /\ m \in 1..m
    BY <1>1
  <2>2. t[m] = Turn(table, ip, t[n], m) /\ Found(table, ip, t[n], n) /\ table[m] # NoRoute
    BY <1>1, <1>2, <1>5, <2>1
  <2> HIDE DEF m
  <2>3. CASE t[n] = NoRoute
    <3>1. \A i \in 1..n : ~Matches(table[i], ip)
      BY <1>2, <2>1, <2>2, <2>3 DEF Found
    <3>2. CASE Matches(table[m], ip)
      <4>1. t[m] = table[m]
        BY <2>2, <2>3, <3>2 DEF Turn, Better
      <4>2. \A j \in 1..m : Matches(table[j], ip) => size(j) <= size(m)
        BY <2>1, <3>1, <1>3
      <4> QED
        BY <4>1, <4>2, <3>2, <2>1 DEF Found, size, m
    <3>3. CASE ~Matches(table[m], ip)
      <4>1. t[m] = NoRoute
        BY <2>2, <2>3, <3>3 DEF Turn, Better
      <4> QED
        BY <4>1, <3>1, <3>3, <2>1 DEF Found, m
    <3> QED
      BY <3>2, <3>3
  <2>4. CASE t[n] # NoRoute
    <3>1. PICK i \in 1..n : /\ t[n] = table[i] /\ Matches(table[i], ip)
                            /\ \A j \in 1..n : Matches(table[j], ip) => size(j) <= size(i)
      BY <2>2, <2>4 DEF Found, size
    <3>2. CASE Matches(table[m], ip) /\ size(m) > size(i)
      <4>1. t[m] = table[m]
        BY <1>3, <2>1, <2>2, <3>1, <3>2 DEF Turn, Better
      <4>2. \A j \in 1..m : Matches(table[j], ip) => size(j) <= size(m)
        <5> TAKE j \in 1..m
        <5>1. size(j) \in Nat /\ size(m) \in Nat /\ size(i) \in Nat
          BY <1>3, <2>1
        <5>2. CASE j \in 1..n
          BY <3>1, <3>2, <5>1, <5>2
        <5>3. CASE j = m
          BY <5>1, <5>3
        <5> QED
          BY <2>1, <5>2, <5>3
      <4> QED
        BY <4>1, <4>2, <3>2, <2>1 DEF Found, size, m
    <3>3. CASE ~(Matches(table[m], ip) /\ size(m) > size(i))
      <4>1. t[m] = table[i]
        BY <1>3, <2>1, <2>2, <2>4, <3>1, <3>3 DEF Turn, Better
      <4>2. \A j \in 1..m : Matches(table[j], ip) => size(j) <= size(i)
        <5> TAKE j \in 1..m
        <5>1. size(j) \in Nat /\ size(m) \in Nat /\ size(i) \in Nat
          BY <1>3, <2>1
        <5>2. CASE j \in 1..n
          BY <3>1, <5>2
        <5>3. CASE j = m
          BY <3>3, <5>1, <5>3
        <5> QED
          BY <2>1, <5>2, <5>3
      <4> QED
        BY <4>1, <4>2, <3>1, <2>1 DEF Found, size, m
    <3> QED
      BY <3>2, <3>3
  <2> QED
    BY <2>3, <2>4 DEF m
<1>6. \A n \in Nat : n \in R
  <2> HIDE DEF R
  <2> QED
    BY <1>4, <1>5, Induction
<1>7. Found(table, ip, t[Len(table)], Len(table))
  BY <1>1, <1>6
<1> QED
  BY <1>7 DEF t

----------------------------------------------------------------------------
\* Frames and packets

\* Frames are for the machine that takes them, and those that wait at a router
\* are IP and came to it.
Addressed(f) == f.dhost \in {f.to, Broadcast}
AddressInv ==
    /\ \A f \in frames : Addressed(f)
    /\ \A r \in Routers : \A w \in waiting[r] :
          IsIp(w.frame) /\ Addressed(w.frame) /\ Node[w.frame.to] = r

TypeInv == TypeOK /\ AddressInv

LEMMA CardFacts ==
    /\ \A c \in Cards : Ip[c] \in IPs /\ Lan[c] \in Nat
    /\ \A h \in Hosts : Gateway[h] \in Cards /\ \E c \in Cards : Node[c] = h
    /\ \A r \in Routers : IfList(r) \subseteq Cards
    /\ InitTtl \in Nat /\ Broadcast \notin Cards
  BY ForwardingAssumption DEF IfList

\* The two kinds of body are told apart by their fields.
LEMMA BodyFacts ==
    /\ \A p \in Packet : "ttl" \in DOMAIN p
    /\ \A a \in Arp : "ttl" \notin DOMAIN a
  BY DEF Packet, Arp

LEMMA FrameFacts ==
    ASSUME NEW f \in Frame
    PROVE  /\ f.to \in Cards /\ f.shost \in Cards /\ f.dhost \in Cards \cup {Broadcast}
           /\ f.body \in Packet \cup Arp
           /\ IsIp(f) => f.body \in Packet
           /\ ~IsIp(f) => f.body \in Arp
  BY BodyFacts DEF Frame, IsIp

LEMMA PacketFacts ==
    ASSUME NEW p \in Packet
    PROVE  /\ p.src \in IPs /\ p.dst \in IPs /\ p.ttl \in Nat /\ p.about \in Ids
           /\ p.kind \in {"data", "echo", "reply"} \cup Errors
           /\ p.intact \in BOOLEAN /\ p.sum \in BOOLEAN /\ p.id \in Ids \cup {0}
           /\ p.via \in Nat
  BY DEF Packet

LEMMA SendFacts ==
    ASSUME NEW c \in Cards, NEW dhost \in Cards \cup {Broadcast}, NEW body \in Packet \cup Arp
    PROVE  LET s == sr_send_packet(c, dhost, body) IN
           /\ s \subseteq Frame
           /\ \A f \in s : Addressed(f) /\ f.body = body /\ f.dhost = dhost
           /\ dhost \in Cards => \A f, g \in s : f = g
<1> DEFINE s == sr_send_packet(c, dhost, body)
<1>1. s \subseteq Frame
  BY DEF sr_send_packet, Frame
<1>2. \A f \in s : Addressed(f) /\ f.body = body /\ f.dhost = dhost
  BY DEF sr_send_packet, Addressed
<1>3. ASSUME dhost \in Cards, NEW f \in s, NEW g \in s PROVE f = g
  <2>1. dhost # Broadcast
    BY <1>3, CardFacts
  <2>2. /\ f = [to |-> dhost, shost |-> c, dhost |-> dhost, body |-> body]
        /\ g = [to |-> dhost, shost |-> c, dhost |-> dhost, body |-> body]
    BY <2>1 DEF sr_send_packet
  <2> QED
    BY <2>2
<1> QED
  BY <1>1, <1>2, <1>3

LEMMA FabricatedFacts ==
    ASSUME NEW p \in Packet, NEW kind \in {"reply"} \cup Errors, NEW c \in Cards,
           NEW dest \in SUBSET Cards, NEW via \in Nat
    PROVE  LET q == Fabricated(p, kind, c, dest, via) IN
           /\ q \in Packet
           /\ q.dst = p.src /\ q.kind = kind /\ q.about = p.about /\ q.via = via
           /\ dest = {} => q.src = Ip[c]
           /\ dest # {} => \E d \in dest : q.src = Ip[d]
<1> DEFINE src == IF dest # {} THEN Ip[CHOOSE d \in dest : TRUE] ELSE Ip[c]
<1>1. /\ dest = {} => src = Ip[c]
      /\ dest # {} => \E d \in dest : src = Ip[d]
  OBVIOUS
<1>2. src \in IPs
  BY <1>1, CardFacts
<1>3. Fabricated(p, kind, c, dest, via) =
          [src |-> src, dst |-> p.src, ttl |-> InitTtl, kind |-> kind,
           intact |-> TRUE, sum |-> FALSE, id |-> 0, about |-> p.about, via |-> via]
  BY DEF Fabricated
<1> HIDE DEF src
<1>4. Fabricated(p, kind, c, dest, via) \in Packet
  BY <1>2, <1>3, PacketFacts, CardFacts DEF Packet
<1> QED
  BY <1>1, <1>3, <1>4

LEMMA AgedFacts ==
    ASSUME NEW p \in Packet, Alive(p)
    PROVE  /\ Aged(p) \in Packet
           /\ Aged(p).src = p.src /\ Aged(p).dst = p.dst /\ Aged(p).kind = p.kind
           /\ Aged(p).about = p.about /\ Aged(p).via = p.via
<1>1. p.ttl - 1 \in Nat
  BY PacketFacts DEF Alive
<1> QED
  BY <1>1 DEF Aged, Packet

\* What a router sends back about the frame it received.
LEMMA AnswerFacts ==
    ASSUME NEW f \in Frame, IsIp(f), NEW kind \in {"reply"} \cup Errors,
           NEW dest \in SUBSET Cards
    PROVE  LET s == Answer(f, kind, dest)
               q == Fabricated(f.body, kind, f.to, dest, Lan[f.to])
           IN  /\ s \subseteq Frame /\ q \in Packet
               /\ \A g \in s : Addressed(g) /\ g.body = q
               /\ \A g, h \in s : g = h
<1> DEFINE q == Fabricated(f.body, kind, f.to, dest, Lan[f.to])
<1>1. f.to \in Cards /\ f.shost \in Cards /\ f.body \in Packet /\ Lan[f.to] \in Nat
  BY FrameFacts, CardFacts
<1>2. q \in Packet
  BY <1>1, FabricatedFacts
<1> HIDE DEF q
<1>3. Answer(f, kind, dest) = sr_send_packet(f.to, f.shost, q)
  BY DEF Answer, q
<1> QED
  BY <1>1, <1>2, <1>3, SendFacts DEF q

\* The route found is one of the table.
LEMMA RouteFacts ==
    ASSUME TypeOK, NEW r \in Routers, NEW ip, best_match(r, ip) # NoRoute
    PROVE  /\ best_match(r, ip).gw \in IPs /\ best_match(r, ip).interface \in IfList(r)
           /\ best_match(r, ip).interface \in Cards
<1> DEFINE table == routing_table[r]
<1>1. table \in Seq(Route(r)) /\ NoRoute \notin Route(r)
  BY ForwardingAssumption DEF TypeOK
<1>2. \A i \in 1..Len(table) : \E length \in 0..Width : table[i].mask = 1..length
  BY PrefixAssumption DEF TypeOK
<1> HIDE DEF table
<1>3. Found(table, ip, Search(table, ip)[Len(table)], Len(table))
  BY <1>1, <1>2, SearchFinds
<1>4. best_match(r, ip) = Search(table, ip)[Len(table)]
  BY DEF best_match, table
<1>5. PICK i \in 1..Len(table) : best_match(r, ip) = table[i]
  BY <1>3, <1>4 DEF Found
<1>6. table[i] \in Route(r)
  BY <1>1, ElementOfSeq
<1> QED
  BY <1>5, <1>6, CardFacts DEF Route

----------------------------------------------------------------------------
\* Types

\* The frames a step may send.
Good(s) == s \subseteq Frame /\ \A f \in s : Addressed(f)

LEMMA ExchangeType ==
    ASSUME TypeInv, NEW f, NEW s, Good(s), Exchange(f, s)
    PROVE  frames' \subseteq Frame /\ \A g \in frames' : Addressed(g)
  BY DEF TypeInv, TypeOK, AddressInv, Exchange, Good

LEMMA TypeFrame ==
    ASSUME TypeInv, frames' \subseteq Frame, \A g \in frames' : Addressed(g),
           UNCHANGED <<routing_table, arp, waiting, captured, asked>>
    PROVE  TypeInv'
  BY DEF TypeInv, TypeOK, AddressInv, Addressed

LEMMA ArpAnswerType ==
    ASSUME NEW f \in Frame, ~IsIp(f)
    PROVE  /\ ArpAnswer(f) \in Arp /\ Good(sr_send_packet(f.to, f.shost, ArpAnswer(f)))
           /\ \A g \in sr_send_packet(f.to, f.shost, ArpAnswer(f)) : ~IsIp(g)
<1>1. f.to \in Cards /\ f.shost \in Cards /\ f.body.sip \in IPs /\ Ip[f.to] \in IPs
  BY FrameFacts, CardFacts DEF Arp
<1>2. ArpAnswer(f) \in Arp
  BY <1>1 DEF ArpAnswer, Arp
<1>3. "ttl" \notin DOMAIN ArpAnswer(f)
  BY <1>2, BodyFacts
<1> QED
  BY <1>1, <1>2, <1>3, SendFacts DEF Good, IsIp

LEMMA RequestType ==
    ASSUME NEW c \in Cards, NEW ip \in IPs
    PROVE  LET q == [op |-> "request", sip |-> Ip[c], sha |-> c, tip |-> ip] IN
           /\ Good(sr_send_packet(c, Broadcast, q))
           /\ \A g \in sr_send_packet(c, Broadcast, q) : ~IsIp(g)
<1> DEFINE q == [op |-> "request", sip |-> Ip[c], sha |-> c, tip |-> ip]
<1>1. q \in Arp
  BY CardFacts DEF Arp
<1> HIDE DEF q
<1>2. "ttl" \notin DOMAIN q
  BY <1>1, BodyFacts
<1>3. Good(sr_send_packet(c, Broadcast, q)) /\ \A g \in sr_send_packet(c, Broadcast, q) : ~IsIp(g)
  BY <1>1, <1>2, SendFacts DEF Good, IsIp
<1> QED
  BY <1>3 DEF q

\* What a router does with an IP packet, but for queueing it: frame f is
\* replaced by at most one, with a packet q.
Follows(f, q) ==
    \/ /\ f.body.kind = "echo" /\ q.kind = "reply" /\ q.src = f.body.dst /\ q.dst = f.body.src
    \/ /\ q.kind \in {"expired", "net", "host"} /\ q.src = Ip[f.to] /\ q.via = Lan[f.to]
    \/ q.kind = "port"
    \/ /\ q.kind = f.body.kind /\ q.src = f.body.src /\ q.dst = f.body.dst
       /\ q.via = f.body.via

Answers(f, s) ==
    \E q \in Packet :
        /\ q.about = f.body.about /\ Follows(f, q)
        /\ \A g \in s : g.body = q
        /\ \A g, h \in s : g = h

LEMMA HandleIp ==
    ASSUME TypeInv, NEW r \in Routers, NEW f \in frames,
           Discard(r, f) \/ AnswerForMe(r, f) \/ Refuse(r, f) \/ Forward(r, f)
    PROVE  /\ IsIp(f) /\ Node[f.to] = r
           /\ \E s : Good(s) /\ Answers(f, s) /\ Exchange(f, s)
           /\ UNCHANGED <<routing_table, arp, waiting, captured, asked>>
<1>1. f \in Frame
  BY DEF TypeInv, TypeOK
<1>2. /\ IsIp(f) /\ Node[f.to] = r
      /\ UNCHANGED <<routing_table, arp, waiting, captured, asked>>
  BY DEF Discard, AnswerForMe, Refuse, Forward, ForMe, ToForward, TakesIp
<1>3. /\ f.body \in Packet /\ f.to \in Cards /\ Lan[f.to] \in Nat
      /\ dest_intf(r, f) \subseteq Cards /\ {} \subseteq Cards
  BY <1>1, <1>2, FrameFacts, CardFacts DEF dest_intf
<1>4. \A d \in dest_intf(r, f) : Ip[d] = f.body.dst
  BY DEF dest_intf
<1>5. CASE Discard(r, f)
  <2>1. Good({}) /\ Answers(f, {})
    <3>1. f.body.about = f.body.about /\ Follows(f, f.body)
      BY DEF Follows
    <3> QED
      BY <1>3, <3>1 DEF Good, Answers
  <2> QED
    BY <1>2, <1>5, <2>1 DEF Discard
<1>6. ASSUME NEW kind \in {"reply"} \cup Errors, NEW dest \in SUBSET Cards,
             Exchange(f, Answer(f, kind, dest)),
             Follows(f, Fabricated(f.body, kind, f.to, dest, Lan[f.to]))
      PROVE  \E s : Good(s) /\ Answers(f, s) /\ Exchange(f, s)
  <2> DEFINE q == Fabricated(f.body, kind, f.to, dest, Lan[f.to])
             s == Answer(f, kind, dest)
  <2>1. /\ s \subseteq Frame /\ q \in Packet
        /\ \A g \in s : Addressed(g) /\ g.body = q
        /\ \A g, h \in s : g = h
    BY <1>1, <1>2, AnswerFacts
  <2>2. q.about = f.body.about
    BY <1>3, FabricatedFacts
  <2>3. Follows(f, q) /\ Exchange(f, s)
    BY <1>6
  <2> HIDE DEF q, s
  <2> QED
    BY <2>1, <2>2, <2>3 DEF Good, Answers
<1>7. CASE AnswerForMe(r, f)
  <2>1. dest_intf(r, f) # {}
    BY <1>7 DEF AnswerForMe, ForMe
  <2>2. CASE f.body.kind = "echo" /\ Exchange(f, Answer(f, "reply", dest_intf(r, f)))
    <3>1. Follows(f, Fabricated(f.body, "reply", f.to, dest_intf(r, f), Lan[f.to]))
      BY <1>3, <1>4, <2>1, <2>2, FabricatedFacts DEF Follows
    <3> QED
      BY <1>2, <1>3, <1>6, <2>2, <3>1
  <2>3. CASE Exchange(f, Answer(f, "port", dest_intf(r, f)))
    <3>1. "port" \in Errors
      BY DEF Errors
    <3>2. Follows(f, Fabricated(f.body, "port", f.to, dest_intf(r, f), Lan[f.to]))
      BY <1>3, <3>1, FabricatedFacts DEF Follows
    <3> QED
      BY <1>2, <1>3, <1>6, <2>3, <3>1, <3>2
  <2> QED
    BY <1>7, <2>2, <2>3 DEF AnswerForMe
<1>8. CASE Refuse(r, f)
  <2>1. PICK kind \in {"expired", "net"} : Exchange(f, Answer(f, kind, {}))
    BY <1>8 DEF Refuse
  <2>2. kind \in Errors
    BY DEF Errors
  <2>3. Follows(f, Fabricated(f.body, kind, f.to, {}, Lan[f.to]))
    BY <1>3, <2>2, FabricatedFacts DEF Follows
  <2> QED
    BY <1>2, <1>3, <1>6, <2>1, <2>2, <2>3
<1>9. CASE Forward(r, f)
  <2> DEFINE rt == best_match(r, f.body.dst)
             q == Aged(f.body)
  <2>1. Alive(f.body) /\ rt # NoRoute
    BY <1>9 DEF Forward
  <2>2. PICK entry \in arp[r] : Exchange(f, sr_send_packet(rt.interface, entry.mac, q))
    BY <1>9 DEF Forward
  <2>3. rt.interface \in Cards
    BY <2>1, RouteFacts DEF TypeInv
  <2>4. entry.mac \in Cards
    BY DEF TypeInv, TypeOK
  <2>5. q \in Packet /\ q.about = f.body.about /\ Follows(f, q)
    BY <1>3, <2>1, AgedFacts DEF Follows
  <2> HIDE DEF rt, q
  <2> DEFINE s == sr_send_packet(rt.interface, entry.mac, q)
  <2>6. Good(s) /\ (\A g \in s : g.body = q) /\ \A g, h \in s : g = h
    BY <2>3, <2>4, <2>5, SendFacts DEF Good
  <2> HIDE DEF s
  <2>7. Answers(f, s)
    BY <2>5, <2>6 DEF Answers
  <2> QED
    BY <1>2, <2>2, <2>6, <2>7 DEF s
<1> QED
  BY <1>5, <1>7, <1>8, <1>9

\* Queueing: the frame waits with its packet aged; only ARP goes out.
LEMMA HandleEnqueue ==
    ASSUME TypeInv, NEW r \in Routers, NEW f \in frames, Enqueue(r, f)
    PROVE  /\ IsIp(f) /\ Node[f.to] = r
           /\ \E w \in Waiter :
                 /\ IsIp(w.frame) /\ Addressed(w.frame) /\ w.frame.to = f.to
                 /\ w.frame.body.about = f.body.about /\ Follows(f, w.frame.body)
                 /\ waiting' = [waiting EXCEPT ![r] = @ \cup {w}]
           /\ \E s : Good(s) /\ (\A g \in s : ~IsIp(g)) /\ Exchange(f, s)
           /\ UNCHANGED <<routing_table, arp, captured, asked>>
<1> DEFINE rt == best_match(r, f.body.dst)
           q == Aged(f.body)
           held == [f EXCEPT !.body = q]
           w == [hop |-> rt.gw, iface |-> rt.interface, frame |-> held]
<1>1. /\ f \in Frame /\ Addressed(f) /\ IsIp(f) /\ Node[f.to] = r
      /\ Alive(f.body) /\ rt # NoRoute
      /\ UNCHANGED <<routing_table, arp, captured, asked>>
  BY DEF TypeInv, TypeOK, AddressInv, Enqueue, ToForward, TakesIp
<1>2. rt.gw \in IPs /\ rt.interface \in Cards
  BY <1>1, RouteFacts DEF TypeInv
<1>3. waiting' = [waiting EXCEPT ![r] = @ \cup {w}]
  BY DEF Enqueue
<1>4. \/ Exchange(f, sr_send_packet(rt.interface, Broadcast,
                        [op |-> "request", sip |-> Ip[rt.interface],
                         sha |-> rt.interface, tip |-> rt.gw]))
      \/ Exchange(f, {})
  BY DEF Enqueue
<1>5. q \in Packet /\ q.about = f.body.about /\ Follows(f, q)
  BY <1>1, FrameFacts, AgedFacts DEF Follows
<1> HIDE DEF rt, q
<1>6. held \in Frame /\ held.to = f.to /\ held.dhost = f.dhost /\ held.body = q
  BY <1>1, <1>5 DEF Frame
<1> HIDE DEF held
<1>7. IsIp(held) /\ Addressed(held)
  BY <1>1, <1>5, <1>6, BodyFacts DEF IsIp, Addressed
<1>8. w \in Waiter /\ w.frame = held
  BY <1>2, <1>6 DEF Waiter
<1>9. \E s : Good(s) /\ (\A g \in s : ~IsIp(g)) /\ Exchange(f, s)
  <2>1. Good({}) /\ \A g \in {} : ~IsIp(g)
    BY DEF Good
  <2> QED
    BY <1>2, <1>4, <2>1, RequestType
<1> HIDE DEF w
<1> QED
  BY <1>1, <1>3, <1>5, <1>6, <1>7, <1>8, <1>9

\* Frames that waited for a hop are sent on or reported: at most one frame for
\* each of them.
Outs(out, W) ==
    \A w \in W :
       /\ Good(out[w])
       /\ \A g \in out[w] : /\ g.body \in Packet /\ g.body.about = w.frame.body.about
                            /\ Follows(w.frame, g.body)
       /\ \A g, h \in out[w] : g = h
Waits(r, hop) == {w \in waiting[r] : w.hop = hop}

LEMMA HandleReply ==
    ASSUME TypeInv, NEW r \in Routers, NEW f \in frames, TakeArpReply(r, f)
    PROVE  /\ f.body.sip \in IPs /\ f.body.sha \in Cards
           /\ arp' = [arp EXCEPT ![r] = @ \cup {[ip |-> f.body.sip, mac |-> f.body.sha]}]
           /\ waiting' = [waiting EXCEPT ![r] = {w \in @ : w.hop # f.body.sip}]
           /\ \E out : /\ Outs(out, Waits(r, f.body.sip))
                       /\ Exchange(f, UNION {out[w] : w \in Waits(r, f.body.sip)})
           /\ ~IsIp(f)
           /\ UNCHANGED <<routing_table, captured, asked>>
<1> DEFINE W == Waits(r, f.body.sip)
           out == [w \in W |-> sr_send_packet(f.to, f.body.sha, w.frame.body)]
<1>1. f \in Frame /\ ~IsIp(f)
  BY DEF TypeInv, TypeOK, TakeArpReply, TakesArp
<1>2. f.to \in Cards /\ f.body.sip \in IPs /\ f.body.sha \in Cards
  BY <1>1, FrameFacts DEF Arp
<1>3. ASSUME NEW w \in W
      PROVE  /\ Good(out[w])
             /\ \A g \in out[w] : /\ g.body \in Packet /\ g.body.about = w.frame.body.about
                                  /\ Follows(w.frame, g.body)
             /\ \A g, h \in out[w] : g = h
  <2>1. w.frame.body \in Packet
    <3>1. w.frame \in Frame /\ IsIp(w.frame)
      BY DEF TypeInv, TypeOK, AddressInv, Waits, Waiter
    <3> QED
      BY <3>1, FrameFacts
  <2>2. out[w] = sr_send_packet(f.to, f.body.sha, w.frame.body)
    OBVIOUS
  <2> HIDE DEF out
  <2>3. Follows(w.frame, w.frame.body)
    BY DEF Follows
  <2> QED
    BY <1>2, <2>1, <2>2, <2>3, SendFacts DEF Good
<1>4. Outs(out, W)
  <2> HIDE DEF out, W
  <2> QED
    BY <1>3 DEF Outs
<1>5. Exchange(f, UNION {out[w] : w \in W})
  <2>1. Exchange(f, UNION {sr_send_packet(f.to, f.body.sha, w.frame.body) : w \in W})
    BY DEF TakeArpReply, Waits
  <2>2. {out[w] : w \in W} = {sr_send_packet(f.to, f.body.sha, w.frame.body) : w \in W}
    OBVIOUS
  <2> HIDE DEF out, W
  <2> QED
    BY <2>1, <2>2
<1>6. /\ arp' = [arp EXCEPT ![r] = @ \cup {[ip |-> f.body.sip, mac |-> f.body.sha]}]
      /\ waiting' = [waiting EXCEPT ![r] = {w \in @ : w.hop # f.body.sip}]
      /\ UNCHANGED <<routing_table, captured, asked>>
  BY DEF TakeArpReply, Flushed
<1> HIDE DEF out, W
<1> QED
  BY <1>1, <1>2, <1>4, <1>5, <1>6 DEF W

LEMMA HandleGiveUp ==
    ASSUME TypeInv, NEW r \in Routers, NEW hop, GiveUp(r, hop)
    PROVE  /\ waiting' = [waiting EXCEPT ![r] = {w \in @ : w.hop # hop}]
           /\ \E out : /\ Outs(out, Waits(r, hop))
                       /\ frames' = frames \cup UNION {out[w] : w \in Waits(r, hop)}
           /\ UNCHANGED <<routing_table, arp, captured, asked>>
<1> DEFINE W == Waits(r, hop)
           out == [w \in W |-> Report(r, w)]
<1>1. ASSUME NEW w \in W
      PROVE  /\ Good(Report(r, w))
             /\ \A g \in Report(r, w) :
                   /\ g.body \in Packet /\ g.body.about = w.frame.body.about
                   /\ Follows(w.frame, g.body)
             /\ \A g, h \in Report(r, w) : g = h
  <2> DEFINE f == w.frame
             sent(c) == sr_send_packet(c, f.shost,
                           Fabricated(f.body, "host", c, {}, Lan[f.to]))
  <2>1. f \in Frame /\ IsIp(f) /\ Addressed(f)
    BY DEF TypeInv, TypeOK, AddressInv, Waits, Waiter
  <2>2. f.to \in Cards /\ f.shost \in Cards /\ f.body \in Packet /\ Lan[f.to] \in Nat
    BY <2>1, FrameFacts, CardFacts
  <2>3. \A c \in ReportInterface(r, w) : c = f.to
    BY <2>1, CardFacts DEF ReportInterface, Addressed
  <2>4. /\ Good(sent(f.to))
        /\ \A g \in sent(f.to) : /\ g.body \in Packet /\ g.body.about = f.body.about
                                 /\ Follows(f, g.body)
        /\ \A g, h \in sent(f.to) : g = h
    <3> DEFINE q == Fabricated(f.body, "host", f.to, {}, Lan[f.to])
    <3>1. "host" \in Errors /\ {} \in SUBSET Cards
      BY DEF Errors
    <3>2. q \in Packet /\ q.about = f.body.about /\ Follows(f, q)
      BY <2>2, <3>1, FabricatedFacts DEF Follows
    <3> HIDE DEF q
    <3>3. sent(f.to) = sr_send_packet(f.to, f.shost, q)
      BY DEF q
    <3> HIDE DEF sent
    <3> QED
      BY <2>2, <3>2, <3>3, SendFacts DEF Good
  <2>5. Report(r, w) = UNION {sent(c) : c \in ReportInterface(r, w)}
    BY DEF Report
  <2> HIDE DEF sent
  <2>6. \A g \in Report(r, w) : g \in sent(f.to)
    BY <2>3, <2>5
  <2> QED
    BY <2>4, <2>6 DEF Good
<1>2. \A w \in W : out[w] = Report(r, w)
  OBVIOUS
<1>3. frames' = frames \cup UNION {Report(r, w) : w \in W}
  BY DEF GiveUp, Waits
<1>4. {out[w] : w \in W} = {Report(r, w) : w \in W}
  BY <1>2
<1>5. /\ waiting' = [waiting EXCEPT ![r] = {w \in @ : w.hop # hop}]
      /\ UNCHANGED <<routing_table, arp, captured, asked>>
  BY DEF GiveUp
<1> HIDE DEF out, W
<1>6. Outs(out, W)
  BY <1>1, <1>2 DEF Outs
<1>7. frames' = frames \cup UNION {out[w] : w \in W}
  BY <1>3, <1>4
<1> QED
  BY <1>5, <1>6, <1>7 DEF W

LEMMA HandleArp ==
    ASSUME TypeInv, NEW r \in Routers, NEW f \in frames, AnswerArp(r, f)
    PROVE  /\ ~IsIp(f)
           /\ \E s : Good(s) /\ (\A g \in s : ~IsIp(g)) /\ Exchange(f, s)
           /\ UNCHANGED <<routing_table, arp, waiting, captured, asked>>
<1>1. f \in Frame /\ ~IsIp(f)
  BY DEF TypeInv, TypeOK, AnswerArp, TakesArp
<1>2. Good({}) /\ \A g \in {} : ~IsIp(g)
  BY DEF Good
<1>3. \/ Exchange(f, sr_send_packet(f.to, f.shost, ArpAnswer(f)))
      \/ Exchange(f, {})
  BY DEF AnswerArp
<1> QED
  BY <1>1, <1>2, <1>3, ArpAnswerType DEF AnswerArp

\* A host takes an IP packet for itself, or sends no IP packet.
LEMMA HandleHost ==
    ASSUME TypeInv, NEW h \in Hosts, NEW f \in frames, HostTakes(h, f)
    PROVE  /\ \/ /\ IsIp(f) /\ Exchange(f, {})
                 /\ captured' = [captured EXCEPT ![h] = @ \cup {f.body}]
              \/ /\ \E s : Good(s) /\ (\A g \in s : ~IsIp(g)) /\ Exchange(f, s)
                 /\ captured' = captured
           /\ UNCHANGED <<routing_table, arp, waiting, asked>>
<1>1. f \in Frame
  BY DEF TypeInv, TypeOK
<1>2. Good({}) /\ \A g \in {} : ~IsIp(g)
  BY DEF Good
<1>3. UNCHANGED <<routing_table, arp, waiting, asked>>
  BY DEF HostTakes
<1>4. CASE IsIp(f)
  <2>1. Exchange(f, {})
    BY <1>4 DEF HostTakes
  <2>2. CASE f.body.dst = Ip[f.to]
    BY <1>3, <1>4, <2>1, <2>2 DEF HostTakes
  <2>3. CASE f.body.dst # Ip[f.to]
    <3>1. captured' = [captured EXCEPT ![h] = captured[h]]
      BY <1>4, <2>3 DEF HostTakes
    <3>2. captured' = captured
      BY <3>1 DEF TypeInv, TypeOK
    <3> QED
      BY <1>2, <1>3, <2>1, <3>2
  <2> QED
    BY <2>2, <2>3
<1>5. CASE ~IsIp(f)
  <2>1. captured' = captured
    BY <1>5 DEF HostTakes
  <2>2. \/ Exchange(f, sr_send_packet(f.to, f.shost, ArpAnswer(f)))
        \/ Exchange(f, {})
    BY <1>5 DEF HostTakes
  <2> QED
    BY <1>1, <1>2, <1>3, <1>5, <2>1, <2>2, ArpAnswerType
<1> QED
  BY <1>4, <1>5

LEMMA HandleAsk ==
    ASSUME TypeInv, NEW q \in Traffic, Ask(q)
    PROVE  /\ \A old \in asked : old.id # q.id
           /\ \E p \in Packet : \E s :
                 /\ p.id = q.id /\ p.about = q.id /\ p.kind \in {"data", "echo"}
                 /\ asked' = asked \cup {p} /\ frames' = frames \cup s /\ Good(s)
                 /\ \A g \in s : g.body = p
                 /\ \A g, h \in s : g = h
           /\ UNCHANGED <<routing_table, arp, waiting, captured>>
<1> DEFINE c == CHOOSE d \in Cards : Node[d] = q.by
           p == [src |-> Ip[c], dst |-> q.dst, ttl |-> q.ttl, kind |-> q.kind,
                 intact |-> q.intact, sum |-> q.sum, id |-> q.id, about |-> q.id,
                 via |-> Lan[c]]
           s == sr_send_packet(c, Gateway[q.by], p)
<1>1. q \in [by : Hosts, id : Ids, kind : {"data", "echo"}, dst : IPs,
             ttl : Nat \ {0}, intact : BOOLEAN, sum : BOOLEAN]
  BY ForwardingAssumption
<1>2. c \in Cards /\ Gateway[q.by] \in Cards
  BY <1>1, CardFacts
<1>3. Ip[c] \in IPs /\ Lan[c] \in Nat
  BY <1>2, CardFacts
<1>4. /\ asked' = asked \cup {p} /\ frames' = frames \cup s
      /\ \A old \in asked : old.id # q.id
      /\ UNCHANGED <<routing_table, arp, waiting, captured>>
  BY DEF Ask
<1> HIDE DEF c
<1>5. p \in Packet
  BY <1>1, <1>3 DEF Packet
<1>6. p.id = q.id /\ p.about = q.id /\ p.kind \in {"data", "echo"}
  BY <1>1
<1> HIDE DEF p
<1>7. Good(s) /\ (\A g \in s : g.body = p) /\ \A g, h \in s : g = h
  BY <1>2, <1>5, SendFacts DEF Good
<1> HIDE DEF s
<1> QED
  BY <1>4, <1>5, <1>6, <1>7

LEMMA GoodUnion ==
    ASSUME NEW out, NEW W, Outs(out, W) PROVE Good(UNION {out[w] : w \in W})
  BY DEF Outs, Good

LEMMA TypeWaiting ==
    ASSUME TypeInv, frames' \subseteq Frame, \A g \in frames' : Addressed(g),
           NEW r \in Routers, NEW W \in SUBSET Waiter,
           waiting' = [waiting EXCEPT ![r] = W],
           \A w \in W : IsIp(w.frame) /\ Addressed(w.frame) /\ Node[w.frame.to] = r,
           arp' \in [Routers -> SUBSET [ip : IPs, mac : Cards]],
           UNCHANGED <<routing_table, captured, asked>>
    PROVE  TypeInv'
<1>1. waiting' \in [Routers -> SUBSET Waiter]
  BY DEF TypeInv, TypeOK
<1>2. \A q \in Routers : waiting'[q] = IF q = r THEN W ELSE waiting[q]
  BY DEF TypeInv, TypeOK
<1>3. \A q \in Routers : \A w \in waiting'[q] :
          IsIp(w.frame) /\ Addressed(w.frame) /\ Node[w.frame.to] = q
  BY <1>2 DEF TypeInv, AddressInv
<1> QED
  BY <1>1, <1>3 DEF TypeInv, TypeOK, AddressInv, Addressed, IsIp

LEMMA ForwardingType == TypeInv /\ [Next]_vars => TypeInv'
<1> SUFFICES ASSUME TypeInv, [Next]_vars PROVE TypeInv'
  OBVIOUS
<1>1. CASE UNCHANGED vars
  BY <1>1 DEF vars, TypeInv, TypeOK, AddressInv, Addressed, IsIp
<1>2. ASSUME NEW r \in Routers, NEW f \in frames,
             \/ Discard(r, f) \/ AnswerForMe(r, f) \/ Refuse(r, f) \/ Forward(r, f)
             \/ AnswerArp(r, f)
      PROVE  TypeInv'
  BY <1>2, HandleIp, HandleArp, ExchangeType, TypeFrame
<1>3. ASSUME NEW r \in Routers, NEW f \in frames, Enqueue(r, f) PROVE TypeInv'
  <2>1. PICK w \in Waiter :
            /\ IsIp(w.frame) /\ Addressed(w.frame) /\ w.frame.to = f.to
            /\ waiting' = [waiting EXCEPT ![r] = @ \cup {w}]
    BY <1>3, HandleEnqueue
  <2>2. /\ Node[f.to] = r /\ UNCHANGED <<routing_table, arp, captured, asked>>
        /\ frames' \subseteq Frame /\ \A g \in frames' : Addressed(g)
    BY <1>3, HandleEnqueue, ExchangeType
  <2> DEFINE W == waiting[r] \cup {w}
  <2>3. W \in SUBSET Waiter /\ waiting' = [waiting EXCEPT ![r] = W]
    BY <2>1 DEF TypeInv, TypeOK
  <2>4. \A v \in W : IsIp(v.frame) /\ Addressed(v.frame) /\ Node[v.frame.to] = r
    BY <2>1, <2>2 DEF TypeInv, AddressInv
  <2>5. arp' \in [Routers -> SUBSET [ip : IPs, mac : Cards]]
    BY <2>2 DEF TypeInv, TypeOK
  <2> HIDE DEF W
  <2> QED
    BY <2>2, <2>3, <2>4, <2>5, TypeWaiting
<1>4. ASSUME NEW r \in Routers, NEW hop,
             waiting' = [waiting EXCEPT ![r] = {w \in @ : w.hop # hop}],
             frames' \subseteq Frame, \A g \in frames' : Addressed(g),
             arp' \in [Routers -> SUBSET [ip : IPs, mac : Cards]],
             UNCHANGED <<routing_table, captured, asked>>
      PROVE  TypeInv'
  <2> DEFINE W == {w \in waiting[r] : w.hop # hop}
  <2>1. W \in SUBSET Waiter /\ waiting' = [waiting EXCEPT ![r] = W]
    BY <1>4 DEF TypeInv, TypeOK
  <2>2. \A v \in W : IsIp(v.frame) /\ Addressed(v.frame) /\ Node[v.frame.to] = r
    BY DEF TypeInv, AddressInv
  <2> HIDE DEF W
  <2> QED
    BY <1>4, <2>1, <2>2, TypeWaiting
<1>5. ASSUME NEW r \in Routers, NEW f \in frames, TakeArpReply(r, f) PROVE TypeInv'
  <2> DEFINE new == [ip |-> f.body.sip, mac |-> f.body.sha]
  <2>1. /\ f.body.sip \in IPs /\ f.body.sha \in Cards
        /\ arp' = [arp EXCEPT ![r] = @ \cup {new}]
        /\ waiting' = [waiting EXCEPT ![r] = {w \in @ : w.hop # f.body.sip}]
        /\ UNCHANGED <<routing_table, captured, asked>>
    BY <1>5, HandleReply
  <2>2. new \in [ip : IPs, mac : Cards]
    BY <2>1
  <2> HIDE DEF new
  <2>3. arp' \in [Routers -> SUBSET [ip : IPs, mac : Cards]]
    BY <2>1, <2>2 DEF TypeInv, TypeOK
  <2>4. frames' \subseteq Frame /\ \A g \in frames' : Addressed(g)
    <3>1. PICK out : /\ Outs(out, Waits(r, f.body.sip))
                     /\ Exchange(f, UNION {out[w] : w \in Waits(r, f.body.sip)})
      BY <1>5, HandleReply
    <3>2. Good(UNION {out[w] : w \in Waits(r, f.body.sip)})
      BY <3>1, GoodUnion
    <3> QED
      BY <3>1, <3>2, ExchangeType
  <2> QED
    BY <1>4, <2>1, <2>3, <2>4
<1>6. ASSUME NEW r \in Routers, NEW hop, GiveUp(r, hop) PROVE TypeInv'
  <2>1. PICK out : /\ Outs(out, Waits(r, hop))
                   /\ frames' = frames \cup UNION {out[w] : w \in Waits(r, hop)}
    BY <1>6, HandleGiveUp
  <2>2. Good(UNION {out[w] : w \in Waits(r, hop)})
    BY <2>1, GoodUnion
  <2>3. frames' \subseteq Frame /\ \A g \in frames' : Addressed(g)
    BY <2>1, <2>2 DEF Good, TypeInv, TypeOK, AddressInv
  <2>4. /\ waiting' = [waiting EXCEPT ![r] = {w \in @ : w.hop # hop}]
        /\ UNCHANGED <<routing_table, arp, captured, asked>>
    BY <1>6, HandleGiveUp
  <2>5. arp' \in [Routers -> SUBSET [ip : IPs, mac : Cards]]
    BY <2>4 DEF TypeInv, TypeOK
  <2> QED
    BY <1>4, <2>3, <2>4, <2>5
<1>7. ASSUME NEW h \in Hosts, NEW f \in frames, HostTakes(h, f) PROVE TypeInv'
  <2>1. UNCHANGED <<routing_table, arp, waiting, asked>>
    BY <1>7, HandleHost
  <2>2. frames' \subseteq Frame /\ \A g \in frames' : Addressed(g)
    <3>1. Good({})
      BY DEF Good
    <3> QED
      BY <1>7, <3>1, HandleHost, ExchangeType
  <2>3. captured' \in [Hosts -> SUBSET Packet]
    <3>1. CASE captured' = captured
      BY <3>1 DEF TypeInv, TypeOK
    <3>2. CASE IsIp(f) /\ captured' = [captured EXCEPT ![h] = @ \cup {f.body}]
      <4>1. f.body \in Packet
        BY <3>2, FrameFacts DEF TypeInv, TypeOK
      <4> QED
        BY <3>2, <4>1 DEF TypeInv, TypeOK
    <3> QED
      BY <1>7, <3>1, <3>2, HandleHost
  <2> QED
    BY <2>1, <2>2, <2>3 DEF TypeInv, TypeOK, AddressInv, Addressed, IsIp
<1>8. ASSUME NEW q \in Traffic, Ask(q) PROVE TypeInv'
  <2>1. \E p \in Packet : \E s :
            asked' = asked \cup {p} /\ frames' = frames \cup s /\ Good(s)
    BY <1>8, HandleAsk
  <2>2. UNCHANGED <<routing_table, arp, waiting, captured>>
    BY <1>8, HandleAsk
  <2> QED
    BY <2>1, <2>2 DEF TypeInv, TypeOK, AddressInv, Addressed, IsIp, Good
<1> QED
  BY <1>1, <1>2, <1>3, <1>5, <1>6, <1>7, <1>8 DEF Next, Handle, Sweep

LEMMA ForwardingInit == Init => TypeInv
<1> SUFFICES ASSUME Init PROVE TypeInv
  OBVIOUS
<1>1. arp = [r \in Routers |-> {}] /\ waiting = [r \in Routers |-> {}]
  BY DEF Init
<1>2. frames = {} /\ captured = [h \in Hosts |-> {}] /\ asked = {}
  BY DEF Init
<1>3. \A r \in Routers : routing_table[r] \in Tables[r]
  BY DEF Init
<1> QED
  BY <1>1, <1>2, <1>3 DEF TypeInv, TypeOK, AddressInv

----------------------------------------------------------------------------
\* Where a packet is

\* What is about packet k is in one frame, or waits at one router, or was taken
\* by one host.
FramesAbout(k) == {f \in frames : IsIp(f) /\ f.body.about = k}
OneFrame == \A k \in Ids : \A f, g \in FramesAbout(k) : f = g
OneWaiter == \A r, q \in Routers : \A v \in waiting[r] : \A w \in waiting[q] :
    v.frame.body.about = w.frame.body.about => r = q /\ v = w
OneCapture == \A h, i \in Hosts : \A p \in captured[h] : \A q \in captured[i] :
    p.about = q.about => h = i /\ p = q
Apart ==
    /\ \A r \in Routers : \A w \in waiting[r] : FramesAbout(w.frame.body.about) = {}
    /\ \A h \in Hosts : \A p \in captured[h] : FramesAbout(p.about) = {}
    /\ \A r \in Routers : \A w \in waiting[r] : \A h \in Hosts : \A p \in captured[h] :
          w.frame.body.about # p.about
OnePlace == OneFrame /\ OneWaiter /\ OneCapture /\ Apart

LEMMA AboutIds ==
    ASSUME TypeInv
    PROVE  /\ \A f \in frames : IsIp(f) => f.body \in Packet /\ f.body.about \in Ids
           /\ \A r \in Routers : \A w \in waiting[r] :
                 w.frame.body \in Packet /\ w.frame.body.about \in Ids
           /\ \A h \in Hosts : \A p \in captured[h] : p.about \in Ids
  BY FrameFacts, PacketFacts DEF TypeInv, TypeOK, AddressInv, Waiter

\* Frame f is replaced by frames of which at most one is about its packet, and
\* none about another.
LEMMA PlaceExchange ==
    ASSUME TypeInv, OnePlace, NEW f \in frames, NEW s, Exchange(f, s),
           \A g \in s : IsIp(g) => IsIp(f) /\ g.body.about = f.body.about,
           \A g, h \in s : IsIp(g) /\ IsIp(h) => g = h,
           UNCHANGED <<waiting, captured>>
    PROVE  OnePlace'
<1>1. ASSUME NEW k \in Ids, NEW g \in FramesAbout(k)' PROVE FramesAbout(k) # {}
  BY <1>1 DEF FramesAbout, Exchange
<1>2. OneFrame'
  <2> SUFFICES ASSUME NEW k \in Ids, NEW g \in FramesAbout(k)', NEW h \in FramesAbout(k)'
               PROVE  g = h
    BY DEF OneFrame
  <2>1. /\ g \in (frames \ {f}) \cup s /\ IsIp(g) /\ g.body.about = k
        /\ h \in (frames \ {f}) \cup s /\ IsIp(h) /\ h.body.about = k
    BY DEF FramesAbout, Exchange
  <2> QED
    BY <2>1 DEF OnePlace, OneFrame, FramesAbout
<1>3. OneWaiter' /\ OneCapture'
  BY DEF OnePlace, OneWaiter, OneCapture
<1>4. Apart'
  BY <1>1, AboutIds DEF OnePlace, Apart
<1> QED
  BY <1>2, <1>3, <1>4 DEF OnePlace

\* Frame f is queued at r.
LEMMA PlaceEnqueue ==
    ASSUME TypeInv, OnePlace, NEW f \in frames, IsIp(f), NEW s, Exchange(f, s),
           \A g \in s : ~IsIp(g), NEW r \in Routers, NEW w,
           w.frame.body.about = f.body.about,
           waiting' = [waiting EXCEPT ![r] = @ \cup {w}], captured' = captured
    PROVE  OnePlace'
<1> DEFINE k == f.body.about
<1>1. \A q \in Routers : waiting'[q] = IF q = r THEN waiting[q] \cup {w} ELSE waiting[q]
  BY DEF TypeInv, TypeOK
<1>2. k \in Ids /\ f \in FramesAbout(k)
  BY AboutIds DEF FramesAbout
<1>3. \A j \in Ids : FramesAbout(j)' \subseteq FramesAbout(j)
  BY DEF FramesAbout, Exchange
<1>4. FramesAbout(k)' = {}
  BY <1>2 DEF FramesAbout, Exchange, OnePlace, OneFrame
<1>5. \A q \in Routers : \A v \in waiting[q] : v.frame.body.about # k
  BY <1>2 DEF OnePlace, Apart
<1>6. \A h \in Hosts : \A p \in captured[h] : p.about # k
  BY <1>2 DEF OnePlace, Apart
<1> HIDE DEF k
<1>7. OneFrame' /\ OneCapture'
  BY <1>3 DEF OnePlace, OneFrame, OneCapture
<1>8. OneWaiter'
  <2> SUFFICES ASSUME NEW q \in Routers, NEW t \in Routers, NEW v \in waiting'[q],
                      NEW u \in waiting'[t], v.frame.body.about = u.frame.body.about
               PROVE  q = t /\ v = u
    BY DEF OneWaiter
  <2>1. v \in waiting[q] \/ (q = r /\ v = w)
    BY <1>1
  <2>2. u \in waiting[t] \/ (t = r /\ u = w)
    BY <1>1
  <2> QED
    BY <2>1, <2>2, <1>5 DEF OnePlace, OneWaiter, k
<1>9. Apart'
  <2>1. \A q \in Routers : \A v \in waiting'[q] : v \in waiting[q] \/ v.frame.body.about = k
    BY <1>1 DEF k
  <2>2. \A q \in Routers : \A v \in waiting'[q] : FramesAbout(v.frame.body.about)' = {}
    BY <2>1, <1>3, <1>4, AboutIds DEF OnePlace, Apart
  <2>3. \A h \in Hosts : \A p \in captured'[h] : FramesAbout(p.about)' = {}
    BY <1>3, AboutIds DEF OnePlace, Apart
  <2>4. \A q \in Routers : \A v \in waiting'[q] : \A h \in Hosts : \A p \in captured'[h] :
            v.frame.body.about # p.about
    BY <2>1, <1>6 DEF OnePlace, Apart
  <2> QED
    BY <2>2, <2>3, <2>4 DEF Apart
<1> QED
  BY <1>7, <1>8, <1>9 DEF OnePlace

\* The frames that waited for a hop are sent.
LEMMA PlaceRelease ==
    ASSUME TypeInv, OnePlace, NEW r \in Routers, NEW hop, NEW out,
           Outs(out, Waits(r, hop)),
           frames' \subseteq frames \cup UNION {out[w] : w \in Waits(r, hop)},
           waiting' = [waiting EXCEPT ![r] = {w \in @ : w.hop # hop}], captured' = captured
    PROVE  OnePlace'
<1>1. \A q \in Routers : /\ waiting'[q] \subseteq waiting[q]
                         /\ q = r => \A w \in waiting'[q] : w \notin Waits(r, hop)
  BY DEF TypeInv, TypeOK, Waits
<1>2. ASSUME NEW k \in Ids, NEW g \in FramesAbout(k)'
      PROVE  \/ g \in FramesAbout(k)
             \/ \E w \in Waits(r, hop) : g \in out[w] /\ w.frame.body.about = k
  <2>1. g \in frames' /\ IsIp(g) /\ g.body.about = k
    BY DEF FramesAbout
  <2>2. CASE g \in frames
    BY <2>1, <2>2 DEF FramesAbout
  <2>3. CASE g \notin frames
    <3>1. PICK w \in Waits(r, hop) : g \in out[w]
      BY <2>1, <2>3
    <3> QED
      BY <2>1, <3>1 DEF Outs
  <2> QED
    BY <2>2, <2>3
<1>3. Waits(r, hop) \subseteq waiting[r]
  BY DEF Waits
<1>4. OneFrame'
  <2> SUFFICES ASSUME NEW k \in Ids, NEW g \in FramesAbout(k)', NEW h \in FramesAbout(k)'
               PROVE  g = h
    BY DEF OneFrame
  <2>1. CASE \E w \in waiting[r] : w.frame.body.about = k
    <3>1. FramesAbout(k) = {}
      BY <2>1 DEF OnePlace, Apart
    <3>2. PICK v \in Waits(r, hop) : g \in out[v] /\ v.frame.body.about = k
      BY <3>1, <1>2
    <3>3. PICK w \in Waits(r, hop) : h \in out[w] /\ w.frame.body.about = k
      BY <3>1, <1>2
    <3>4. v = w
      BY <3>2, <3>3, <1>3 DEF OnePlace, OneWaiter
    <3> QED
      BY <3>2, <3>3, <3>4 DEF Outs
  <2>2. CASE ~ \E w \in waiting[r] : w.frame.body.about = k
    <3>1. g \in FramesAbout(k) /\ h \in FramesAbout(k)
      BY <2>2, <1>2, <1>3
    <3> QED
      BY <3>1 DEF OnePlace, OneFrame
  <2> QED
    BY <2>1, <2>2
<1>5. OneWaiter' /\ OneCapture'
  BY <1>1 DEF OnePlace, OneWaiter, OneCapture
<1>6. Apart'
  <2>1. ASSUME NEW q \in Routers, NEW w \in waiting'[q]
        PROVE  FramesAbout(w.frame.body.about)' = {}
    <3> DEFINE k == w.frame.body.about
    <3>1. w \in waiting[q] /\ k \in Ids /\ FramesAbout(k) = {}
      BY <1>1, AboutIds DEF OnePlace, Apart
    <3>2. ASSUME NEW g \in FramesAbout(k)' PROVE FALSE
      <4>1. PICK v \in Waits(r, hop) : v.frame.body.about = k
        BY <3>1, <3>2, <1>2
      <4>2. q = r /\ v = w
        BY <3>1, <4>1, <1>3 DEF OnePlace, OneWaiter
      <4> QED
        BY <4>1, <4>2, <1>1
    <3> QED
      BY <3>2 DEF FramesAbout
  <2>2. ASSUME NEW h \in Hosts, NEW p \in captured'[h] PROVE FramesAbout(p.about)' = {}
    <3> DEFINE k == p.about
    <3>1. p \in captured[h] /\ k \in Ids /\ FramesAbout(k) = {}
      BY AboutIds DEF OnePlace, Apart
    <3>2. ASSUME NEW g \in FramesAbout(k)' PROVE FALSE
      <4>1. PICK v \in Waits(r, hop) : v.frame.body.about = k
        BY <3>1, <3>2, <1>2
      <4> QED
        BY <3>1, <4>1, <1>3 DEF OnePlace, Apart
    <3> QED
      BY <3>2 DEF FramesAbout
  <2> QED
    BY <2>1, <2>2, <1>1 DEF OnePlace, Apart
<1> QED
  BY <1>4, <1>5, <1>6 DEF OnePlace

\* Host h takes the packet of frame f.
LEMMA PlaceCapture ==
    ASSUME TypeInv, OnePlace, NEW f \in frames, IsIp(f), Exchange(f, {}),
           NEW h \in Hosts, captured' = [captured EXCEPT ![h] = @ \cup {f.body}],
           waiting' = waiting
    PROVE  OnePlace'
<1> DEFINE k == f.body.about
<1>1. \A i \in Hosts :
          captured'[i] = IF i = h THEN captured[i] \cup {f.body} ELSE captured[i]
  BY DEF TypeInv, TypeOK
<1>2. k \in Ids /\ f \in FramesAbout(k)
  BY AboutIds DEF FramesAbout
<1>3. \A j \in Ids : FramesAbout(j)' \subseteq FramesAbout(j)
  BY DEF FramesAbout, Exchange
<1>4. FramesAbout(k)' = {}
  BY <1>2 DEF FramesAbout, Exchange, OnePlace, OneFrame
<1>5. \A q \in Routers : \A v \in waiting[q] : v.frame.body.about # k
  BY <1>2 DEF OnePlace, Apart
<1>6. \A i \in Hosts : \A p \in captured[i] : p.about # k
  BY <1>2 DEF OnePlace, Apart
<1> HIDE DEF k
<1>7. OneFrame' /\ OneWaiter'
  BY <1>3 DEF OnePlace, OneFrame, OneWaiter
<1>8. OneCapture'
  <2> SUFFICES ASSUME NEW i \in Hosts, NEW j \in Hosts, NEW p \in captured'[i],
                      NEW q \in captured'[j], p.about = q.about
               PROVE  i = j /\ p = q
    BY DEF OneCapture
  <2>1. p \in captured[i] \/ (i = h /\ p = f.body)
    BY <1>1
  <2>2. q \in captured[j] \/ (j = h /\ q = f.body)
    BY <1>1
  <2> QED
    BY <2>1, <2>2, <1>6 DEF OnePlace, OneCapture, k
<1>9. Apart'
  <2>1. \A i \in Hosts : \A p \in captured'[i] : p \in captured[i] \/ p.about = k
    BY <1>1 DEF k
  <2> QED
    BY <2>1, <1>3, <1>4, <1>5, AboutIds DEF OnePlace, Apart
<1> QED
  BY <1>7, <1>8, <1>9 DEF OnePlace

\* A host sends a packet with a new number.
LEMMA PlaceAsk ==
    ASSUME TypeInv, OnePlace, NEW k \in Ids, NEW s, frames' = frames \cup s,
           \A g \in s : g.body.about = k, \A g, h \in s : g = h,
           FramesAbout(k) = {},
           \A r \in Routers : \A w \in waiting[r] : w.frame.body.about # k,
           \A h \in Hosts : \A p \in captured[h] : p.about # k,
           UNCHANGED <<waiting, captured>>
    PROVE  OnePlace'
<1>1. \A j \in Ids : \A g \in FramesAbout(j)' : g \in FramesAbout(j) \/ (j = k /\ g \in s)
  BY DEF FramesAbout
<1>2. OneFrame'
  BY <1>1 DEF OnePlace, OneFrame
<1>3. OneWaiter' /\ OneCapture'
  BY DEF OnePlace, OneWaiter, OneCapture
<1>4. Apart'
  <2>1. \A j \in Ids \ {k} : FramesAbout(j) = {} => FramesAbout(j)' = {}
    BY <1>1
  <2> QED
    BY <2>1, AboutIds DEF OnePlace, Apart
<1> QED
  BY <1>2, <1>3, <1>4 DEF OnePlace

----------------------------------------------------------------------------
\* What a packet says

\* A packet is about one that a host sent, and its addresses are true.
Reporting == {"expired", "net", "host"}
Truthful(p) ==
    /\ \E q \in asked : /\ q.id = p.about
                        /\ p.kind \in {"data", "echo"} => p.src = q.src /\ p.dst = q.dst
                        /\ p.kind = "reply" => p.src = q.dst /\ p.dst = q.src
    /\ p.kind \in Reporting =>
          \E r \in Routers : \E c \in IfList(r) : Lan[c] = p.via /\ Ip[c] = p.src
AllTruthful ==
    /\ \A f \in frames : IsIp(f) => Truthful(f.body)
    /\ \A r \in Routers : \A w \in waiting[r] : Truthful(w.frame.body)
    /\ \A h \in Hosts : \A p \in captured[h] : Truthful(p)
AskedOnce == \A p, q \in asked : p.id = q.id => p = q

ForwardingInv == TypeInv /\ OnePlace /\ AllTruthful /\ AskedOnce

LEMMA TruthKept ==
    ASSUME NEW p, Truthful(p), asked \subseteq asked' PROVE Truthful(p)'
  BY DEF Truthful

LEMMA TruthFollows ==
    ASSUME NEW f \in Frame, NEW q, Truthful(f.body), Node[f.to] \in Routers,
           q.about = f.body.about, Follows(f, q), asked' = asked
    PROVE  Truthful(q)'
<1>1. f.to \in Cards /\ f.to \in IfList(Node[f.to])
  BY FrameFacts DEF IfList
<1>2. \E a \in asked : /\ a.id = q.about
                       /\ q.kind \in {"data", "echo"} => q.src = a.src /\ q.dst = a.dst
                       /\ q.kind = "reply" => q.src = a.dst /\ q.dst = a.src
  <2>1. PICK a \in asked :
            /\ a.id = f.body.about
            /\ f.body.kind \in {"data", "echo"} => f.body.src = a.src /\ f.body.dst = a.dst
            /\ f.body.kind = "reply" => f.body.src = a.dst /\ f.body.dst = a.src
    BY DEF Truthful
  <2> QED
    BY <2>1 DEF Follows
<1>3. q.kind \in Reporting =>
          \E r \in Routers : \E c \in IfList(r) : Lan[c] = q.via /\ Ip[c] = q.src
  BY <1>1 DEF Truthful, Follows, Reporting
<1> QED
  BY <1>2, <1>3 DEF Truthful

\* Of the frames that follow f, each is true.
LEMMA TruthExchange ==
    ASSUME ForwardingInv, NEW f \in frames, NEW s, Exchange(f, s), asked' = asked,
           IsIp(f) => Node[f.to] \in Routers /\ Answers(f, s),
           ~IsIp(f) => \A g \in s : ~IsIp(g)
    PROVE  \A g \in frames' : IsIp(g) => Truthful(g.body)'
<1> SUFFICES ASSUME NEW g \in frames', IsIp(g) PROVE Truthful(g.body)'
  OBVIOUS
<1>1. CASE g \in frames
  BY <1>1, TruthKept DEF ForwardingInv, AllTruthful
<1>2. CASE g \notin frames
  <2>1. g \in s /\ IsIp(f)
    BY <1>2 DEF Exchange
  <2>2. PICK q \in Packet : q.about = f.body.about /\ Follows(f, q) /\ g.body = q
    BY <2>1 DEF Answers
  <2>3. f \in Frame /\ Truthful(f.body)
    BY <2>1 DEF ForwardingInv, TypeInv, TypeOK, AllTruthful
  <2> QED
    BY <2>1, <2>2, <2>3, TruthFollows
<1> QED
  BY <1>1, <1>2

LEMMA TruthRelease ==
    ASSUME ForwardingInv, NEW r \in Routers, NEW hop, NEW out,
           Outs(out, Waits(r, hop)), asked' = asked,
           frames' \subseteq frames \cup UNION {out[w] : w \in Waits(r, hop)},
           waiting' = [waiting EXCEPT ![r] = {w \in @ : w.hop # hop}], captured' = captured
    PROVE  AllTruthful'
<1>1. \A q \in Routers : waiting'[q] \subseteq waiting[q]
  BY DEF ForwardingInv, TypeInv, TypeOK
<1>2. ASSUME NEW g \in frames', IsIp(g) PROVE Truthful(g.body)'
  <2>1. CASE g \in frames
    BY <1>2, <2>1, TruthKept DEF ForwardingInv, AllTruthful
  <2>2. CASE g \notin frames
    <3>1. PICK w \in Waits(r, hop) : g \in out[w]
      BY <2>2
    <3>2. /\ w.frame \in Frame /\ Node[w.frame.to] \in Routers /\ Truthful(w.frame.body)
      BY DEF Waits, Waiter, ForwardingInv, TypeInv, TypeOK, AddressInv, AllTruthful
    <3>3. g.body.about = w.frame.body.about /\ Follows(w.frame, g.body)
      BY <3>1 DEF Outs
    <3> QED
      BY <3>2, <3>3, TruthFollows
  <2> QED
    BY <2>1, <2>2
<1>3. \A q \in Routers : \A w \in waiting'[q] : Truthful(w.frame.body)'
  BY <1>1, TruthKept DEF ForwardingInv, AllTruthful
<1>4. \A h \in Hosts : \A p \in captured'[h] : Truthful(p)'
  BY TruthKept DEF ForwardingInv, AllTruthful
<1> QED
  BY <1>2, <1>3, <1>4 DEF AllTruthful, IsIp

\* Waiting and captured packets that were true remain true.
LEMMA TruthElsewhere ==
    ASSUME ForwardingInv, asked \subseteq asked'
    PROVE  /\ \A r \in Routers : \A w \in waiting[r] : Truthful(w.frame.body)'
           /\ \A h \in Hosts : \A p \in captured[h] : Truthful(p)'
           /\ \A f \in frames : IsIp(f) => Truthful(f.body)'
  BY TruthKept DEF ForwardingInv, AllTruthful

----------------------------------------------------------------------------
\* Every step

LEMMA ForwardingNext == ForwardingInv /\ [Next]_vars => ForwardingInv'
<1> SUFFICES ASSUME ForwardingInv, [Next]_vars PROVE ForwardingInv'
  OBVIOUS
<1>t. TypeInv' /\ TypeInv /\ OnePlace
  BY ForwardingType DEF ForwardingInv
<1>1. CASE UNCHANGED vars
  <2>1. OnePlace'
    BY <1>1, <1>t DEF vars, OnePlace, OneFrame, OneWaiter, OneCapture, Apart, FramesAbout, IsIp
  <2>2. AllTruthful' /\ AskedOnce'
    BY <1>1, TruthElsewhere DEF vars, ForwardingInv, AllTruthful, AskedOnce, IsIp
  <2> QED
    BY <1>t, <2>1, <2>2 DEF ForwardingInv
<1>2. ASSUME NEW r \in Routers, NEW f \in frames,
             Discard(r, f) \/ AnswerForMe(r, f) \/ Refuse(r, f) \/ Forward(r, f)
      PROVE  ForwardingInv'
  <2>1. PICK s : Good(s) /\ Answers(f, s) /\ Exchange(f, s)
    BY <1>2, <1>t, HandleIp
  <2>2. /\ IsIp(f) /\ Node[f.to] = r
        /\ UNCHANGED <<routing_table, arp, waiting, captured, asked>>
    BY <1>2, <1>t, HandleIp
  <2>3. OnePlace'
    <3>1. /\ \A g \in s : g.body.about = f.body.about
          /\ \A g, h \in s : g = h
      BY <2>1 DEF Answers
    <3> QED
      BY <1>t, <2>1, <2>2, <3>1, PlaceExchange
  <2>4. AllTruthful' /\ AskedOnce'
    BY <2>1, <2>2, TruthExchange, TruthElsewhere DEF AllTruthful, ForwardingInv, AskedOnce, IsIp
  <2> QED
    BY <1>t, <2>3, <2>4 DEF ForwardingInv
<1>3. ASSUME NEW f \in frames, NEW s, Exchange(f, s), \A g \in s : ~IsIp(g),
             UNCHANGED <<waiting, captured, asked>>
      PROVE  ForwardingInv'
  <2>1. OnePlace'
    BY <1>t, <1>3, PlaceExchange
  <2>2. AllTruthful' /\ AskedOnce'
    BY <1>3, TruthElsewhere DEF AllTruthful, ForwardingInv, AskedOnce, IsIp, Exchange
  <2> QED
    BY <1>t, <2>1, <2>2 DEF ForwardingInv
<1>4. ASSUME NEW r \in Routers, NEW f \in frames, AnswerArp(r, f) PROVE ForwardingInv'
  BY <1>3, <1>4, <1>t, HandleArp
<1>5. ASSUME NEW r \in Routers, NEW f \in frames, Enqueue(r, f) PROVE ForwardingInv'
  <2>1. PICK w \in Waiter :
            /\ w.frame.to = f.to
            /\ w.frame.body.about = f.body.about /\ Follows(f, w.frame.body)
            /\ waiting' = [waiting EXCEPT ![r] = @ \cup {w}]
    BY <1>5, <1>t, HandleEnqueue
  <2>2. PICK s : (\A g \in s : ~IsIp(g)) /\ Exchange(f, s)
    BY <1>5, <1>t, HandleEnqueue
  <2>3. IsIp(f) /\ Node[f.to] = r /\ UNCHANGED <<routing_table, arp, captured, asked>>
    BY <1>5, <1>t, HandleEnqueue
  <2>4. OnePlace'
    BY <1>t, <2>1, <2>2, <2>3, PlaceEnqueue
  <2>5. Truthful(w.frame.body)'
    <3>1. f \in Frame /\ Truthful(f.body)
      BY <2>3 DEF ForwardingInv, TypeInv, TypeOK, AllTruthful
    <3> QED
      BY <2>1, <2>3, <3>1, TruthFollows
  <2>6. \A q \in Routers : \A v \in waiting'[q] : v \in waiting[q] \/ v = w
    BY <2>1, <1>t DEF TypeInv, TypeOK
  <2>7. \A g \in frames' : IsIp(g) => g \in frames
    BY <2>2 DEF Exchange
  <2>8. AllTruthful' /\ AskedOnce'
    BY <2>3, <2>5, <2>6, <2>7, TruthElsewhere DEF AllTruthful, ForwardingInv, AskedOnce, IsIp
  <2> QED
    BY <1>t, <2>4, <2>8 DEF ForwardingInv
<1>6. ASSUME NEW r \in Routers, NEW hop, NEW out, Outs(out, Waits(r, hop)),
             frames' \subseteq frames \cup UNION {out[w] : w \in Waits(r, hop)},
             waiting' = [waiting EXCEPT ![r] = {w \in @ : w.hop # hop}],
             UNCHANGED <<captured, asked>>
      PROVE  ForwardingInv'
  <2>1. OnePlace' /\ AllTruthful'
    BY <1>t, <1>6, PlaceRelease, TruthRelease
  <2> QED
    BY <1>t, <1>6, <2>1 DEF ForwardingInv, AskedOnce
<1>7. ASSUME NEW r \in Routers, NEW f \in frames, TakeArpReply(r, f) PROVE ForwardingInv'
  <2>1. PICK out : /\ Outs(out, Waits(r, f.body.sip))
                   /\ Exchange(f, UNION {out[w] : w \in Waits(r, f.body.sip)})
    BY <1>7, <1>t, HandleReply
  <2>2. frames' \subseteq frames \cup UNION {out[w] : w \in Waits(r, f.body.sip)}
    BY <2>1 DEF Exchange
  <2>3. /\ waiting' = [waiting EXCEPT ![r] = {w \in @ : w.hop # f.body.sip}]
        /\ UNCHANGED <<captured, asked>>
    BY <1>7, <1>t, HandleReply
  <2> QED
    BY <1>6, <2>1, <2>2, <2>3
<1>8. ASSUME NEW r \in Routers, NEW hop, GiveUp(r, hop) PROVE ForwardingInv'
  <2>1. PICK out : /\ Outs(out, Waits(r, hop))
                   /\ frames' = frames \cup UNION {out[w] : w \in Waits(r, hop)}
    BY <1>8, <1>t, HandleGiveUp
  <2>2. /\ waiting' = [waiting EXCEPT ![r] = {w \in @ : w.hop # hop}]
        /\ UNCHANGED <<captured, asked>>
    BY <1>8, <1>t, HandleGiveUp
  <2> QED
    BY <1>6, <2>1, <2>2
<1>9. ASSUME NEW h \in Hosts, NEW f \in frames, HostTakes(h, f) PROVE ForwardingInv'
  <2>1. UNCHANGED <<routing_table, arp, waiting, asked>>
    BY <1>9, <1>t, HandleHost
  <2>2. CASE /\ IsIp(f) /\ Exchange(f, {})
             /\ captured' = [captured EXCEPT ![h] = @ \cup {f.body}]
    <3>1. OnePlace'
      BY <1>t, <2>1, <2>2, PlaceCapture
    <3>2. \A i \in Hosts : \A p \in captured'[i] : p \in captured[i] \/ p = f.body
      BY <2>2, <1>t DEF TypeInv, TypeOK
    <3>3. AllTruthful' /\ AskedOnce'
      BY <2>1, <2>2, <3>2, TruthElsewhere
         DEF AllTruthful, ForwardingInv, AskedOnce, IsIp, Exchange
    <3> QED
      BY <1>t, <3>1, <3>3 DEF ForwardingInv
  <2>3. CASE /\ \E s : Good(s) /\ (\A g \in s : ~IsIp(g)) /\ Exchange(f, s)
             /\ captured' = captured
    BY <1>3, <2>1, <2>3
  <2> QED
    BY <1>9, <1>t, <2>2, <2>3, HandleHost
<1>10. ASSUME NEW q \in Traffic, Ask(q) PROVE ForwardingInv'
  <2>1. (\A old \in asked : old.id # q.id) /\ UNCHANGED <<routing_table, arp, waiting, captured>>
    BY <1>10, <1>t, HandleAsk
  <2>p. PICK p \in Packet : \E s :
            /\ p.id = q.id /\ p.about = q.id /\ p.kind \in {"data", "echo"}
            /\ asked' = asked \cup {p} /\ frames' = frames \cup s
            /\ \A g \in s : g.body = p
            /\ \A g, h \in s : g = h
    BY <1>10, <1>t, HandleAsk
  <2>2. PICK s :
            /\ p.id = q.id /\ p.about = q.id /\ p.kind \in {"data", "echo"}
            /\ asked' = asked \cup {p} /\ frames' = frames \cup s
            /\ \A g \in s : g.body = p
            /\ \A g, h \in s : g = h
    BY <2>p
  <2>3. /\ \A f \in frames : IsIp(f) => f.body.about # q.id
        /\ \A r \in Routers : \A w \in waiting[r] : w.frame.body.about # q.id
        /\ \A h \in Hosts : \A c \in captured[h] : c.about # q.id
    BY <2>1 DEF ForwardingInv, AllTruthful, Truthful
  <2>4. q.id \in Ids
    BY <2>2, PacketFacts
  <2>5. OnePlace'
    <3>1. FramesAbout(q.id) = {}
      BY <2>3 DEF FramesAbout
    <3>2. \A g \in s : g.body.about = q.id
      BY <2>2
    <3> QED
      BY <1>t, <2>1, <2>2, <2>3, <2>4, <3>1, <3>2, PlaceAsk
  <2>6. Truthful(p)'
    BY <2>2 DEF Truthful, Reporting
  <2>7. AllTruthful'
    BY <2>1, <2>2, <2>6, TruthElsewhere DEF AllTruthful, IsIp
  <2>8. AskedOnce'
    BY <2>1, <2>2 DEF AskedOnce, ForwardingInv
  <2> QED
    BY <1>t, <2>5, <2>7, <2>8 DEF ForwardingInv
<1> QED
  BY <1>1, <1>2, <1>4, <1>5, <1>7, <1>8, <1>9, <1>10 DEF Next, Handle, Sweep

----------------------------------------------------------------------------
\* The theorems

LEMMA ForwardingSafe == Spec => []ForwardingInv
<1>1. Init => ForwardingInv
  <2> SUFFICES ASSUME Init PROVE ForwardingInv
    OBVIOUS
  <2>1. /\ waiting = [r \in Routers |-> {}] /\ frames = {}
        /\ captured = [h \in Hosts |-> {}] /\ asked = {}
    BY DEF Init
  <2>2. OnePlace /\ AllTruthful /\ AskedOnce
    BY <2>1 DEF OnePlace, OneFrame, OneWaiter, OneCapture, Apart, FramesAbout,
                AllTruthful, AskedOnce
  <2> QED
    BY <2>2, ForwardingInit DEF ForwardingInv
<1> QED
  BY <1>1, ForwardingNext, PTL DEF Spec

\* Tables, caches, queues and frames keep their types in every network; a TTL
\* never falls below 0, and a route used is one of the table.
THEOREM TypeCorrect == Spec => []TypeOK
<1>1. ForwardingInv => TypeOK
  BY DEF ForwardingInv, TypeInv
<1> QED
  BY <1>1, ForwardingSafe, PTL

\* The loop over the routing table finds a longest match in every table whose
\* masks are prefixes, in any order of its routes, although it compares the
\* masks as little-endian integers, whatever the width of an address.
THEOREM LongestMatch == Spec => []LongestPrefix
<1>1. ForwardingInv => LongestPrefix
  <2> SUFFICES ASSUME ForwardingInv, NEW r \in Routers, NEW ip
               PROVE  LET prefix(rt) == Cardinality(rt.mask)
                          good == {rt \in Range(routing_table[r]) :
                                      AgreeTo(prefix(rt), rt.dest, ip)}
                          best == best_match(r, ip)
                      IN  IF good = {} THEN best = NoRoute
                          ELSE best \in good /\ \A rt \in good : prefix(rt) <= prefix(best)
    BY DEF LongestPrefix
  <2> DEFINE table == routing_table[r]
             prefix(rt) == Cardinality(rt.mask)
             good == {rt \in Range(table) : AgreeTo(prefix(rt), rt.dest, ip)}
             best == best_match(r, ip)
  <2>1. table \in Seq(Route(r)) /\ NoRoute \notin Route(r)
    BY ForwardingAssumption DEF ForwardingInv, TypeInv, TypeOK
  <2>2. \A i \in 1..Len(table) : \E length \in 0..Width : table[i].mask = 1..length
    BY PrefixAssumption DEF ForwardingInv, TypeInv, TypeOK
  <2>3. best = Search(table, ip)[Len(table)]
    BY DEF best_match
  <2> HIDE DEF table, best
  <2>4. Found(table, ip, best, Len(table))
    BY <2>1, <2>2, <2>3, SearchFinds
  <2>5. Range(table) = {table[i] : i \in 1..Len(table)}
    BY <2>1, LenProperties DEF Range
  <2>6. ASSUME NEW i \in 1..Len(table)
        PROVE  Matches(table[i], ip) <=> AgreeTo(prefix(table[i]), table[i].dest, ip)
    <3>1. PICK length \in 0..Width : table[i].mask = 1..length
      BY <2>2
    <3>2. length \in Nat
      BY ForwardingAssumption
    <3>3. prefix(table[i]) = length
      BY <3>1, <3>2, FS_Interval
    <3> HIDE DEF prefix
    <3> QED
      BY <3>1, <3>3 DEF Matches, AgreeTo
  <2> HIDE DEF prefix
  <2>7. \A i \in 1..Len(table) : table[i] \in good <=> Matches(table[i], ip)
    BY <2>5, <2>6
  <2>8. CASE good = {}
    <3>1. \A i \in 1..Len(table) : ~Matches(table[i], ip)
      BY <2>7, <2>8
    <3> QED
      BY <3>1, <2>4, <2>8 DEF Found, best, prefix, table
  <2>9. CASE good # {}
    <3>1. PICK j \in 1..Len(table) : Matches(table[j], ip)
      BY <2>5, <2>7, <2>9
    <3>2. PICK i \in 1..Len(table) :
              /\ best = table[i] /\ Matches(table[i], ip)
              /\ \A n \in 1..Len(table) : Matches(table[n], ip) =>
                    prefix(table[n]) <= prefix(table[i])
      BY <2>4, <3>1 DEF Found, prefix
    <3>3. best \in good /\ \A rt \in good : prefix(rt) <= prefix(best)
      BY <2>5, <2>7, <3>2
    <3> QED
      BY <3>3, <2>9 DEF best, prefix, table
  <2> QED
    BY <2>8, <2>9
<1> QED
  BY <1>1, ForwardingSafe, PTL

\* Every exit of process_ip_packet, the queues and the sweeper pass a packet on
\* or answer it, once: in any network and under any traffic there is at most
\* one thing that the packet has become.
THEOREM OneFate == Spec => []OneCarrier
<1>1. ForwardingInv => OneCarrier
  <2> SUFFICES ASSUME ForwardingInv, NEW k \in Ids PROVE Cardinality(Carriers(k)) <= 1
    BY DEF OneCarrier
  <2>1. /\ Range(waiting) = {waiting[r] : r \in Routers}
        /\ Range(captured) = {captured[h] : h \in Hosts}
    BY DEF ForwardingInv, TypeInv, TypeOK, Range
  <2>2. \A p \in Carriers(k) :
            \/ \E f \in FramesAbout(k) : p = f.body
            \/ \E r \in Routers : \E w \in waiting[r] :
                  p = w.frame.body /\ w.frame.body.about = k
            \/ \E h \in Hosts : p \in captured[h] /\ p.about = k
    BY <2>1 DEF Carriers, FramesAbout
  <2>3. ASSUME NEW p \in Carriers(k), NEW q \in Carriers(k) PROVE p = q
    <3> DEFINE Travels(x) == \E f \in FramesAbout(k) : x = f.body
               Waiting(x) == \E r \in Routers : \E w \in waiting[r] :
                                 x = w.frame.body /\ w.frame.body.about = k
               Taken(x) == \E h \in Hosts : x \in captured[h] /\ x.about = k
    <3>1. CASE Travels(p)
      <4>1. ~Waiting(q) /\ ~Taken(q)
        BY <3>1 DEF ForwardingInv, OnePlace, Apart
      <4>2. Travels(q)
        BY <4>1, <2>2
      <4> QED
        BY <3>1, <4>2 DEF ForwardingInv, OnePlace, OneFrame
    <3>2. CASE Waiting(p)
      <4>1. ~Travels(q) /\ ~Taken(q)
        BY <3>2 DEF ForwardingInv, OnePlace, Apart
      <4>2. Waiting(q)
        BY <4>1, <2>2
      <4> QED
        BY <3>2, <4>2 DEF ForwardingInv, OnePlace, OneWaiter
    <3>3. CASE Taken(p)
      <4>1. ~Travels(q) /\ ~Waiting(q)
        BY <3>3 DEF ForwardingInv, OnePlace, Apart
      <4>2. Taken(q)
        BY <4>1, <2>2
      <4> QED
        BY <3>3, <4>2 DEF ForwardingInv, OnePlace, OneCapture
    <3> QED
      BY <2>2, <3>1, <3>2, <3>3
  <2>4. CASE Carriers(k) = {}
    BY <2>4, FS_EmptySet
  <2>5. CASE Carriers(k) # {}
    <3>1. PICK p \in Carriers(k) : TRUE
      BY <2>5
    <3>2. Carriers(k) = {p}
      BY <2>3, <3>1
    <3>3. Cardinality({p}) = 1
      BY FS_Singleton
    <3> QED
      BY <3>2, <3>3
  <2> QED
    BY <2>4, <2>5
<1> QED
  BY <1>1, ForwardingSafe, PTL

\* ICMP errors come from the interface on the LAN where the packet arrived,
\* also those of the sweeper, and echo replies from the address asked.
THEOREM SourcesTrue == Spec => []TruthfulSource
<1>1. ForwardingInv => TruthfulSource
  <2> SUFFICES ASSUME ForwardingInv, NEW k \in Ids, NEW p \in Carriers(k)
               PROVE  /\ p.kind \in Reporting =>
                            \E r \in Routers : \E c \in IfList(r) :
                                Lan[c] = p.via /\ Ip[c] = p.src
                      /\ p.kind = "reply" => p.src = Answered(k).dst /\ p.dst = Answered(k).src
    BY DEF TruthfulSource, Reporting
  <2>1. /\ Range(waiting) = {waiting[r] : r \in Routers}
        /\ Range(captured) = {captured[h] : h \in Hosts}
    BY DEF ForwardingInv, TypeInv, TypeOK, Range
  <2>2. Truthful(p) /\ p.about = k
    BY <2>1 DEF Carriers, ForwardingInv, AllTruthful
  <2>3. PICK q \in asked : /\ q.id = k
                           /\ p.kind = "reply" => p.src = q.dst /\ p.dst = q.src
    BY <2>2 DEF Truthful
  <2>4. Answered(k) = q
    BY <2>3 DEF Answered, ForwardingInv, AskedOnce
  <2> QED
    BY <2>2, <2>3, <2>4 DEF Truthful
<1> QED
  BY <1>1, ForwardingSafe, PTL

----------------------------------------------------------------------------
(***************************************************************************)
(* Nothing is lost.  sr_send_packet puts a frame on a LAN; whether a       *)
(* machine takes it is another matter.  An answer reaches the sender of    *)
(* the frame it answers, which is on the LAN the frame came from; a packet *)
(* that is forwarded needs a mapping to a card on the LAN of the route.    *)
(***************************************************************************)
OnLan(f) ==
    /\ f.shost \in Cards \ {f.to} /\ Lan[f.shost] = Lan[f.to]
    /\ IsIp(f) => f.dhost = f.to

\* Only a card itself answers for its address.
Linked(f) ==
    /\ OnLan(f)
    /\ ~IsIp(f) /\ f.body.op = "reply" => f.body.sha = f.shost /\ f.body.sip = Ip[f.shost]

LinkInv ==
    /\ \A f \in frames : Linked(f)
    /\ \A r \in Routers : /\ \A w \in waiting[r] : OnLan(w.frame)
                          /\ \A entry \in arp[r] : entry.ip = Ip[entry.mac]

\* A frame of s carries what became of packet k.
Carries(s, k) == \E g \in s : IsIp(g) /\ g.body.about = k

LEMMA SentLinked ==
    ASSUME NEW c \in Cards, NEW dhost \in Cards \cup {Broadcast}, NEW body \in Packet \cup Arp,
           body \in Packet => dhost \in Cards,
           body \in Arp /\ body.op = "reply" => body.sha = c /\ body.sip = Ip[c]
    PROVE  \A g \in sr_send_packet(c, dhost, body) : Linked(g)
<1> SUFFICES ASSUME NEW g \in sr_send_packet(c, dhost, body) PROVE Linked(g)
  OBVIOUS
<1>1. PICK d \in Cards \ {c} : /\ Lan[d] = Lan[c] /\ dhost \in {d, Broadcast}
                               /\ g = [to |-> d, shost |-> c, dhost |-> dhost, body |-> body]
  BY DEF sr_send_packet
<1>2. g.to = d /\ g.shost = c /\ g.dhost = dhost /\ g.body = body
  BY <1>1
<1>3. /\ IsIp(g) => body \in Packet
      /\ ~IsIp(g) => body \in Arp
  BY <1>2, BodyFacts DEF IsIp
<1>4. dhost \in Cards => dhost = d
  BY <1>1, CardFacts
<1>5. OnLan(g)
  BY <1>1, <1>2, <1>3, <1>4 DEF OnLan
<1> QED
  BY <1>2, <1>3, <1>5 DEF Linked

\* A packet sent to another card of the LAN is taken by it.
LEMMA SentArrives ==
    ASSUME NEW c \in Cards, NEW d \in Cards \ {c}, Lan[d] = Lan[c], NEW body \in Packet
    PROVE  /\ \A g \in sr_send_packet(c, d, body) : Linked(g)
           /\ Carries(sr_send_packet(c, d, body), body.about)
<1> DEFINE g == [to |-> d, shost |-> c, dhost |-> d, body |-> body]
<1>1. g \in sr_send_packet(c, d, body)
  BY DEF sr_send_packet
<1>2. "ttl" \in DOMAIN body
  BY BodyFacts
<1>3. IsIp(g) /\ g.body.about = body.about
  BY <1>2 DEF IsIp
<1>4. ~(body \in Arp)
  BY <1>2, BodyFacts
<1>5. \A h \in sr_send_packet(c, d, body) : Linked(h)
  BY <1>4, SentLinked
<1> QED
  BY <1>1, <1>3, <1>5 DEF Carries

\* An answer to frame f arrives at the machine f came from.
LEMMA AnswerArrives ==
    ASSUME NEW f \in Frame, IsIp(f), Linked(f), NEW kind \in {"reply"} \cup Errors,
           NEW dest \in SUBSET Cards
    PROVE  /\ \A g \in Answer(f, kind, dest) : Linked(g)
           /\ Carries(Answer(f, kind, dest), f.body.about)
<1> DEFINE q == Fabricated(f.body, kind, f.to, dest, Lan[f.to])
<1>1. f.to \in Cards /\ f.shost \in Cards \ {f.to} /\ Lan[f.shost] = Lan[f.to] /\ f.body \in Packet
      /\ Lan[f.to] \in Nat
  BY FrameFacts, CardFacts DEF Linked, OnLan
<1>2. q \in Packet /\ q.about = f.body.about
  BY <1>1, FabricatedFacts
<1> HIDE DEF q
<1>3. Answer(f, kind, dest) = sr_send_packet(f.to, f.shost, q)
  BY DEF Answer, q
<1> QED
  BY <1>1, <1>2, <1>3, SentArrives

\* A card with the address of the next hop is on the LAN of the route.
LEMMA NextHopFacts ==
    ASSUME TypeOK, NEW r \in Routers, NEW ip, best_match(r, ip) # NoRoute,
           NEW c \in Cards, Ip[c] = best_match(r, ip).gw
    PROVE  Lan[c] = Lan[best_match(r, ip).interface] /\ c # best_match(r, ip).interface
<1> DEFINE table == routing_table[r]
<1>1. table \in Seq(Route(r)) /\ NoRoute \notin Route(r) /\ table \in Tables[r]
  BY ForwardingAssumption DEF TypeOK
<1>2. \A i \in 1..Len(table) : \E length \in 0..Width : table[i].mask = 1..length
  BY PrefixAssumption DEF TypeOK
<1>3. \A i \in 1..Len(table) : Ip[c] = table[i].gw =>
          Lan[c] = Lan[table[i].interface] /\ c # table[i].interface
  BY <1>1, NextHopAssumption
<1> HIDE DEF table
<1>4. Found(table, ip, Search(table, ip)[Len(table)], Len(table))
  BY <1>1, <1>2, SearchFinds
<1>5. best_match(r, ip) = Search(table, ip)[Len(table)]
  BY DEF best_match, table
<1>6. PICK i \in 1..Len(table) : best_match(r, ip) = table[i]
  BY <1>4, <1>5 DEF Found
<1> QED
  BY <1>3, <1>6

\* What a router sends for a packet it does not queue arrives, and it sends
\* something unless the packet is broken or for this router.
LEMMA LinkIp ==
    ASSUME TypeInv, LinkInv, NEW r \in Routers, NEW f \in frames,
           Discard(r, f) \/ AnswerForMe(r, f) \/ Refuse(r, f) \/ Forward(r, f)
    PROVE  /\ IsIp(f) /\ Node[f.to] = r
           /\ \E s : /\ Exchange(f, s) /\ \A g \in s : Linked(g)
                     /\ \/ Carries(s, f.body.about)
                        \/ ~f.body.intact \/ f.body.dst \in Mine(r)
           /\ UNCHANGED <<routing_table, arp, waiting, captured, asked>>
<1>1. /\ f \in Frame /\ Linked(f)
      /\ IsIp(f) /\ Node[f.to] = r
      /\ UNCHANGED <<routing_table, arp, waiting, captured, asked>>
  BY DEF TypeInv, TypeOK, LinkInv, Discard, AnswerForMe, Refuse, Forward, ForMe, ToForward, TakesIp
<1>2. dest_intf(r, f) \in SUBSET Cards /\ {} \in SUBSET Cards
  BY DEF dest_intf, IfList
<1>3. dest_intf(r, f) # {} => f.body.dst \in Mine(r)
  BY DEF dest_intf, Mine
<1>4. CASE Discard(r, f)
  <2>1. ~f.body.intact \/ f.body.dst \in Mine(r)
    BY <1>3, <1>4 DEF Discard, ForMe
  <2>2. Exchange(f, {})
    BY <1>4 DEF Discard
  <2> QED
    BY <1>1, <2>1, <2>2
<1>5. CASE AnswerForMe(r, f)
  <2>1. f.body.dst \in Mine(r)
    BY <1>3, <1>5 DEF AnswerForMe, ForMe
  <2>2. \/ Exchange(f, Answer(f, "reply", dest_intf(r, f)))
        \/ Exchange(f, Answer(f, "port", dest_intf(r, f)))
    BY <1>5 DEF AnswerForMe
  <2> QED
    BY <1>1, <1>2, <2>1, <2>2, AnswerArrives DEF Errors
<1>6. CASE Refuse(r, f)
  <2>1. Exchange(f, Answer(f, "expired", {})) \/ Exchange(f, Answer(f, "net", {}))
    BY <1>6 DEF Refuse
  <2> QED
    BY <1>1, <1>2, <2>1, AnswerArrives DEF Errors
<1>7. CASE Forward(r, f)
  <2> DEFINE rt == best_match(r, f.body.dst)
             q == Aged(f.body)
  <2>1. f.body \in Packet /\ Alive(f.body) /\ rt # NoRoute
    BY <1>1, <1>7, FrameFacts DEF Forward
  <2>2. PICK entry \in arp[r] : entry.ip = rt.gw /\ Exchange(f, sr_send_packet(rt.interface, entry.mac, q))
    BY <1>7 DEF Forward
  <2>3. entry.mac \in Cards /\ entry.ip = Ip[entry.mac]
    BY DEF TypeInv, TypeOK, LinkInv
  <2>4. rt.interface \in Cards
    BY <2>1, RouteFacts DEF TypeInv
  <2>5. Lan[entry.mac] = Lan[rt.interface] /\ entry.mac # rt.interface
    <3>1. TypeOK /\ Ip[entry.mac] = rt.gw
      BY <2>2, <2>3 DEF TypeInv
    <3> QED
      BY <2>1, <2>3, <3>1, NextHopFacts
  <2>6. q \in Packet /\ q.about = f.body.about
    BY <2>1, AgedFacts
  <2> HIDE DEF rt, q
  <2>7. /\ \A g \in sr_send_packet(rt.interface, entry.mac, q) : Linked(g)
        /\ Carries(sr_send_packet(rt.interface, entry.mac, q), f.body.about)
    BY <2>3, <2>4, <2>5, <2>6, SentArrives
  <2> QED
    BY <1>1, <2>2, <2>7
<1> QED
  BY <1>4, <1>5, <1>6, <1>7

\* A packet that is queued is in the queue, in a frame that came on its LAN.
LEMMA LinkEnqueue ==
    ASSUME TypeInv, LinkInv, NEW r \in Routers, NEW f \in frames, Enqueue(r, f)
    PROVE  /\ \E w : /\ OnLan(w.frame) /\ w.frame.body.about = f.body.about
                     /\ waiting' = [waiting EXCEPT ![r] = @ \cup {w}]
           /\ \E s : Exchange(f, s) /\ \A g \in s : Linked(g)
           /\ UNCHANGED <<routing_table, arp, captured, asked>>
<1> DEFINE rt == best_match(r, f.body.dst)
           w == [hop |-> rt.gw, iface |-> rt.interface,
                 frame |-> [f EXCEPT !.body = Aged(f.body)]]
           request == [op |-> "request", sip |-> Ip[rt.interface],
                       sha |-> rt.interface, tip |-> rt.gw]
<1>1. f \in Frame /\ Linked(f) /\ IsIp(f) /\ Alive(f.body) /\ rt # NoRoute
  BY DEF TypeInv, TypeOK, LinkInv, Enqueue, ToForward, TakesIp
<1>2. f.body \in Packet
  BY <1>1, FrameFacts
<1>3. w.frame.body.about = f.body.about
  <2>1. w.frame.body = Aged(f.body)
    BY <1>1 DEF Frame
  <2> QED
    BY <1>1, <1>2, <2>1, AgedFacts
<1>4. OnLan(w.frame)
  BY <1>1 DEF Frame, Linked, OnLan
<1>5. rt.interface \in Cards /\ rt.gw \in IPs
  BY <1>1, RouteFacts DEF TypeInv
<1>6. waiting' = [waiting EXCEPT ![r] = @ \cup {w}]
  BY DEF Enqueue
<1>7. Exchange(f, sr_send_packet(rt.interface, Broadcast, request)) \/ Exchange(f, {})
  BY DEF Enqueue
<1>8. \A g \in sr_send_packet(rt.interface, Broadcast, request) : Linked(g)
  <2>1. request \in Arp
    BY <1>5, CardFacts DEF Arp
  <2>2. request.op # "reply" /\ request \notin Packet
    BY <2>1, BodyFacts
  <2> HIDE DEF request
  <2> QED
    BY <1>5, <2>1, <2>2, SentLinked
<1>9. UNCHANGED <<routing_table, arp, captured, asked>>
  BY DEF Enqueue
<1> HIDE DEF w, request, rt
<1> QED
  <2>1. \E v : /\ OnLan(v.frame) /\ v.frame.body.about = f.body.about
               /\ waiting' = [waiting EXCEPT ![r] = @ \cup {v}]
    BY <1>3, <1>4, <1>6
  <2>2. \E s : Exchange(f, s) /\ \A g \in s : Linked(g)
    BY <1>7, <1>8
  <2> QED
    BY <2>1, <2>2, <1>9

\* An ARP reply comes from the card that has the address, and the frames that
\* waited for it go to that card.
LEMMA LinkReply ==
    ASSUME TypeInv, LinkInv, NEW r \in Routers, NEW f \in frames, TakeArpReply(r, f)
    PROVE  /\ ~IsIp(f)
           /\ \A q \in Routers : \A entry \in arp'[q] : entry.ip = Ip[entry.mac]
           /\ waiting' = [waiting EXCEPT ![r] = @ \ Waits(r, f.body.sip)]
           /\ \E s : /\ Exchange(f, s) /\ \A g \in s : Linked(g)
                     /\ \A w \in Waits(r, f.body.sip) : Carries(s, w.frame.body.about)
           /\ UNCHANGED <<routing_table, captured, asked>>
<1> DEFINE W == Waits(r, f.body.sip)
           send(w) == sr_send_packet(f.to, f.body.sha, w.frame.body)
           s == UNION {send(w) : w \in W}
<1>1. f \in Frame /\ Linked(f) /\ ~IsIp(f) /\ f.body.op = "reply"
  BY DEF TypeInv, TypeOK, LinkInv, TakeArpReply, TakesArp
<1>2. /\ f.to \in Cards /\ f.body.sha \in Cards \ {f.to} /\ Lan[f.body.sha] = Lan[f.to]
      /\ f.body.sip = Ip[f.body.sha]
  BY <1>1, FrameFacts DEF Linked, OnLan
<1>3. \A q \in Routers : \A entry \in arp'[q] : entry.ip = Ip[entry.mac]
  <2>1. arp' = [arp EXCEPT ![r] = @ \cup {[ip |-> f.body.sip, mac |-> f.body.sha]}]
    BY DEF TakeArpReply
  <2> QED
    BY <1>2, <2>1 DEF LinkInv, TypeInv, TypeOK
<1>4. waiting' = [waiting EXCEPT ![r] = @ \ W]
  <2>1. waiting' = [waiting EXCEPT ![r] = Flushed(r, f.body.sip)]
    BY DEF TakeArpReply
  <2>2. Flushed(r, f.body.sip) = waiting[r] \ W
    BY DEF Flushed, Waits
  <2> QED
    BY <2>1, <2>2
<1>5. Exchange(f, s)
  <2>1. Exchange(f, UNION {send(w) : w \in {w \in waiting[r] : w.hop = f.body.sip}})
    BY DEF TakeArpReply
  <2> QED
    BY <2>1 DEF Waits
<1>6. ASSUME NEW w \in W
      PROVE  (\A g \in send(w) : Linked(g)) /\ Carries(send(w), w.frame.body.about)
  <2>1. w.frame \in Frame /\ IsIp(w.frame)
    BY DEF TypeInv, TypeOK, AddressInv, Waits, Waiter
  <2>2. w.frame.body \in Packet
    BY <2>1, FrameFacts
  <2> QED
    BY <1>2, <2>2, SentArrives
<1>7. \A w \in W : send(w) \subseteq s
  OBVIOUS
<1>8. \A g \in s : Linked(g)
  BY <1>6
<1>9. \A w \in W : Carries(s, w.frame.body.about)
  BY <1>6, <1>7 DEF Carries
<1>10. UNCHANGED <<routing_table, captured, asked>>
  BY DEF TakeArpReply
<1> HIDE DEF s
<1> QED
  BY <1>1, <1>3, <1>4, <1>5, <1>8, <1>9, <1>10

\* The interface a waiting frame came to is found by its address, and the
\* report reaches the machine that sent the frame there.
LEMMA LinkGiveUp ==
    ASSUME TypeInv, LinkInv, NEW r \in Routers, NEW hop, GiveUp(r, hop)
    PROVE  /\ waiting' = [waiting EXCEPT ![r] = @ \ Waits(r, hop)]
           /\ \E s : /\ frames' = frames \cup s /\ \A g \in s : Linked(g)
                     /\ \A w \in Waits(r, hop) : Carries(s, w.frame.body.about)
           /\ UNCHANGED <<routing_table, arp, captured, asked>>
<1> DEFINE W == Waits(r, hop)
           s == UNION {Report(r, w) : w \in W}
<1>1. waiting' = [waiting EXCEPT ![r] = @ \ W]
  BY DEF GiveUp, Waits
<1>2. frames' = frames \cup s
  <2>1. frames' = frames \cup UNION {Report(r, w) : w \in {w \in waiting[r] : w.hop = hop}}
    BY DEF GiveUp
  <2> QED
    BY <2>1 DEF Waits
<1>3. ASSUME NEW w \in W
      PROVE  (\A g \in Report(r, w) : Linked(g)) /\ Carries(Report(r, w), w.frame.body.about)
  <2> DEFINE c == w.frame.to
             q == Fabricated(w.frame.body, "host", c, {}, Lan[w.frame.to])
  <2>1. /\ w \in waiting[r] /\ w.frame \in Frame /\ IsIp(w.frame) /\ Node[c] = r
        /\ OnLan(w.frame)
    BY DEF TypeInv, TypeOK, AddressInv, LinkInv, Waits, Waiter
  <2>2. /\ c \in Cards /\ w.frame.body \in Packet /\ Lan[c] \in Nat
        /\ w.frame.shost \in Cards \ {c} /\ Lan[w.frame.shost] = Lan[c] /\ w.frame.dhost = c
    BY <2>1, FrameFacts, CardFacts DEF OnLan
  <2>3. ReportInterface(r, w) = {c}
    BY <2>1, <2>2 DEF ReportInterface, IfList
  <2>4. q \in Packet /\ q.about = w.frame.body.about
    BY <2>2, FabricatedFacts DEF Errors
  <2>5. Report(r, w) = sr_send_packet(c, w.frame.shost, q)
    BY <2>3 DEF Report
  <2> HIDE DEF c, q
  <2> QED
    BY <2>2, <2>4, <2>5, SentArrives
<1>4. \A w \in W : Report(r, w) \subseteq s
  OBVIOUS
<1>5. \A g \in s : Linked(g)
  BY <1>3
<1>6. \A w \in W : Carries(s, w.frame.body.about)
  BY <1>3, <1>4 DEF Carries
<1>7. UNCHANGED <<routing_table, arp, captured, asked>>
  BY DEF GiveUp
<1> HIDE DEF s
<1> QED
  BY <1>1, <1>2, <1>5, <1>6, <1>7

\* Whoever answers an ARP request answers for the card it came to.
LEMMA LinkArpAnswer ==
    ASSUME NEW f \in Frame, ~IsIp(f), Linked(f)
    PROVE  \A g \in sr_send_packet(f.to, f.shost, ArpAnswer(f)) : Linked(g)
<1>1. f.to \in Cards /\ f.shost \in Cards
  BY FrameFacts
<1>2. ArpAnswer(f) \in Arp
  BY ArpAnswerType
<1>3. ArpAnswer(f).sha = f.to /\ ArpAnswer(f).sip = Ip[f.to]
  BY DEF ArpAnswer
<1> QED
  BY <1>1, <1>2, <1>3, SentLinked

LEMMA LinkArp ==
    ASSUME TypeInv, LinkInv, NEW r \in Routers, NEW f \in frames, AnswerArp(r, f)
    PROVE  /\ ~IsIp(f)
           /\ \E s : Exchange(f, s) /\ \A g \in s : Linked(g)
           /\ UNCHANGED <<routing_table, arp, waiting, captured, asked>>
<1>1. f \in Frame /\ ~IsIp(f) /\ Linked(f)
  BY DEF TypeInv, TypeOK, LinkInv, AnswerArp, TakesArp
<1>2. Exchange(f, sr_send_packet(f.to, f.shost, ArpAnswer(f))) \/ Exchange(f, {})
  BY DEF AnswerArp
<1>3. UNCHANGED <<routing_table, arp, waiting, captured, asked>>
  BY DEF AnswerArp
<1> QED
  BY <1>1, <1>2, <1>3, LinkArpAnswer

LEMMA LinkHost ==
    ASSUME TypeInv, LinkInv, NEW h \in Hosts, NEW f \in frames, HostTakes(h, f)
    PROVE  /\ Node[f.to] = h
           /\ \E s : Exchange(f, s) /\ \A g \in s : Linked(g)
           /\ captured' = captured \/ captured' = [captured EXCEPT ![h] = @ \cup {f.body}]
           /\ UNCHANGED <<routing_table, arp, waiting, asked>>
<1>1. f \in Frame /\ Linked(f) /\ Node[f.to] = h /\ UNCHANGED <<routing_table, arp, waiting, asked>>
  BY DEF TypeInv, TypeOK, LinkInv, HostTakes
<1>2. CASE IsIp(f)
  <2>1. /\ Exchange(f, {})
        /\ captured' = [captured EXCEPT ![h] = IF f.body.dst = Ip[f.to] THEN @ \cup {f.body} ELSE @]
    BY <1>2 DEF HostTakes
  <2>2. captured' = captured \/ captured' = [captured EXCEPT ![h] = @ \cup {f.body}]
    BY <2>1 DEF TypeInv, TypeOK
  <2> QED
    BY <1>1, <2>1, <2>2
<1>3. CASE ~IsIp(f)
  <2>1. /\ captured' = captured
        /\ Exchange(f, sr_send_packet(f.to, f.shost, ArpAnswer(f))) \/ Exchange(f, {})
    BY <1>3 DEF HostTakes
  <2> QED
    BY <1>1, <1>3, <2>1, LinkArpAnswer
<1> QED
  BY <1>2, <1>3

LEMMA LinkAsk ==
    ASSUME TypeInv, NEW q \in Traffic, Ask(q)
    PROVE  /\ \E s : frames' = frames \cup s /\ \A g \in s : Linked(g)
           /\ UNCHANGED <<routing_table, arp, waiting, captured>>
<1> DEFINE c == CHOOSE d \in Cards : Node[d] = q.by
           p == [src |-> Ip[c], dst |-> q.dst, ttl |-> q.ttl, kind |-> q.kind,
                 intact |-> q.intact, sum |-> q.sum, id |-> q.id, about |-> q.id,
                 via |-> Lan[c]]
<1>1. /\ q.by \in Hosts /\ q.id \in Ids /\ q.kind \in {"data", "echo"} /\ q.dst \in IPs
      /\ q.ttl \in Nat /\ q.intact \in BOOLEAN /\ q.sum \in BOOLEAN
  BY ForwardingAssumption
<1>2. c \in Cards /\ Gateway[q.by] \in Cards
  BY <1>1, CardFacts
<1> HIDE DEF c
<1>3. p \in Packet
  BY <1>1, <1>2, CardFacts DEF Packet
<1>4. /\ frames' = frames \cup sr_send_packet(c, Gateway[q.by], p)
      /\ UNCHANGED <<routing_table, arp, waiting, captured>>
  BY DEF Ask, c
<1>5. p \notin Arp
  BY <1>3, BodyFacts
<1> HIDE DEF p
<1>6. \A g \in sr_send_packet(c, Gateway[q.by], p) : Linked(g)
  BY <1>2, <1>3, <1>5, SentLinked
<1> QED
  BY <1>4, <1>6

\* Packet k, or what it became, is somewhere.
Queued(k) == \E r \in Routers : \E w \in waiting[r] : w.frame.body.about = k
Taken(k) == \E h \in Hosts : \E p \in captured[h] : p.about = k
Present(k) == Carries(frames, k) \/ Queued(k) \/ Taken(k)

LEMMA PresentIs == TypeOK => \A k \in Ids : Carriers(k) # {} <=> Present(k)
<1> SUFFICES ASSUME TypeOK, NEW k \in Ids PROVE Carriers(k) # {} <=> Present(k)
  OBVIOUS
<1>1. DOMAIN waiting = Routers /\ DOMAIN captured = Hosts
  BY DEF TypeOK
<1>2. {f.body : f \in {f \in frames : IsIp(f) /\ f.body.about = k}} # {} <=> Carries(frames, k)
  BY DEF Carries
<1>3. {w.frame.body : w \in {w \in UNION Range(waiting) : w.frame.body.about = k}} # {} <=> Queued(k)
  BY <1>1 DEF Queued, Range
<1>4. {p \in UNION Range(captured) : p.about = k} # {} <=> Taken(k)
  BY <1>1 DEF Taken, Range
<1> QED
  BY <1>2, <1>3, <1>4 DEF Carriers, Present

LEMMA LinkExchange ==
    ASSUME LinkInv, NEW f \in frames, NEW s, Exchange(f, s), \A g \in s : Linked(g)
    PROVE  /\ \A g \in frames' : Linked(g)
           /\ \A k : Carries(s, k) => Carries(frames, k)'
           /\ \A k : Carries(frames, k) => Carries(frames, k)' \/ (IsIp(f) /\ f.body.about = k)
  BY DEF LinkInv, Exchange, Carries

LEMMA LinkAdd ==
    ASSUME LinkInv, NEW s, frames' = frames \cup s, \A g \in s : Linked(g)
    PROVE  /\ \A g \in frames' : Linked(g)
           /\ \A k : Carries(s, k) \/ Carries(frames, k) => Carries(frames, k)'
  BY DEF LinkInv, Carries

\* A queue that is flushed or given up, its packets being in s.
LEMMA LinkRelease ==
    ASSUME TypeInv, LinkInv, NEW r \in Routers, NEW hop,
           waiting' = [waiting EXCEPT ![r] = @ \ Waits(r, hop)]
    PROVE  /\ \A q \in Routers : \A w \in waiting'[q] : OnLan(w.frame)
           /\ \A k : Queued(k) => Queued(k)' \/ \E w \in Waits(r, hop) : w.frame.body.about = k
<1>1. /\ \A q \in Routers : waiting'[q] \subseteq waiting[q]
      /\ \A q \in Routers : \A w \in waiting[q] : w \in waiting'[q] \/ (q = r /\ w \in Waits(r, hop))
  BY DEF TypeInv, TypeOK
<1> QED
  BY <1>1 DEF LinkInv, Queued

LEMMA LinkNext ==
    ASSUME TypeInv, LinkInv, [Next]_vars
    PROVE  LinkInv' /\ \A k \in Ids : Present(k) => Present(k)' \/ MayEnd(k)
<1> USE DEF Present
<1>1. ASSUME NEW r \in Routers, NEW f \in frames,
             Discard(r, f) \/ AnswerForMe(r, f) \/ Refuse(r, f) \/ Forward(r, f)
      PROVE  LinkInv' /\ \A k \in Ids : Present(k) => Present(k)' \/ MayEnd(k)
  <2>1. PICK s : /\ Exchange(f, s) /\ \A g \in s : Linked(g)
                 /\ Carries(s, f.body.about) \/ ~f.body.intact \/ f.body.dst \in Mine(r)
    BY <1>1, LinkIp
  <2>2. /\ IsIp(f) /\ Node[f.to] = r
        /\ UNCHANGED <<routing_table, arp, waiting, captured, asked>>
    BY <1>1, LinkIp
  <2>3. LinkInv'
    BY <2>1, <2>2, LinkExchange DEF LinkInv
  <2>4. Carries(s, f.body.about) \/ MayEnd(f.body.about)
    BY <2>1, <2>2 DEF MayEnd
  <2> QED
    BY <2>1, <2>2, <2>3, <2>4, LinkExchange DEF Queued, Taken
<1>2. ASSUME NEW r \in Routers, NEW f \in frames, Enqueue(r, f)
      PROVE  LinkInv' /\ \A k \in Ids : Present(k) => Present(k)' \/ MayEnd(k)
  <2>1. PICK w : /\ OnLan(w.frame) /\ w.frame.body.about = f.body.about
                 /\ waiting' = [waiting EXCEPT ![r] = @ \cup {w}]
    BY <1>2, LinkEnqueue
  <2>2. PICK s : Exchange(f, s) /\ \A g \in s : Linked(g)
    BY <1>2, LinkEnqueue
  <2>3. UNCHANGED <<routing_table, arp, captured, asked>>
    BY <1>2, LinkEnqueue
  <2>4. /\ \A q \in Routers : waiting[q] \subseteq waiting'[q] /\ waiting'[q] \subseteq waiting[q] \cup {w}
        /\ w \in waiting'[r]
    BY <2>1 DEF TypeInv, TypeOK
  <2>5. LinkInv'
    BY <2>1, <2>2, <2>3, <2>4, LinkExchange DEF LinkInv
  <2>6. \A k : Queued(k) \/ k = f.body.about => Queued(k)'
    BY <2>1, <2>4 DEF Queued
  <2> QED
    BY <2>2, <2>3, <2>5, <2>6, LinkExchange DEF Taken
<1>3. ASSUME NEW r \in Routers, NEW f \in frames, TakeArpReply(r, f)
      PROVE  LinkInv' /\ \A k \in Ids : Present(k) => Present(k)' \/ MayEnd(k)
  <2>1. /\ ~IsIp(f) /\ \A q \in Routers : \A entry \in arp'[q] : entry.ip = Ip[entry.mac]
        /\ waiting' = [waiting EXCEPT ![r] = @ \ Waits(r, f.body.sip)]
        /\ UNCHANGED <<routing_table, captured, asked>>
    BY <1>3, LinkReply
  <2>2. PICK s : /\ Exchange(f, s) /\ \A g \in s : Linked(g)
                 /\ \A w \in Waits(r, f.body.sip) : Carries(s, w.frame.body.about)
    BY <1>3, LinkReply
  <2>3. /\ \A q \in Routers : \A w \in waiting'[q] : OnLan(w.frame)
        /\ \A k : Queued(k) => Queued(k)' \/ Carries(s, k)
    <3> DEFINE hop == f.body.sip
    <3>1. waiting' = [waiting EXCEPT ![r] = @ \ Waits(r, hop)]
      BY <2>1
    <3> HIDE DEF hop
    <3>2. /\ \A q \in Routers : \A w \in waiting'[q] : OnLan(w.frame)
          /\ \A k : Queued(k) => Queued(k)' \/ \E w \in Waits(r, hop) : w.frame.body.about = k
      BY <3>1, LinkRelease
    <3> QED
      BY <2>2, <3>2 DEF hop
  <2>4. LinkInv'
    BY <2>1, <2>2, <2>3, LinkExchange DEF LinkInv
  <2> QED
    BY <2>1, <2>2, <2>3, <2>4, LinkExchange DEF Taken
<1>4. ASSUME NEW r \in Routers, NEW hop, GiveUp(r, hop)
      PROVE  LinkInv' /\ \A k \in Ids : Present(k) => Present(k)' \/ MayEnd(k)
  <2>1. /\ waiting' = [waiting EXCEPT ![r] = @ \ Waits(r, hop)]
        /\ UNCHANGED <<routing_table, arp, captured, asked>>
    BY <1>4, LinkGiveUp
  <2>2. PICK s : /\ frames' = frames \cup s /\ \A g \in s : Linked(g)
                 /\ \A w \in Waits(r, hop) : Carries(s, w.frame.body.about)
    BY <1>4, LinkGiveUp
  <2>3. /\ \A q \in Routers : \A w \in waiting'[q] : OnLan(w.frame)
        /\ \A k : Queued(k) => Queued(k)' \/ Carries(s, k)
    BY <2>1, <2>2, LinkRelease
  <2>4. LinkInv'
    BY <2>1, <2>2, <2>3, LinkAdd DEF LinkInv
  <2> QED
    BY <2>1, <2>2, <2>3, <2>4, LinkAdd DEF Taken
<1>5. ASSUME NEW r \in Routers, NEW f \in frames, AnswerArp(r, f)
      PROVE  LinkInv' /\ \A k \in Ids : Present(k) => Present(k)' \/ MayEnd(k)
  <2>1. ~IsIp(f) /\ UNCHANGED <<routing_table, arp, waiting, captured, asked>>
    BY <1>5, LinkArp
  <2>2. PICK s : Exchange(f, s) /\ \A g \in s : Linked(g)
    BY <1>5, LinkArp
  <2>3. LinkInv'
    BY <2>1, <2>2, LinkExchange DEF LinkInv
  <2> QED
    BY <2>1, <2>2, <2>3, LinkExchange DEF Queued, Taken
<1>6. ASSUME NEW h \in Hosts, NEW f \in frames, HostTakes(h, f)
      PROVE  LinkInv' /\ \A k \in Ids : Present(k) => Present(k)' \/ MayEnd(k)
  <2>1. /\ Node[f.to] = h /\ UNCHANGED <<routing_table, arp, waiting, asked>>
        /\ captured' = captured \/ captured' = [captured EXCEPT ![h] = @ \cup {f.body}]
    BY <1>6, LinkHost
  <2>2. PICK s : Exchange(f, s) /\ \A g \in s : Linked(g)
    BY <1>6, LinkHost
  <2>3. LinkInv'
    BY <2>1, <2>2, LinkExchange DEF LinkInv
  <2>4. \A i \in Hosts : captured[i] \subseteq captured'[i]
    BY <2>1 DEF TypeInv, TypeOK
  <2>5. IsIp(f) => MayEnd(f.body.about)
    BY <2>1 DEF MayEnd
  <2> QED
    BY <2>1, <2>2, <2>3, <2>4, <2>5, LinkExchange DEF Queued, Taken
<1>7. ASSUME NEW q \in Traffic, Ask(q)
      PROVE  LinkInv' /\ \A k \in Ids : Present(k) => Present(k)' \/ MayEnd(k)
  <2>1. UNCHANGED <<routing_table, arp, waiting, captured>>
    BY <1>7, LinkAsk
  <2>2. PICK s : frames' = frames \cup s /\ \A g \in s : Linked(g)
    BY <1>7, LinkAsk
  <2>3. LinkInv'
    BY <2>1, <2>2, LinkAdd DEF LinkInv
  <2> QED
    BY <2>1, <2>2, <2>3, LinkAdd DEF Queued, Taken
<1>8. CASE UNCHANGED vars
  BY <1>8 DEF vars, LinkInv, Carries, Queued, Taken
<1> QED
  BY <1>1, <1>2, <1>3, <1>4, <1>5, <1>6, <1>7, <1>8 DEF Next, Handle, Sweep

\* In every network whose next hops are on the LANs of their routes, what a
\* packet became disappears only at a host, at a router it is addressed to, or
\* when its own header is broken, in any order of the routers' steps.
THEOREM NoPacketLost == Spec => NothingLost
<1>1. Init => LinkInv
  BY DEF Init, LinkInv
<1>2. ForwardingInv => TypeInv
  BY DEF ForwardingInv
<1>3. TypeInv /\ LinkInv /\ [Next]_vars => LinkInv'
  BY LinkNext
<1>4. TypeOK' => (\A k \in Ids : Carriers(k) # {} <=> Present(k))'
  BY PresentIs, PTL
<1>5. TypeInv /\ TypeInv' /\ LinkInv /\ [Next]_vars =>
          [\A k \in Ids : Carriers(k) # {} => Carriers(k)' # {} \/ MayEnd(k)]_vars
  BY <1>4, PresentIs, LinkNext DEF TypeInv
<1> QED
  BY <1>1, <1>2, <1>3, <1>5, ForwardingSafe, PTL DEF Spec, NothingLost
=============================================================================
