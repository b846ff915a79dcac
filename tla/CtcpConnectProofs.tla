-------------------------- MODULE CtcpConnectProofs --------------------------
(***************************************************************************)
(* Proofs about CtcpConnect for any number of clients, ports, initial      *)
(* numbers and packets: types, and that what ctcp_receive is given is from *)
(* the other end of its connection, with the numbers it had there.         *)
(***************************************************************************)
EXTENDS CtcpConnect, SequenceTheorems, TLAPS

\* Messages of c that count for its session: a RST names only its sender.
Messages(c) == {p \in ToSet(arrived) : p.of = c /\ p.kind # "rst"}
ConnectionsOf(c) == {conn \in Kept : conn.of = c}

\* c has its port to itself.
Present(c) == c \in Live \/ Messages(c) # {}

OnePresent == \A c, d \in Clients : Present(c) /\ Present(d) /\ port[c] = port[d] => c = d

\* The server has not read the SYN of c.
Unanswered(c) == phase[c] \in {"new", "resets"} \/ \E p \in Messages(c) : p.kind = "syn"

\* Nothing is known of c before its SYN is read.
Unheard(c) ==
    /\ c \notin Live => inbox[c] = <<>>
    /\ Unanswered(c) => /\ c \notin greeted /\ ConnectionsOf(c) = {}
                        /\ \A p \in ToSet(inbox[c]) : p.of # c

\* What c has sent: a SYN with its number, once; segments when connected.
Sent(c) ==
    /\ phase[c] \in {"resets", "handshake"} => init[c] \in InitNumbers /\ c \notin greeted
    /\ \A p \in Messages(c) :
          /\ p.from = port[c] /\ p.kind \in {"syn", "segment"} /\ phase[c] \notin {"new", "resets"}
          /\ p.kind = "segment" => phase[c] # "handshake"
          /\ p.kind = "syn" => /\ p.seq \in InitNumbers
                               /\ phase[c] = "handshake" => p.seq = init[c]

IsSyn(c, p) == p.of = c /\ p.kind = "syn"
SynOnce(c) ==
    \A j, k \in 1..Len(arrived) : IsSyn(c, arrived[j]) /\ IsSyn(c, arrived[k]) => j = k

\* The SYN-ACK for c.
SynAck(c, p) == p.kind = "synack" /\ p.to = port[c]

\* What the host of c has been sent.
Delivered(c) ==
    /\ \A p \in ToSet(inbox[c]) :
          /\ p.kind \in {"synack", "segment"} /\ p.to = port[p.of]
          /\ phase[p.of] \notin {"new", "resets"}
          /\ p.kind = "synack" => p.seq \in InitNumbers
          /\ SynAck(c, p) => p.of = c
    /\ \A j, k \in 1..Len(inbox[c]) :
          SynAck(c, inbox[c][j]) /\ SynAck(c, inbox[c][k]) => j = k

\* The two ends have exchanged their numbers.
Agreed(c) ==
    /\ \A conn \in ConnectionsOf(c) :
          /\ conn.port = port[c]
          /\ phase[c] = "handshake" =>
                /\ conn.their_init = init[c]
                /\ \A p \in ToSet(inbox[c]) : SynAck(c, p) => p.seq = conn.init
          /\ phase[c] = "connected" /\ c \in greeted =>
                conn.their_init = init[c] /\ conn.init = their_init[c]
    /\ phase[c] = "connected" /\ c \in greeted =>
          init[c] \in InitNumbers /\ their_init[c] \in InitNumbers

\* Segments of c have the numbers that its connection expects.
Numbered(c) ==
    c \in greeted => \A p \in Messages(c), conn \in ConnectionsOf(c) :
        p.kind = "segment" => p.seq = conn.their_init + p.seqno /\ p.ack = conn.init + p.ackno

\* The connection of c is the newest one of its port.
Newest(c) ==
    Present(c) => \A j, k \in 1..Len(connections) :
        connections[k].of = c /\ j < k => connections[j].port # port[c]

\* p has the numbers of a connection to c that the server began with number n.
FollowsUp(c, p, n) == p.seq = n + p.seqno /\ p.ack = init[c] + p.ackno

\* To a client whose port is new, the server sends its SYN-ACK first.
Led(c) ==
    Fresh(c) =>
        /\ phase[c] = "handshake" =>
              /\ \A k \in 1..Len(inbox[c]) :
                    inbox[c][k].to = port[c] /\ inbox[c][k].kind = "segment" =>
                        \E j \in 1..k - 1 : /\ SynAck(c, inbox[c][j])
                                            /\ FollowsUp(c, inbox[c][k], inbox[c][j].seq)
              /\ \A conn \in ConnectionsOf(c) :
                    \E j \in 1..Len(inbox[c]) : SynAck(c, inbox[c][j]) /\ inbox[c][j].seq = conn.init
        /\ phase[c] = "connected" =>
              /\ c \in greeted
              /\ \A p \in ToSet(inbox[c]) :
                    p.to = port[c] /\ p.kind = "segment" => FollowsUp(c, p, their_init[c])

Session(c) == /\ Unheard(c) /\ Sent(c) /\ SynOnce(c) /\ Delivered(c)
              /\ Agreed(c) /\ Numbered(c) /\ Newest(c) /\ Led(c)

ConnectInv ==
    /\ TypeOK /\ OnePresent /\ \A c \in Clients : Session(c)
    /\ ClientHearsItsServer /\ ServerHearsItsClient

----------------------------------------------------------------------------
\* Sequences and numbers

LEMMA Appended ==
    ASSUME NEW S, NEW s \in Seq(S), NEW x \in S
    PROVE  /\ Append(s, x) \in Seq(S) /\ Len(s) \in Nat /\ Len(Append(s, x)) = Len(s) + 1
           /\ \A k \in 1..Len(s) : Append(s, x)[k] = s[k]
           /\ Append(s, x)[Len(s) + 1] = x
           /\ ToSet(Append(s, x)) = ToSet(s) \cup {x}
<1>1. /\ Append(s, x) \in Seq(S) /\ Len(s) \in Nat /\ Len(Append(s, x)) = Len(s) + 1
      /\ \A k \in 1..Len(s) : Append(s, x)[k] = s[k]
      /\ Append(s, x)[Len(s) + 1] = x
  BY AppendProperties, LenProperties
<1>2. DOMAIN Append(s, x) = 1..Len(s) + 1 /\ DOMAIN s = 1..Len(s)
  BY <1>1, LenProperties
<1> QED
  BY <1>1, <1>2 DEF ToSet

LEMMA Taken ==
    ASSUME NEW S, NEW s \in Seq(S), s # <<>>
    PROVE  /\ Head(s) = s[1] /\ Head(s) \in S /\ Head(s) \in ToSet(s)
           /\ Tail(s) \in Seq(S) /\ Len(s) \in Nat \ {0} /\ Len(Tail(s)) = Len(s) - 1
           /\ \A k \in 1..Len(s) - 1 : Tail(s)[k] = s[k + 1]
           /\ ToSet(Tail(s)) \subseteq ToSet(s)
<1>1. /\ Head(s) = s[1] /\ Head(s) \in S
      /\ Tail(s) \in Seq(S) /\ Len(s) \in Nat \ {0} /\ Len(Tail(s)) = Len(s) - 1
      /\ \A k \in 1..Len(s) - 1 : Tail(s)[k] = s[k + 1]
  BY HeadTailProperties, EmptySeq
<1>2. DOMAIN Tail(s) = 1..Len(s) - 1 /\ DOMAIN s = 1..Len(s)
  BY <1>1, LenProperties
<1>3. Head(s) \in ToSet(s)
  BY <1>1, <1>2 DEF ToSet
<1>4. ToSet(Tail(s)) \subseteq ToSet(s)
  <2>1. \A k \in 1..Len(s) - 1 : k + 1 \in 1..Len(s)
    BY <1>1
  <2> QED
    BY <1>1, <1>2, <2>1 DEF ToSet
<1> QED
  BY <1>1, <1>3, <1>4

LEMMA Elements ==
    ASSUME NEW S, NEW s \in Seq(S)
    PROVE  /\ Len(s) \in Nat /\ ToSet(s) \subseteq S
           /\ \A k \in 1..Len(s) : s[k] \in ToSet(s)
           /\ \A x \in ToSet(s) : \E k \in 1..Len(s) : s[k] = x
<1>1. DOMAIN s = 1..Len(s) /\ Len(s) \in Nat
  BY LenProperties
<1> QED
  BY <1>1, ElementOfSeq DEF ToSet

LEMMA NoElements == ToSet(<<>>) = {} /\ Len(<<>>) = 0
  BY DEF ToSet

LEMMA InFront ==
    ASSUME NEW S, NEW s \in Seq(S), NEW x \in S
    PROVE  /\ <<x>> \o s \in Seq(S) /\ Len(<<x>> \o s) = Len(s) + 1
           /\ (<<x>> \o s)[1] = x
           /\ \A k \in 1..Len(s) : (<<x>> \o s)[k + 1] = s[k]
           /\ ToSet(<<x>> \o s) = ToSet(s) \cup {x}
<1> DEFINE v == <<x>> \o s
<1>1. <<x>> \in Seq(S) /\ Len(<<x>>) = 1 /\ <<x>>[1] = x /\ Len(s) \in Nat
  BY LenProperties
<1>2. v \in Seq(S) /\ Len(v) = 1 + Len(s)
      /\ \A i \in 1..1 + Len(s) : v[i] = IF i <= 1 THEN <<x>>[i] ELSE s[i - 1]
  BY <1>1, ConcatProperties
<1> HIDE DEF v
<1>3. v[1] = x
  BY <1>1, <1>2
<1>4. \A k \in 1..Len(s) : v[k + 1] = s[k]
  <2> TAKE k \in 1..Len(s)
  <2>1. k + 1 \in 1..1 + Len(s) /\ ~(k + 1 <= 1) /\ (k + 1) - 1 = k
    BY <1>1
  <2> QED
    BY <1>2, <2>1
<1>5. DOMAIN v = 1..Len(s) + 1 /\ DOMAIN s = 1..Len(s)
  BY <1>1, <1>2, LenProperties
<1>6. ToSet(v) = ToSet(s) \cup {x}
  <2>1. \A i \in 1..Len(s) + 1 : i = 1 \/ (i - 1 \in 1..Len(s) /\ v[i] = s[i - 1])
    BY <1>1, <1>2
  <2>2. 1 \in 1..Len(s) + 1 /\ \A k \in 1..Len(s) : k + 1 \in 1..Len(s) + 1
    BY <1>1
  <2>3. ASSUME NEW y \in ToSet(s) \cup {x} PROVE y \in ToSet(v)
    <3>1. y = x \/ \E k \in 1..Len(s) : y = s[k]
      BY <1>5 DEF ToSet
    <3>2. \E i \in 1..Len(s) + 1 : y = v[i]
      BY <1>3, <1>4, <2>2, <3>1
    <3> QED
      BY <1>5, <3>2 DEF ToSet
  <2>4. ASSUME NEW y \in ToSet(v) PROVE y \in ToSet(s) \cup {x}
    <3>1. PICK i \in 1..Len(s) + 1 : y = v[i]
      BY <1>5 DEF ToSet
    <3>2. y = x \/ \E k \in 1..Len(s) : y = s[k]
      BY <1>3, <2>1, <3>1
    <3> QED
      BY <1>5, <3>2 DEF ToSet
  <2> QED
    BY <2>3, <2>4
<1> QED
  BY <1>1, <1>2, <1>3, <1>4, <1>6 DEF v

\* What is left keeps its order.
LEMMA Removed ==
    ASSUME NEW S, NEW s \in Seq(S), NEW i \in 1..Len(s), NEW v, v = RemoveAt(s, i)
    PROVE  /\ v \in Seq(S) /\ Len(v) = Len(s) - 1
           /\ \A k \in 1..Len(v) : v[k] = IF k < i THEN s[k] ELSE s[k + 1]
<1> DEFINE a == SubSeq(s, 1, i - 1)
           b == SubSeq(s, i + 1, Len(s))
<1>1. Len(s) \in Nat
  BY LenProperties
<1>2. /\ a \in Seq(S) /\ Len(a) = i - 1 /\ \A k \in 1..i - 1 : a[k] = s[k]
  <2>1. \A k \in 1..i - 1 : k \in 1..Len(s)
    BY <1>1
  <2> QED
    BY <1>1, <2>1, SubSeqProperties
<1>3. /\ b \in Seq(S) /\ Len(b) = Len(s) - i /\ \A k \in 1..Len(s) - i : b[k] = s[i + k]
  <2>1. \A k \in i + 1..Len(s) : k \in 1..Len(s)
    BY <1>1
  <2> QED
    BY <1>1, <2>1, SubSeqProperties
<1>4. v = a \o b
  BY DEF RemoveAt
<1> HIDE DEF a, b
<1>5. /\ v \in Seq(S) /\ Len(v) = Len(a) + Len(b)
      /\ \A k \in 1..Len(a) + Len(b) : v[k] = IF k <= Len(a) THEN a[k] ELSE b[k - Len(a)]
  <2>1. /\ a \o b \in Seq(S) /\ Len(a \o b) = Len(a) + Len(b)
        /\ \A k \in 1..Len(a) + Len(b) : (a \o b)[k] = IF k <= Len(a) THEN a[k] ELSE b[k - Len(a)]
    BY <1>2, <1>3, ConcatProperties, Zenon
  <2> QED
    BY <1>4, <2>1
<1>6. Len(v) = Len(s) - 1
  BY <1>1, <1>2, <1>3, <1>5
<1>7. ASSUME NEW k \in 1..Len(v) PROVE v[k] = IF k < i THEN s[k] ELSE s[k + 1]
  <2>1. k \in 1..Len(a) + Len(b)
    BY <1>5
  <2>2. CASE k < i
    <3>1. k <= Len(a) /\ k \in 1..i - 1
      BY <1>2, <2>2
    <3> QED
      BY <1>2, <1>5, <2>1, <2>2, <3>1
  <2>3. CASE ~(k < i)
    <3>1. ~(k <= Len(a)) /\ k - Len(a) \in 1..Len(s) - i /\ i + (k - Len(a)) = k + 1
      BY <1>1, <1>2, <1>6, <2>3
    <3> QED
      BY <1>3, <1>5, <2>1, <2>3, <3>1
  <2> QED
    BY <2>2, <2>3
<1> QED
  BY <1>5, <1>6, <1>7

LEMMA InTcp ==
    ASSUME NEW n \in Int PROVE n % Wrap32 \in Tcp
<1>1. Wrap32 \in Nat \ {0}
  BY ConnectAssumption
<1> QED
  BY <1>1 DEF Tcp

LEMMA NoWrap ==
    ASSUME NEW n \in Nat, n < Wrap32 PROVE n % Wrap32 = n /\ (n + Wrap32) % Wrap32 = n
<1>1. Wrap32 \in Nat \ {0}
  BY ConnectAssumption
<1>2. n % Wrap32 = n
  BY <1>1
<1>3. (n + Wrap32) % Wrap32 = n
  <2>1. (n + Wrap32) % Wrap32 = n + Wrap32 - Wrap32 * ((n + Wrap32) \div Wrap32)
    BY <1>1
  <2>2. (n + Wrap32) \div Wrap32 = 1
    BY <1>1
  <2> QED
    BY <1>1, <2>1, <2>2
<1> QED
  BY <1>2, <1>3

\* The numbers of a session do not wrap, and come back as they were.
LEMMA Translated ==
    ASSUME NEW i \in InitNumbers, NEW n \in Ctcp
    PROVE  i + n \in Nat /\ i \in Tcp /\ (i + n) % Wrap32 = i + n /\ ToCtcp(i + n, i) = n
<1>1. /\ i \in Nat /\ n \in Nat /\ MaxNumber \in Nat /\ Wrap32 \in Nat \ {0}
      /\ n <= MaxNumber /\ i + MaxNumber + 1 < Wrap32
  BY ConnectAssumption DEF Ctcp
<1>2. i + n < Wrap32 /\ n < Wrap32 /\ i + n + Wrap32 - i = n + Wrap32 /\ i + n \in Nat /\ i \in Tcp
  BY <1>1 DEF Tcp
<1> QED
  BY <1>1, <1>2, NoWrap DEF ToCtcp

\* Packets

Ends == Ports \cup {ServerPort}

LEMMA PlainPacket ==
    ASSUME NEW kind \in {"syn", "synack", "segment", "rst"}, NEW from \in Ends, NEW to \in Ends,
           NEW seq \in Tcp, NEW ack \in Tcp, NEW c \in Clients, NEW p,
           p = Plain(kind, from, to, seq, ack, c)
    PROVE  /\ p \in Packets /\ p.kind = kind /\ p.from = from /\ p.to = to /\ p.seq = seq
           /\ p.ack = ack /\ p.of = c /\ p.seqno = 1 /\ p.ackno = 1
<1>1. 1 \in Ctcp
  BY ConnectAssumption DEF Ctcp
<1> QED
  BY <1>1 DEF Plain, Packets, Ends

LEMMA SegmentTyped ==
    ASSUME NEW from \in Ends, NEW to \in Ends, NEW mine \in Tcp, NEW theirs \in Tcp,
           NEW c \in Clients, NEW s \in Ctcp, NEW a \in Ctcp
    PROVE  convert_to_datagram(from, to, mine, theirs, c, s, a) \in Packets
<1>1. mine + s \in Int /\ theirs + a \in Int
  BY DEF Tcp, Ctcp
<1>2. ToTcp(s, mine, theirs) \in Tcp /\ ToTcp(a, theirs, mine) \in Tcp
  BY <1>1, InTcp DEF ToTcp
<1> QED
  BY <1>2 DEF convert_to_datagram, Packets, Ends

LEMMA SegmentPacket ==
    ASSUME NEW from \in Ends, NEW to \in Ends, NEW mine \in Tcp, NEW theirs \in Tcp,
           NEW c \in Clients, NEW s \in Ctcp, NEW a \in Ctcp, NEW p,
           p = convert_to_datagram(from, to, mine, theirs, c, s, a)
    PROVE  /\ p \in Packets /\ p.kind = "segment" /\ p.from = from /\ p.to = to
           /\ p.of = c /\ p.seqno = s /\ p.ackno = a
           /\ mine \in InitNumbers /\ theirs \in InitNumbers => p.seq = mine + s /\ p.ack = theirs + a
<1>3. /\ p.kind = "segment" /\ p.from = from /\ p.to = to
      /\ p.of = c /\ p.seqno = s /\ p.ackno = a
      /\ p.seq = ToTcp(s, mine, theirs) /\ p.ack = ToTcp(a, theirs, mine)
  BY DEF convert_to_datagram
<1>4. p \in Packets
  BY SegmentTyped
<1>5. ASSUME mine \in InitNumbers, theirs \in InitNumbers
      PROVE  p.seq = mine + s /\ p.ack = theirs + a
  BY <1>3, <1>5, Translated DEF ToTcp
<1> QED
  BY <1>3, <1>4, <1>5

LEMMA NumbersInTcp == InitNumbers \subseteq Tcp /\ 0 \in Tcp /\ 1 \in Ctcp
  BY ConnectAssumption DEF Tcp, Ctcp

LEMMA Sockets ==
    ASSUME TypeOK, NEW p \in Packets
    PROVE  /\ ToServer(p) => arrived' \in Seq(Packets) /\ ToSet(arrived') \subseteq ToSet(arrived) \cup {p}
           /\ ToClients(p) => inbox' \in [Clients -> Seq(Packets)]
<1>1. arrived \in Seq(Packets) /\ inbox \in [Clients -> Seq(Packets)]
  BY DEF TypeOK
<1>2. ToServer(p) => arrived' \in Seq(Packets) /\ ToSet(arrived') \subseteq ToSet(arrived) \cup {p}
  BY <1>1, Appended DEF ToServer
<1>3. ToClients(p) => inbox' \in [Clients -> Seq(Packets)]
  <2>1. \A d \in Clients : Append(inbox[d], p) \in Seq(Packets) /\ <<>> \in Seq(Packets)
    BY <1>1, Appended, EmptySeq
  <2> QED
    BY <2>1 DEF ToClients
<1> QED
  BY <1>2, <1>3

LEMMA InboxRead ==
    ASSUME TypeOK, NEW c \in Clients, inbox[c] # <<>>, inbox' = [inbox EXCEPT ![c] = Tail(@)]
    PROVE  /\ inbox' \in [Clients -> Seq(Packets)]
           /\ Head(inbox[c]) \in Packets /\ Head(inbox[c]) \in ToSet(inbox[c])
<1>1. inbox \in [Clients -> Seq(Packets)]
  BY DEF TypeOK
<1> QED
  BY <1>1, Taken

Given == [side : {"client", "server"}, owner : Clients, packet : Packets, seqno : Tcp, ackno : Tcp]

LEMMA Handing ==
    ASSUME NEW side \in {"client", "server"}, NEW c \in Clients, NEW p \in Packets,
           NEW mine \in Tcp, NEW theirs \in Tcp, Hand(side, c, p, mine, theirs)
    PROVE  handed' \subseteq Given
<1>1. p.seq + Wrap32 - theirs \in Int /\ p.ack + Wrap32 - mine \in Int
  BY ConnectAssumption DEF Packets, Tcp
<1> QED
  BY <1>1, InTcp DEF Hand, Given, ToCtcp

----------------------------------------------------------------------------
\* Types

LEMMA ClientType ==
    ASSUME TypeOK, NEW c \in Clients, ClientNext(c) PROVE TypeOK'
<1> USE NumbersInTcp DEF Go, Nothing, serverVars, clientVars, In
<1>0. /\ port[c] \in Ports /\ init[c] \in Tcp /\ their_init[c] \in Tcp
      /\ port[c] \in Ends /\ ServerPort \in Ends
  BY DEF TypeOK, Ends
<1>1. CASE Start(c)
  BY <1>1 DEF Start, TypeOK
<1>2. CASE send_resets(c)
  <2>1. PICK p : p = Head(inbox[c])
    OBVIOUS
  <2>2. p \in Packets /\ inbox' \in [Clients -> Seq(Packets)]
    BY <1>2, <2>1, InboxRead DEF send_resets
  <2>3. /\ p.to \in Ends /\ p.from \in Ends /\ p.ack \in Tcp
    BY <2>2 DEF Packets, Ends
  <2>4. Plain("rst", p.to, p.from, p.ack, 0, c) \in Packets
    BY <2>3, PlainPacket
  <2>5. arrived' \in Seq(Packets)
    BY <1>2, <2>1, <2>4, Sockets DEF send_resets, TypeOK
  <2> QED
    BY <1>2, <2>1, <2>2, <2>5 DEF send_resets, TypeOK
<1>3. CASE SendSyn(c)
  <2>1. Plain("syn", port[c], ServerPort, init[c], 0, c) \in Packets
    BY <1>0, PlainPacket
  <2>2. arrived' \in Seq(Packets)
    BY <1>3, <2>1, Sockets DEF SendSyn
  <2> QED
    BY <1>3, <2>2 DEF SendSyn, TypeOK
<1>4. CASE GetSynAck(c)
  <2>1. PICK p : p = Head(inbox[c])
    OBVIOUS
  <2>2. p \in Packets /\ inbox' \in [Clients -> Seq(Packets)]
    BY <1>4, <2>1, InboxRead DEF GetSynAck
  <2>3. /\ p.seq \in Tcp /\ (init[c] + 1) % Wrap32 \in Tcp /\ (p.seq + 1) % Wrap32 \in Tcp
    <3>1. p.seq \in Tcp
      BY <2>2 DEF Packets
    <3>2. init[c] + 1 \in Int /\ p.seq + 1 \in Int
      BY <1>0, <3>1 DEF Tcp
    <3> QED
      BY <3>1, <3>2, InTcp
  <2>4. Plain("segment", port[c], ServerPort, (init[c] + 1) % Wrap32, (p.seq + 1) % Wrap32, c) \in Packets
    BY <1>0, <2>3, PlainPacket
  <2>5. arrived' \in Seq(Packets)
    BY <1>4, <2>1, <2>4, Sockets DEF GetSynAck
  <2> QED
    BY <1>4, <2>1, <2>2, <2>3, <2>5 DEF GetSynAck, TypeOK
<1>5. CASE Continue(c)
  <2>1. PICK p : p = Head(inbox[c])
    OBVIOUS
  <2>2. p \in Packets /\ inbox' \in [Clients -> Seq(Packets)]
    BY <1>5, <2>1, InboxRead DEF Continue
  <2>3. /\ (p.ack + Wrap32 - 1) % Wrap32 \in Tcp /\ (p.seq + Wrap32 - 1) % Wrap32 \in Tcp
    <3>1. p.ack + Wrap32 - 1 \in Int /\ p.seq + Wrap32 - 1 \in Int
      BY <2>2, ConnectAssumption DEF Packets, Tcp
    <3> QED
      BY <3>1, InTcp
  <2> QED
    BY <1>5, <2>1, <2>2, <2>3 DEF Continue, TypeOK
<1>6. CASE Fail(c) \/ End(c)
  <2>1. inbox' \in [Clients -> Seq(Packets)]
    <3>1. inbox \in [Clients -> Seq(Packets)] /\ <<>> \in Seq(Packets)
      BY EmptySeq DEF TypeOK
    <3> QED
      BY <1>6, <3>1 DEF Fail, End, Leave
  <2> QED
    BY <1>6, <2>1 DEF Fail, End, Leave, TypeOK
<1>7. CASE Say(c)
  <2>1. PICK s, a \in Ctcp : ToServer(convert_to_datagram(port[c], ServerPort, init[c], their_init[c], c, s, a))
    BY <1>7 DEF Say
  <2>2. convert_to_datagram(port[c], ServerPort, init[c], their_init[c], c, s, a) \in Packets
    BY <1>0, SegmentTyped
  <2>3. arrived' \in Seq(Packets)
    BY <2>1, <2>2, Sockets
  <2>4. segments' \in 0..MaxSegments
    BY <1>7, ConnectAssumption DEF Say, TypeOK
  <2> QED
    BY <1>7, <2>3, <2>4 DEF Say, TypeOK
<1>8. CASE Hear(c)
  <2>1. PICK p : p = Head(inbox[c])
    OBVIOUS
  <2>2. p \in Packets /\ inbox' \in [Clients -> Seq(Packets)]
    BY <1>8, <2>1, InboxRead DEF Hear
  <2>3. handed' \subseteq Given
    <3>1. CASE Hand("client", c, p, init[c], their_init[c])
      BY <1>0, <2>2, <3>1, Handing
    <3>2. CASE handed' = {}
      BY <3>2
    <3> QED
      BY <1>8, <2>1, <3>1, <3>2 DEF Hear
  <2> QED
    BY <1>8, <2>2, <2>3 DEF Hear, TypeOK, Given
<1> QED
  BY <1>1, <1>2, <1>3, <1>4, <1>5, <1>6, <1>7, <1>8 DEF ClientNext

LEMMA ServerType ==
    ASSUME TypeOK, \A c \in Clients : Sent(c), Serve \/ Answer \/ Drop PROVE TypeOK'
<1> USE NumbersInTcp DEF Nothing, serverVars, clientVars, serverFrame
<1>0. Len(connections) \in Nat /\ <<>> \in Seq(Packets) /\ <<>> \in Seq(Connections) /\ Len(<<>>) = 0
  BY Elements, EmptySeq DEF TypeOK
<1>1. CASE GetRst
  <2>1. num_connected' \in Len(connections')..MaxClients
    BY <1>0, <1>1 DEF GetRst, TypeOK
  <2> QED
    BY <1>0, <1>1, <2>1 DEF GetRst, TypeOK
<1>2. ASSUME Read PROVE /\ arrived' \in Seq(Packets) /\ Head(arrived) \in Packets
                        /\ Head(arrived) \in ToSet(arrived)
  BY <1>2, Taken DEF Read, TypeOK
<1>3. CASE Accept
  <2>1. PICK p : p = Head(arrived)
    OBVIOUS
  <2>2. p \in Packets /\ p \in ToSet(arrived) /\ p.kind = "syn" /\ arrived' \in Seq(Packets)
    BY <1>2, <1>3, <2>1 DEF Accept
  <2>3. p.of \in Clients /\ p.ack \in Tcp /\ p.seq \in Tcp
    BY <2>2 DEF Packets
  <2>4. p.from \in Ports /\ p.seq \in InitNumbers
    <3>1. p \in Messages(p.of)
      BY <2>2 DEF Messages
    <3> QED
      BY <2>2, <2>3, <3>1 DEF Sent, TypeOK
  <2>5. PICK i \in InitNumbers :
             /\ connections' = AddFirst(connections, [port |-> p.from, init |-> i,
                                                      their_init |-> p.seq, of |-> p.of])
             /\ ToClients(Plain("synack", ServerPort, p.from, i, (p.seq + 1) % Wrap32, p.of))
    BY <1>3, <2>1 DEF Accept
  <2>6. connections' \in Seq(Connections) /\ Len(connections') = Len(connections) + 1
    <3>1. [port |-> p.from, init |-> i, their_init |-> p.seq, of |-> p.of] \in Connections
      BY <2>3, <2>4 DEF Connections
    <3>2. connections \in Seq(Connections)
      BY DEF TypeOK
    <3> QED
      BY <2>5, <3>1, <3>2, InFront DEF AddFirst
  <2>7. inbox' \in [Clients -> Seq(Packets)]
    <3>1. (p.seq + 1) % Wrap32 \in Tcp /\ i \in Tcp /\ p.from \in Ends /\ ServerPort \in Ends
      BY <2>3, <2>4, InTcp DEF Tcp, Ends
    <3>2. Plain("synack", ServerPort, p.from, i, (p.seq + 1) % Wrap32, p.of) \in Packets
      BY <2>3, <3>1, PlainPacket
    <3> QED
      BY <2>3, <2>5, <3>2, Sockets
  <2>8. num_connected' \in Len(connections')..MaxClients
    BY <1>0, <1>3, <2>6, ConnectAssumption DEF Accept, HasPlace, TypeOK
  <2> QED
    BY <1>3, <2>1, <2>2, <2>4, <2>6, <2>7, <2>8 DEF Accept, TypeOK
<1>4. CASE Refuse
  BY <1>2, <1>4 DEF Refuse, TypeOK
<1>5. CASE Segment
  <2>1. PICK p : p = Head(arrived)
    OBVIOUS
  <2>2. p \in Packets /\ arrived' \in Seq(Packets)
    BY <1>2, <1>5, <2>1 DEF Segment
  <2>3. handed' \subseteq Given /\ new_connection' \in Ports \cup {0}
    <3>1. CASE Found(p) = {}
      BY <1>5, <2>1, <3>1 DEF Segment, TypeOK
    <3>2. CASE Found(p) # {}
      <4>1. PICK i \in Found(p) :
               \/ new_connection' = 0 /\ handed' = {}
               \/ /\ Hand("server", connections[i].of, p, connections[i].init, connections[i].their_init)
                  /\ UNCHANGED new_connection
        BY <1>5, <2>1, <3>2 DEF Segment
      <4>2. connections[i] \in Connections
        BY Elements DEF Found, TypeOK
      <4>3. connections[i].of \in Clients /\ connections[i].init \in Tcp /\ connections[i].their_init \in Tcp
        BY <4>2 DEF Connections
      <4>4. Hand("server", connections[i].of, p, connections[i].init, connections[i].their_init)
               => handed' \subseteq Given
        BY <2>2, <4>3, Handing
      <4> QED
        BY <4>1, <4>4 DEF TypeOK
    <3> QED
      BY <3>1, <3>2
  <2> QED
    BY <1>5, <2>2, <2>3 DEF Segment, TypeOK, Given
<1>6. CASE Answer
  <2>1. PICK conn \in Kept, s, a \in Ctcp :
          ToClients(convert_to_datagram(ServerPort, conn.port, conn.init, conn.their_init, conn.of, s, a))
    BY <1>6 DEF Answer
  <2>2. conn \in Connections
    BY Elements DEF Kept, TypeOK
  <2>3. /\ conn.port \in Ends /\ ServerPort \in Ends /\ conn.init \in Tcp /\ conn.their_init \in Tcp
        /\ conn.of \in Clients
    BY <2>2 DEF Connections, Ends
  <2>4. convert_to_datagram(ServerPort, conn.port, conn.init, conn.their_init, conn.of, s, a) \in Packets
    BY <2>3, SegmentTyped
  <2>5. inbox' \in [Clients -> Seq(Packets)]
    BY <2>1, <2>3, <2>4, Sockets
  <2>6. segments' \in 0..MaxSegments
    BY <1>6, ConnectAssumption DEF Answer, TypeOK
  <2> QED
    BY <1>6, <2>5, <2>6 DEF Answer, TypeOK
<1>7. CASE Drop
  <2>1. connections \in Seq(Connections) /\ orphans \subseteq Connections
    BY DEF TypeOK
  <2>2. /\ connections' \in Seq(Connections) /\ Len(connections') \in Nat
        /\ Len(connections') <= Len(connections) /\ orphans' \subseteq Connections
    <3>1. ASSUME NEW i \in 1..Len(connections), i = 1, connections' = <<>>,
                 orphans' = orphans \cup ToSet(Tail(connections))
          PROVE  Len(connections') <= Len(connections) /\ orphans' \subseteq Connections
      <4>1. connections # <<>>
        BY <1>0, <3>1
      <4>2. Tail(connections) \in Seq(Connections)
        BY <2>1, <4>1, Taken
      <4>3. ToSet(Tail(connections)) \subseteq Connections
        BY <4>2, Elements
      <4> QED
        BY <1>0, <2>1, <3>1, <4>3
    <3>2. ASSUME NEW i \in 1..Len(connections), connections' = RemoveAt(connections, i)
          PROVE  /\ connections' \in Seq(Connections) /\ Len(connections') \in Nat
                 /\ Len(connections') <= Len(connections)
      BY <1>0, <2>1, <3>2, Removed
    <3>3. CASE \E conn \in orphans : orphans' = orphans \ {conn} /\ UNCHANGED connections
      BY <1>0, <2>1, <3>3
    <3>4. CASE \E i \in 1..Len(connections) :
                  IF i = 1
                  THEN connections' = <<>> /\ orphans' = orphans \cup ToSet(Tail(connections))
                  ELSE connections' = RemoveAt(connections, i) /\ UNCHANGED orphans
      <4>1. PICK i \in 1..Len(connections) :
                  IF i = 1
                  THEN connections' = <<>> /\ orphans' = orphans \cup ToSet(Tail(connections))
                  ELSE connections' = RemoveAt(connections, i) /\ UNCHANGED orphans
        BY <3>4
      <4>2. CASE i = 1
        BY <1>0, <3>1, <4>1, <4>2
      <4>3. CASE i # 1
        BY <2>1, <3>2, <4>1, <4>3
      <4> QED
        BY <4>2, <4>3
    <3> QED
      BY <1>7, <3>3, <3>4 DEF Drop
  <2>3. num_connected' \in Len(connections')..MaxClients
    BY <1>0, <1>7, <2>2 DEF Drop, TypeOK
  <2> QED
    BY <1>7, <2>2, <2>3 DEF Drop, TypeOK
<1> QED
  BY <1>1, <1>3, <1>4, <1>5, <1>6, <1>7 DEF Serve

----------------------------------------------------------------------------
\* Steps that leave a client alone

LEMMA Posted ==
    ASSUME TypeOK, NEW p
    PROVE  /\ arrived' = Append(arrived, p) =>
                /\ Len(arrived) \in Nat /\ Len(arrived') = Len(arrived) + 1
                /\ \A k \in 1..Len(arrived) : arrived'[k] = arrived[k]
                /\ arrived'[Len(arrived) + 1] = p
           /\ ToServer(p) => ToSet(arrived') \subseteq ToSet(arrived) \cup {p}
<1>1. arrived \in Seq(Packets \cup {p}) /\ p \in Packets \cup {p}
  BY SeqMonotonic DEF TypeOK
<1>2. /\ Len(arrived) \in Nat /\ Len(Append(arrived, p)) = Len(arrived) + 1
      /\ \A k \in 1..Len(arrived) : Append(arrived, p)[k] = arrived[k]
      /\ Append(arrived, p)[Len(arrived) + 1] = p
      /\ ToSet(Append(arrived, p)) = ToSet(arrived) \cup {p}
  BY <1>1, Appended
<1> QED
  BY <1>2 DEF ToServer

LEMMA SynOnceKept ==
    ASSUME TypeOK, NEW d \in Clients, SynOnce(d),
           \/ arrived' = arrived \/ arrived' = <<>>
           \/ arrived # <<>> /\ arrived' = Tail(arrived)
           \/ \E p : ToServer(p) /\ (p.of # d \/ p.kind # "syn")
    PROVE  SynOnce(d)'
<1>0. arrived \in Seq(Packets)
  BY DEF TypeOK
<1>1. CASE arrived' = arrived
  BY <1>1 DEF SynOnce, IsSyn
<1>2. CASE arrived' = <<>>
  BY <1>2, NoElements DEF SynOnce
<1>3. CASE arrived # <<>> /\ arrived' = Tail(arrived)
  <2>1. /\ Len(arrived) \in Nat /\ Len(arrived') = Len(arrived) - 1
        /\ \A k \in 1..Len(arrived') : arrived'[k] = arrived[k + 1] /\ k + 1 \in 1..Len(arrived)
    BY <1>0, <1>3, Taken
  <2>2. ASSUME NEW j \in 1..Len(arrived'), NEW k \in 1..Len(arrived'),
               IsSyn(d, arrived'[j]), IsSyn(d, arrived'[k])
        PROVE  j = k
    <3>1. j + 1 = k + 1
      BY <2>1, <2>2 DEF SynOnce
    <3> QED
      BY <3>1
  <2> QED
    BY <2>2 DEF SynOnce, IsSyn
<1>4. CASE \E p : ToServer(p) /\ (p.of # d \/ p.kind # "syn")
  <2>1. PICK p : ToServer(p) /\ (p.of # d \/ p.kind # "syn")
    BY <1>4
  <2>2. CASE arrived' = Append(arrived, p)
    <3>1. /\ Len(arrived) \in Nat /\ Len(arrived') = Len(arrived) + 1
          /\ \A k \in 1..Len(arrived) : arrived'[k] = arrived[k]
          /\ arrived'[Len(arrived) + 1] = p
      BY <2>2, Posted
    <3>2. \A k \in 1..Len(arrived') : IsSyn(d, arrived'[k]) =>
              k \in 1..Len(arrived) /\ arrived'[k] = arrived[k]
      BY <2>1, <3>1 DEF IsSyn
    <3> QED
      BY <3>2 DEF SynOnce
  <2> QED
    BY <1>1, <2>1, <2>2 DEF ToServer
<1> QED
  BY <1>1, <1>2, <1>3, <1>4

\* Nothing new from d, nothing new for it but that it takes a message.
Calm(d) ==
    /\ port' = port /\ phase'[d] = phase[d] /\ init'[d] = init[d] /\ their_init'[d] = their_init[d]
    /\ (d \in greeted') <=> (d \in greeted)
    /\ \A e \in Clients : phase[e] \notin {"new", "resets"} => phase'[e] \notin {"new", "resets"}
    /\ Messages(d)' \subseteq Messages(d)
    /\ \/ inbox'[d] = inbox[d]
       \/ inbox[d] # <<>> /\ inbox'[d] = Tail(inbox[d]) /\ phase[d] # "handshake"

LEMMA StillFresh ==
    ASSUME NEW d \in Clients, port' = port,
           \A e \in Clients : phase'[e] = "new" => phase[e] = "new"
    PROVE  Fresh(d)' => Fresh(d)
  BY DEF Fresh, In

LEMMA CalmSession ==
    ASSUME TypeOK, NEW d \in Clients, Session(d), Calm(d), SynOnce(d)',
           Fresh(d)' => Fresh(d),
           Kept' \subseteq Kept,
           connections' = connections \/ Newest(d)'
    PROVE  Session(d)'
<1>1. /\ inbox[d] \in Seq(Packets) /\ ToSet(inbox[d]) \subseteq Packets
      /\ ToSet(inbox'[d]) \subseteq ToSet(inbox[d])
  <2>1. inbox[d] \in Seq(Packets)
    BY DEF TypeOK
  <2> QED
    BY <2>1, Elements, Taken DEF Calm
<1>2. /\ ConnectionsOf(d)' \subseteq ConnectionsOf(d)
      /\ Unanswered(d)' => Unanswered(d)
      /\ (d \in Live') <=> (d \in Live)
      /\ Present(d)' => Present(d)
  BY DEF Calm, ConnectionsOf, Kept, Unanswered, Live, Present
<1>3. Unheard(d)'
  <2>1. d \notin Live' => inbox'[d] = <<>>
    <3>1. d \notin Live => inbox[d] = <<>>
      BY DEF Session, Unheard
    <3> QED
      BY <1>2, <3>1 DEF Calm
  <2>2. Unanswered(d)' => /\ d \notin greeted' /\ ConnectionsOf(d)' = {}
                          /\ \A p \in ToSet(inbox'[d]) : p.of # d
    BY <1>1, <1>2 DEF Session, Unheard, Calm
  <2> QED
    BY <2>1, <2>2 DEF Unheard
<1>4. Sent(d)'
  BY DEF Session, Sent, Calm
<1>5. Delivered(d)'
  <2>1. ASSUME NEW p \in ToSet(inbox'[d])
        PROVE  /\ p.kind \in {"synack", "segment"} /\ p.to = port'[p.of]
               /\ phase'[p.of] \notin {"new", "resets"}
               /\ p.kind = "synack" => p.seq \in InitNumbers
               /\ SynAck(d, p)' => p.of = d
    <3>1. p \in ToSet(inbox[d]) /\ p.of \in Clients
      BY <1>1 DEF Packets
    <3> QED
      BY <3>1 DEF Session, Delivered, Calm, SynAck
  <2>2. ASSUME NEW j \in 1..Len(inbox'[d]), NEW k \in 1..Len(inbox'[d]),
               SynAck(d, inbox[d][j])', SynAck(d, inbox[d][k])'
        PROVE  j = k
    <3>1. CASE inbox'[d] = inbox[d]
      BY <2>2, <3>1 DEF Session, Delivered, Calm, SynAck
    <3>2. CASE inbox[d] # <<>> /\ inbox'[d] = Tail(inbox[d])
      <4>1. /\ j \in Nat /\ k \in Nat /\ j + 1 \in 1..Len(inbox[d]) /\ k + 1 \in 1..Len(inbox[d])
            /\ inbox'[d][j] = inbox[d][j + 1] /\ inbox'[d][k] = inbox[d][k + 1]
        BY <1>1, <3>2, Taken
      <4>2. SynAck(d, inbox[d][j + 1]) /\ SynAck(d, inbox[d][k + 1])
        BY <2>2, <4>1 DEF Calm, SynAck
      <4>3. j + 1 = k + 1
        BY <4>1, <4>2 DEF Session, Delivered
      <4> QED
        BY <4>1, <4>3
    <3> QED
      BY <3>1, <3>2 DEF Calm
  <2> QED
    BY <2>1, <2>2 DEF Delivered
<1>6. Agreed(d)'
  BY <1>1, <1>2 DEF Session, Agreed, Calm, SynAck
<1>7. Numbered(d)'
  BY <1>2 DEF Session, Numbered, Calm
<1>8. Newest(d)'
  BY <1>2 DEF Session, Newest, Calm
<1>9. Led(d)'
  <2> SUFFICES ASSUME Fresh(d)' PROVE Led(d)'
    BY DEF Led
  <2>1. CASE phase[d] = "handshake"
    <3>1. inbox'[d] = inbox[d] /\ phase'[d] = "handshake" /\ init'[d] = init[d] /\ port' = port
      BY <2>1 DEF Calm
    <3> QED
      BY <1>2, <2>1, <3>1 DEF Session, Led, SynAck, FollowsUp
  <2>2. CASE phase[d] = "connected"
    BY <1>1, <2>2 DEF Session, Led, FollowsUp, Calm
  <2>3. CASE phase[d] \notin {"handshake", "connected"}
    BY <2>3 DEF Led, Calm
  <2> QED
    BY <2>1, <2>2, <2>3
<1> QED
  BY <1>3, <1>4, <1>5, <1>6, <1>7, <1>8, <1>9 DEF Session

\* Nobody starts to be present.
LEMMA StillOne ==
    ASSUME OnePresent, port' = port, \A d \in Clients : Present(d)' => Present(d) PROVE OnePresent'
  BY DEF OnePresent

----------------------------------------------------------------------------
\* The steps of a client, for the others

ClientEffect(c) ==
    /\ port' = port /\ connections' = connections /\ orphans' = orphans /\ phase'[c] # "new"
    /\ phase[c] \notin {"new", "resets"} => phase'[c] \notin {"new", "resets"}
    /\ \A d \in Clients \ {c} :
          /\ phase'[d] = phase[d] /\ init'[d] = init[d] /\ their_init'[d] = their_init[d]
          /\ (d \in greeted') <=> (d \in greeted)
          /\ inbox'[d] = inbox[d]
    /\ arrived' = arrived \/ \E p : ToServer(p) /\ p.of = c

LEMMA ClientEffects ==
    ASSUME TypeOK, NEW c \in Clients, ClientNext(c) PROVE ClientEffect(c)
<1> USE DEF Go, In, serverVars
<1>0. /\ phase \in [Clients -> {"new", "resets", "handshake", "connected", "ended"}]
      /\ init \in [Clients -> Tcp] /\ their_init \in [Clients -> Tcp]
      /\ inbox \in [Clients -> Seq(Packets)]
  BY DEF TypeOK
<1>1. CASE Start(c) \/ Continue(c) \/ Fail(c) \/ End(c) \/ Hear(c)
  BY <1>0, <1>1 DEF Start, Continue, Fail, End, Hear, Leave, ClientEffect, Live, clientVars
<1>2. CASE send_resets(c)
  <2>1. PICK p : p = Head(inbox[c])
    OBVIOUS
  <2>2. arrived' = arrived \/ ToServer(Plain("rst", p.to, p.from, p.ack, 0, c))
    BY <1>2, <2>1 DEF send_resets
  <2>3. Plain("rst", p.to, p.from, p.ack, 0, c).of = c
    BY DEF Plain
  <2>4. arrived' = arrived \/ \E q : ToServer(q) /\ q.of = c
    BY <2>2, <2>3
  <2> QED
    BY <1>0, <1>2, <2>4 DEF send_resets, ClientEffect
<1>3. CASE SendSyn(c)
  <2>1. Plain("syn", port[c], ServerPort, init[c], 0, c).of = c
    BY DEF Plain
  <2>2. \E q : ToServer(q) /\ q.of = c
    BY <1>3, <2>1 DEF SendSyn
  <2> QED
    BY <1>0, <1>3, <2>2 DEF SendSyn, ClientEffect
<1>4. CASE GetSynAck(c)
  <2>1. PICK p : p = Head(inbox[c])
    OBVIOUS
  <2>2. Plain("segment", port[c], ServerPort, (init[c] + 1) % Wrap32, (p.seq + 1) % Wrap32, c).of = c
    BY DEF Plain
  <2>3. \E q : ToServer(q) /\ q.of = c
    BY <1>4, <2>1, <2>2 DEF GetSynAck
  <2> QED
    BY <1>0, <1>4, <2>3 DEF GetSynAck, ClientEffect
<1>5. CASE Say(c)
  <2>1. PICK s, a \in Ctcp : ToServer(convert_to_datagram(port[c], ServerPort, init[c], their_init[c], c, s, a))
    BY <1>5 DEF Say
  <2>2. convert_to_datagram(port[c], ServerPort, init[c], their_init[c], c, s, a).of = c
    BY DEF convert_to_datagram
  <2>3. \E q : ToServer(q) /\ q.of = c
    BY <2>1, <2>2
  <2> QED
    BY <1>0, <1>5, <2>3 DEF Say, ClientEffect, clientVars
<1> QED
  BY <1>1, <1>2, <1>3, <1>4, <1>5 DEF ClientNext

LEMMA OthersStay ==
    ASSUME TypeOK, NEW c \in Clients, NEW d \in Clients \ {c}, ClientEffect(c), Session(d)
    PROVE  Session(d)' /\ (Present(d)' => Present(d)) /\ (Fresh(d)' => Fresh(d))
<1>1. Messages(d)' \subseteq Messages(d)
  <2>1. CASE arrived' = arrived
    BY <2>1 DEF Messages
  <2>2. ASSUME NEW p, ToServer(p), p.of = c PROVE Messages(d)' \subseteq Messages(d)
    BY <2>2, Posted DEF Messages
  <2> QED
    BY <2>1, <2>2 DEF ClientEffect
<1>2. SynOnce(d)'
  BY SynOnceKept DEF ClientEffect, Session
<1>3. Calm(d)
  BY <1>1 DEF Calm, ClientEffect
<1>4. Fresh(d)' => Fresh(d)
  BY StillFresh DEF ClientEffect
<1>5. connections' = connections /\ orphans' = orphans
  BY DEF ClientEffect
<1>6. Session(d)'
  BY <1>2, <1>3, <1>4, <1>5, CalmSession DEF Kept
<1>7. Present(d)' => Present(d)
  BY <1>1, <1>3 DEF Present, Live, Calm
<1> QED
  BY <1>4, <1>6, <1>7

----------------------------------------------------------------------------
\* The steps of a client, for itself

LEMMA StartSession ==
    ASSUME TypeOK, \A d \in Clients : Session(d), OnePresent, NEW c \in Clients, ClientEffect(c), Start(c)
    PROVE  Session(c)' /\ OnePresent'
<1>1. /\ phase[c] = "new" /\ phase'[c] = "resets" /\ init'[c] \in InitNumbers
      /\ port' = port /\ port[c] \notin InUse
      /\ UNCHANGED <<their_init, greeted, inbox, connections, orphans, arrived>>
      /\ \A d \in Clients \ {c} : phase'[d] = phase[d]
  BY DEF Start, In, Go, serverVars, TypeOK
<1>2. /\ inbox[c] = <<>> /\ c \notin greeted /\ ConnectionsOf(c) = {} /\ Messages(c) = {}
  <2>1. c \notin Live /\ Unanswered(c)
    BY <1>1 DEF Live, Unanswered
  <2>2. Messages(c) = {}
    BY <1>1 DEF Session, Sent
  <2> QED
    BY <2>1, <2>2 DEF Session, Unheard
<1>3. ToSet(inbox[c]) = {} /\ Len(inbox[c]) = 0
  BY <1>2, NoElements
<1>4. Messages(c)' = {} /\ ConnectionsOf(c)' = {}
  BY <1>1, <1>2 DEF Messages, ConnectionsOf, Kept
<1>5. Unheard(c)' /\ Sent(c)' /\ Delivered(c)' /\ Agreed(c)' /\ Numbered(c)' /\ Led(c)'
  BY <1>1, <1>2, <1>3, <1>4 DEF Unheard, Sent, Delivered, Agreed, Numbered, Led
<1>6. SynOnce(c)'
  BY <1>1 DEF Session, SynOnce, IsSyn
<1>7. Newest(c)'
  <2>1. \A k \in 1..Len(connections) : connections[k].of # c
    BY <1>2, Elements DEF ConnectionsOf, Kept, TypeOK
  <2> QED
    BY <1>1, <2>1 DEF Newest
<1>8. OnePresent'
  <2>1. ASSUME NEW d \in Clients \ {c}, Present(d)' PROVE Present(d) /\ port[d] # port[c]
    <3>1. Present(d)
      BY <1>1, <2>1 DEF Present, Live, Messages
    <3>2. CASE d \in Live
      BY <1>1, <3>1, <3>2 DEF InUse
    <3>3. CASE Messages(d) # {}
      <4>1. PICK p \in Messages(d) : TRUE
        BY <3>3
      <4>2. p \in ToSet(arrived) /\ p.from = port[d]
        BY <4>1 DEF Session, Sent, Messages
      <4>3. p.from \in InUse
        BY <4>2 DEF InUse
      <4> QED
        BY <1>1, <3>1, <4>2, <4>3
    <3> QED
      BY <3>1, <3>2, <3>3 DEF Present
  <2> QED
    BY <1>1, <2>1 DEF OnePresent
<1> QED
  BY <1>5, <1>6, <1>7, <1>8 DEF Session

LEMMA SendResetsSession ==
    ASSUME TypeOK, NEW c \in Clients, Session(c), ClientEffect(c), send_resets(c)
    PROVE  Session(c)' /\ (Present(c)' => Present(c))
<1>1. PICK p : p = Head(inbox[c])
  OBVIOUS
<1>2. PICK q : q = Plain("rst", p.to, p.from, p.ack, 0, c)
  OBVIOUS
<1>3. q.kind = "rst"
  BY <1>2 DEF Plain
<1>4. /\ phase[c] = "resets" /\ inbox[c] # <<>> /\ inbox'[c] = Tail(inbox[c])
      /\ arrived' = arrived \/ ToServer(q)
      /\ UNCHANGED <<port, phase, init, their_init, greeted, connections, orphans>>
  BY <1>1, <1>2 DEF send_resets, In, serverVars, TypeOK
<1>5. Messages(c)' \subseteq Messages(c)
  BY <1>3, <1>4, Posted DEF Messages
<1>6. SynOnce(c)'
  <2>1. arrived' = arrived \/ \E m : ToServer(m) /\ (m.of # c \/ m.kind # "syn")
    BY <1>3, <1>4
  <2> QED
    BY <2>1, SynOnceKept DEF Session
<1>7. Calm(c)
  BY <1>4, <1>5 DEF Calm
<1>8. Fresh(c)' => Fresh(c)
  BY <1>4, StillFresh
<1> QED
  BY <1>4, <1>5, <1>6, <1>7, <1>8, CalmSession DEF Kept, Present, Live

LEMMA SendSynSession ==
    ASSUME TypeOK, TypeOK', NEW c \in Clients, Session(c), ClientEffect(c), SendSyn(c)
    PROVE  Session(c)' /\ (Present(c)' => Present(c))
<1>1. PICK q : q = Plain("syn", port[c], ServerPort, init[c], 0, c)
  OBVIOUS
<1>2. q.kind = "syn" /\ q.from = port[c] /\ q.seq = init[c] /\ q.of = c
  BY <1>1 DEF Plain
<1>3. /\ phase[c] = "resets" /\ phase'[c] = "handshake" /\ ToServer(q)
      /\ UNCHANGED <<port, init, their_init, greeted, inbox, connections, orphans>>
      /\ \A d \in Clients \ {c} : phase'[d] = phase[d]
  BY <1>1 DEF SendSyn, In, Go, serverVars, TypeOK
<1>4. /\ c \notin greeted /\ ConnectionsOf(c) = {} /\ Messages(c) = {}
      /\ init[c] \in InitNumbers /\ \A p \in ToSet(inbox[c]) : p.of # c
  BY <1>3 DEF Unanswered, Session, Unheard, Sent
<1>5. Messages(c)' \subseteq {q} /\ ConnectionsOf(c)' = {}
  BY <1>3, <1>4, Posted DEF Messages, ConnectionsOf, Kept
<1>6. inbox[c] \in Seq(Packets) /\ ToSet(inbox[c]) \subseteq Packets
  BY Elements DEF TypeOK
<1>7. Unheard(c)' /\ Sent(c)' /\ Agreed(c)' /\ Numbered(c)'
  BY <1>2, <1>3, <1>4, <1>5 DEF Unheard, Sent, Agreed, Numbered, Live
<1>8. SynOnce(c)'
  <2>1. CASE arrived' = arrived
    BY <2>1 DEF Session, SynOnce, IsSyn
  <2>2. CASE arrived' = Append(arrived, q)
    <3>1. /\ Len(arrived) \in Nat /\ Len(arrived') = Len(arrived) + 1
          /\ \A k \in 1..Len(arrived) : arrived'[k] = arrived[k] /\ arrived[k] \in ToSet(arrived)
      BY <2>2, Posted, Elements DEF TypeOK
    <3>2. \A k \in 1..Len(arrived) : ~IsSyn(c, arrived'[k])
      BY <1>4, <3>1 DEF Messages, IsSyn
    <3>3. \A k \in 1..Len(arrived') : IsSyn(c, arrived'[k]) => k = Len(arrived) + 1
      BY <3>1, <3>2
    <3> QED
      BY <3>3 DEF SynOnce, IsSyn
  <2> QED
    BY <1>3, <2>1, <2>2 DEF ToServer
<1>9. Delivered(c)'
  <2>1. \A p \in ToSet(inbox[c]) : p.of \in Clients
    BY <1>6 DEF Packets
  <2> QED
    BY <1>3, <1>4, <2>1 DEF Session, Delivered, SynAck
<1>10. Newest(c)'
  <2>1. \A k \in 1..Len(connections) : connections[k].of # c
    BY <1>4, Elements DEF ConnectionsOf, Kept, TypeOK
  <2> QED
    BY <1>3, <2>1 DEF Newest
<1>11. Led(c)'
  <2> SUFFICES ASSUME Fresh(c)' PROVE Led(c)'
    BY DEF Led
  <2>1. ASSUME NEW p \in ToSet(inbox[c]) PROVE p.to # port[c]
    <3>1. p.of \in Clients \ {c} /\ p.to = port[p.of] /\ phase[p.of] # "new"
      BY <1>4, <1>6 DEF Session, Delivered, Packets
    <3> QED
      BY <1>3, <3>1 DEF Fresh, In
  <2>2. \A k \in 1..Len(inbox[c]) : inbox[c][k].to # port[c]
    BY <1>6, <2>1, Elements
  <2> QED
    BY <1>3, <1>5, <2>2 DEF Led
<1>12. Present(c)
  BY <1>3 DEF Present, Live
<1> QED
  BY <1>7, <1>8, <1>9, <1>10, <1>11, <1>12 DEF Session

LEMMA GetSynAckSession ==
    ASSUME TypeOK, TypeOK', NEW c \in Clients, Session(c), ClientEffect(c), GetSynAck(c)
    PROVE  Session(c)' /\ (Present(c)' => Present(c))
<1>1. PICK p : p = Head(inbox[c])
  OBVIOUS
<1>2. PICK q : q = Plain("segment", port[c], ServerPort, (init[c] + 1) % Wrap32, (p.seq + 1) % Wrap32, c)
  OBVIOUS
<1>3. /\ phase[c] = "handshake" /\ phase'[c] = "connected" /\ inbox[c] # <<>>
      /\ p.kind = "synack" /\ p.to = port[c] /\ their_init'[c] = p.seq
      /\ inbox'[c] = Tail(inbox[c]) /\ ToServer(q) /\ greeted' = greeted \cup {c}
      /\ UNCHANGED <<port, init, connections, orphans>>
      /\ \A d \in Clients \ {c} : phase'[d] = phase[d]
  BY <1>1, <1>2 DEF GetSynAck, In, Go, Passes, ForMe, serverVars, TypeOK
<1>4. /\ inbox[c] \in Seq(Packets) /\ p = inbox[c][1] /\ p \in ToSet(inbox[c])
      /\ Len(inbox[c]) \in Nat \ {0} /\ Len(inbox'[c]) = Len(inbox[c]) - 1
      /\ \A k \in 1..Len(inbox[c]) - 1 : inbox'[c][k] = inbox[c][k + 1]
      /\ ToSet(inbox'[c]) \subseteq ToSet(inbox[c]) /\ ToSet(inbox[c]) \subseteq Packets
      /\ inbox'[c] \in Seq(Packets)
  <2>1. inbox[c] \in Seq(Packets)
    BY DEF TypeOK
  <2> QED
    BY <1>1, <1>3, <2>1, Taken, Elements
<1>5. /\ SynAck(c, p) /\ p.of = c /\ p.seq \in InitNumbers /\ init[c] \in InitNumbers
      /\ ~Unanswered(c) /\ c \notin greeted
  <2>1. SynAck(c, p)
    BY <1>3 DEF SynAck
  <2> QED
    BY <1>3, <1>4, <2>1 DEF Session, Delivered, Sent, Unheard
<1>6. /\ q.kind = "segment" /\ q.from = port[c] /\ q.of = c /\ q.seqno = 1 /\ q.ackno = 1
      /\ q.seq = init[c] + 1 /\ q.ack = p.seq + 1
  <2>1. 1 \in Ctcp
    BY NumbersInTcp
  <2>2. (init[c] + 1) % Wrap32 = init[c] + 1 /\ (p.seq + 1) % Wrap32 = p.seq + 1
    BY <1>5, <2>1, Translated
  <2> QED
    BY <1>2, <2>2 DEF Plain
<1>7. /\ Messages(c)' \subseteq Messages(c) \cup {q} /\ ConnectionsOf(c)' = ConnectionsOf(c)
      /\ \A m \in Messages(c) : m.kind # "syn" /\ m.kind # "segment"
  BY <1>3, <1>5, Posted DEF Messages, ConnectionsOf, Kept, Unanswered, Session, Sent
<1>8. ~Unanswered(c)'
  BY <1>3, <1>6, <1>7 DEF Unanswered
<1>9. Unheard(c)' /\ Sent(c)'
  BY <1>3, <1>6, <1>7, <1>8 DEF Unheard, Live, Session, Sent
<1>10. SynOnce(c)'
  <2>1. \E m : ToServer(m) /\ (m.of # c \/ m.kind # "syn")
    BY <1>3, <1>6
  <2> QED
    BY <2>1, SynOnceKept DEF Session
<1>11. Delivered(c)'
  <2>1. \A m \in ToSet(inbox'[c]) : m \in ToSet(inbox[c]) /\ m.of \in Clients
    BY <1>4 DEF Packets
  <2>2. ASSUME NEW j \in 1..Len(inbox'[c]), NEW k \in 1..Len(inbox'[c]),
               SynAck(c, inbox[c][j])', SynAck(c, inbox[c][k])'
        PROVE  j = k
    <3>1. /\ j \in Nat /\ k \in Nat /\ j + 1 \in 1..Len(inbox[c]) /\ k + 1 \in 1..Len(inbox[c])
          /\ inbox'[c][j] = inbox[c][j + 1] /\ inbox'[c][k] = inbox[c][k + 1]
      <4>1. Len(inbox[c]) \in Nat \ {0} /\ Len(inbox'[c]) = Len(inbox[c]) - 1
        BY <1>4
      <4>2. j \in 1..Len(inbox[c]) - 1 /\ k \in 1..Len(inbox[c]) - 1
        BY <4>1
      <4>3. inbox'[c][j] = inbox[c][j + 1] /\ inbox'[c][k] = inbox[c][k + 1]
        <5>1. \A i \in 1..Len(inbox[c]) - 1 : inbox'[c][i] = inbox[c][i + 1]
          BY <1>4
        <5> QED
          BY <4>2, <5>1
      <4>4. j + 1 \in 1..Len(inbox[c]) /\ k + 1 \in 1..Len(inbox[c])
        BY <4>1, <4>2
      <4> QED
        BY <4>2, <4>3, <4>4
    <3>2. SynAck(c, inbox[c][j + 1]) /\ SynAck(c, inbox[c][k + 1])
      BY <1>3, <2>2, <3>1 DEF SynAck
    <3>3. j + 1 = k + 1
      BY <3>1, <3>2 DEF Session, Delivered
    <3> QED
      BY <3>1, <3>3
  <2>3. \A m \in ToSet(inbox'[c]) : 
          /\ m.kind \in {"synack", "segment"} /\ m.to = port'[m.of]
          /\ phase'[m.of] \notin {"new", "resets"}
          /\ m.kind = "synack" => m.seq \in InitNumbers
          /\ SynAck(c, m)' => m.of = c
    BY <1>3, <2>1 DEF Session, Delivered, SynAck
  <2> QED
    BY <2>2, <2>3 DEF Delivered
<1>12. Agreed(c)'
  <2>1. \A conn \in ConnectionsOf(c) : conn.port = port[c] /\ conn.their_init = init[c] /\ p.seq = conn.init
    BY <1>3, <1>4, <1>5 DEF Session, Agreed
  <2> QED
    BY <1>3, <1>5, <1>7, <2>1 DEF Agreed
<1>13. Numbered(c)'
  <2>1. \A conn \in ConnectionsOf(c) : conn.their_init = init[c] /\ p.seq = conn.init
    BY <1>3, <1>4, <1>5 DEF Session, Agreed
  <2> QED
    BY <1>6, <1>7, <2>1 DEF Numbered
<1>14. Present(c) /\ Newest(c)'
  BY <1>3 DEF Present, Live, Session, Newest
<1>15. Led(c)'
  <2> SUFFICES ASSUME Fresh(c)' PROVE Led(c)'
    BY DEF Led
  <2>1. Fresh(c)
    BY StillFresh DEF ClientEffect
  <2>2. ASSUME NEW m \in ToSet(inbox'[c]), m.to = port[c], m.kind = "segment"
        PROVE  FollowsUp(c, m, p.seq)
    <3>1. PICK k \in 1..Len(inbox'[c]) : inbox'[c][k] = m
      BY <1>4, Elements
    <3>2. k + 1 \in 1..Len(inbox[c]) /\ inbox[c][k + 1] = m
      BY <1>4, <3>1
    <3>3. PICK j \in 1..(k + 1) - 1 : SynAck(c, inbox[c][j]) /\ FollowsUp(c, m, inbox[c][j].seq)
      BY <1>3, <2>1, <2>2, <3>2 DEF Session, Led
    <3>4. j \in 1..Len(inbox[c]) /\ 1 \in 1..Len(inbox[c])
      BY <1>4, <3>2
    <3>5. j = 1
      BY <1>4, <1>5, <3>3, <3>4 DEF Session, Delivered
    <3> QED
      BY <1>4, <3>3, <3>5
  <2> QED
    BY <1>3, <2>2 DEF Led, FollowsUp
<1> QED
  BY <1>9, <1>10, <1>11, <1>12, <1>13, <1>14, <1>15 DEF Session

LEMMA ContinueSession ==
    ASSUME TypeOK, TypeOK', NEW c \in Clients, Session(c), ClientEffect(c), Continue(c)
    PROVE  Session(c)' /\ (Present(c)' => Present(c))
<1>1. PICK p : p = Head(inbox[c])
  OBVIOUS
<1>2. /\ phase[c] = "handshake" /\ phase'[c] = "connected" /\ inbox[c] # <<>>
      /\ p.kind # "synack" /\ p.to = port[c]
      /\ inbox'[c] = Tail(inbox[c])
      /\ UNCHANGED <<port, greeted, arrived, connections, orphans>>
      /\ \A d \in Clients \ {c} : phase'[d] = phase[d]
  BY <1>1 DEF Continue, In, Go, Passes, ForMe, serverVars, TypeOK
<1>3. /\ inbox[c] \in Seq(Packets) /\ p = inbox[c][1] /\ p \in ToSet(inbox[c])
      /\ Len(inbox[c]) \in Nat \ {0} /\ Len(inbox'[c]) = Len(inbox[c]) - 1
      /\ \A k \in 1..Len(inbox[c]) - 1 : inbox'[c][k] = inbox[c][k + 1]
      /\ ToSet(inbox'[c]) \subseteq ToSet(inbox[c]) /\ ToSet(inbox[c]) \subseteq Packets
  <2>1. inbox[c] \in Seq(Packets)
    BY DEF TypeOK
  <2> QED
    BY <1>1, <1>2, <2>1, Taken, Elements
<1>4. /\ Messages(c)' = Messages(c) /\ ConnectionsOf(c)' = ConnectionsOf(c) /\ c \notin greeted
      /\ Unanswered(c)' => Unanswered(c)
  BY <1>2 DEF Messages, ConnectionsOf, Kept, Unanswered, Session, Sent
<1>5. Unheard(c)'
  BY <1>2, <1>3, <1>4 DEF Unheard, Live, Session
<1>6. Sent(c)' /\ SynOnce(c)'
  BY <1>2, <1>4 DEF Session, Sent, SynOnce, IsSyn
<1>7. Delivered(c)'
  <2>1. \A m \in ToSet(inbox'[c]) : m \in ToSet(inbox[c]) /\ m.of \in Clients
    BY <1>3 DEF Packets
  <2>2. ASSUME NEW j \in 1..Len(inbox'[c]), NEW k \in 1..Len(inbox'[c]),
               SynAck(c, inbox[c][j])', SynAck(c, inbox[c][k])'
        PROVE  j = k
    <3>1. /\ j \in Nat /\ k \in Nat /\ j + 1 \in 1..Len(inbox[c]) /\ k + 1 \in 1..Len(inbox[c])
          /\ inbox'[c][j] = inbox[c][j + 1] /\ inbox'[c][k] = inbox[c][k + 1]
      BY <1>3
    <3>2. SynAck(c, inbox[c][j + 1]) /\ SynAck(c, inbox[c][k + 1])
      BY <1>2, <2>2, <3>1 DEF SynAck
    <3>3. j + 1 = k + 1
      BY <3>1, <3>2 DEF Session, Delivered
    <3> QED
      BY <3>1, <3>3
  <2>3. \A m \in ToSet(inbox'[c]) : 
          /\ m.kind \in {"synack", "segment"} /\ m.to = port'[m.of]
          /\ phase'[m.of] \notin {"new", "resets"}
          /\ m.kind = "synack" => m.seq \in InitNumbers
          /\ SynAck(c, m)' => m.of = c
    BY <1>2, <2>1 DEF Session, Delivered, SynAck
  <2> QED
    BY <2>2, <2>3 DEF Delivered
<1>8. Agreed(c)' /\ Numbered(c)'
  BY <1>2, <1>4 DEF Session, Agreed, Numbered
<1>9. Present(c) /\ Newest(c)'
  BY <1>2 DEF Present, Live, Session, Newest
<1>10. ~Fresh(c)
  <2>1. p.kind = "segment" /\ 1 \in 1..Len(inbox[c])
    BY <1>2, <1>3 DEF Session, Delivered
  <2> QED
    BY <1>2, <1>3, <2>1 DEF Session, Led
<1>11. ~Fresh(c)'
  BY <1>10, StillFresh DEF ClientEffect
<1> QED
  BY <1>5, <1>6, <1>7, <1>8, <1>9, <1>11 DEF Session, Led

LEMMA LeaveSession ==
    ASSUME TypeOK, NEW c \in Clients, Session(c), ClientEffect(c), Fail(c) \/ End(c)
    PROVE  Session(c)' /\ (Present(c)' => Present(c))
<1>1. /\ phase'[c] = "ended" /\ phase[c] \notin {"new", "ended"} /\ inbox'[c] = <<>>
      /\ UNCHANGED <<port, greeted, arrived, connections, orphans>>
  BY DEF Fail, End, Leave, Live, In, Go, serverVars, TypeOK
<1>2. Len(inbox'[c]) = 0 /\ ToSet(inbox'[c]) = {}
  BY <1>1, NoElements
<1>3. /\ Messages(c)' = Messages(c) /\ ConnectionsOf(c)' = ConnectionsOf(c)
      /\ Unanswered(c)' => Unanswered(c)
  BY <1>1 DEF Messages, ConnectionsOf, Kept, Unanswered
<1>4. Present(c)' => Present(c)
  BY <1>1, <1>3 DEF Present, Live
<1>5. Unheard(c)' /\ Sent(c)' /\ SynOnce(c)'
  BY <1>1, <1>2, <1>3 DEF Session, Unheard, Sent, SynOnce, IsSyn
<1>6. Delivered(c)' /\ Agreed(c)' /\ Numbered(c)' /\ Led(c)'
  BY <1>1, <1>2, <1>3 DEF Session, Delivered, Agreed, Numbered, Led
<1>7. Newest(c)'
  BY <1>1, <1>4 DEF Session, Newest
<1> QED
  BY <1>4, <1>5, <1>6, <1>7 DEF Session

LEMMA SaySession ==
    ASSUME TypeOK, NEW c \in Clients, Session(c), ClientEffect(c), Say(c)
    PROVE  Session(c)' /\ (Present(c)' => Present(c))
<1>1. PICK s, a \in Ctcp : ToServer(convert_to_datagram(port[c], ServerPort, init[c], their_init[c], c, s, a))
  BY DEF Say
<1>2. PICK q : q = convert_to_datagram(port[c], ServerPort, init[c], their_init[c], c, s, a)
  OBVIOUS
<1>3. /\ phase[c] = "connected" /\ ToServer(q)
      /\ UNCHANGED <<port, phase, init, their_init, greeted, inbox, connections, orphans>>
  BY <1>1, <1>2 DEF Say, In, clientVars, serverVars
<1>4. /\ q.kind = "segment" /\ q.from = port[c] /\ q.of = c /\ q.seqno = s /\ q.ackno = a
      /\ init[c] \in InitNumbers /\ their_init[c] \in InitNumbers =>
            q.seq = init[c] + s /\ q.ack = their_init[c] + a
  <2>1. port[c] \in Ends /\ ServerPort \in Ends /\ init[c] \in Tcp /\ their_init[c] \in Tcp
    BY DEF TypeOK, Ends
  <2> QED
    BY <1>2, <2>1, SegmentPacket
<1>5. Messages(c)' \subseteq Messages(c) \cup {q} /\ ConnectionsOf(c)' = ConnectionsOf(c)
  BY <1>3, Posted DEF Messages, ConnectionsOf, Kept
<1>6. Unanswered(c)' => Unanswered(c)
  BY <1>3, <1>4, <1>5 DEF Unanswered
<1>7. Unheard(c)' /\ Sent(c)'
  BY <1>3, <1>4, <1>5, <1>6 DEF Session, Unheard, Sent, Live
<1>8. SynOnce(c)'
  <2>1. \E m : ToServer(m) /\ (m.of # c \/ m.kind # "syn")
    BY <1>3, <1>4
  <2> QED
    BY <2>1, SynOnceKept DEF Session
<1>9. Delivered(c)' /\ Agreed(c)'
  BY <1>3, <1>5 DEF Session, Delivered, Agreed, SynAck
<1>10. Numbered(c)'
  <2>1. c \in greeted => /\ init[c] \in InitNumbers /\ their_init[c] \in InitNumbers
                         /\ \A conn \in ConnectionsOf(c) :
                               conn.their_init = init[c] /\ conn.init = their_init[c]
    BY <1>3 DEF Session, Agreed
  <2> QED
    BY <1>3, <1>4, <1>5, <2>1 DEF Session, Numbered
<1>11. Present(c) /\ Newest(c)' /\ Led(c)'
  BY <1>3, <1>5 DEF Present, Live, Session, Newest, Led, Fresh, In, FollowsUp
<1> QED
  BY <1>7, <1>8, <1>9, <1>10, <1>11 DEF Session

LEMMA HearSession ==
    ASSUME TypeOK, NEW c \in Clients, Session(c), ClientEffect(c), Hear(c)
    PROVE  Session(c)' /\ (Present(c)' => Present(c))
<1>1. /\ phase[c] = "connected" /\ inbox[c] # <<>> /\ inbox'[c] = Tail(inbox[c])
      /\ UNCHANGED <<port, phase, init, their_init, greeted, connections, orphans, arrived>>
  BY DEF Hear, In, clientVars, serverVars, TypeOK
<1>2. Messages(c)' = Messages(c) /\ SynOnce(c)'
  BY <1>1 DEF Messages, Session, SynOnce, IsSyn
<1>3. Calm(c)
  BY <1>1, <1>2 DEF Calm
<1>4. Fresh(c)' => Fresh(c)
  BY <1>1, StillFresh
<1> QED
  BY <1>1, <1>2, <1>3, <1>4, CalmSession DEF Kept, Present, Live

LEMMA ClientSession ==
    ASSUME TypeOK, TypeOK', OnePresent, \A d \in Clients : Session(d),
           NEW c \in Clients, ClientNext(c)
    PROVE  OnePresent' /\ \A d \in Clients : Session(d)'
<1>1. ClientEffect(c)
  BY ClientEffects
<1>2. \A d \in Clients \ {c} : Session(d)' /\ (Present(d)' => Present(d))
  BY <1>1, OthersStay
<1>3. CASE Start(c)
  BY <1>1, <1>2, <1>3, StartSession
<1>4. CASE ~Start(c)
  <2>1. Session(c)' /\ (Present(c)' => Present(c))
    BY <1>1, <1>4, SendResetsSession, SendSynSession, GetSynAckSession, ContinueSession,
       LeaveSession, SaySession, HearSession DEF ClientNext
  <2>2. port' = port
    BY <1>1 DEF ClientEffect
  <2> QED
    BY <1>2, <2>1, <2>2, StillOne
<1> QED
  BY <1>3, <1>4

----------------------------------------------------------------------------
\* The steps of the server

LEMMA QuietServer ==
    ASSUME TypeOK, OnePresent, \A d \in Clients : Session(d), GetRst \/ Refuse \/ Segment \/ Drop
    PROVE  OnePresent' /\ \A d \in Clients : Session(d)'
<1>1. /\ UNCHANGED <<port, phase, init, their_init, greeted, inbox>>
      /\ \/ arrived' = arrived \/ arrived' = <<>>
         \/ arrived # <<>> /\ arrived' = Tail(arrived)
  BY DEF GetRst, Refuse, Segment, Drop, Read, serverFrame, clientVars
<1>2. ToSet(arrived') \subseteq ToSet(arrived)
  BY <1>1, Taken, NoElements DEF TypeOK
<1>3. ASSUME NEW d \in Clients
      PROVE  Messages(d)' \subseteq Messages(d) /\ SynOnce(d)' /\ Calm(d) /\ (Fresh(d)' => Fresh(d))
  <2>1. Messages(d)' \subseteq Messages(d)
    BY <1>2 DEF Messages
  <2>2. SynOnce(d)'
    BY <1>1, SynOnceKept DEF Session
  <2>3. Fresh(d)' => Fresh(d)
    BY <1>1, StillFresh
  <2> QED
    BY <1>1, <2>1, <2>2, <2>3 DEF Calm
<1>4. OnePresent'
  BY <1>1, <1>3, StillOne DEF Present, Live
<1>5. ASSUME NEW d \in Clients
      PROVE  Kept' \subseteq Kept /\ (connections' = connections \/ Newest(d)')
  <2>1. CASE connections' = connections /\ orphans' \subseteq orphans
    BY <2>1 DEF Kept
  <2>2. CASE connections' = <<>> /\ orphans' \subseteq Kept
    BY <2>2, NoElements DEF Newest, Kept
  <2>3. ASSUME NEW i \in 1..Len(connections), connections' = RemoveAt(connections, i), orphans' = orphans
        PROVE  Kept' \subseteq Kept /\ Newest(d)'
    <3>1. connections \in Seq(Connections) /\ Len(connections) \in Nat
      BY Elements DEF TypeOK
    <3>2. /\ connections' \in Seq(Connections) /\ Len(connections') = Len(connections) - 1
          /\ \A k \in 1..Len(connections') :
                connections'[k] = IF k < i THEN connections[k] ELSE connections[k + 1]
      BY <2>3, <3>1, Removed
    <3>3. ASSUME NEW k \in 1..Len(connections')
          PROVE  \E l \in 1..Len(connections) : connections'[k] = connections[l]
      <4>1. k \in 1..Len(connections) /\ k + 1 \in 1..Len(connections)
        BY <3>1, <3>2
      <4> QED
        BY <3>2, <4>1
    <3>4. ToSet(connections') \subseteq ToSet(connections)
      <4>1. \A x \in ToSet(connections') : \E k \in 1..Len(connections') : connections'[k] = x
        BY <3>2, Elements
      <4>2. \A l \in 1..Len(connections) : connections[l] \in ToSet(connections)
        BY <3>1, Elements
      <4> QED
        BY <3>3, <4>1, <4>2
    <3>5. ASSUME Present(d)', NEW j \in 1..Len(connections'), NEW k \in 1..Len(connections'),
                 connections'[k].of = d, j < k
          PROVE  connections'[j].port # port[d]
      <4>1. PICK m \in 1..Len(connections), n \in 1..Len(connections) :
                connections'[j] = connections[m] /\ connections'[k] = connections[n] /\ m < n
        <5> DEFINE m == IF j < i THEN j ELSE j + 1
                   n == IF k < i THEN k ELSE k + 1
        <5>1. m \in 1..Len(connections) /\ n \in 1..Len(connections) /\ m < n
          BY <3>1, <3>2, <3>5
        <5>2. connections'[j] = connections[m] /\ connections'[k] = connections[n]
          BY <3>2
        <5> HIDE DEF m, n
        <5> QED
          BY <5>1, <5>2
      <4>2. Present(d)
        BY <1>1, <1>3, <3>5 DEF Present, Live
      <4> QED
        BY <3>5, <4>1, <4>2 DEF Session, Newest
    <3> QED
      BY <1>1, <2>3, <3>4, <3>5 DEF Newest, Kept
  <2> QED
    <3>1. ASSUME NEW i \in 1..Len(connections) PROVE ToSet(Tail(connections)) \subseteq ToSet(connections)
      <4>1. connections \in Seq(Connections) /\ connections # <<>>
        BY Elements, NoElements DEF TypeOK
      <4> QED
        BY <4>1, Taken
    <3>2. CASE GetRst
      BY <2>2, <3>2 DEF GetRst
    <3>3. CASE Refuse \/ Segment
      BY <2>1, <3>3 DEF Refuse, Segment, serverVars
    <3>4. CASE Drop
      BY <2>1, <2>2, <2>3, <3>1, <3>4 DEF Drop, Kept
    <3> QED
      BY <3>2, <3>3, <3>4
<1> QED
  BY <1>3, <1>4, <1>5, CalmSession

\* Packets to the host of the clients

LEMMA Pushed ==
    ASSUME TypeOK, NEW q \in Packets, ToClients(q), NEW d \in Clients, Unheard(d)
    PROVE  /\ d \in Live =>
                /\ inbox'[d] \in Seq(Packets)
                /\ Len(inbox[d]) \in Nat /\ Len(inbox'[d]) = Len(inbox[d]) + 1
                /\ \A k \in 1..Len(inbox[d]) : inbox'[d][k] = inbox[d][k]
                /\ inbox'[d][Len(inbox[d]) + 1] = q
                /\ ToSet(inbox'[d]) = ToSet(inbox[d]) \cup {q}
           /\ d \notin Live => inbox'[d] = inbox[d]
           /\ ToSet(inbox[d]) \subseteq Packets
           /\ ToSet(inbox'[d]) \subseteq ToSet(inbox[d]) \cup {q}
<1>1. inbox[d] \in Seq(Packets)
  BY DEF TypeOK
<1>2. inbox'[d] = IF d \in Live THEN Append(inbox[d], q) ELSE <<>>
  BY DEF ToClients
<1>3. d \notin Live => inbox'[d] = inbox[d]
  BY <1>2 DEF Unheard
<1> QED
  BY <1>1, <1>2, <1>3, Appended, Elements

LEMMA PushedDelivered ==
    ASSUME TypeOK, NEW q \in Packets, ToClients(q), NEW d \in Clients, Unheard(d), Delivered(d),
           UNCHANGED <<port, phase>>,
           q.kind \in {"synack", "segment"}, q.to = port[q.of], phase[q.of] \notin {"new", "resets"},
           q.kind = "synack" => q.seq \in InitNumbers,
           d \in Live /\ SynAck(d, q) => q.of = d /\ \A p \in ToSet(inbox[d]) : p.of # d
    PROVE  Delivered(d)'
<1>1. CASE d \notin Live
  BY <1>1, Pushed DEF Delivered, SynAck
<1>2. CASE d \in Live
  <2>1. \A p \in ToSet(inbox'[d]) :
          /\ p.kind \in {"synack", "segment"} /\ p.to = port[p.of]
          /\ phase[p.of] \notin {"new", "resets"}
          /\ p.kind = "synack" => p.seq \in InitNumbers
          /\ SynAck(d, p) => p.of = d
    BY <1>2, Pushed DEF Delivered
  <2>2. ASSUME NEW j \in 1..Len(inbox'[d]), NEW k \in 1..Len(inbox'[d]),
               SynAck(d, inbox'[d][j]), SynAck(d, inbox'[d][k])
        PROVE  j = k
    <3>1. /\ Len(inbox[d]) \in Nat /\ Len(inbox'[d]) = Len(inbox[d]) + 1
          /\ \A i \in 1..Len(inbox[d]) : inbox'[d][i] = inbox[d][i] /\ inbox[d][i] \in ToSet(inbox[d])
          /\ inbox'[d][Len(inbox[d]) + 1] = q
      <4>1. inbox[d] \in Seq(Packets)
        BY DEF TypeOK
      <4> QED
        BY <1>2, <4>1, Pushed, Elements
    <3>2. CASE SynAck(d, q)
      <4>1. \A i \in 1..Len(inbox[d]) : ~SynAck(d, inbox'[d][i])
        BY <1>2, <3>1, <3>2 DEF Delivered
      <4> QED
        BY <2>2, <3>1, <4>1
    <3>3. CASE ~SynAck(d, q)
      <4>1. j # Len(inbox[d]) + 1 /\ k # Len(inbox[d]) + 1
        BY <2>2, <3>1, <3>3
      <4>2. j \in 1..Len(inbox[d]) /\ k \in 1..Len(inbox[d])
        BY <3>1, <4>1
      <4> QED
        BY <2>2, <3>1, <4>2 DEF Delivered
    <3> QED
      BY <3>2, <3>3
  <2> QED
    BY <2>1, <2>2 DEF Delivered, SynAck
<1> QED
  BY <1>1, <1>2

\* The effect of Accept, of a SYN p of c, with number i: the SYN-ACK q.
Accepting(p, q, c, i, conn) ==
    /\ p \in ToSet(arrived) /\ p.kind = "syn" /\ p.of = c /\ p.from = port[c]
    /\ p.seq \in InitNumbers /\ i \in InitNumbers
    /\ p = arrived[1] /\ arrived # <<>> /\ arrived' = Tail(arrived)
    /\ conn = [port |-> p.from, init |-> i, their_init |-> p.seq, of |-> c]
    /\ connections' = <<conn>> \o connections /\ conn \in Connections
    /\ q \in Packets /\ q.kind = "synack" /\ q.to = port[c] /\ q.of = c /\ q.seq = i
    /\ ToClients(q)
    /\ UNCHANGED <<port, phase, init, their_init, greeted, orphans>>

LEMMA AcceptEffect ==
    ASSUME TypeOK, \A d \in Clients : Session(d), Accept
    PROVE  \E c \in Clients : \E p, q, i, conn : Accepting(p, q, c, i, conn)
<1>1. PICK p : p = Head(arrived)
  OBVIOUS
<1>2. /\ arrived # <<>> /\ arrived' = Tail(arrived) /\ p.kind = "syn" /\ UNCHANGED <<clientVars, orphans>>
  BY <1>1 DEF Accept, Read, serverFrame
<1>3. p \in Packets /\ p \in ToSet(arrived) /\ p = arrived[1]
  BY <1>1, <1>2, Taken DEF TypeOK
<1>4. p.of \in Clients /\ p.seq \in Tcp
  BY <1>3 DEF Packets
<1>5. p.from = port[p.of] /\ p.seq \in InitNumbers /\ p.from \in Ports
  <2>1. p \in Messages(p.of)
    BY <1>2, <1>3 DEF Messages
  <2> QED
    BY <1>2, <1>4, <2>1 DEF Session, Sent, TypeOK
<1>6. PICK i \in InitNumbers :
         /\ connections' = AddFirst(connections, [port |-> p.from, init |-> i,
                                                  their_init |-> p.seq, of |-> p.of])
         /\ ToClients(Plain("synack", ServerPort, p.from, i, (p.seq + 1) % Wrap32, p.of))
  BY <1>1 DEF Accept
<1>7. PICK conn : conn = [port |-> p.from, init |-> i, their_init |-> p.seq, of |-> p.of]
  OBVIOUS
<1>8. PICK q : q = Plain("synack", ServerPort, p.from, i, (p.seq + 1) % Wrap32, p.of)
  OBVIOUS
<1>9. conn \in Connections
  BY <1>4, <1>5, <1>7 DEF Connections
<1>10. q \in Packets /\ q.kind = "synack" /\ q.to = p.from /\ q.of = p.of /\ q.seq = i
  <2>1. (p.seq + 1) % Wrap32 \in Tcp /\ i \in Tcp /\ p.from \in Ends /\ ServerPort \in Ends
    BY <1>4, <1>5, InTcp, NumbersInTcp DEF Tcp, Ends
  <2> QED
    BY <1>4, <1>8, <2>1, PlainPacket
<1>11. connections' = <<conn>> \o connections /\ ToClients(q)
  BY <1>6, <1>7, <1>8 DEF AddFirst
<1> QED
  BY <1>2, <1>3, <1>4, <1>5, <1>6, <1>7, <1>9, <1>10, <1>11 DEF Accepting, clientVars

LEMMA AcceptSession ==
    ASSUME TypeOK, OnePresent, \A d \in Clients : Session(d), Accept
    PROVE  OnePresent' /\ \A d \in Clients : Session(d)'
<1>0. PICK c \in Clients : \E p, q, i, conn : Accepting(p, q, c, i, conn)
  BY AcceptEffect
<1>1. PICK p, q, i, conn : Accepting(p, q, c, i, conn)
  BY <1>0
<1>2. /\ port' = port /\ phase' = phase /\ init' = init /\ their_init' = their_init
      /\ greeted' = greeted /\ Live' = Live /\ q \in Packets /\ ToClients(q)
  BY <1>1 DEF Accepting, Live
<1>3. /\ arrived \in Seq(Packets) /\ Len(arrived) \in Nat \ {0} /\ Len(arrived') = Len(arrived) - 1
      /\ \A k \in 1..Len(arrived) - 1 : arrived'[k] = arrived[k + 1]
      /\ ToSet(arrived') \subseteq ToSet(arrived) /\ arrived' \in Seq(Packets)
  BY <1>1, Taken DEF Accepting, TypeOK
<1>4. /\ Len(connections) \in Nat /\ Len(connections') = Len(connections) + 1
      /\ connections'[1] = conn /\ conn.of = c /\ conn.port = port[c]
      /\ conn.their_init = p.seq /\ conn.init = i
      /\ \A k \in 1..Len(connections) : connections'[k + 1] = connections[k]
                                        /\ connections[k] \in ToSet(connections)
      /\ ToSet(connections') = ToSet(connections) \cup {conn} /\ orphans' = orphans
  BY <1>1, InFront, Elements DEF Accepting, TypeOK
<1>5. /\ p \in Messages(c) /\ Unanswered(c) /\ c \notin greeted /\ ConnectionsOf(c) = {}
      /\ \A m \in ToSet(inbox[c]) : m.of # c
      /\ phase[c] \notin {"new", "resets"} /\ (phase[c] = "handshake" => p.seq = init[c])
  BY <1>1 DEF Accepting, Messages, Unanswered, Session, Unheard, Sent
<1>6. ASSUME NEW d \in Clients PROVE Messages(d)' \subseteq Messages(d) /\ SynOnce(d)'
  <2>1. SynOnce(d)'
    BY <1>1, SynOnceKept DEF Session, Accepting
  <2> QED
    BY <1>3, <2>1 DEF Messages
<1>7. ASSUME NEW d \in Clients PROVE (Present(d)' => Present(d)) /\ (Fresh(d)' <=> Fresh(d))
  BY <1>2, <1>6 DEF Present, Fresh, In
<1>8. OnePresent'
  BY <1>2, <1>7, StillOne
<1>9. ASSUME NEW d \in Clients PROVE Sent(d)'
  BY <1>2, <1>6 DEF Session, Sent
<1>10. ASSUME NEW d \in Clients PROVE Delivered(d)'
  <2>1. d \in Live /\ SynAck(d, q) => d = c
    BY <1>1, <1>5 DEF Accepting, SynAck, OnePresent, Present
  <2>2. q.of = c /\ q.kind = "synack" /\ q.to = port[c] /\ q.seq \in InitNumbers
    BY <1>1 DEF Accepting
  <2>3. d \in Live /\ SynAck(d, q) => q.of = d /\ \A m \in ToSet(inbox[d]) : m.of # d
    BY <1>5, <2>1, <2>2
  <2>4. Unheard(d) /\ Delivered(d)
    BY DEF Session
  <2> QED
    BY <1>2, <1>5, <2>2, <2>3, <2>4, PushedDelivered
<1>11. ASSUME NEW d \in Clients, d # c PROVE Session(d)'
  <2>1. ConnectionsOf(d)' = ConnectionsOf(d)
    BY <1>4, <1>11 DEF ConnectionsOf, Kept
  <2>2. /\ ToSet(inbox'[d]) \subseteq ToSet(inbox[d]) \cup {q}
        /\ q.of = c /\ q.to = port[c] /\ q.kind = "synack"
        /\ d \notin Live => inbox'[d] = inbox[d]
    BY <1>1, <1>2, Pushed DEF Accepting, Session
  <2>3. d \in Live => port[d] # port[c]
    BY <1>5, <1>11 DEF OnePresent, Present
  <2>4. Unheard(d)'
    <3>1. Unanswered(d)' => Unanswered(d)
      BY <1>2, <1>6 DEF Unanswered
    <3> QED
      BY <1>2, <1>11, <2>1, <2>2, <3>1 DEF Session, Unheard
  <2>5. Agreed(d)'
    <3>1. d \in Live => \A m \in ToSet(inbox'[d]) : SynAck(d, m) => m \in ToSet(inbox[d])
      BY <2>2, <2>3 DEF SynAck
    <3> QED
      BY <1>2, <2>1, <3>1 DEF Session, Agreed, Live, SynAck
  <2>6. Numbered(d)'
    BY <1>2, <1>6, <2>1 DEF Session, Numbered
  <2>7. Newest(d)'
    <3> SUFFICES ASSUME Present(d)', NEW j \in 1..Len(connections'), NEW k \in 1..Len(connections'),
                        connections'[k].of = d, j < k
                 PROVE  connections'[j].port # port[d]
      BY <1>2 DEF Newest
    <3>1. Present(d)
      BY <1>7
    <3>2. k - 1 \in 1..Len(connections) /\ connections[k - 1] = connections'[k]
      <4>1. k - 1 \in 1..Len(connections) /\ (k - 1) + 1 = k
        BY <1>4
      <4> QED
        BY <1>4, <4>1
    <3>3. CASE j = 1
      BY <1>4, <1>5, <1>11, <3>1, <3>3 DEF OnePresent, Present
    <3>4. CASE j # 1
      <4>1. j - 1 \in 1..Len(connections) /\ (j - 1) + 1 = j /\ j - 1 < k - 1
        BY <1>4, <3>4
      <4>2. connections[j - 1] = connections'[j]
        BY <1>4, <4>1
      <4>3. connections[k - 1].of = d
        BY <3>2
      <4> QED
        BY <3>1, <3>2, <4>1, <4>2, <4>3 DEF Session, Newest
    <3> QED
      BY <3>3, <3>4
  <2>8. Led(d)'
    <3> SUFFICES ASSUME Fresh(d)' PROVE Led(d)'
      BY DEF Led
    <3>1. Fresh(d)
      BY <1>7
    <3>2. CASE phase[d] = "handshake"
      <4>1. d \in Live /\ port[d] # port[c]
        BY <2>3, <3>2 DEF Live
      <4>2. /\ Len(inbox[d]) \in Nat /\ Len(inbox'[d]) = Len(inbox[d]) + 1
            /\ \A k \in 1..Len(inbox[d]) : inbox'[d][k] = inbox[d][k]
            /\ inbox'[d][Len(inbox[d]) + 1] = q
        BY <1>2, <4>1, Pushed DEF Session
      <4>3. ASSUME NEW k \in 1..Len(inbox'[d]), inbox'[d][k].to = port[d], inbox'[d][k].kind = "segment"
            PROVE  \E j \in 1..k - 1 : /\ SynAck(d, inbox'[d][j])
                                       /\ FollowsUp(d, inbox'[d][k], inbox'[d][j].seq)
        <5>1. k \in 1..Len(inbox[d]) /\ inbox'[d][k] = inbox[d][k]
          BY <2>2, <4>2, <4>3
        <5>2. PICK j \in 1..k - 1 : SynAck(d, inbox[d][j]) /\ FollowsUp(d, inbox[d][k], inbox[d][j].seq)
          BY <3>1, <3>2, <4>3, <5>1 DEF Session, Led
        <5>3. inbox'[d][j] = inbox[d][j]
          BY <4>2, <5>1
        <5> QED
          BY <5>1, <5>2, <5>3
      <4>4. ASSUME NEW x \in ConnectionsOf(d)
            PROVE  \E j \in 1..Len(inbox'[d]) : SynAck(d, inbox'[d][j]) /\ inbox'[d][j].seq = x.init
        <5>1. PICK j \in 1..Len(inbox[d]) : SynAck(d, inbox[d][j]) /\ inbox[d][j].seq = x.init
          BY <3>1, <3>2 DEF Session, Led
        <5>2. j \in 1..Len(inbox'[d]) /\ inbox'[d][j] = inbox[d][j]
          BY <4>2
        <5> QED
          BY <5>1, <5>2
      <4> QED
        BY <1>2, <2>1, <3>2, <4>3, <4>4 DEF Led, SynAck, FollowsUp
    <3>3. CASE phase[d] = "connected"
      BY <1>2, <2>2, <3>1, <3>3 DEF Session, Led, FollowsUp
    <3>4. CASE phase[d] \notin {"handshake", "connected"}
      BY <1>2, <3>4 DEF Led
    <3> QED
      BY <3>2, <3>3, <3>4
  <2> QED
    BY <1>6, <1>9, <1>10, <2>4, <2>5, <2>6, <2>7, <2>8 DEF Session
<1>12. Session(c)'
  <2>1. ConnectionsOf(c)' = {conn}
    BY <1>4, <1>5 DEF ConnectionsOf, Kept
  <2>2. ~Unanswered(c)'
    <3>1. ASSUME NEW m \in Messages(c)' PROVE m.kind # "syn"
      <4>1. m \in ToSet(arrived') /\ m.of = c
        BY <3>1 DEF Messages
      <4>2. PICK k \in 1..Len(arrived') : arrived'[k] = m
        BY <1>3, <4>1, Elements
      <4>3. k + 1 \in 1..Len(arrived) /\ 1 \in 1..Len(arrived) /\ arrived[k + 1] = m /\ k + 1 # 1
        BY <1>3, <4>2
      <4>4. IsSyn(c, arrived[1])
        BY <1>1 DEF Accepting, IsSyn
      <4>5. ~IsSyn(c, arrived[k + 1])
        BY <4>3, <4>4 DEF Session, SynOnce
      <4> QED
        BY <4>1, <4>3, <4>5 DEF IsSyn
    <3> QED
      BY <1>2, <1>5, <3>1 DEF Unanswered
  <2>3. Unheard(c)'
    <3>1. c \notin Live => inbox'[c] = inbox[c] /\ inbox[c] = <<>>
      BY <1>2, Pushed DEF Session, Unheard
    <3> QED
      BY <1>2, <2>2, <3>1 DEF Unheard
  <2>4. Agreed(c)'
    <3>1. \A m \in ToSet(inbox'[c]) : SynAck(c, m) => m = q
      BY <1>2, <1>5, Pushed DEF Session, Delivered
    <3>2. q.seq = i
      BY <1>1 DEF Accepting
    <3> QED
      BY <1>2, <1>4, <1>5, <2>1, <3>1, <3>2 DEF Agreed, SynAck
  <2>5. Numbered(c)'
    BY <1>2, <1>5 DEF Numbered
  <2>6. Newest(c)'
    <3>1. \A k \in 1..Len(connections) : connections[k].of # c
      BY <1>4, <1>5 DEF ConnectionsOf, Kept
    <3>2. \A k \in 1..Len(connections') : k # 1 => connections'[k].of # c
      <4> TAKE k \in 1..Len(connections')
      <4> HAVE k # 1
      <4>1. k - 1 \in 1..Len(connections) /\ (k - 1) + 1 = k
        BY <1>4
      <4>2. connections'[k] = connections[k - 1]
        BY <1>4, <4>1
      <4> QED
        BY <3>1, <4>1, <4>2
    <3>3. \A j, k \in 1..Len(connections') : j < k => k # 1
      BY <1>4
    <3> QED
      BY <3>2, <3>3 DEF Newest
  <2>7. Led(c)'
    <3> SUFFICES ASSUME Fresh(c)' PROVE Led(c)'
      BY DEF Led
    <3>1. Fresh(c) /\ phase[c] # "connected"
      BY <1>5, <1>7 DEF Session, Led
    <3>2. CASE phase[c] = "handshake"
      <4>1. c \in Live
        BY <3>2 DEF Live
      <4>2. /\ inbox'[c] \in Seq(Packets) /\ ToSet(inbox[c]) \subseteq Packets
            /\ Len(inbox[c]) \in Nat /\ Len(inbox'[c]) = Len(inbox[c]) + 1
            /\ inbox'[c][Len(inbox[c]) + 1] = q /\ ToSet(inbox'[c]) = ToSet(inbox[c]) \cup {q}
        BY <1>2, <4>1, Pushed DEF Session
      <4>3. ASSUME NEW m \in ToSet(inbox'[c]), m.kind = "segment" PROVE m.to # port[c]
        <5>1. m \in ToSet(inbox[c])
          BY <1>1, <4>2, <4>3 DEF Accepting
        <5>2. m.of \in Clients /\ m.of # c /\ m.to = port[m.of] /\ phase[m.of] # "new"
          BY <1>5, <4>2, <5>1 DEF Session, Delivered, Packets
        <5> QED
          BY <3>1, <5>2 DEF Fresh, In
      <4>4. \A k \in 1..Len(inbox'[c]) : ~(inbox'[c][k].kind = "segment" /\ inbox'[c][k].to = port[c])
        BY <4>2, <4>3, Elements
      <4>5. SynAck(c, q) /\ q.seq = conn.init
        BY <1>1, <1>4 DEF Accepting, SynAck
      <4>6. Len(inbox[c]) + 1 \in 1..Len(inbox'[c])
        BY <4>2
      <4>7. \E j \in 1..Len(inbox'[c]) : SynAck(c, inbox'[c][j]) /\ inbox'[c][j].seq = conn.init
        BY <4>2, <4>5, <4>6
      <4> QED
        BY <1>2, <2>1, <3>2, <4>4, <4>7 DEF Led, SynAck
    <3>3. CASE phase[c] # "handshake"
      BY <1>2, <3>1, <3>3 DEF Led
    <3> QED
      BY <3>2, <3>3
  <2> QED
    BY <1>6, <1>9, <1>10, <2>3, <2>4, <2>5, <2>6, <2>7 DEF Session
<1> QED
  BY <1>8, <1>11, <1>12

LEMMA AnswerSession ==
    ASSUME TypeOK, OnePresent, \A d \in Clients : Session(d), Answer
    PROVE  OnePresent' /\ \A d \in Clients : Session(d)'
<1>1. PICK conn \in Kept, s, a \in Ctcp :
          ToClients(convert_to_datagram(ServerPort, conn.port, conn.init, conn.their_init, conn.of, s, a))
  BY DEF Answer
<1>2. PICK q : q = convert_to_datagram(ServerPort, conn.port, conn.init, conn.their_init, conn.of, s, a)
  OBVIOUS
<1>3. PICK c : c = conn.of
  OBVIOUS
<1>4. /\ conn \in Connections /\ c \in Clients /\ conn \in ConnectionsOf(c)
      /\ conn.port \in Ports /\ conn.init \in InitNumbers /\ conn.their_init \in InitNumbers
  <2>1. conn \in Connections
    BY Elements DEF Kept, TypeOK
  <2> QED
    BY <1>3, <2>1 DEF Connections, ConnectionsOf, Kept
<1>5. conn.port = port[c] /\ ~Unanswered(c) /\ phase[c] \notin {"new", "resets"}
  BY <1>4 DEF Session, Agreed, Unheard, Unanswered
<1>6. /\ q \in Packets /\ q.kind = "segment" /\ q.to = port[c] /\ q.of = c
      /\ q.seqno = s /\ q.ackno = a /\ q.seq = conn.init + s /\ q.ack = conn.their_init + a
  <2>1. conn.port \in Ends /\ ServerPort \in Ends /\ conn.init \in Tcp /\ conn.their_init \in Tcp
    BY <1>4, NumbersInTcp DEF Ends
  <2> QED
    BY <1>2, <1>3, <1>4, <1>5, <2>1, SegmentPacket
<1>7. /\ ToClients(q) /\ Live' = Live
      /\ UNCHANGED <<port, phase, init, their_init, greeted, arrived, connections, orphans>>
  BY <1>1, <1>2 DEF Answer, clientVars, serverVars, Live
<1>8. OnePresent' 
  BY <1>7, StillOne DEF Present, Messages
<1>9. ASSUME NEW d \in Clients PROVE Session(d)'
  <2>1. /\ Messages(d)' = Messages(d) /\ ConnectionsOf(d)' = ConnectionsOf(d)
        /\ (Unanswered(d)' <=> Unanswered(d)) /\ (Fresh(d)' <=> Fresh(d)) /\ (Present(d)' <=> Present(d))
    BY <1>7 DEF Messages, ConnectionsOf, Kept, Unanswered, Fresh, In, Present
  <2>2. /\ ToSet(inbox'[d]) \subseteq ToSet(inbox[d]) \cup {q}
        /\ d \notin Live => inbox'[d] = inbox[d]
    BY <1>6, <1>7, Pushed DEF Session
  <2>3. Unheard(d)'
    BY <1>5, <1>6, <1>7, <2>1, <2>2 DEF Session, Unheard
  <2>4. Sent(d)' /\ SynOnce(d)' /\ Numbered(d)' /\ Newest(d)'
    BY <1>7, <2>1 DEF Session, Sent, SynOnce, IsSyn, Numbered, Newest
  <2>5. Delivered(d)'
    <3>1. ~SynAck(d, q) /\ Unheard(d) /\ Delivered(d)
      BY <1>6 DEF SynAck, Session
    <3> QED
      BY <1>5, <1>6, <1>7, <3>1, PushedDelivered
  <2>6. Agreed(d)'
    <3>1. \A m \in ToSet(inbox'[d]) : SynAck(d, m) => m \in ToSet(inbox[d])
      BY <1>6, <2>2 DEF SynAck
    <3> QED
      BY <1>7, <2>1, <3>1 DEF Session, Agreed, SynAck
  <2>7. Led(d)'
    <3> SUFFICES ASSUME Fresh(d)' PROVE Led(d)'
      BY DEF Led
    <3>1. Fresh(d) /\ (q.to = port[d] => d = c)
      BY <1>4, <1>5, <1>6, <2>1 DEF Fresh, In
    <3>2. CASE phase[d] = "handshake"
      <4>1. d \in Live
        BY <3>2 DEF Live
      <4>2. /\ Len(inbox[d]) \in Nat /\ Len(inbox'[d]) = Len(inbox[d]) + 1
            /\ \A k \in 1..Len(inbox[d]) : inbox'[d][k] = inbox[d][k]
            /\ inbox'[d][Len(inbox[d]) + 1] = q
        BY <1>6, <1>7, <4>1, Pushed DEF Session
      <4>3. ASSUME NEW x \in ConnectionsOf(d)
            PROVE  \E j \in 1..Len(inbox[d]) : /\ SynAck(d, inbox[d][j]) /\ inbox[d][j].seq = x.init
                                               /\ inbox'[d][j] = inbox[d][j] /\ j \in 1..Len(inbox'[d])
        <5>1. PICK j \in 1..Len(inbox[d]) : SynAck(d, inbox[d][j]) /\ inbox[d][j].seq = x.init
          BY <3>1, <3>2 DEF Session, Led
        <5> QED
          BY <4>2, <5>1
      <4>4. ASSUME NEW k \in 1..Len(inbox'[d]), inbox'[d][k].to = port[d], inbox'[d][k].kind = "segment"
            PROVE  \E j \in 1..k - 1 : /\ SynAck(d, inbox'[d][j])
                                       /\ FollowsUp(d, inbox'[d][k], inbox'[d][j].seq)
        <5>1. CASE k \in 1..Len(inbox[d])
          <6>1. inbox'[d][k] = inbox[d][k]
            BY <4>2, <5>1
          <6>2. PICK j \in 1..k - 1 : SynAck(d, inbox[d][j]) /\ FollowsUp(d, inbox[d][k], inbox[d][j].seq)
            BY <3>1, <3>2, <4>4, <5>1, <6>1 DEF Session, Led
          <6>3. inbox'[d][j] = inbox[d][j]
            BY <4>2, <5>1
          <6> QED
            BY <6>1, <6>2, <6>3
        <5>2. CASE k = Len(inbox[d]) + 1
          <6>1. inbox'[d][k] = q /\ d = c
            BY <3>1, <4>2, <4>4, <5>2
          <6>2. conn.their_init = init[d]
            BY <1>4, <3>2, <6>1 DEF Session, Agreed
          <6>3. PICK j \in 1..Len(inbox[d]) : /\ SynAck(d, inbox[d][j]) /\ inbox[d][j].seq = conn.init
                                              /\ inbox'[d][j] = inbox[d][j]
            BY <1>4, <4>3, <6>1
          <6>4. FollowsUp(d, q, conn.init) /\ j \in 1..k - 1
            BY <1>6, <4>2, <5>2, <6>2 DEF FollowsUp
          <6>5. SynAck(d, inbox'[d][j]) /\ FollowsUp(d, inbox'[d][k], inbox'[d][j].seq)
            BY <6>1, <6>3, <6>4
          <6> QED
            BY <6>4, <6>5
        <5>3. k \in 1..Len(inbox[d]) \/ k = Len(inbox[d]) + 1
          BY <4>2
        <5> QED
          BY <5>1, <5>2, <5>3
      <4>5. \A x \in ConnectionsOf(d) :
                \E j \in 1..Len(inbox'[d]) : SynAck(d, inbox'[d][j]) /\ inbox'[d][j].seq = x.init
        BY <4>3
      <4> QED
        BY <1>7, <2>1, <3>2, <4>4, <4>5 DEF Led, SynAck, FollowsUp
    <3>3. CASE phase[d] = "connected"
      <4>1. d \in greeted /\ (q.to = port[d] => FollowsUp(d, q, their_init[d]))
        <5>1. d \in greeted
          BY <3>1, <3>3 DEF Session, Led
        <5>2. ASSUME q.to = port[d] PROVE conn.init = their_init[d] /\ conn.their_init = init[d]
          BY <1>4, <3>1, <3>3, <5>1, <5>2 DEF Session, Agreed
        <5> QED
          BY <1>6, <5>1, <5>2 DEF FollowsUp
      <4> QED
        BY <1>7, <2>2, <3>1, <3>3, <4>1 DEF Session, Led, FollowsUp
    <3>4. CASE phase[d] \notin {"handshake", "connected"}
      BY <1>7, <3>4 DEF Led
    <3> QED
      BY <3>2, <3>3, <3>4
  <2> QED
    BY <2>3, <2>4, <2>5, <2>6, <2>7 DEF Session
<1> QED
  BY <1>8, <1>9

----------------------------------------------------------------------------
\* What is handed to ctcp_receive

LEMMA HearOwn ==
    ASSUME TypeOK, NEW c \in Clients, Session(c), Hear(c)
    PROVE  ClientHearsItsServer' /\ ServerHearsItsClient'
<1>1. PICK p : p = Head(inbox[c])
  OBVIOUS
<1>2. /\ phase[c] = "connected" /\ inbox[c] # <<>>
      /\ UNCHANGED <<port, phase>>
  BY DEF Hear, In, clientVars
<1>3. p \in ToSet(inbox[c]) /\ p \in Packets
  <2>1. inbox[c] \in Seq(Packets)
    BY DEF TypeOK
  <2> QED
    BY <1>1, <1>2, <2>1, Taken
<1>4. CASE handed' = {}
  BY <1>4 DEF ClientHearsItsServer, ServerHearsItsClient
<1>5. CASE Passes(c, p) /\ p.kind # "synack" /\ Hand("client", c, p, init[c], their_init[c])
  <2>1. PICK h : h = [side |-> "client", owner |-> c, packet |-> p,
                      seqno |-> ToCtcp(p.seq, their_init[c]), ackno |-> ToCtcp(p.ack, init[c])]
    OBVIOUS
  <2>2. /\ handed' = {h} /\ h.side = "client" /\ h.owner = c /\ h.packet = p
        /\ h.seqno = ToCtcp(p.seq, their_init[c]) /\ h.ackno = ToCtcp(p.ack, init[c])
    BY <1>5, <2>1 DEF Hand
  <2>3. ASSUME Fresh(c) PROVE Own(h)
    <3>1. p.to = port[c] /\ p.kind = "segment" /\ p.of \in Clients /\ p.seqno \in Ctcp /\ p.ackno \in Ctcp
      BY <1>3, <1>5 DEF Passes, ForMe, Session, Delivered, Packets
    <3>2. p.of = c
      BY <1>3, <2>3, <3>1 DEF Session, Delivered, Fresh, In
    <3>3. /\ p.seq = their_init[c] + p.seqno /\ p.ack = init[c] + p.ackno
          /\ init[c] \in InitNumbers /\ their_init[c] \in InitNumbers
      BY <1>2, <1>3, <2>3, <3>1 DEF Session, Led, FollowsUp, Agreed
    <3>4. h.seqno = p.seqno /\ h.ackno = p.ackno
      BY <2>2, <3>1, <3>3, Translated
    <3> QED
      BY <2>2, <3>2, <3>4 DEF Own
  <2>4. Fresh(c)' => Fresh(c)
    BY <1>2 DEF Fresh, In
  <2> QED
    BY <2>2, <2>3, <2>4 DEF ClientHearsItsServer, ServerHearsItsClient, Own
<1> QED
  BY <1>1, <1>4, <1>5 DEF Hear, Nothing

LEMMA SegmentOwn ==
    ASSUME TypeOK, \A d \in Clients : Session(d), Segment
    PROVE  ClientHearsItsServer' /\ ServerHearsItsClient'
<1>1. PICK p : p = Head(arrived)
  OBVIOUS
<1>2. p \in ToSet(arrived) /\ p \in Packets /\ p.kind = "segment" /\ p.of \in Clients
      /\ UNCHANGED <<connections, orphans, greeted>>
  <2>1. arrived \in Seq(Packets) /\ arrived # <<>>
    BY DEF Segment, Read, TypeOK
  <2>2. p \in ToSet(arrived) /\ p \in Packets
    BY <1>1, <2>1, Taken
  <2>3. p.of \in Clients
    BY <2>2 DEF Packets
  <2> QED
    BY <1>1, <2>2, <2>3 DEF Segment, serverFrame, clientVars
<1>3. CASE handed' = {}
  BY <1>3 DEF ClientHearsItsServer, ServerHearsItsClient
<1>4. ASSUME NEW i \in Found(p),
             Hand("server", connections[i].of, p, connections[i].init, connections[i].their_init)
      PROVE  ClientHearsItsServer' /\ ServerHearsItsClient'
  <2>1. PICK h : h = [side |-> "server", owner |-> connections[i].of, packet |-> p,
                      seqno |-> ToCtcp(p.seq, connections[i].their_init),
                      ackno |-> ToCtcp(p.ack, connections[i].init)]
    OBVIOUS
  <2>2. /\ handed' = {h} /\ h.side = "server" /\ h.owner = connections[i].of /\ h.packet = p
        /\ h.seqno = ToCtcp(p.seq, connections[i].their_init)
        /\ h.ackno = ToCtcp(p.ack, connections[i].init)
    BY <1>4, <2>1 DEF Hand
  <2>3. ASSUME p.of \in greeted, NEW conn \in ToSet(connections), conn.of = p.of PROVE Own(h)
    <3>1. /\ connections \in Seq(Connections) /\ Len(connections) \in Nat /\ i \in 1..Len(connections)
          /\ connections[i] \in ToSet(connections) /\ conn \in Connections
      BY Elements DEF TypeOK, Found
    <3>2. p \in Messages(p.of) /\ p.from = port[p.of] /\ conn \in ConnectionsOf(p.of)
      BY <1>2, <2>3 DEF Messages, Session, Sent, ConnectionsOf, Kept
    <3>3. /\ p.seq = conn.their_init + p.seqno /\ p.ack = conn.init + p.ackno /\ conn.port = p.from
          /\ conn.init \in InitNumbers /\ conn.their_init \in InitNumbers
          /\ p.seqno \in Ctcp /\ p.ackno \in Ctcp
      BY <1>2, <2>3, <3>1, <3>2 DEF Session, Numbered, Agreed, Connections, Packets
    <3>4. PICK k \in 1..Len(connections) : connections[k] = conn
      BY <3>1, Elements
    <3>5. Matches(conn, p)
      <4>1. conn.init \in Nat /\ conn.their_init \in Nat /\ p.seqno \in Nat /\ p.ackno \in Nat
        <5>1. InitNumbers \subseteq Nat /\ Ctcp \subseteq Nat
          BY ConnectAssumption DEF Ctcp
        <5> QED
          BY <3>3, <5>1
      <4>2. p.seq >= conn.their_init /\ p.ack >= conn.init
        BY <3>3, <4>1
      <4> QED
        BY <3>3, <4>2 DEF Matches
    <3>6. i = k
      <4>1. ~(k < i)
        BY <3>1, <3>4, <3>5 DEF Found
      <4>2. ~(i < k)
        <5>1. connections[i].port = port[p.of] /\ Present(p.of)
          BY <3>2 DEF Found, Matches, Present
        <5> QED
          BY <1>2, <2>3, <3>1, <3>4, <5>1 DEF Session, Newest
      <4> QED
        BY <3>1, <4>1, <4>2
    <3>7. h.seqno = p.seqno /\ h.ackno = p.ackno
      BY <2>2, <3>3, <3>4, <3>6, Translated
    <3> QED
      BY <2>2, <2>3, <3>4, <3>6, <3>7 DEF Own
  <2> QED
    BY <1>2, <2>2, <2>3 DEF ClientHearsItsServer, ServerHearsItsClient, Own
<1>5. handed' = {} \/ \E i \in Found(p) :
          Hand("server", connections[i].of, p, connections[i].init, connections[i].their_init)
  BY <1>1 DEF Segment, Nothing
<1> QED
  BY <1>3, <1>4, <1>5

----------------------------------------------------------------------------
LEMMA ConnectInit == Init => ConnectInv
<1> SUFFICES ASSUME Init PROVE ConnectInv
  OBVIOUS
<1> USE ConnectAssumption, NoElements DEF Init
<1>1. TypeOK
  <2>1. <<>> \in Seq(Packets) /\ <<>> \in Seq(Connections) /\ 0 \in Tcp
    BY NumbersInTcp, EmptySeq
  <2>2. inbox \in [Clients -> Seq(Packets)] /\ arrived \in Seq(Packets) /\ connections \in Seq(Connections)
    BY <2>1
  <2>3. num_connected \in Len(connections)..MaxClients /\ segments \in 0..MaxSegments
    OBVIOUS
  <2> QED
    BY <2>1, <2>2, <2>3 DEF TypeOK
<1>2. \A c \in Clients : Messages(c) = {} /\ ConnectionsOf(c) = {} /\ c \notin Live
                         /\ inbox[c] = <<>> /\ phase[c] = "new"
  BY DEF Messages, ConnectionsOf, Kept, Live
<1>3. OnePresent
  BY <1>2 DEF OnePresent, Present
<1>4. \A c \in Clients : Session(c)
  BY <1>2 DEF Session, Unheard, Sent, SynOnce, Delivered, Agreed, Numbered, Newest, Led, Present
<1>5. ClientHearsItsServer /\ ServerHearsItsClient
  BY DEF ClientHearsItsServer, ServerHearsItsClient
<1> QED
  BY <1>1, <1>3, <1>4, <1>5 DEF ConnectInv

LEMMA ConnectStep == ConnectInv /\ [Next]_vars => ConnectInv'
<1> SUFFICES ASSUME ConnectInv, [Next]_vars PROVE ConnectInv'
  OBVIOUS
<1> USE DEF ConnectInv
<1>1. CASE UNCHANGED vars
  <2> USE <1>1 DEF vars, clientVars, serverVars
  <2>1. TypeOK'
    BY DEF TypeOK
  <2>2. OnePresent'
    BY DEF OnePresent, Present, Messages, Live
  <2>3. \A c \in Clients : Unheard(c)' /\ Sent(c)' /\ SynOnce(c)' /\ Delivered(c)'
    BY DEF Session, Unheard, Sent, SynOnce, Delivered, Messages, ConnectionsOf, Kept, Unanswered, Live,
           IsSyn, SynAck
  <2>4. \A c \in Clients : Agreed(c)' /\ Numbered(c)'
    BY DEF Session, Agreed, Numbered, Messages, ConnectionsOf, Kept, SynAck
  <2>5. \A c \in Clients : Newest(c)' /\ Led(c)'
    BY DEF Session, Newest, Led, Messages, ConnectionsOf, Kept, Live, Present, SynAck, FollowsUp, Fresh, In
  <2>6. ClientHearsItsServer' /\ ServerHearsItsClient'
    BY DEF ClientHearsItsServer, ServerHearsItsClient, Own, Fresh, In
  <2> QED
    BY <2>1, <2>2, <2>3, <2>4, <2>5, <2>6 DEF Session
<1>2. CASE Next
  <2>1. TypeOK'
    <3>1. \A c \in Clients : Sent(c)
      BY DEF Session
    <3> QED
      BY <1>2, <3>1, ClientType, ServerType DEF Next
  <2>2. OnePresent' /\ \A c \in Clients : Session(c)'
    BY <1>2, <2>1, ClientSession, QuietServer, AcceptSession, AnswerSession DEF Next, Serve
  <2>3. handed' = {} \/ Segment \/ \E c \in Clients : Hear(c)
    BY <1>2 DEF Next, Serve, ClientNext, GetRst, Accept, Refuse, Answer, Drop, Start, send_resets,
        SendSyn, GetSynAck, Continue, Fail, Say, End, Nothing
  <2>4. ClientHearsItsServer' /\ ServerHearsItsClient'
    <3>1. CASE handed' = {}
      BY <3>1 DEF ClientHearsItsServer, ServerHearsItsClient
    <3> QED
      BY <2>3, <3>1, SegmentOwn, HearOwn
  <2> QED
    BY <2>1, <2>2, <2>4
<1> QED
  BY <1>1, <1>2

LEMMA ConnectHolds == Spec => []ConnectInv
  BY ConnectInit, ConnectStep, PTL DEF Spec

\* Every variable has its type.
THEOREM TypeCorrect == Spec => []TypeOK
<1>1. ConnectInv => TypeOK
  BY DEF ConnectInv
<1> QED
  BY <1>1, ConnectHolds, PTL

\* What ctcp_receive is given at a client whose port nobody had before is from
\* its connection with the server and has the numbers of cTCP that it had there
\* (recv_filter, convert_to_ctcp), whatever other processes are on the host.
THEOREM ClientHears == Spec => []ClientHearsItsServer
<1>1. ConnectInv => ClientHearsItsServer
  BY DEF ConnectInv
<1> QED
  BY <1>1, ConnectHolds, PTL

\* What ctcp_receive is given at the server of a client that is still listed,
\* and whose SYN was answered, is given to the state of that client and has its
\* numbers, however often its port was used before.
THEOREM ServerHears == Spec => []ServerHearsItsClient
<1>1. ConnectInv => ServerHearsItsClient
  BY DEF ConnectInv
<1> QED
  BY <1>1, ConnectHolds, PTL
=============================================================================
