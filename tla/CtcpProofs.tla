----------------------------- MODULE CtcpProofs -----------------------------
(***************************************************************************)
(* Proofs about Ctcp for all inputs, windows, integer widths and faults:   *)
(* types, the wholeness of the sender's stream, that no sequence number is *)
(* output twice, and the error of the window counter; where reads fit a    *)
(* window, that what is output is what was typed; and on a network that    *)
(* neither loses nor reorders, that one direction implements CtcpStream.   *)
(***************************************************************************)
EXTENDS Ctcp, SequenceTheorems, WellFoundedInduction, TLAPS

\* A handler that is to queue a piece has one.
ReadHasPieces == \A e \in Ends : pc[e] = "read" => pieces[e] # <<>>

TypeInv == TypeOK /\ ReadHasPieces

\* StreamWhole, list by list: the end of a segment is where the next begins,
\* also from the last of u to the first of p, and next is the end of all.
End(seg) == seg.seqno + Size(seg)
Chained(u, p, next) ==
    /\ \A i \in 1..Len(u) - 1 : End(u[i].seg) = u[i + 1].seg.seqno
    /\ \A i \in 1..Len(p) - 1 : End(p[i]) = p[i + 1].seqno
    /\ u # <<>> => End(u[Len(u)].seg) = IF p = <<>> THEN next ELSE p[1].seqno
    /\ p # <<>> => End(p[Len(p)]) = next

StreamInv ==
    \A e \in Ends : Chained(unacknowledged[e], pending[e], sequence_number[e])

\* What was output lies below the number that ctcp_receive expects, and this
\* number never goes back.
OutputInv ==
    /\ OutputOnce
    /\ \A e \in Ends : \A i \in 1..Len(output[e]) :
          output[e][i].seqno + Len(output[e][i].data) <= expected[e]

----------------------------------------------------------------------------
\* Ends, segments, numbers

LEMMA PeerFacts == \A e \in Ends : Peer(e) \in Ends /\ Peer(e) # e
  BY DEF Ends, Peer

LEMMA Remainder ==
    ASSUME NEW n \in Int, NEW w \in Nat \ {0} PROVE n % w \in 0..w - 1
  OBVIOUS

LEMMA SegmentFacts ==
    ASSUME NEW s \in Segment
    PROVE  /\ s.seqno \in Nat /\ s.ackno \in Nat /\ s.data \in Bytes
           /\ Size(s) \in Nat /\ Length(s) \in Nat /\ End(s) \in Nat
<1>1. s.seqno \in Nat /\ s.ackno \in Nat /\ s.data \in Bytes
  BY DEF Segment
<1>2. Size(s) \in Nat
  BY <1>1, LenProperties DEF Size, Bytes
<1> QED
  BY <1>1, <1>2, CtcpAssumption DEF Length, End

\* The counters of bytes.
LEMMA Wrapped ==
    ASSUME NEW n \in Nat, NEW s \in Segment, NEW w \in Nat \ {0}
    PROVE  /\ (n + Length(s)) % w \in 0..w - 1
           /\ (n - Length(s)) % w \in 0..w - 1
<1>1. Length(s) \in Nat
  BY SegmentFacts
<1>2. n + Length(s) \in Int /\ n - Length(s) \in Int
  BY <1>1
<1> QED
  BY <1>2, Remainder

LEMMA CounterFacts ==
    ASSUME TypeOK, NEW e \in Ends
    PROVE  /\ sliding_window[e] \in Nat /\ inflight[e] \in Nat /\ send_window[e] \in Nat
           /\ Wrap16 \in Nat \ {0} /\ Wrap32 \in Nat \ {0}
  BY CtcpAssumption DEF TypeOK

LEMMA NoSegmentType == NoSegment \in Segment
<1>1. <<>> \in Bytes
  BY EmptySeq DEF Bytes
<1> QED
  BY <1>1 DEF NoSegment, Segment

LEMMA NewSegmentType ==
    ASSUME TypeOK, NEW e \in Ends, NEW data \in Bytes, NEW fin \in BOOLEAN, NEW ackno \in Nat
    PROVE  /\ NewSegment(e, data, fin, ackno) \in Segment
           /\ NewSegment(e, data, fin, ackno).seqno = sequence_number[e]
           /\ NewSegment(e, data, fin, ackno).data = data
  BY DEF NewSegment, Segment, TypeOK

LEMMA EmptyData == <<>> \in Bytes /\ Len(<<>>) = 0
  BY EmptySeq DEF Bytes

\* The head and the tail of a list.
LEMMA TailFacts ==
    ASSUME NEW S, NEW s \in Seq(S), s # <<>>
    PROVE  /\ Head(s) \in S /\ Head(s) = s[1] /\ Tail(s) \in Seq(S)
           /\ Len(s) \in Nat \ {0} /\ Len(Tail(s)) = Len(s) - 1
           /\ \A k \in 1..Len(s) - 1 : Tail(s)[k] = s[k + 1]
           /\ Tail(s) = <<>> <=> Len(s) = 1
<1>1. /\ Head(s) \in S /\ Head(s) = s[1] /\ Tail(s) \in Seq(S)
      /\ Len(s) \in Nat \ {0} /\ Len(Tail(s)) = Len(s) - 1
      /\ \A k \in 1..Len(s) - 1 : Tail(s)[k] = s[k + 1]
  BY HeadTailProperties, EmptySeq
<1>2. Tail(s) = <<>> <=> Len(Tail(s)) = 0
  BY <1>1, EmptySeq
<1> QED
  BY <1>1, <1>2

\* A change of one queued segment that is not to the segment itself.
LEMMA Changed ==
    ASSUME NEW u \in Seq(Queued), NEW i \in 1..Len(u), NEW q \in Queued, q.seg = u[i].seg
    PROVE  LET v == [u EXCEPT ![i] = q] IN
           /\ v \in Seq(Queued) /\ Len(v) = Len(u)
           /\ \A k \in 1..Len(u) : v[k].seg = u[k].seg
  BY ExceptSeq

LEMMA Marked ==
    ASSUME NEW q \in Queued, NEW x \in BOOLEAN
    PROVE  [q EXCEPT !.sent = x] \in Queued /\ [q EXCEPT !.sent = x].seg = q.seg
  BY DEF Queued

LEMMA Counted ==
    ASSUME NEW q \in Queued, NEW n \in 0..MaxTries - 1
    PROVE  [q EXCEPT !.tries = n] \in Queued /\ [q EXCEPT !.tries = n].seg = q.seg
  BY DEF Queued

LEMMA Unqueued ==
    ASSUME NEW q \in Queued
    PROVE  /\ q.seg \in Segment /\ q.tries \in 0..MaxTries - 1
           /\ [q EXCEPT !.sent = TRUE] \in Queued
           /\ [q EXCEPT !.sent = TRUE].seg = q.seg
           /\ q.tries + 1 < MaxTries =>
                 /\ [q EXCEPT !.tries = @ + 1] \in Queued
                 /\ [q EXCEPT !.tries = @ + 1].seg = q.seg
<1>1. q.seg \in Segment /\ q.tries \in 0..MaxTries - 1
  BY DEF Queued
<1>2. [q EXCEPT !.sent = TRUE] \in Queued /\ [q EXCEPT !.sent = TRUE].seg = q.seg
  BY Marked, Zenon
<1>3. q.tries + 1 < MaxTries => q.tries + 1 \in 0..MaxTries - 1
  BY <1>1, CtcpAssumption
<1> QED
  BY <1>1, <1>2, <1>3, Counted

LEMMA NewlyQueued ==
    ASSUME NEW s \in Segment
    PROVE  [seg |-> s, sent |-> FALSE, tries |-> 0] \in Queued
  BY CtcpAssumption DEF Queued

\* What ctcp_read hands to send_segment.
LEMMA PiecesFacts ==
    ASSUME TypeOK, NEW e \in Ends, NEW n \in Nat \ {0}, send_window[e] # 0
    PROVE  Pieces(e, n) \in Seq(Bytes) /\ Pieces(e, n) # <<>>
<1> DEFINE w == send_window[e]
           count == IF n > w THEN (n + w - 1) \div w ELSE 0
           piece(i) == [k \in 1..w |-> Byte(e, (i - 1) * w + k, n)]
           split == [i \in 1..count |-> piece(i)]
<1>1. w \in Nat \ {0} /\ typed[e] \in Nat
  BY CtcpAssumption DEF TypeOK
<1>2. count \in Nat
  <2>1. n + w - 1 \in Nat
    BY <1>1
  <2>2. (n + w - 1) \div w \in Nat
    BY <1>1, <2>1
  <2> QED
    BY <2>2
<1>3. \A i \in 1..count : piece(i) \in Bytes
  <2> TAKE i \in 1..count
  <2>1. (i - 1) * w \in Int
    BY <1>1, <1>2
  <2>2. \A k \in 1..w : Byte(e, (i - 1) * w + k, n) \in Nat
    <3> DEFINE m == (i - 1) * w
    <3>0. m \in Int /\ i - 1 \in Nat
      BY <2>1, <1>2
    <3>a. m >= 0
      BY <3>0, <1>1
    <3> HIDE DEF m
    <3>1. \A k \in 1..w : typed[e] + (m + k) \in Nat
      BY <3>0, <3>a, <1>1
    <3>2. \A k \in 1..w : Byte(e, m + k, n) \in Nat
      BY <3>1 DEF Byte
    <3> QED
      BY <3>2 DEF m
  <2> HIDE DEF w
  <2> QED
    BY <1>1, <2>2 DEF Bytes
<1>4. Whole(e, n) \in Bytes
  BY <1>1 DEF Whole, Bytes
<1> HIDE DEF piece
<1>5. split \in Seq(Bytes)
  <2> HIDE DEF count
  <2> QED
    BY <1>2, <1>3
<1>6. <<Whole(e, n)>> \in Seq(Bytes) /\ Len(<<Whole(e, n)>>) = 1
  BY <1>4
<1> HIDE DEF split
<1>7. split \o <<Whole(e, n)>> \in Seq(Bytes) /\ Len(split \o <<Whole(e, n)>>) # 0
  BY <1>5, <1>6, ConcatProperties, LenProperties
<1>8. Pieces(e, n) = split \o <<Whole(e, n)>>
  BY DEF Pieces, split, piece
<1> QED
  BY <1>7, <1>8, EmptySeq

----------------------------------------------------------------------------
\* The two lists of a sender

LEMMA ChainedEmpty == ASSUME NEW n PROVE Chained(<<>>, <<>>, n)
<1>1. Len(<<>>) = 0
  BY EmptySeq
<1> QED
  BY <1>1 DEF Chained

\* send_segment numbers a segment with the end of the list.
LEMMA ChainedEnqueue ==
    ASSUME NEW u \in Seq(Queued), NEW p \in Seq(Segment), NEW n \in Nat, Chained(u, p, n),
           NEW s \in Segment, s.seqno = n
    PROVE  Chained(u, Append(p, s), End(s))
<1> DEFINE r == Append(p, s)
<1>1. /\ r \in Seq(Segment) /\ r # <<>> /\ Len(r) = Len(p) + 1 /\ Len(p) \in Nat
      /\ \A i \in 1..Len(p) : r[i] = p[i]
      /\ r[Len(p) + 1] = s
  BY AppendProperties, LenProperties
<1>2. p = <<>> <=> Len(p) = 0
  BY EmptySeq
<1> HIDE DEF r
<1>3. ASSUME NEW i \in 1..Len(r) - 1 PROVE End(r[i]) = r[i + 1].seqno
  <2>1. CASE i = Len(p)
    <3>1. p # <<>> /\ r[i] = p[Len(p)] /\ r[i + 1] = s
      BY <1>1, <1>2, <2>1
    <3> QED
      BY <3>1 DEF Chained
  <2>2. CASE i # Len(p)
    <3>1. i \in 1..Len(p) - 1 /\ r[i] = p[i] /\ r[i + 1] = p[i + 1]
      BY <1>1, <2>2
    <3> QED
      BY <3>1 DEF Chained
  <2> QED
    BY <2>1, <2>2
<1>4. u # <<>> => End(u[Len(u)].seg) = r[1].seqno
  <2>1. p = <<>> => r[1] = s
    BY <1>1, <1>2
  <2>2. p # <<>> => r[1] = p[1]
    BY <1>1, <1>2
  <2> QED
    BY <2>1, <2>2 DEF Chained
<1>5. End(r[Len(r)]) = End(s)
  BY <1>1
<1> QED
  BY <1>1, <1>3, <1>4, <1>5 DEF Chained, r

\* The head of one list becomes the last of the other.
LEMMA ChainedMove ==
    ASSUME NEW u \in Seq(Queued), NEW p \in Seq(Segment), NEW n \in Nat, Chained(u, p, n),
           p # <<>>, NEW q \in Queued, q.seg = Head(p)
    PROVE  Chained(Append(u, q), Tail(p), n)
<1> DEFINE v == Append(u, q)
           r == Tail(p)
<1>1. /\ v # <<>> /\ Len(v) = Len(u) + 1 /\ Len(u) \in Nat
      /\ \A i \in 1..Len(u) : v[i] = u[i]
      /\ v[Len(u) + 1] = q
  BY AppendProperties, LenProperties
<1>2. /\ q.seg = p[1] /\ Len(p) \in Nat \ {0} /\ Len(r) = Len(p) - 1
      /\ \A k \in 1..Len(p) - 1 : r[k] = p[k + 1]
      /\ r = <<>> <=> Len(p) = 1
  BY TailFacts
<1>3. u = <<>> <=> Len(u) = 0
  BY EmptySeq
<1> HIDE DEF v, r
<1>4. ASSUME NEW i \in 1..Len(v) - 1 PROVE End(v[i].seg) = v[i + 1].seg.seqno
  <2>1. CASE i = Len(u)
    <3>1. u # <<>> /\ v[i] = u[Len(u)] /\ v[i + 1] = q
      BY <1>1, <1>3, <2>1
    <3> QED
      BY <3>1, <1>2 DEF Chained
  <2>2. CASE i # Len(u)
    <3>1. i \in 1..Len(u) - 1 /\ v[i] = u[i] /\ v[i + 1] = u[i + 1]
      BY <1>1, <2>2
    <3> QED
      BY <3>1 DEF Chained
  <2> QED
    BY <2>1, <2>2
<1>5. ASSUME NEW i \in 1..Len(r) - 1 PROVE End(r[i]) = r[i + 1].seqno
  <2>1. i + 1 \in 1..Len(p) - 1 /\ r[i] = p[i + 1] /\ r[i + 1] = p[(i + 1) + 1]
    BY <1>2
  <2> QED
    BY <2>1 DEF Chained
<1>6. v[Len(v)].seg = p[1]
  BY <1>1, <1>2
<1>7. End(p[1]) = IF r = <<>> THEN n ELSE r[1].seqno
  <2>1. CASE Len(p) = 1
    BY <2>1, <1>2 DEF Chained
  <2>2. CASE Len(p) # 1
    <3>1. 1 \in 1..Len(p) - 1 /\ r[1] = p[1 + 1]
      BY <1>2, <2>2
    <3> QED
      BY <3>1, <1>2, <2>2 DEF Chained
  <2> QED
    BY <2>1, <2>2
<1>8. r # <<>> => End(r[Len(r)]) = n
  <2>1. r # <<>> => Len(r) \in 1..Len(p) - 1 /\ r[Len(r)] = p[Len(p)]
    BY <1>2
  <2> QED
    BY <2>1 DEF Chained
<1> QED
  BY <1>4, <1>5, <1>6, <1>7, <1>8 DEF Chained, v, r

\* The head is acknowledged.
LEMMA ChainedAck ==
    ASSUME NEW u \in Seq(Queued), NEW p, NEW n, Chained(u, p, n), u # <<>>
    PROVE  Chained(Tail(u), p, n)
<1> DEFINE v == Tail(u)
<1>1. /\ Len(u) \in Nat \ {0} /\ Len(v) = Len(u) - 1
      /\ \A k \in 1..Len(u) - 1 : v[k] = u[k + 1]
      /\ v = <<>> <=> Len(u) = 1
  BY TailFacts
<1> HIDE DEF v
<1>2. ASSUME NEW i \in 1..Len(v) - 1 PROVE End(v[i].seg) = v[i + 1].seg.seqno
  <2>1. i + 1 \in 1..Len(u) - 1 /\ v[i] = u[i + 1] /\ v[i + 1] = u[(i + 1) + 1]
    BY <1>1
  <2> QED
    BY <2>1 DEF Chained
<1>3. v # <<>> => Len(v) \in 1..Len(u) - 1 /\ v[Len(v)] = u[Len(u)]
  BY <1>1
<1> QED
  BY <1>2, <1>3 DEF Chained, v

\* Other segments would be needed to break a chain.
LEMMA ChainedSame ==
    ASSUME NEW u \in Seq(Queued), NEW p, NEW n, Chained(u, p, n),
           NEW v \in Seq(Queued), Len(v) = Len(u),
           \A k \in 1..Len(u) : v[k].seg = u[k].seg
    PROVE  Chained(v, p, n)
<1>1. Len(u) \in Nat /\ (u = <<>> <=> Len(u) = 0) /\ (v = <<>> <=> Len(v) = 0)
  BY EmptySeq, LenProperties
<1> QED
  BY <1>1 DEF Chained

\* What StreamWhole says of the two lists as one.
LEMMA ChainedWhole ==
    ASSUME NEW u \in Seq(Queued), NEW p \in Seq(Segment), NEW n, Chained(u, p, n)
    PROVE  LET q == [i \in 1..Len(u) |-> u[i].seg] \o p IN
           /\ \A i \in 1..Len(q) - 1 : q[i].seqno + Size(q[i]) = q[i + 1].seqno
           /\ q # <<>> => Last(q).seqno + Size(Last(q)) = n
<1> DEFINE m == [i \in 1..Len(u) |-> u[i].seg]
           q == m \o p
<1>1. Len(u) \in Nat /\ Len(p) \in Nat /\ \A i \in 1..Len(u) : u[i] \in Queued
  BY LenProperties, ElementOfSeq
<1>2. \A i \in 1..Len(u) : u[i].seg \in Segment
  BY <1>1, Unqueued
<1>3. m \in Seq(Segment) /\ Len(m) = Len(u) /\ \A i \in 1..Len(u) : m[i] = u[i].seg
  BY <1>1, <1>2
<1> HIDE DEF m
<1>4. /\ q \in Seq(Segment) /\ Len(q) = Len(u) + Len(p)
      /\ \A i \in 1..Len(u) + Len(p) :
            q[i] = IF i <= Len(u) THEN u[i].seg ELSE p[i - Len(u)]
  <2>1. /\ q \in Seq(Segment) /\ Len(q) = Len(m) + Len(p)
        /\ \A i \in 1..Len(m) + Len(p) :
              q[i] = IF i <= Len(m) THEN m[i] ELSE p[i - Len(m)]
    BY <1>3, ConcatProperties
  <2> HIDE DEF q
  <2> QED
    BY <1>1, <1>3, <2>1
<1>5. /\ u = <<>> <=> Len(u) = 0
      /\ p = <<>> <=> Len(p) = 0
      /\ q = <<>> <=> Len(q) = 0
  BY <1>4, EmptySeq
<1> HIDE DEF q
<1>6. ASSUME NEW i \in 1..Len(q) - 1 PROVE End(q[i]) = q[i + 1].seqno
  <2>1. CASE i < Len(u)
    <3>1. i \in 1..Len(u) - 1 /\ q[i] = u[i].seg /\ q[i + 1] = u[i + 1].seg
      BY <1>1, <1>4, <2>1
    <3> QED
      BY <3>1 DEF Chained
  <2>2. CASE i = Len(u)
    <3>1. q[i] = u[Len(u)].seg /\ q[i + 1] = p[1] /\ u # <<>> /\ p # <<>>
      BY <1>1, <1>4, <1>5, <2>2
    <3> QED
      BY <3>1 DEF Chained
  <2>3. CASE i > Len(u)
    <3> DEFINE j == i - Len(u)
    <3>1. j \in 1..Len(p) - 1 /\ q[i] = p[j] /\ q[i + 1] = p[j + 1]
      BY <1>1, <1>4, <2>3
    <3> HIDE DEF j
    <3> QED
      BY <3>1 DEF Chained
  <2> QED
    BY <1>1, <1>4, <2>1, <2>2, <2>3
<1>7. ASSUME q # <<>> PROVE End(Last(q)) = n
  <2>1. Len(q) \in 1..Len(u) + Len(p) /\ Last(q) = q[Len(q)]
    BY <1>1, <1>4, <1>5, <1>7 DEF Last
  <2>2. CASE p = <<>>
    <3>1. Last(q) = u[Len(u)].seg /\ u # <<>>
      BY <1>1, <1>4, <1>5, <2>1, <2>2
    <3> QED
      BY <3>1, <2>2 DEF Chained
  <2>3. CASE p # <<>>
    <3>1. Last(q) = p[Len(p)]
      BY <1>1, <1>4, <1>5, <2>1, <2>3
    <3> QED
      BY <3>1, <2>3 DEF Chained
  <2> QED
    BY <2>2, <2>3
<1> QED
  BY <1>6, <1>7 DEF End, q, m

----------------------------------------------------------------------------
\* What most steps leave alone

LEMMA StreamFrame ==
    ASSUME StreamInv, NEW e \in Ends,
           \A d \in Ends \ {e} : /\ unacknowledged'[d] = unacknowledged[d]
                                 /\ pending'[d] = pending[d]
                                 /\ sequence_number'[d] = sequence_number[d],
           Chained(unacknowledged'[e], pending'[e], sequence_number'[e])
    PROVE  StreamInv'
  BY DEF StreamInv

LEMMA StreamUnchanged ==
    ASSUME StreamInv, UNCHANGED <<unacknowledged, pending, sequence_number>> PROVE StreamInv'
  BY DEF StreamInv

LEMMA OutputUnchanged ==
    ASSUME OutputInv, UNCHANGED <<output, expected>> PROVE OutputInv'
  BY DEF OutputInv, OutputOnce

CtcpInv == TypeInv /\ StreamInv /\ OutputInv

----------------------------------------------------------------------------
\* The initial state

LEMMA CtcpInit == Init => CtcpInv
<1> SUFFICES ASSUME Init PROVE CtcpInv
  OBVIOUS
<1>1. TypeOK
  <2>1. NoSegment \in Segment /\ \A S : <<>> \in Seq(S)
    BY NoSegmentType, EmptySeq
  <2>2. 1 \in Nat /\ 0 \in 0..Wrap16 - 1 /\ 0 \in 0..Wrap32 - 1
    BY CtcpAssumption
  <2> QED
    BY <2>1, <2>2, CtcpAssumption DEF Init, TypeOK
<1>2. ReadHasPieces
  BY DEF Init, ReadHasPieces
<1>3. StreamInv
  BY ChainedEmpty DEF Init, StreamInv
<1>4. OutputInv
  <2>1. Len(<<>>) = 0 /\ 1..0 = {}
    BY EmptySeq
  <2>2. \A e \in Ends : output[e] = <<>>
    BY DEF Init
  <2> QED
    BY <2>1, <2>2 DEF OutputInv, OutputOnce
<1> QED
  BY <1>1, <1>2, <1>3, <1>4 DEF CtcpInv, TypeInv

----------------------------------------------------------------------------
\* Sending

LEMMA FillStep ==
    ASSUME CtcpInv, NEW e \in Ends, Fill(e) PROVE CtcpInv'
<1> USE DEF CtcpInv, TypeInv
<1> DEFINE u == unacknowledged[e]
           p == pending[e]
           q == [seg |-> Head(p), sent |-> FALSE, tries |-> 0]
<1>1. /\ u \in Seq(Queued) /\ p \in Seq(Segment) /\ p # <<>> /\ sequence_number[e] \in Nat
      /\ Chained(u, p, sequence_number[e])
  BY DEF TypeOK, Fill, Fits, StreamInv
<1>2. /\ Head(p) \in Segment /\ Tail(p) \in Seq(Segment) /\ q \in Queued /\ q.seg = Head(p)
      /\ Append(u, q) \in Seq(Queued)
  BY <1>1, TailFacts, NewlyQueued, AppendProperties
<1>3. /\ unacknowledged' = [unacknowledged EXCEPT ![e] = Append(u, q)]
      /\ pending' = [pending EXCEPT ![e] = Tail(p)]
      /\ sliding_window' = [sliding_window EXCEPT ![e] = (@ + Length(Head(p))) % Wrap16]
      /\ UNCHANGED <<status, sequence_number, send_window, inflight, resent,
                     recvVars, runVars, typed, fins, wire, faults>>
  BY DEF Fill, Move
<1> HIDE DEF u, p, q
<1>4. (sliding_window[e] + Length(Head(p))) % Wrap16 \in 0..Wrap16 - 1
  BY <1>2, CounterFacts, Wrapped
<1>5. TypeOK'
  BY <1>2, <1>3, <1>4 DEF TypeOK, recvVars, runVars
<1>6. ReadHasPieces'
  BY <1>3 DEF ReadHasPieces, runVars
<1>7. StreamInv'
  <2>1. Chained(Append(u, q), Tail(p), sequence_number[e])
    BY <1>1, <1>2, ChainedMove
  <2>2. /\ unacknowledged'[e] = Append(u, q) /\ pending'[e] = Tail(p)
        /\ \A d \in Ends \ {e} : unacknowledged'[d] = unacknowledged[d] /\ pending'[d] = pending[d]
    BY <1>3 DEF TypeOK
  <2> QED
    BY <2>1, <2>2, <1>3, StreamFrame
<1>8. OutputInv'
  BY <1>3, OutputUnchanged DEF recvVars
<1> QED
  BY <1>5, <1>6, <1>7, <1>8

LEMMA EarlyReturnType ==
    ASSUME TypeOK, NEW e \in Ends, EarlyReturn(e)
    PROVE  /\ pc' \in [Ends -> {"idle", "read", "fill", "send", "acks"}]
           /\ in' \in [Ends -> Segment]
           /\ \A d \in Ends \ {e} : pc'[d] = pc[d]
           /\ pc'[e] = "read" => pieces[e] # <<>>
  BY NoSegmentType DEF TypeOK, EarlyReturn, Goto

LEMMA GateStep ==
    ASSUME CtcpInv, NEW e \in Ends, NEW bdp \in Bdps, Gate(e, bdp) PROVE CtcpInv'
<1> USE DEF CtcpInv, TypeInv
<1>1. /\ pc' \in [Ends -> {"idle", "read", "fill", "send", "acks"}]
      /\ in' \in [Ends -> Segment]
      /\ \A d \in Ends \ {e} : pc'[d] = pc[d]
      /\ pc'[e] = "read" => pieces[e] # <<>>
  <2>1. CASE EarlyReturn(e)
    BY <2>1, EarlyReturnType
  <2>2. CASE Goto(e, "send") /\ UNCHANGED in
    BY <2>2 DEF TypeOK, Goto
  <2> QED
    BY <2>1, <2>2 DEF Gate
<1>2. UNCHANGED <<status, sendVars, recvVars, pieces, typed, fins, wire, faults>>
  BY DEF Gate
<1>3. TypeOK'
  BY <1>1, <1>2 DEF TypeOK, sendVars, recvVars
<1>4. ReadHasPieces'
  BY <1>1, <1>2 DEF ReadHasPieces
<1>5. StreamInv' /\ OutputInv'
  BY <1>2, StreamUnchanged, OutputUnchanged DEF sendVars, recvVars
<1> QED
  BY <1>3, <1>4, <1>5

LEMMA SendStep ==
    ASSUME CtcpInv, NEW e \in Ends, Send(e) PROVE CtcpInv'
<1> USE DEF CtcpInv, TypeInv
<1> DEFINE u == unacknowledged[e]
<1>1. PICK i \in Unsent(e) :
          /\ conn_send(e, u[i].seg)
          /\ unacknowledged' = [unacknowledged EXCEPT ![e][i].sent = TRUE]
          /\ inflight' = [inflight EXCEPT ![e] = (@ + Length(u[i].seg)) % Wrap32]
  BY DEF Send
<1>2. UNCHANGED <<status, sequence_number, send_window, sliding_window, pending,
                  resent, recvVars, runVars, typed, fins, faults>>
  BY DEF Send
<1> DEFINE q == [u[i] EXCEPT !.sent = TRUE]
           v == [u EXCEPT ![i] = q]
<1>3. u \in Seq(Queued) /\ i \in 1..Len(u) /\ u[i] \in Queued
  BY DEF TypeOK, Unsent
<1>4. q \in Queued /\ q.seg = u[i].seg /\ u[i].seg \in Segment
  BY <1>3, Unqueued
<1>5. unacknowledged' = [unacknowledged EXCEPT ![e] = v]
  BY <1>1
<1> HIDE DEF q
<1>6. /\ v \in Seq(Queued) /\ Len(v) = Len(u)
      /\ \A k \in 1..Len(u) : v[k].seg = u[k].seg
  BY <1>3, <1>4, Changed
<1> HIDE DEF u, v
<1>7. inflight' \in [Ends -> 0..Wrap32 - 1]
  <2>1. (inflight[e] + Length(u[i].seg)) % Wrap32 \in 0..Wrap32 - 1
    BY <1>4, CounterFacts, Wrapped
  <2> QED
    BY <1>1, <2>1 DEF TypeOK
<1>8. wire' \in [Ends -> Seq(Segment)]
  BY <1>1, <1>4, PeerFacts, AppendProperties DEF TypeOK, conn_send
<1>9. TypeOK'
  BY <1>2, <1>5, <1>6, <1>7, <1>8 DEF TypeOK, recvVars, runVars
<1>10. ReadHasPieces' /\ OutputInv'
  BY <1>2, OutputUnchanged DEF ReadHasPieces, runVars, recvVars
<1>11. StreamInv'
  <2>1. Chained(u, pending[e], sequence_number[e])
    BY DEF StreamInv, u
  <2>2. Chained(v, pending[e], sequence_number[e])
    BY <2>1, <1>3, <1>6, ChainedSame
  <2>3. unacknowledged'[e] = v /\ \A d \in Ends \ {e} : unacknowledged'[d] = unacknowledged[d]
    BY <1>5 DEF TypeOK
  <2> QED
    BY <2>2, <2>3, <1>2, StreamFrame
<1> QED
  BY <1>9, <1>10, <1>11

LEMMA SendDoneStep ==
    ASSUME CtcpInv, NEW e \in Ends, SendDone(e) PROVE CtcpInv'
<1> USE DEF CtcpInv, TypeInv
<1>1. /\ AfterSend(e) \in {"idle", "read", "acks"}
      /\ AfterSend(e) = "read" => pieces[e] # <<>>
  BY DEF AfterSend
<1>2. /\ pc' = [pc EXCEPT ![e] = AfterSend(e)]
      /\ UNCHANGED <<status, sendVars, recvVars, pieces, in, typed, fins, wire, faults>>
  BY DEF SendDone, Goto
<1>3. TypeOK'
  BY <1>1, <1>2 DEF TypeOK, sendVars, recvVars
<1>4. ReadHasPieces'
  BY <1>1, <1>2 DEF ReadHasPieces, TypeOK
<1>5. StreamInv' /\ OutputInv'
  BY <1>2, StreamUnchanged, OutputUnchanged DEF sendVars, recvVars
<1> QED
  BY <1>3, <1>4, <1>5

----------------------------------------------------------------------------
\* ctcp_read

LEMMA EnqueueFacts ==
    ASSUME CtcpInv, NEW e \in Ends, NEW data \in Bytes, Enqueue(e, data)
    PROVE  /\ pending' \in [Ends -> Seq(Segment)] /\ sequence_number' \in [Ends -> Nat]
           /\ UNCHANGED unacknowledged => StreamInv'
<1> USE DEF CtcpInv, TypeInv
<1> DEFINE s == NewSegment(e, data, FALSE, received[e])
           r == Append(pending[e], s)
<1>1. /\ s \in Segment /\ s.seqno = sequence_number[e] /\ s.data = data
      /\ sequence_number[e] \in Nat /\ pending[e] \in Seq(Segment)
      /\ unacknowledged[e] \in Seq(Queued)
  <2>1. received[e] \in Nat /\ FALSE \in BOOLEAN
    BY DEF TypeOK
  <2>2. s \in Segment /\ s.seqno = sequence_number[e] /\ s.data = data
    BY <2>1, NewSegmentType
  <2> HIDE DEF s
  <2> QED
    BY <2>2 DEF TypeOK
<1>2. /\ pending' = [pending EXCEPT ![e] = r]
      /\ sequence_number' = [sequence_number EXCEPT ![e] = @ + Len(data)]
  BY DEF Enqueue
<1>3. End(s) = sequence_number[e] + Len(data) /\ End(s) \in Nat
  BY <1>1, SegmentFacts DEF End, Size
<1> HIDE DEF s
<1>4. r \in Seq(Segment)
  BY <1>1, AppendProperties
<1>5. Chained(unacknowledged[e], r, End(s))
  BY <1>1, ChainedEnqueue DEF StreamInv
<1> HIDE DEF r
<1>6. pending' \in [Ends -> Seq(Segment)] /\ sequence_number' \in [Ends -> Nat]
  BY <1>2, <1>3, <1>4 DEF TypeOK
<1>7. /\ pending'[e] = r /\ sequence_number'[e] = End(s)
      /\ \A d \in Ends \ {e} : /\ pending'[d] = pending[d]
                               /\ sequence_number'[d] = sequence_number[d]
  BY <1>2, <1>3 DEF TypeOK
<1>8. UNCHANGED unacknowledged => StreamInv'
  BY <1>5, <1>7, StreamFrame
<1> QED
  BY <1>6, <1>8

LEMMA ReadStep ==
    ASSUME CtcpInv, NEW e \in Ends, NEW n \in Chunks, ctcp_read(e, n) PROVE CtcpInv'
<1> USE DEF CtcpInv, TypeInv
<1>1. n \in Nat \ {0}
  BY CtcpAssumption
<1>2. /\ typed' = [typed EXCEPT ![e] = @ + n]
      /\ UNCHANGED <<send_window, sliding_window, inflight, unacknowledged, resent,
                     recvVars, in, fins, wire, faults>>
  BY DEF ctcp_read
<1>3. typed' \in [Ends -> Nat]
  BY <1>1, <1>2 DEF TypeOK
<1>4. OutputInv'
  BY <1>2, OutputUnchanged DEF recvVars
<1>5. CASE send_window[e] = 0
  <2>1. /\ status' = [status EXCEPT ![e] = "hung"]
        /\ UNCHANGED <<sequence_number, pending, pieces, pc>>
    BY <1>5 DEF ctcp_read
  <2>2. TypeOK'
    BY <2>1, <1>2, <1>3 DEF TypeOK, recvVars
  <2>3. ReadHasPieces' /\ StreamInv'
    BY <2>1, <1>2, StreamUnchanged DEF ReadHasPieces
  <2> QED
    BY <2>2, <2>3, <1>4
<1>6. CASE send_window[e] # 0
  <2> DEFINE P == Pieces(e, n)
  <2>1. /\ Enqueue(e, Head(P)) /\ pc' = [pc EXCEPT ![e] = "fill"]
        /\ pieces' = [pieces EXCEPT ![e] = Tail(P)] /\ UNCHANGED status
    BY <1>6 DEF ctcp_read, Goto
  <2>2. P \in Seq(Bytes) /\ P # <<>>
    BY <1>1, <1>6, PiecesFacts
  <2> HIDE DEF P
  <2>3. Head(P) \in Bytes /\ Tail(P) \in Seq(Bytes)
    BY <2>2, TailFacts
  <2>4. /\ pending' \in [Ends -> Seq(Segment)] /\ sequence_number' \in [Ends -> Nat]
        /\ StreamInv'
    BY <2>1, <2>3, <1>2, EnqueueFacts
  <2>5. TypeOK'
    BY <2>1, <2>3, <2>4, <1>2, <1>3 DEF TypeOK, recvVars
  <2>6. ReadHasPieces'
    BY <2>1 DEF ReadHasPieces, TypeOK
  <2> QED
    BY <2>4, <2>5, <2>6, <1>4
<1> QED
  BY <1>5, <1>6

LEMMA ReadPieceStep ==
    ASSUME CtcpInv, NEW e \in Ends, ReadPiece(e) PROVE CtcpInv'
<1> USE DEF CtcpInv, TypeInv
<1>1. pieces[e] \in Seq(Bytes) /\ pieces[e] # <<>>
  BY DEF ReadPiece, Up, ReadHasPieces, TypeOK
<1>2. Head(pieces[e]) \in Bytes /\ Tail(pieces[e]) \in Seq(Bytes)
  BY <1>1, TailFacts
<1>3. /\ Enqueue(e, Head(pieces[e])) /\ pc' = [pc EXCEPT ![e] = "fill"]
      /\ pieces' = [pieces EXCEPT ![e] = Tail(pieces[e])]
      /\ UNCHANGED <<status, send_window, sliding_window, inflight, unacknowledged,
                     resent, recvVars, in, typed, fins, wire, faults>>
  BY DEF ReadPiece, Goto
<1>4. /\ pending' \in [Ends -> Seq(Segment)] /\ sequence_number' \in [Ends -> Nat]
      /\ StreamInv'
  BY <1>2, <1>3, EnqueueFacts
<1>5. TypeOK'
  BY <1>2, <1>3, <1>4 DEF TypeOK, recvVars
<1>6. ReadHasPieces' /\ OutputInv'
  BY <1>3, OutputUnchanged DEF ReadHasPieces, TypeOK, recvVars
<1> QED
  BY <1>4, <1>5, <1>6

\* The lists of an end that is destroyed are empty.
LEMMA DestroyFacts ==
    ASSUME CtcpInv, NEW e \in Ends, ctcp_destroy(e)
    PROVE  /\ status' \in [Ends -> {"up", "down", "hung"}]
           /\ unacknowledged' \in [Ends -> Seq(Queued)]
           /\ pending' \in [Ends -> Seq(Segment)]
           /\ UNCHANGED sequence_number => StreamInv'
<1> USE DEF CtcpInv, TypeInv
<1>1. /\ status' = [status EXCEPT ![e] = "down"]
      /\ unacknowledged' = [unacknowledged EXCEPT ![e] = <<>>]
      /\ pending' = [pending EXCEPT ![e] = <<>>]
  BY DEF ctcp_destroy
<1>2. <<>> \in Seq(Queued) /\ <<>> \in Seq(Segment)
  BY EmptySeq
<1>3. /\ status' \in [Ends -> {"up", "down", "hung"}]
      /\ unacknowledged' \in [Ends -> Seq(Queued)]
      /\ pending' \in [Ends -> Seq(Segment)]
  BY <1>1, <1>2 DEF TypeOK
<1>4. /\ unacknowledged'[e] = <<>> /\ pending'[e] = <<>>
      /\ \A d \in Ends \ {e} : /\ unacknowledged'[d] = unacknowledged[d]
                               /\ pending'[d] = pending[d]
  BY <1>1 DEF TypeOK
<1>5. UNCHANGED sequence_number => StreamInv'
  BY <1>4, ChainedEmpty, StreamFrame
<1> QED
  BY <1>3, <1>5

\* conn_send.
LEMMA SendFacts ==
    ASSUME TypeOK, NEW e \in Ends, NEW s \in Segment, conn_send(e, s)
    PROVE  wire' \in [Ends -> Seq(Segment)]
<1>1. Append(wire[Peer(e)], s) \in Seq(Segment)
  BY PeerFacts, AppendProperties DEF TypeOK
<1> QED
  BY <1>1, PeerFacts DEF TypeOK, conn_send

LEMMA ReadEofStep ==
    ASSUME CtcpInv, NEW e \in Ends, ReadEof(e) PROVE CtcpInv'
<1> USE DEF CtcpInv, TypeInv
<1>f. fins' \in [Ends -> Nat]
  BY DEF ReadEof, TypeOK
<1>1. /\ conn_send(e, NewSegment(e, <<>>, TRUE, received[e]))
      /\ UNCHANGED <<sequence_number, send_window, sliding_window, inflight, resent,
                     recvVars, runVars, typed, faults>>
  BY DEF ReadEof
<1>2. NewSegment(e, <<>>, TRUE, received[e]) \in Segment
  BY NewSegmentType, EmptyData DEF TypeOK
<1>3. wire' \in [Ends -> Seq(Segment)]
  BY <1>1, <1>2, SendFacts
<1>4. /\ status' \in [Ends -> {"up", "down", "hung"}]
      /\ unacknowledged' \in [Ends -> Seq(Queued)]
      /\ pending' \in [Ends -> Seq(Segment)]
      /\ StreamInv'
  <2>1. CASE ctcp_destroy(e)
    BY <2>1, <1>1, DestroyFacts
  <2>2. CASE UNCHANGED <<status, unacknowledged, pending>>
    BY <2>2, <1>1, StreamUnchanged DEF TypeOK
  <2> QED
    BY <2>1, <2>2 DEF ReadEof
<1>5. TypeOK'
  BY <1>f, <1>1, <1>3, <1>4 DEF TypeOK, recvVars, runVars
<1>6. ReadHasPieces' /\ OutputInv'
  BY <1>1, OutputUnchanged DEF ReadHasPieces, runVars, recvVars
<1> QED
  BY <1>4, <1>5, <1>6

----------------------------------------------------------------------------
\* ctcp_receive

LEMMA ReceiveFinStep ==
    ASSUME CtcpInv, NEW e \in Ends, ReceiveFin(e) PROVE CtcpInv'
<1> USE DEF CtcpInv, TypeInv
<1> DEFINE ack == NewSegment(e, <<>>, FALSE, received[e])
<1>1. /\ wire[e] # <<>>
      /\ connection_state' = [connection_state EXCEPT ![e] = 1]
      /\ wire' = [wire EXCEPT ![e] = Tail(@), ![Peer(e)] = Append(@, ack)]
      /\ wrote_eof' = [wrote_eof EXCEPT ![e] = TRUE]
      /\ UNCHANGED <<status, sendVars, received, expected, backlog, output, runVars,
                     typed, fins, faults>>
  BY DEF ReceiveFin
<1>2. ack \in Segment
  BY NewSegmentType, EmptyData DEF TypeOK
<1> HIDE DEF ack
<1>3. Tail(wire[e]) \in Seq(Segment) /\ Append(wire[Peer(e)], ack) \in Seq(Segment)
  BY <1>1, <1>2, TailFacts, PeerFacts, AppendProperties DEF TypeOK
<1>4. wire' \in [Ends -> Seq(Segment)]
  BY <1>1, <1>3, PeerFacts DEF TypeOK
<1>5. TypeOK'
  <2>1. UNCHANGED <<status, sendVars, received, expected, backlog, output, runVars,
                    typed, fins, faults>>
    BY <1>1
  <2>2. connection_state' \in [Ends -> 0..1]
    BY <1>1 DEF TypeOK
  <2>3. wrote_eof' \in [Ends -> BOOLEAN]
    BY <1>1 DEF TypeOK
  <2> QED
    BY <1>4, <2>1, <2>2, <2>3 DEF TypeOK, sendVars, runVars
<1>6. ReadHasPieces' /\ StreamInv' /\ OutputInv'
  BY <1>1, StreamUnchanged, OutputUnchanged DEF ReadHasPieces, runVars, sendVars
<1> QED
  BY <1>5, <1>6

LEMMA ReceiveAfterFinStep ==
    ASSUME CtcpInv, NEW e \in Ends, ReceiveAfterFin(e) PROVE CtcpInv'
<1> USE DEF CtcpInv, TypeInv
<1>1. /\ wire[e] # <<>> /\ wire' = [wire EXCEPT ![e] = Tail(@)] /\ ctcp_destroy(e)
      /\ UNCHANGED <<sequence_number, send_window, sliding_window, inflight, resent,
                     recvVars, runVars, typed, fins, faults>>
  BY DEF ReceiveAfterFin
<1>2. wire' \in [Ends -> Seq(Segment)]
  BY <1>1, TailFacts DEF TypeOK
<1>3. /\ status' \in [Ends -> {"up", "down", "hung"}]
      /\ unacknowledged' \in [Ends -> Seq(Queued)]
      /\ pending' \in [Ends -> Seq(Segment)]
      /\ StreamInv'
  BY <1>1, DestroyFacts
<1>4. TypeOK'
  BY <1>1, <1>2, <1>3 DEF TypeOK, recvVars, runVars
<1>5. ReadHasPieces' /\ OutputInv'
  BY <1>1, OutputUnchanged DEF ReadHasPieces, runVars, recvVars
<1> QED
  BY <1>3, <1>4, <1>5

LEMMA ReceiveStep ==
    ASSUME CtcpInv, NEW e \in Ends, Receive(e) PROVE CtcpInv'
<1> USE DEF CtcpInv, TypeInv
<1>1. /\ wire[e] # <<>> /\ in' = [in EXCEPT ![e] = Head(wire[e])]
      /\ wire' = [wire EXCEPT ![e] = Tail(@)] /\ pc' = [pc EXCEPT ![e] = "acks"]
  BY DEF Receive, Goto
<1>u. UNCHANGED <<status, sendVars, recvVars, pieces, typed, fins, faults>>
  BY DEF Receive
<1>2. Head(wire[e]) \in Segment /\ Tail(wire[e]) \in Seq(Segment)
  BY <1>1, TailFacts DEF TypeOK
<1>3. TypeOK'
  <2>1. wire' \in [Ends -> Seq(Segment)]
    BY <1>1, <1>2 DEF TypeOK
  <2>2. in' \in [Ends -> Segment] /\ pc' \in [Ends -> {"idle", "read", "fill", "send", "acks"}]
    BY <1>1, <1>2 DEF TypeOK
  <2> QED
    BY <1>u, <2>1, <2>2 DEF TypeOK, sendVars, recvVars
<1>4. ReadHasPieces' /\ StreamInv' /\ OutputInv'
  BY <1>1, <1>u, StreamUnchanged, OutputUnchanged DEF ReadHasPieces, TypeOK, sendVars, recvVars
<1> QED
  BY <1>3, <1>4

LEMMA AckStep ==
    ASSUME CtcpInv, NEW e \in Ends, NEW cwnd \in Cwnds, Ack(e, cwnd) PROVE CtcpInv'
<1> USE DEF CtcpInv, TypeInv
<1> DEFINE u == unacknowledged[e]
           s == Head(u).seg
<1>1. /\ u \in Seq(Queued) /\ u # <<>>
      /\ sliding_window' = [sliding_window EXCEPT ![e] = (@ - Length(s)) % Wrap16]
      /\ inflight' = [inflight EXCEPT ![e] = (@ - Length(s)) % Wrap32]
      /\ unacknowledged' = [unacknowledged EXCEPT ![e] = Tail(u)]
      /\ send_window' = [send_window EXCEPT ![e] = cwnd]
      /\ pc' \in {pc, [pc EXCEPT ![e] = "fill"]}
  BY DEF Ack, Acked, Release, Goto, TypeOK
<1>u. UNCHANGED <<status, sequence_number, pending, resent, recvVars, pieces, in,
                  typed, fins, wire, faults>>
  BY DEF Ack
<1>2. s \in Segment /\ Tail(u) \in Seq(Queued)
  BY <1>1, TailFacts, Unqueued
<1> HIDE DEF s
<1>3. /\ (sliding_window[e] - Length(s)) % Wrap16 \in 0..Wrap16 - 1
      /\ (inflight[e] - Length(s)) % Wrap32 \in 0..Wrap32 - 1
      /\ cwnd \in 0..Wrap16 - 1
  BY <1>2, CounterFacts, Wrapped, CtcpAssumption
<1>4. TypeOK'
  <2>1. /\ sliding_window' \in [Ends -> 0..Wrap16 - 1]
        /\ inflight' \in [Ends -> 0..Wrap32 - 1]
        /\ send_window' \in [Ends -> 0..Wrap16 - 1]
    BY <1>1, <1>3 DEF TypeOK
  <2>2. unacknowledged' \in [Ends -> Seq(Queued)]
    BY <1>1, <1>2 DEF TypeOK
  <2>3. pc' \in [Ends -> {"idle", "read", "fill", "send", "acks"}]
    BY <1>1 DEF TypeOK
  <2> QED
    BY <1>u, <2>1, <2>2, <2>3 DEF TypeOK, recvVars
<1>5. ReadHasPieces' /\ OutputInv'
  BY <1>1, <1>u, OutputUnchanged DEF ReadHasPieces, recvVars, TypeOK
<1>6. StreamInv'
  <2>1. Chained(Tail(u), pending[e], sequence_number[e])
    BY <1>1, ChainedAck DEF StreamInv
  <2>2. unacknowledged'[e] = Tail(u) /\ \A d \in Ends \ {e} : unacknowledged'[d] = unacknowledged[d]
    BY <1>1 DEF TypeOK
  <2> QED
    BY <2>1, <2>2, <1>u, StreamFrame
<1> QED
  BY <1>4, <1>5, <1>6

\* An output that begins where data is expected, or after it, keeps the order.
LEMMA Ordered ==
    ASSUME NEW O \in Seq([seqno : Nat, data : Bytes]), NEW n \in Nat,
           \A i, j \in 1..Len(O) : i < j => O[i].seqno + Len(O[i].data) <= O[j].seqno,
           \A i \in 1..Len(O) : O[i].seqno + Len(O[i].data) <= n,
           NEW x \in [seqno : Nat, data : Bytes], x.seqno >= n
    PROVE  LET P == Append(O, x) IN
           /\ P \in Seq([seqno : Nat, data : Bytes])
           /\ \A i, j \in 1..Len(P) : i < j => P[i].seqno + Len(P[i].data) <= P[j].seqno
           /\ \A i \in 1..Len(P) :
                 P[i].seqno + Len(P[i].data) <= x.seqno + Len(x.data)
<1> DEFINE P == Append(O, x)
           past(i) == O[i].seqno + Len(O[i].data)
<1>1. /\ P \in Seq([seqno : Nat, data : Bytes])
      /\ Len(P) = Len(O) + 1 /\ Len(O) \in Nat
      /\ \A i \in 1..Len(O) : P[i] = O[i]
      /\ P[Len(O) + 1] = x
  BY AppendProperties, LenProperties
<1>2. \A i \in 1..Len(O) : past(i) \in Nat
  <2> TAKE i \in 1..Len(O)
  <2>1. O[i] \in [seqno : Nat, data : Bytes]
    BY ElementOfSeq
  <2>2. O[i].seqno \in Nat /\ O[i].data \in Bytes
    BY <2>1
  <2> QED
    BY <2>2, LenProperties DEF Bytes
<1>3. x.seqno \in Nat /\ Len(x.data) \in Nat
  <2>1. x.seqno \in Nat /\ x.data \in Bytes
    OBVIOUS
  <2> QED
    BY <2>1, LenProperties DEF Bytes
<1> HIDE DEF P
<1>4. ASSUME NEW i \in 1..Len(P), NEW j \in 1..Len(P), i < j
      PROVE  P[i].seqno + Len(P[i].data) <= P[j].seqno
  <2>1. i \in 1..Len(O) /\ P[i] = O[i]
    BY <1>1, <1>4
  <2>2. CASE j \in 1..Len(O)
    BY <1>1, <1>4, <2>1, <2>2
  <2>3. CASE j = Len(O) + 1
    <3>1. past(i) <= n /\ P[j] = x
      BY <1>1, <2>1, <2>3
    <3>2. past(i) <= x.seqno
      BY <3>1, <2>1, <1>2, <1>3
    <3> QED
      BY <3>1, <3>2, <2>1
  <2> QED
    BY <1>1, <2>2, <2>3
<1>5. ASSUME NEW i \in 1..Len(P)
      PROVE  P[i].seqno + Len(P[i].data) <= x.seqno + Len(x.data)
  <2>1. CASE i \in 1..Len(O)
    <3>1. past(i) <= n /\ P[i] = O[i] /\ past(i) \in Nat
      BY <1>1, <1>2, <2>1
    <3>2. past(i) <= x.seqno + Len(x.data)
      <4> HIDE DEF past
      <4> QED
        BY <3>1, <1>3
    <3> QED
      BY <3>1, <3>2
  <2>2. CASE i = Len(O) + 1
    BY <1>1, <1>3, <2>2
  <2> QED
    BY <1>1, <2>1, <2>2
<1> QED
  BY <1>1, <1>4, <1>5 DEF P

LEMMA ReceiveDataStep ==
    ASSUME CtcpInv, NEW e \in Ends, ReceiveData(e) PROVE CtcpInv'
<1> USE DEF CtcpInv, TypeInv
<1> DEFINE s == in[e]
           O == output[e]
           x == [seqno |-> s.seqno, data |-> s.data]
<1>1. /\ s \in Segment /\ s.seqno \in Nat /\ s.data \in Bytes /\ Len(s.data) \in Nat
      /\ After(e) = s.seqno + Len(s.data) /\ After(e) \in Nat
      /\ expected[e] \in Nat
  <2>1. s \in Segment /\ expected[e] \in Nat
    BY DEF TypeOK
  <2>2. s.seqno \in Nat /\ s.data \in Bytes /\ Size(s) \in Nat
    BY <2>1, SegmentFacts
  <2>3. After(e) = s.seqno + Len(s.data) /\ Len(s.data) \in Nat
    BY <2>2 DEF After, Size
  <2> HIDE DEF s
  <2> QED
    BY <2>1, <2>2, <2>3
<1>2. /\ received' = [received EXCEPT ![e] = After(e)]
      /\ expected' = [expected EXCEPT ![e] = IF Fresh(e) THEN After(e) ELSE @]
      /\ pc' = [pc EXCEPT ![e] = "idle"] /\ in' = [in EXCEPT ![e] = NoSegment]
      /\ UNCHANGED <<status, sendVars, connection_state, wrote_eof, pieces, typed,
                     fins, faults>>
  BY DEF ReceiveData, Goto
<1>3. /\ wire' \in [Ends -> Seq(Segment)] /\ backlog' \in [Ends -> Nat]
      /\ \/ output' = output
         \/ Fresh(e) /\ output' = [output EXCEPT ![e] = Append(@, x)]
  <2>1. CASE Size(s) > 0 /\ Fresh(e)
    <3>1. conn_send(e, NewSegment(e, <<>>, FALSE, After(e))) /\ conn_output(e, s)
      BY <2>1 DEF ReceiveData
    <3>2. NewSegment(e, <<>>, FALSE, After(e)) \in Segment
      BY <1>1, NewSegmentType, EmptyData
    <3>3. wire' \in [Ends -> Seq(Segment)]
      BY <3>1, <3>2, SendFacts
    <3>4. /\ backlog' \in [Ends -> Nat]
          /\ output' = output \/ output' = [output EXCEPT ![e] = Append(@, x)]
      <4>1. CASE Outputs(e)
        <5>1. output' = [output EXCEPT ![e] = Append(@, x)]
          BY <3>1, <4>1 DEF conn_output
        <5>2. backlog' = backlog \/ backlog' = [backlog EXCEPT ![e] = @ + 1]
          BY <3>1, <4>1 DEF conn_output
        <5>3. backlog \in [Ends -> Nat] /\ backlog[e] + 1 \in Nat
          BY DEF TypeOK
        <5>4. backlog' \in [Ends -> Nat]
          BY <5>2, <5>3
        <5> QED
          BY <5>1, <5>4
      <4>2. CASE ~Outputs(e)
        <5>1. UNCHANGED <<output, backlog>>
          BY <3>1, <4>2 DEF conn_output
        <5> QED
          BY <5>1 DEF TypeOK
      <4> QED
        BY <4>1, <4>2
    <3> QED
      BY <2>1, <3>3, <3>4
  <2>2. CASE ~(Size(s) > 0 /\ Fresh(e))
    <3>1. UNCHANGED <<wire, output, backlog>>
      BY <2>2 DEF ReceiveData
    <3> QED
      BY <3>1 DEF TypeOK
  <2> QED
    BY <2>1, <2>2
<1>4. x \in [seqno : Nat, data : Bytes] /\ x.seqno = s.seqno /\ x.data = s.data
  BY <1>1
<1> HIDE DEF s, x
<1>5. /\ O \in Seq([seqno : Nat, data : Bytes])
      /\ \A i, j \in 1..Len(O) : i < j => O[i].seqno + Len(O[i].data) <= O[j].seqno
      /\ \A i \in 1..Len(O) : O[i].seqno + Len(O[i].data) <= expected[e]
  BY DEF TypeOK, OutputInv, OutputOnce
<1> HIDE DEF O
<1>6. Fresh(e) => x.seqno >= expected[e]
  BY <1>4 DEF Fresh, s
<1> DEFINE P == Append(O, x)
<1>7. ASSUME Fresh(e)
      PROVE  /\ P \in Seq([seqno : Nat, data : Bytes])
             /\ \A i, j \in 1..Len(P) : i < j => P[i].seqno + Len(P[i].data) <= P[j].seqno
             /\ \A i \in 1..Len(P) : P[i].seqno + Len(P[i].data) <= After(e)
  BY <1>1, <1>4, <1>5, <1>6, <1>7, Ordered
<1> HIDE DEF P
<1>8. output' = output \/ (Fresh(e) /\ output' = [output EXCEPT ![e] = P])
  BY <1>3 DEF P, O
<1>9. TypeOK'
  <2>1. output' \in [Ends -> Seq([seqno : Nat, data : Bytes])]
    BY <1>7, <1>8 DEF TypeOK
  <2>2. /\ received' \in [Ends -> Nat] /\ expected' \in [Ends -> Nat]
    BY <1>1, <1>2 DEF TypeOK
  <2>3. in' \in [Ends -> Segment] /\ pc' \in [Ends -> {"idle", "read", "fill", "send", "acks"}]
    BY <1>2, NoSegmentType DEF TypeOK
  <2> QED
    BY <1>2, <1>3, <2>1, <2>2, <2>3 DEF TypeOK, sendVars
<1>10. ReadHasPieces' /\ StreamInv'
  BY <1>2, StreamUnchanged DEF ReadHasPieces, TypeOK, sendVars
<1>11. OutputInv'
  <2>1. expected'[e] = IF Fresh(e) THEN After(e) ELSE expected[e]
    BY <1>2 DEF TypeOK
  <2>2. \A d \in Ends \ {e} : expected'[d] = expected[d] /\ output'[d] = output[d]
    BY <1>2, <1>8 DEF TypeOK
  <2>3. CASE Fresh(e) /\ output' = [output EXCEPT ![e] = P]
    <3>1. output'[e] = P
      BY <2>3 DEF TypeOK
    <3> QED
      BY <3>1, <2>1, <2>2, <2>3, <1>7 DEF OutputInv, OutputOnce
  <2>4. CASE output' = output
    <3>1. \A i \in 1..Len(O) : O[i].seqno + Len(O[i].data) <= expected'[e]
      <4> SUFFICES ASSUME NEW i \in 1..Len(O)
                   PROVE  O[i].seqno + Len(O[i].data) <= expected'[e]
        OBVIOUS
      <4> DEFINE m == O[i].seqno + Len(O[i].data)
      <4>1. m <= expected[e] /\ m \in Nat
        <5>1. O[i] \in [seqno : Nat, data : Bytes]
          BY <1>5, ElementOfSeq
        <5>2. O[i].seqno \in Nat /\ Len(O[i].data) \in Nat
          BY <5>1, LenProperties DEF Bytes
        <5> QED
          BY <5>2, <1>5
      <4>2. expected[e] <= expected'[e] /\ expected'[e] \in Nat
        BY <1>1, <2>1 DEF Fresh, s
      <4> HIDE DEF m
      <4>3. m <= expected'[e]
        BY <4>1, <4>2, <1>1
      <4> QED
        BY <4>3 DEF m
    <3> QED
      BY <3>1, <2>2, <2>4 DEF OutputInv, OutputOnce, O
  <2> QED
    BY <2>3, <2>4, <1>8
<1> QED
  BY <1>9, <1>10, <1>11

----------------------------------------------------------------------------
\* ctcp_output and ctcp_timer, the network

LEMMA OutputStep ==
    ASSUME CtcpInv, NEW e \in Ends, ctcp_output(e) PROVE CtcpInv'
<1> USE DEF CtcpInv, TypeInv
<1>1. PICK left \in 0..backlog[e] - 1 : backlog' = [backlog EXCEPT ![e] = left]
  BY DEF ctcp_output
<1>2. /\ conn_send(e, NewSegment(e, <<>>, FALSE, received[e]))
      /\ UNCHANGED <<status, sendVars, connection_state, received, expected,
                     wrote_eof, output, runVars, typed, fins, faults>>
  BY DEF ctcp_output
<1>3. NewSegment(e, <<>>, FALSE, received[e]) \in Segment
  BY NewSegmentType, EmptyData DEF TypeOK
<1>4. wire' \in [Ends -> Seq(Segment)]
  BY <1>2, <1>3, SendFacts
<1>5. backlog' \in [Ends -> Nat]
  BY <1>1 DEF TypeOK
<1>6. TypeOK'
  BY <1>2, <1>4, <1>5 DEF TypeOK, sendVars, runVars
<1>7. ReadHasPieces' /\ StreamInv' /\ OutputInv'
  BY <1>2, StreamUnchanged, OutputUnchanged DEF ReadHasPieces, sendVars, runVars
<1> QED
  BY <1>6, <1>7

LEMMA TimerStep ==
    ASSUME CtcpInv, NEW e \in Ends, NEW i \in 1..Len(unacknowledged[e]), ctcp_timer(e, i)
    PROVE  CtcpInv'
<1> USE DEF CtcpInv, TypeInv
<1> DEFINE u == unacknowledged[e]
           s == u[i].seg
           q == [u[i] EXCEPT !.tries = @ + 1]
           v == [u EXCEPT ![i] = q]
<1>1. u \in Seq(Queued) /\ u[i] \in Queued
  BY DEF TypeOK
<1>2. s \in Segment /\ Length(s) \in Nat
  BY <1>1, Unqueued, SegmentFacts
<1>3. /\ conn_send(e, s)
      /\ sliding_window' = [sliding_window EXCEPT ![e] = (@ - Length(s)) % Wrap16]
      /\ resent' = [resent EXCEPT ![e] = @ + Length(s)]
      /\ UNCHANGED <<sequence_number, send_window, inflight, recvVars, runVars, typed,
                     fins, faults>>
  BY DEF ctcp_timer
<1>4. \/ ctcp_destroy(e)
      \/ /\ u[i].tries + 1 < MaxTries
         /\ unacknowledged' = [unacknowledged EXCEPT ![e] = v]
         /\ UNCHANGED <<status, pending>>
  <2>1. CASE u[i].tries + 1 >= MaxTries
    BY <2>1 DEF ctcp_timer
  <2>2. CASE ~(u[i].tries + 1 >= MaxTries)
    <3>1. u[i].tries + 1 < MaxTries
      <4>1. u[i].tries \in 0..MaxTries - 1 /\ MaxTries \in Nat
        BY <1>1, Unqueued, CtcpAssumption
      <4> HIDE DEF u
      <4> QED
        BY <4>1, <2>2
    <3>2. /\ unacknowledged' = [unacknowledged EXCEPT ![e][i].tries = @ + 1]
          /\ UNCHANGED <<status, pending>>
      BY <2>2 DEF ctcp_timer
    <3> QED
      BY <3>1, <3>2
  <2> QED
    BY <2>1, <2>2
<1> HIDE DEF v
<1>5. wire' \in [Ends -> Seq(Segment)]
  BY <1>2, <1>3, SendFacts
<1>6. sliding_window' \in [Ends -> 0..Wrap16 - 1] /\ resent' \in [Ends -> Nat]
  <2>1. (sliding_window[e] - Length(s)) % Wrap16 \in 0..Wrap16 - 1
    BY <1>2, CounterFacts, Wrapped
  <2> DEFINE m == (sliding_window[e] - Length(s)) % Wrap16
             n == resent[e] + Length(s)
  <2>2. /\ sliding_window' = [sliding_window EXCEPT ![e] = m]
        /\ resent' = [resent EXCEPT ![e] = n]
    BY <1>3
  <2>3. m \in 0..Wrap16 - 1 /\ n \in Nat
    <3>1. resent[e] \in Nat
      BY DEF TypeOK
    <3> HIDE DEF s
    <3> QED
      BY <3>1, <2>1, <1>2
  <2> HIDE DEF m, n, s
  <2> QED
    BY <2>2, <2>3 DEF TypeOK
<1>7. /\ status' \in [Ends -> {"up", "down", "hung"}]
      /\ unacknowledged' \in [Ends -> Seq(Queued)]
      /\ pending' \in [Ends -> Seq(Segment)]
      /\ StreamInv'
  <2>1. CASE ctcp_destroy(e)
    BY <2>1, <1>3, DestroyFacts
  <2>2. CASE /\ u[i].tries + 1 < MaxTries
             /\ unacknowledged' = [unacknowledged EXCEPT ![e] = v]
             /\ UNCHANGED <<status, pending>>
    <3>1. q \in Queued /\ q.seg = u[i].seg
      BY <1>1, <2>2, Unqueued
    <3> HIDE DEF q
    <3>2. /\ v \in Seq(Queued) /\ Len(v) = Len(u)
          /\ \A k \in 1..Len(u) : v[k].seg = u[k].seg
      BY <1>1, <3>1, Changed DEF v
    <3>3. Chained(u, pending[e], sequence_number[e])
      BY DEF StreamInv
    <3>4. Chained(v, pending[e], sequence_number[e])
      BY <3>2, <3>3, <1>1, ChainedSame
    <3>5. unacknowledged'[e] = v /\ \A d \in Ends \ {e} : unacknowledged'[d] = unacknowledged[d]
      BY <2>2 DEF TypeOK
    <3>6. StreamInv'
      BY <3>4, <3>5, <2>2, <1>3, StreamFrame
    <3>7. unacknowledged' \in [Ends -> Seq(Queued)]
      BY <3>2, <2>2 DEF TypeOK
    <3> QED
      BY <2>2, <3>6, <3>7 DEF TypeOK
  <2> QED
    BY <2>1, <2>2, <1>4
<1>8. TypeOK'
  BY <1>3, <1>5, <1>6, <1>7 DEF TypeOK, recvVars, runVars
<1>9. ReadHasPieces' /\ OutputInv'
  BY <1>3, OutputUnchanged DEF ReadHasPieces, runVars, recvVars
<1> QED
  BY <1>7, <1>8, <1>9

LEMMA NetworkStep ==
    ASSUME CtcpInv, NEW e \in Ends, Network(e) PROVE CtcpInv'
<1> USE DEF CtcpInv, TypeInv
<1>1. UNCHANGED <<status, sendVars, recvVars, runVars, typed, fins>>
  BY DEF Network, Lose, Duplicate, Delay, Fault
<1>f. faults' \in Nat
  <2>1. faults' = faults + 1
    BY DEF Network, Lose, Duplicate, Delay, Fault
  <2> QED
    BY <2>1 DEF TypeOK
<1>w. wire[e] # <<>>
  BY DEF Network, Lose, Duplicate, Delay, Fault
<1> DEFINE w == wire[e]
<1>2. PICK x : /\ wire' = [wire EXCEPT ![e] = x]
               /\ x \in {Tail(w), <<Head(w)>> \o w, Append(Tail(w), Head(w))}
  BY DEF Network, Lose, Duplicate, Delay
<1>3. w \in Seq(Segment) /\ Head(w) \in Segment /\ Tail(w) \in Seq(Segment)
  BY <1>w, TailFacts DEF TypeOK
<1>4. <<Head(w)>> \o w \in Seq(Segment) /\ Append(Tail(w), Head(w)) \in Seq(Segment)
  <2>1. <<Head(w)>> \in Seq(Segment)
    BY <1>3
  <2> QED
    BY <2>1, <1>3, ConcatProperties, AppendProperties
<1>5. wire' \in [Ends -> Seq(Segment)]
  BY <1>2, <1>3, <1>4 DEF TypeOK
<1>6. TypeOK'
  BY <1>1, <1>f, <1>5 DEF TypeOK, sendVars, recvVars, runVars
<1>7. ReadHasPieces' /\ StreamInv' /\ OutputInv'
  BY <1>1, StreamUnchanged, OutputUnchanged DEF ReadHasPieces, sendVars, recvVars, runVars
<1> QED
  BY <1>6, <1>7

----------------------------------------------------------------------------
\* Every step

LEMMA CtcpNext == CtcpInv /\ [Next]_vars => CtcpInv'
<1> SUFFICES ASSUME CtcpInv, [Next]_vars PROVE CtcpInv'
  OBVIOUS
<1>1. CASE UNCHANGED vars
  <2>1. StreamInv' /\ OutputInv'
    BY <1>1, StreamUnchanged, OutputUnchanged DEF CtcpInv, vars, sendVars, recvVars
  <2>2. TypeInv'
    BY <1>1 DEF CtcpInv, TypeInv, TypeOK, ReadHasPieces, vars, sendVars, recvVars, runVars
  <2> QED
    BY <2>1, <2>2 DEF CtcpInv
<1>2. ASSUME NEW e \in Ends, Endpoint(e) \/ Network(e) PROVE CtcpInv'
  <2>1. CASE Sending(e)
    BY <2>1, FillStep, GateStep, SendStep, SendDoneStep DEF Sending
  <2>2. CASE Reading(e)
    BY <2>2, ReadStep, ReadPieceStep, ReadEofStep DEF Reading
  <2>3. CASE Receiving(e)
    BY <2>3, ReceiveFinStep, ReceiveAfterFinStep, ReceiveStep, AckStep, ReceiveDataStep
       DEF Receiving
  <2>4. CASE ctcp_output(e)
    BY <2>4, OutputStep
  <2>5. CASE \E i \in 1..Len(unacknowledged[e]) : ctcp_timer(e, i)
    BY <2>5, TimerStep
  <2>6. CASE Network(e)
    BY <2>6, NetworkStep
  <2> QED
    BY <1>2, <2>1, <2>2, <2>3, <2>4, <2>5, <2>6 DEF Endpoint
<1> QED
  BY <1>1, <1>2 DEF Next

----------------------------------------------------------------------------
\* The theorems

LEMMA CtcpSafe == Spec => []CtcpInv
<1>1. Init => CtcpInv
  BY CtcpInit
<1>2. CtcpInv /\ [Next]_vars => CtcpInv'
  BY CtcpNext
<1> QED
  BY <1>1, <1>2, PTL DEF Spec

\* The counters of ctcp_state_t stay within their widths and the lists hold
\* segments, whatever is typed, received and lost.
THEOREM TypeCorrect == Spec => []TypeOK
<1>1. CtcpInv => TypeOK
  BY DEF CtcpInv, TypeInv
<1> QED
  BY <1>1, CtcpSafe, PTL

\* send_segment, the acknowledgements and the timer leave the two lists of a
\* sender consecutive pieces of its stream.
THEOREM StreamIsWhole == Spec => []StreamWhole
<1>1. CtcpInv => StreamWhole
  <2> SUFFICES ASSUME CtcpInv, NEW e \in Ends
               PROVE  LET q == SendQueue(e) IN
                      /\ \A i \in 1..Len(q) - 1 : q[i].seqno + Size(q[i]) = q[i + 1].seqno
                      /\ q # <<>> => Last(q).seqno + Size(Last(q)) = sequence_number[e]
    BY DEF StreamWhole
  <2>1. /\ unacknowledged[e] \in Seq(Queued) /\ pending[e] \in Seq(Segment)
        /\ Chained(unacknowledged[e], pending[e], sequence_number[e])
    BY DEF CtcpInv, TypeInv, TypeOK, StreamInv
  <2> QED
    BY <2>1, ChainedWhole DEF SendQueue
<1> QED
  BY <1>1, CtcpSafe, PTL

\* ctcp_receive outputs no sequence number twice and never goes back, under
\* any loss, duplication, delay and retransmission.
THEOREM NothingTwice == Spec => []OutputOnce
<1>1. CtcpInv => OutputOnce
  BY DEF CtcpInv, OutputInv
<1> QED
  BY <1>1, CtcpSafe, PTL

----------------------------------------------------------------------------
\* Arithmetic modulo the width of a counter

LEMMA ModuloIs ==
    ASSUME NEW n \in Int, NEW w \in Nat \ {0}
    PROVE  \E k \in Int : n % w = n + k * w
<1>1. n % w = n - w * (n \div w) /\ n \div w \in Int
  OBVIOUS
<1> DEFINE k == -(n \div w)
<1>2. k \in Int /\ n % w = n + k * w
  BY <1>1
<1> HIDE DEF k
<1> QED
  BY <1>2

LEMMA SmallMultiple ==
    ASSUME NEW k \in Int, NEW w \in Nat \ {0}, NEW a \in 0..w - 1, NEW b \in 0..w - 1,
           a = b + k * w
    PROVE  a = b
<1>1. CASE k = 0
  BY <1>1
<1>2. CASE k >= 1
  <2>1. k * w >= w
    BY <1>2
  <2> QED
    BY <2>1
<1>3. CASE k <= -1
  <2>1. k * w <= -w
    BY <1>3
  <2> QED
    BY <2>1
<1> QED
  BY <1>1, <1>2, <1>3

LEMMA SameModulo ==
    ASSUME NEW a \in Int, NEW b \in Int, NEW k \in Int, NEW w \in Nat \ {0}, a = b + k * w
    PROVE  a % w = b % w
<1>1. a % w \in 0..w - 1 /\ b % w \in 0..w - 1
  OBVIOUS
<1>2. PICK i \in Int : a % w = a + i * w
  BY ModuloIs
<1>3. PICK j \in Int : b % w = b + j * w
  BY ModuloIs
<1>4. a % w = (b % w) + (k + i - j) * w
  BY <1>2, <1>3
<1>5. k + i - j \in Int
  OBVIOUS
<1> QED
  BY <1>1, <1>4, <1>5, SmallMultiple

----------------------------------------------------------------------------
\* Induction, for the sum over a list

LEMMA LeastNumber ==
    ASSUME NEW T \in SUBSET Nat, T # {} PROVE \E n \in T : \A m \in T : n <= m
<1>1. PICK x \in T : \A y \in T : ~ (<<y, x>> \in OpToRel(<, Nat))
  BY WFMin, NatLessThanWellFounded
<1>2. \A y \in T : y < x => <<y, x>> \in OpToRel(<, Nat)
  BY DEF OpToRel
<1>3. ASSUME NEW y \in T PROVE x <= y
  <2>1. ~(y < x) /\ x \in Nat /\ y \in Nat
    BY <1>1, <1>2
  <2> QED
    BY <2>1
<1> QED
  BY <1>3

LEMMA Induction ==
    ASSUME NEW S, 0 \in S, \A n \in Nat : n \in S => n + 1 \in S
    PROVE  \A n \in Nat : n \in S
<1> DEFINE T == {n \in Nat : n \notin S}
<1>1. ASSUME T # {} PROVE FALSE
  <2>1. PICK n \in T : \A m \in T : n <= m
    BY <1>1, LeastNumber
  <2>2. n # 0 /\ n - 1 \in Nat /\ n - 1 \notin T
    BY <2>1
  <2> QED
    BY <2>2
<1> QED
  BY <1>1

LEMMA LengthOf ==
    ASSUME NEW u \in Seq(Queued)
    PROVE  Len(u) \in Nat /\ \A i \in 1..Len(u) : Length(u[i].seg) \in Nat
<1>1. \A i \in 1..Len(u) : u[i].seg \in Segment
  BY ElementOfSeq, Unqueued
<1> QED
  BY <1>1, LenProperties, SegmentFacts

\* The sum is what its definition says.
LEMMA TotalIs ==
    ASSUME NEW u \in Seq(Queued)
    PROVE  /\ Total(u) \in [0..Len(u) -> Nat] /\ Total(u)[0] = 0
           /\ \A n \in 1..Len(u) : Total(u)[n] = Total(u)[n - 1] + Length(u[n].seg)
<1> DEFINE Sums(f, n) == /\ f \in [0..n -> Nat] /\ f[0] = 0
                         /\ \A i \in 1..n : f[i] = f[i - 1] + Length(u[i].seg)
           S == {n \in Nat : n <= Len(u) => \E f : Sums(f, n)}
<1>1. Len(u) \in Nat /\ \A i \in 1..Len(u) : Length(u[i].seg) \in Nat
  BY LengthOf
<1>2. 0 \in S
  <2> DEFINE z == [i \in 0..0 |-> 0]
  <2>1. z \in [0..0 -> Nat] /\ z[0] = 0 /\ 1..0 = {}
    OBVIOUS
  <2> HIDE DEF z
  <2>2. Sums(z, 0)
    BY <2>1
  <2> QED
    BY <2>2
<1>3. ASSUME NEW n \in Nat, n \in S PROVE n + 1 \in S
  <2> SUFFICES ASSUME n + 1 <= Len(u) PROVE \E f : Sums(f, n + 1)
    <3> HIDE DEF Sums
    <3> QED
      OBVIOUS
  <2>0. \E f : Sums(f, n)
    <3> HIDE DEF Sums
    <3>1. n <= Len(u) => \E f : Sums(f, n)
      BY <1>3
    <3> QED
      BY <3>1, <1>1
  <2>1. PICK f : Sums(f, n)
    BY <2>0
  <2> DEFINE g == [i \in 0..n + 1 |-> IF i <= n THEN f[i] ELSE f[n] + Length(u[n + 1].seg)]
  <2>2. Length(u[n + 1].seg) \in Nat /\ \A i \in 0..n : f[i] \in Nat
    BY <1>1, <2>1
  <2>3. g \in [0..n + 1 -> Nat] /\ g[0] = 0
    BY <2>1, <2>2
  <2>4. ASSUME NEW i \in 1..n + 1 PROVE g[i] = g[i - 1] + Length(u[i].seg)
    <3>1. CASE i <= n
      <4>1. i \in 1..n /\ g[i] = f[i] /\ g[i - 1] = f[i - 1]
        BY <3>1
      <4> QED
        BY <4>1, <2>1
    <3>2. CASE i = n + 1
      BY <3>2
    <3> QED
      BY <3>1, <3>2
  <2> HIDE DEF g
  <2>5. Sums(g, n + 1)
    BY <2>3, <2>4
  <2> HIDE DEF Sums
  <2> QED
    BY <2>5
<1> HIDE DEF Sums
<1>4. \A n \in Nat : n \in S
  <2> HIDE DEF S
  <2> QED
    BY <1>2, <1>3, Induction
<1>5. PICK f : Sums(f, Len(u))
  BY <1>1, <1>4
<1> DEFINE Body(g) == [n \in 0..Len(u) |-> IF n = 0 THEN 0 ELSE g[n - 1] + Length(u[n].seg)]
<1>6. f = Body(f)
  <2>1. \A n \in 0..Len(u) : f[n] = IF n = 0 THEN 0 ELSE f[n - 1] + Length(u[n].seg)
    BY <1>1, <1>5 DEF Sums
  <2>2. f = [n \in 0..Len(u) |-> f[n]]
    BY <1>5 DEF Sums
  <2> QED
    BY <2>1, <2>2
<1>7. Total(u) = CHOOSE g : g = Body(g)
  BY DEF Total
<1> DEFINE t == Total(u)
<1>8. t = Body(t)
  <2> HIDE DEF Body
  <2> QED
    BY <1>6, <1>7
<1> HIDE DEF t
<1>9. \A n \in 0..Len(u) : t[n] = IF n = 0 THEN 0 ELSE t[n - 1] + Length(u[n].seg)
  BY <1>8
<1>10. t[0] = 0 /\ \A n \in 1..Len(u) : t[n] = t[n - 1] + Length(u[n].seg)
  BY <1>1, <1>9
<1>11. \A n \in 0..Len(u) : t[n] \in Nat
  <2> DEFINE R == {n \in Nat : n <= Len(u) => t[n] \in Nat}
  <2>1. 0 \in R
    BY <1>10
  <2>2. ASSUME NEW n \in Nat, n \in R PROVE n + 1 \in R
    <3> SUFFICES ASSUME n + 1 <= Len(u) PROVE t[n + 1] \in Nat
      OBVIOUS
    <3>1. n + 1 \in 1..Len(u) /\ t[n] \in Nat
      BY <1>1, <2>2
    <3>2. t[n + 1] = t[n] + Length(u[n + 1].seg) /\ Length(u[n + 1].seg) \in Nat
      BY <1>1, <1>10, <3>1
    <3> QED
      BY <3>1, <3>2
  <2>3. \A n \in Nat : n \in R
    <3> HIDE DEF R
    <3> QED
      BY <2>1, <2>2, Induction
  <2> QED
    BY <1>1, <2>3
<1>12. t \in [0..Len(u) -> Nat]
  <2>1. t = [n \in 0..Len(u) |-> t[n]]
    BY <1>8, <1>9
  <2> QED
    BY <2>1, <1>11
<1> QED
  BY <1>10, <1>12 DEF t

\* Sums of lists that begin alike.
LEMMA TotalPrefix ==
    ASSUME NEW u \in Seq(Queued), NEW v \in Seq(Queued), NEW m \in Nat,
           m <= Len(u), m <= Len(v), \A k \in 1..m : u[k].seg = v[k].seg
    PROVE  Total(u)[m] = Total(v)[m]
<1> DEFINE x == Total(u)
           y == Total(v)
           S == {n \in Nat : n <= m => x[n] = y[n]}
<1>1. /\ x[0] = 0 /\ \A n \in 1..Len(u) : x[n] = x[n - 1] + Length(u[n].seg)
      /\ y[0] = 0 /\ \A n \in 1..Len(v) : y[n] = y[n - 1] + Length(v[n].seg)
      /\ Len(u) \in Nat /\ Len(v) \in Nat
  BY TotalIs, LengthOf
<1> HIDE DEF x, y
<1>2. 0 \in S
  BY <1>1
<1>3. ASSUME NEW n \in Nat, n \in S PROVE n + 1 \in S
  <2> SUFFICES ASSUME n + 1 <= m PROVE x[n + 1] = y[n + 1]
    OBVIOUS
  <2>1. /\ n + 1 \in 1..Len(u) /\ n + 1 \in 1..Len(v) /\ n + 1 \in 1..m /\ x[n] = y[n]
        /\ (n + 1) - 1 = n
    BY <1>1, <1>3
  <2>2. x[n + 1] = x[n] + Length(u[n + 1].seg) /\ y[n + 1] = y[n] + Length(v[n + 1].seg)
    BY <1>1, <2>1
  <2> QED
    BY <2>1, <2>2
<1>4. \A n \in Nat : n \in S
  <2> HIDE DEF S
  <2> QED
    BY <1>2, <1>3, Induction
<1> QED
  BY <1>4 DEF x, y

LEMMA TotalSame ==
    ASSUME NEW u \in Seq(Queued), NEW v \in Seq(Queued), Len(v) = Len(u),
           \A k \in 1..Len(u) : v[k].seg = u[k].seg
    PROVE  Total(v)[Len(v)] = Total(u)[Len(u)]
  BY TotalPrefix, LengthOf

LEMMA TotalAppend ==
    ASSUME NEW u \in Seq(Queued), NEW q \in Queued
    PROVE  Total(Append(u, q))[Len(Append(u, q))] = Total(u)[Len(u)] + Length(q.seg)
<1> DEFINE v == Append(u, q)
<1>1. /\ v \in Seq(Queued) /\ Len(v) = Len(u) + 1 /\ Len(u) \in Nat
      /\ \A i \in 1..Len(u) : v[i] = u[i]
      /\ v[Len(u) + 1] = q
  BY AppendProperties, LenProperties
<1> HIDE DEF v
<1>2. Total(v)[Len(u)] = Total(u)[Len(u)]
  BY <1>1, TotalPrefix
<1>3. Len(v) \in 1..Len(v) /\ Len(v) - 1 = Len(u)
  BY <1>1
<1>4. Total(v)[Len(v)] = Total(v)[Len(u)] + Length(q.seg)
  BY <1>1, <1>3, TotalIs
<1> QED
  BY <1>2, <1>4 DEF v

LEMMA TotalTail ==
    ASSUME NEW u \in Seq(Queued), u # <<>>
    PROVE  /\ Total(Tail(u))[Len(Tail(u))] + Length(u[1].seg) = Total(u)[Len(u)]
           /\ \A n \in 0..Len(u) - 1 :
                 Total(Tail(u))[n] + Length(u[1].seg) = Total(u)[n + 1]
<1> DEFINE v == Tail(u)
           x == Total(u)
           y == Total(v)
           S == {n \in Nat : n <= Len(v) => y[n] + Length(u[1].seg) = x[n + 1]}
<1>1. /\ v \in Seq(Queued) /\ Len(u) \in Nat \ {0} /\ Len(v) = Len(u) - 1
      /\ \A k \in 1..Len(u) - 1 : v[k] = u[k + 1]
  BY TailFacts
<1>2. \A i \in 1..Len(u) : Length(u[i].seg) \in Nat
  BY LengthOf
<1> HIDE DEF v
<1>3. /\ x[0] = 0 /\ \A n \in 1..Len(u) : x[n] = x[n - 1] + Length(u[n].seg)
      /\ y[0] = 0 /\ \A n \in 1..Len(v) : y[n] = y[n - 1] + Length(v[n].seg)
      /\ y \in [0..Len(v) -> Nat]
  BY <1>1, TotalIs
<1> HIDE DEF x, y
<1>4. 0 \in S
  <2>1. 1 \in 1..Len(u) /\ x[1] = x[1 - 1] + Length(u[1].seg)
    BY <1>1, <1>3
  <2> QED
    BY <1>2, <1>3, <2>1
<1>5. ASSUME NEW n \in Nat, n \in S PROVE n + 1 \in S
  <2> SUFFICES ASSUME n + 1 <= Len(v) PROVE y[n + 1] + Length(u[1].seg) = x[(n + 1) + 1]
    OBVIOUS
  <2>1. /\ n + 1 \in 1..Len(v) /\ (n + 1) + 1 \in 1..Len(u) /\ 1 \in 1..Len(u)
        /\ (n + 1) - 1 = n /\ ((n + 1) + 1) - 1 = n + 1 /\ n \in 0..Len(v)
    BY <1>1
  <2>2. y[n] + Length(u[1].seg) = x[n + 1]
    BY <1>1, <1>5
  <2>3. y[n + 1] = y[n] + Length(u[(n + 1) + 1].seg)
    BY <1>1, <1>3, <2>1
  <2>4. x[(n + 1) + 1] = x[n + 1] + Length(u[(n + 1) + 1].seg)
    BY <1>3, <2>1
  <2>5. y[n] \in Nat /\ Length(u[(n + 1) + 1].seg) \in Nat /\ Length(u[1].seg) \in Nat
    BY <1>2, <1>3, <2>1
  <2> QED
    BY <2>2, <2>3, <2>4, <2>5
<1>6. \A n \in Nat : n \in S
  <2> HIDE DEF S
  <2> QED
    BY <1>4, <1>5, Induction
<1>7. Len(v) \in Nat /\ Len(v) + 1 = Len(u)
  BY <1>1
<1>8. \A n \in 0..Len(v) : y[n] + Length(u[1].seg) = x[n + 1]
  BY <1>6, <1>7
<1> QED
  BY <1>7, <1>8 DEF x, y, v

LEMMA TotalGrows ==
    ASSUME NEW u \in Seq(Queued), NEW k \in 0..Len(u)
    PROVE  /\ Total(u)[k] <= Total(u)[Len(u)]
           /\ k < Len(u) => Total(u)[k] < Total(u)[Len(u)]
<1> DEFINE x == Total(u)
           S == {n \in Nat : k < n /\ n <= Len(u) => x[k] < x[n]}
<1>1. /\ x \in [0..Len(u) -> Nat] /\ Len(u) \in Nat
      /\ \A n \in 1..Len(u) : x[n] = x[n - 1] + Length(u[n].seg)
  BY TotalIs, LengthOf
<1>2. \A i \in 1..Len(u) : Length(u[i].seg) \in Nat \ {0}
  <2>1. \A i \in 1..Len(u) : u[i].seg \in Segment
    BY ElementOfSeq, Unqueued
  <2>2. \A s \in Segment : Size(s) \in Nat
    BY SegmentFacts
  <2> QED
    BY <2>1, <2>2, CtcpAssumption DEF Length
<1> HIDE DEF x
<1>3. 0 \in S
  OBVIOUS
<1>4. ASSUME NEW n \in Nat, n \in S PROVE n + 1 \in S
  <2> SUFFICES ASSUME k < n + 1, n + 1 <= Len(u) PROVE x[k] < x[n + 1]
    OBVIOUS
  <2>1. n + 1 \in 1..Len(u) /\ (n + 1) - 1 = n /\ n \in 0..Len(u) /\ (k = n \/ k < n)
    BY <1>1
  <2>2. x[n + 1] = x[n] + Length(u[n + 1].seg)
    BY <1>1, <2>1
  <2>3. Length(u[n + 1].seg) \in Nat \ {0} /\ x[n] \in Nat /\ x[k] \in Nat
    BY <1>1, <1>2, <2>1
  <2>4. x[k] <= x[n]
    BY <1>4, <2>1, <2>3
  <2> QED
    BY <2>2, <2>3, <2>4
<1>5. \A n \in Nat : n \in S
  <2> HIDE DEF S
  <2> QED
    BY <1>3, <1>4, Induction
<1>6. k < Len(u) => x[k] < x[Len(u)]
  BY <1>1, <1>5
<1> QED
  BY <1>1, <1>6 DEF x

----------------------------------------------------------------------------
\* The window counter

\* A counter w, with r added, is right for the list u but for its wrapping.
Counts(w, r, u) == \E k \in Int : w + r = Total(u)[Len(u)] + k * Wrap16

WindowInv ==
    \A e \in Ends : status[e] # "down" =>
        Counts(sliding_window[e], resent[e], unacknowledged[e])

LEMMA TotalNat ==
    ASSUME NEW u \in Seq(Queued) PROVE Total(u)[Len(u)] \in Nat
  BY TotalIs, LengthOf

\* The counter and the list change by as much.
LEMMA CountsChange ==
    ASSUME NEW u \in Seq(Queued), NEW v \in Seq(Queued), NEW a \in Int, NEW b \in Int,
           NEW w \in Int, NEW r \in Int, Counts(w, r, u),
           Total(v)[Len(v)] = Total(u)[Len(u)] + a + b
    PROVE  Counts((w + a) % Wrap16, r + b, v)
<1> DEFINE x == Total(u)[Len(u)]
           y == Total(v)[Len(v)]
<1>1. PICK k \in Int : w + r = x + k * Wrap16
  BY DEF Counts
<1>2. PICK i \in Int : (w + a) % Wrap16 = w + a + i * Wrap16
  <2>1. w + a \in Int /\ Wrap16 \in Nat \ {0}
    BY CtcpAssumption
  <2> QED
    BY <2>1, ModuloIs
<1>3. x \in Nat /\ y \in Nat /\ y = x + a + b /\ Wrap16 \in Nat
  BY TotalNat, CtcpAssumption
<1> HIDE DEF x, y
<1> DEFINE m == (w + a) % Wrap16
<1>4. m + (r + b) = y + (k + i) * Wrap16
  <2>1. (k + i) * Wrap16 = k * Wrap16 + i * Wrap16 /\ k * Wrap16 \in Int /\ i * Wrap16 \in Int
    BY <1>3
  <2>2. m = w + a + i * Wrap16
    BY <1>2
  <2> HIDE DEF m
  <2> QED
    BY <1>1, <1>3, <2>1, <2>2
<1>5. k + i \in Int
  OBVIOUS
<1> QED
  BY <1>4, <1>5 DEF Counts, y

LEMMA CountsSame ==
    ASSUME NEW u \in Seq(Queued), NEW v \in Seq(Queued), NEW w, NEW r, Counts(w, r, u),
           Len(v) = Len(u), \A k \in 1..Len(u) : v[k].seg = u[k].seg
    PROVE  Counts(w, r, v)
  BY TotalSame DEF Counts

\* A step of e leaves the other end's window alone.
LEMMA WindowFrame ==
    ASSUME WindowInv, NEW e \in Ends,
           \A d \in Ends \ {e} : /\ status'[d] = status[d]
                                 /\ sliding_window'[d] = sliding_window[d]
                                 /\ resent'[d] = resent[d]
                                 /\ unacknowledged'[d] = unacknowledged[d],
           status'[e] # "down" => Counts(sliding_window'[e], resent'[e], unacknowledged'[e])
    PROVE  WindowInv'
  BY DEF WindowInv

LEMMA WindowUnchanged ==
    ASSUME WindowInv, UNCHANGED <<sliding_window, resent, unacknowledged>>,
           \A e \in Ends : status'[e] = status[e] \/ status[e] = "up" PROVE WindowInv'
  BY DEF WindowInv

LEMMA WindowFill ==
    ASSUME CtcpInv, WindowInv, NEW e \in Ends, Fill(e) PROVE WindowInv'
<1> DEFINE u == unacknowledged[e]
           p == pending[e]
           q == [seg |-> Head(p), sent |-> FALSE, tries |-> 0]
           a == Length(Head(p))
           v == Append(u, q)
<1>1. /\ u \in Seq(Queued) /\ p \in Seq(Segment) /\ p # <<>>
      /\ status[e] = "up" /\ sliding_window[e] \in Int /\ resent[e] \in Int
  BY CtcpAssumption DEF CtcpInv, TypeInv, TypeOK, Fill, Fits, Up
<1>2. Head(p) \in Segment /\ q \in Queued /\ q.seg = Head(p) /\ v \in Seq(Queued)
  BY <1>1, TailFacts, NewlyQueued, AppendProperties
<1>3. /\ unacknowledged' = [unacknowledged EXCEPT ![e] = v]
      /\ sliding_window' = [sliding_window EXCEPT ![e] = (@ + a) % Wrap16]
      /\ UNCHANGED <<status, resent>>
  BY DEF Fill, Move
<1>4. a \in Nat
  BY <1>2, SegmentFacts
<1>5. Total(v)[Len(v)] = Total(u)[Len(u)] + Length(q.seg)
  BY <1>1, <1>2, TotalAppend
<1>6. Length(q.seg) = a
  BY <1>2
<1>7. Counts(sliding_window[e], resent[e], u)
  BY <1>1 DEF WindowInv
<1> HIDE DEF q, v, a, p
<1>8. Counts((sliding_window[e] + a) % Wrap16, resent[e] + 0, v)
  <2>1. Total(u)[Len(u)] \in Nat
    BY <1>1, TotalNat
  <2>2. Total(v)[Len(v)] = Total(u)[Len(u)] + a + 0 /\ a \in Int /\ 0 \in Int
    BY <1>4, <1>5, <1>6, <2>1
  <2> QED
    BY <1>1, <1>2, <1>7, <2>2, CountsChange, Zenon
<1>9. /\ sliding_window'[e] = (sliding_window[e] + a) % Wrap16
      /\ resent'[e] = resent[e] + 0 /\ unacknowledged'[e] = v
  BY <1>1, <1>3 DEF CtcpInv, TypeInv, TypeOK
<1>10. \A d \in Ends \ {e} : /\ status'[d] = status[d]
                             /\ sliding_window'[d] = sliding_window[d]
                             /\ resent'[d] = resent[d]
                             /\ unacknowledged'[d] = unacknowledged[d]
  BY <1>3 DEF CtcpInv, TypeInv, TypeOK
<1> QED
  BY <1>8, <1>9, <1>10, WindowFrame

LEMMA WindowSend ==
    ASSUME CtcpInv, WindowInv, NEW e \in Ends, Send(e) PROVE WindowInv'
<1> DEFINE u == unacknowledged[e]
<1>1. PICK i \in Unsent(e) : unacknowledged' = [unacknowledged EXCEPT ![e][i].sent = TRUE]
  BY DEF Send
<1> DEFINE q == [u[i] EXCEPT !.sent = TRUE]
           v == [u EXCEPT ![i] = q]
<1>2. status[e] = "up" /\ UNCHANGED <<status, sliding_window, resent>>
  BY DEF Send, Up
<1>3. u \in Seq(Queued) /\ i \in 1..Len(u) /\ u[i] \in Queued
  BY DEF CtcpInv, TypeInv, TypeOK, Unsent
<1>4. q \in Queued /\ q.seg = u[i].seg
  BY <1>3, Unqueued
<1>5. unacknowledged' = [unacknowledged EXCEPT ![e] = v]
  BY <1>1
<1> HIDE DEF q
<1>6. /\ v \in Seq(Queued) /\ Len(v) = Len(u)
      /\ \A k \in 1..Len(u) : v[k].seg = u[k].seg
  BY <1>3, <1>4, Changed
<1> HIDE DEF v
<1>7. Counts(sliding_window[e], resent[e], v)
  BY <1>2, <1>3, <1>6, CountsSame DEF WindowInv
<1>8. /\ unacknowledged'[e] = v
      /\ \A d \in Ends \ {e} : unacknowledged'[d] = unacknowledged[d]
  BY <1>5 DEF CtcpInv, TypeInv, TypeOK
<1> QED
  BY <1>2, <1>7, <1>8, WindowFrame

LEMMA WindowAck ==
    ASSUME CtcpInv, WindowInv, NEW e \in Ends, NEW cwnd \in Cwnds, Ack(e, cwnd)
    PROVE  WindowInv'
<1> DEFINE u == unacknowledged[e]
           a == Length(Head(u).seg)
           v == Tail(u)
<1>1. /\ u \in Seq(Queued) /\ u # <<>> /\ status[e] = "up"
      /\ sliding_window[e] \in Int /\ resent[e] \in Int
      /\ unacknowledged' = [unacknowledged EXCEPT ![e] = v]
      /\ sliding_window' = [sliding_window EXCEPT ![e] = (@ - a) % Wrap16]
      /\ UNCHANGED <<status, resent>>
  BY CtcpAssumption DEF CtcpInv, TypeInv, TypeOK, Ack, Acked, Release, Up
<1>2. Head(u) = u[1] /\ Head(u).seg \in Segment /\ v \in Seq(Queued)
  BY <1>1, TailFacts, Unqueued
<1>3. a \in Nat
  BY <1>2, SegmentFacts
<1>4. Total(v)[Len(v)] + a = Total(u)[Len(u)]
  BY <1>1, <1>2, TotalTail
<1>5. Counts(sliding_window[e], resent[e], u)
  BY <1>1 DEF WindowInv
<1> HIDE DEF v, a
<1>6. Counts((sliding_window[e] + (-a)) % Wrap16, resent[e] + 0, v)
  <2>1. Total(u)[Len(u)] \in Nat /\ Total(v)[Len(v)] \in Nat
    BY <1>1, <1>2, TotalNat
  <2>2. Total(v)[Len(v)] = Total(u)[Len(u)] + (-a) + 0
    BY <1>3, <1>4, <2>1
  <2>3. -a \in Int /\ 0 \in Int
    BY <1>3
  <2> QED
    BY <1>1, <1>2, <1>5, <2>2, <2>3, CountsChange, Zenon
<1>7. /\ sliding_window'[e] = (sliding_window[e] - a) % Wrap16
      /\ resent'[e] = resent[e] /\ unacknowledged'[e] = v
  BY <1>1 DEF CtcpInv, TypeInv, TypeOK
<1>8. sliding_window[e] - a = sliding_window[e] + (-a) /\ resent[e] = resent[e] + 0
  BY <1>1, <1>3
<1>9. \A d \in Ends \ {e} : /\ status'[d] = status[d]
                            /\ sliding_window'[d] = sliding_window[d]
                            /\ resent'[d] = resent[d]
                            /\ unacknowledged'[d] = unacknowledged[d]
  BY <1>1 DEF CtcpInv, TypeInv, TypeOK
<1> QED
  BY <1>6, <1>7, <1>8, <1>9, WindowFrame

\* ctcp_destroy ends the account.
LEMMA WindowDestroy ==
    ASSUME CtcpInv, WindowInv, NEW e \in Ends, ctcp_destroy(e),
           \A d \in Ends \ {e} : sliding_window'[d] = sliding_window[d] /\ resent'[d] = resent[d]
    PROVE  WindowInv'
<1>1. /\ status'[e] = "down"
      /\ \A d \in Ends \ {e} : status'[d] = status[d] /\ unacknowledged'[d] = unacknowledged[d]
  BY DEF ctcp_destroy, CtcpInv, TypeInv, TypeOK
<1> QED
  BY <1>1, WindowFrame

LEMMA WindowTimer ==
    ASSUME CtcpInv, WindowInv, NEW e \in Ends, NEW i \in 1..Len(unacknowledged[e]),
           ctcp_timer(e, i)
    PROVE  WindowInv'
<1> DEFINE u == unacknowledged[e]
           a == Length(u[i].seg)
           q == [u[i] EXCEPT !.tries = @ + 1]
           v == [u EXCEPT ![i] = q]
<1>1. /\ u \in Seq(Queued) /\ u[i] \in Queued /\ status[e] = "up"
      /\ sliding_window[e] \in Int /\ resent[e] \in Int
  <2>1. u \in Seq(Queued) /\ sliding_window[e] \in Int /\ resent[e] \in Int
    BY CtcpAssumption DEF CtcpInv, TypeInv, TypeOK
  <2> QED
    BY <2>1, ElementOfSeq DEF ctcp_timer, Up
<1>2. /\ sliding_window' = [sliding_window EXCEPT ![e] = (@ - a) % Wrap16]
      /\ resent' = [resent EXCEPT ![e] = @ + a]
  BY DEF ctcp_timer
<1>3. a \in Nat
  BY <1>1, Unqueued, SegmentFacts
<1>4. /\ sliding_window'[e] = (sliding_window[e] - a) % Wrap16
      /\ resent'[e] = resent[e] + a
      /\ \A d \in Ends \ {e} : sliding_window'[d] = sliding_window[d] /\ resent'[d] = resent[d]
  BY <1>2 DEF CtcpInv, TypeInv, TypeOK
<1>5. CASE u[i].tries + 1 >= MaxTries
  BY <1>4, <1>5, WindowDestroy DEF ctcp_timer
<1>6. CASE ~(u[i].tries + 1 >= MaxTries)
  <2>1. u[i].tries + 1 < MaxTries
    <3>1. u[i].tries \in 0..MaxTries - 1 /\ MaxTries \in Nat
      BY <1>1, Unqueued, CtcpAssumption
    <3> HIDE DEF u
    <3> QED
      BY <3>1, <1>6
  <2>2. unacknowledged' = [unacknowledged EXCEPT ![e] = v] /\ UNCHANGED status
    BY <1>6 DEF ctcp_timer
  <2>3. q \in Queued /\ q.seg = u[i].seg
    BY <1>1, <2>1, Unqueued
  <2> HIDE DEF q
  <2>4. /\ v \in Seq(Queued) /\ Len(v) = Len(u)
        /\ \A k \in 1..Len(u) : v[k].seg = u[k].seg
    BY <1>1, <2>3, Changed
  <2>5. Total(v)[Len(v)] = Total(u)[Len(u)] /\ Total(u)[Len(u)] \in Nat
    BY <1>1, <2>4, TotalSame, TotalNat
  <2> HIDE DEF v, a
  <2>6. Total(v)[Len(v)] = Total(u)[Len(u)] + (-a) + a /\ -a \in Int /\ a \in Int
    BY <1>3, <2>5
  <2>7. Counts(sliding_window[e], resent[e], u)
    BY <1>1 DEF WindowInv
  <2>8. Counts((sliding_window[e] + (-a)) % Wrap16, resent[e] + a, v)
    BY <1>1, <2>4, <2>6, <2>7, CountsChange, Zenon
  <2>9. sliding_window[e] - a = sliding_window[e] + (-a)
    BY <1>1, <1>3
  <2>10. /\ unacknowledged'[e] = v
         /\ \A d \in Ends \ {e} : unacknowledged'[d] = unacknowledged[d]
    BY <2>2 DEF CtcpInv, TypeInv, TypeOK
  <2> QED
    BY <1>4, <2>2, <2>8, <2>9, <2>10, WindowFrame
<1> QED
  BY <1>5, <1>6

LEMMA WindowNext == CtcpInv /\ WindowInv /\ [Next]_vars => WindowInv'
<1> SUFFICES ASSUME CtcpInv, WindowInv, [Next]_vars PROVE WindowInv'
  OBVIOUS
<1>1. CASE UNCHANGED vars
  BY <1>1, WindowUnchanged DEF vars, sendVars
<1>2. ASSUME NEW e \in Ends, Endpoint(e) \/ Network(e) PROVE WindowInv'
  <2>1. CASE Fill(e)
    BY <2>1, WindowFill
  <2>2. CASE Send(e)
    BY <2>2, WindowSend
  <2>3. CASE \E bdp \in Bdps : Gate(e, bdp)
    BY <2>3, WindowUnchanged DEF Gate, sendVars
  <2>4. CASE SendDone(e)
    BY <2>4, WindowUnchanged DEF SendDone, sendVars
  <2>5. CASE \E n \in Chunks : ctcp_read(e, n)
    <3>1. /\ UNCHANGED <<sliding_window, resent, unacknowledged>>
          /\ status' \in {status, [status EXCEPT ![e] = "hung"]} /\ status[e] = "up"
      BY <2>5 DEF ctcp_read, Up
    <3>2. \A d \in Ends : status'[d] = status[d] \/ status[d] = "up"
      BY <3>1 DEF CtcpInv, TypeInv, TypeOK
    <3> QED
      BY <3>1, <3>2, WindowUnchanged
  <2>6. CASE ReadPiece(e)
    BY <2>6, WindowUnchanged DEF ReadPiece
  <2>7. CASE ReadEof(e)
    <3>1. CASE connection_state[e] = 1
      BY <2>7, <3>1, WindowDestroy DEF ReadEof
    <3>2. CASE connection_state[e] # 1
      BY <2>7, <3>2, WindowUnchanged DEF ReadEof
    <3> QED
      BY <3>1, <3>2
  <2>8. CASE ReceiveFin(e) \/ Receive(e) \/ ReceiveData(e)
    BY <2>8, WindowUnchanged DEF ReceiveFin, Receive, ReceiveData, sendVars
  <2>9. CASE ReceiveAfterFin(e)
    BY <2>9, WindowDestroy DEF ReceiveAfterFin
  <2>10. CASE \E cwnd \in Cwnds : Ack(e, cwnd)
    BY <2>10, WindowAck
  <2>11. CASE ctcp_output(e)
    BY <2>11, WindowUnchanged DEF ctcp_output, sendVars
  <2>12. CASE \E i \in 1..Len(unacknowledged[e]) : ctcp_timer(e, i)
    BY <2>12, WindowTimer
  <2>13. CASE Network(e)
    BY <2>13, WindowUnchanged DEF Network, Lose, Duplicate, Delay, Fault, sendVars
  <2> QED
    BY <1>2, <2>1, <2>2, <2>3, <2>4, <2>5, <2>6, <2>7, <2>8, <2>9, <2>10, <2>11, <2>12,
       <2>13 DEF Endpoint, Sending, Reading, Receiving
<1> QED
  BY <1>1, <1>2 DEF Next

LEMMA WindowInit == Init => WindowInv
<1> SUFFICES ASSUME Init, NEW e \in Ends
             PROVE  Counts(sliding_window[e], resent[e], unacknowledged[e])
  BY DEF WindowInv
<1>1. sliding_window[e] = 0 /\ resent[e] = 0 /\ unacknowledged[e] = <<>>
  BY DEF Init
<1>2. <<>> \in Seq(Queued) /\ Len(<<>>) = 0
  BY EmptySeq
<1>3. Total(<<>>)[0] = 0
  BY <1>2, TotalIs
<1>4. 0 + 0 = 0 + 0 * Wrap16 /\ 0 \in Int
  BY CtcpAssumption
<1> QED
  BY <1>1, <1>2, <1>3, <1>4 DEF Counts

\* sliding_window_size_bytes errs by what ctcp_timer took off it, and by
\* nothing else, whatever its width, the windows and the network: every other
\* change of it goes with the same change of unacknowledged_segments.
THEOREM WindowExact == Spec => []WindowAccounting
<1>1. CtcpInv /\ WindowInv => WindowAccounting
  <2> SUFFICES ASSUME CtcpInv, WindowInv, NEW e \in Ends, status[e] # "down"
               PROVE  (sliding_window[e] + resent[e]) % Wrap16 = InWindow(e) % Wrap16
    BY DEF WindowAccounting
  <2> DEFINE x == InWindow(e)
             y == sliding_window[e] + resent[e]
  <2>1. PICK k \in Int : y = x + k * Wrap16
    BY DEF WindowInv, Counts, InWindow
  <2>2. x \in Nat
    BY TotalNat DEF InWindow, CtcpInv, TypeInv, TypeOK
  <2>3. y \in Int /\ Wrap16 \in Nat \ {0}
    BY CtcpAssumption DEF CtcpInv, TypeInv, TypeOK
  <2> HIDE DEF x, y
  <2>4. y % Wrap16 = x % Wrap16
    <3>1. x \in Int
      BY <2>2
    <3> QED
      BY <2>1, <2>3, <3>1, SameModulo, Zenon
  <2> QED
    BY <2>4 DEF x, y
<1> QED
  BY <1>1, CtcpSafe, WindowInit, WindowNext, PTL DEF Spec

----------------------------------------------------------------------------
\* The bytes typed: what is queued, under way and output are copies of them

\* No read is longer than a window, so that ctcp_read never cuts it up.
FittingReads == \A n \in Chunks : n <= Window /\ \A w \in Cwnds : n <= w

\* x holds the bytes that its number says, of the n that were typed.
Copies(x, n) ==
    /\ x.seqno >= 1 /\ x.seqno + Len(x.data) <= n + 1
    /\ x.data = [k \in 1..Len(x.data) |-> x.seqno - 1 + k]
AllCopies(q, n) == \A i \in 1..Len(q) : Copies(q[i], n)

\* Reads are not cut up, no end hangs, and the next number is that of the next
\* byte typed; what is queued are copies.
SenderCopies ==
    \A e \in Ends :
        /\ pieces[e] = <<>> /\ status[e] # "hung" /\ send_window[e] \in {Window} \cup Cwnds
        /\ sequence_number[e] = typed[e] + 1
        /\ \A i \in 1..Len(unacknowledged[e]) : Copies(unacknowledged[e][i].seg, typed[e])
        /\ AllCopies(pending[e], typed[e])

WireCopies == \A e \in Ends : AllCopies(wire[e], typed[Peer(e)])
InCopies == \A e \in Ends : in[e] # NoSegment => Copies(in[e], typed[Peer(e)])
OutputFaithful == \A e \in Ends : AllCopies(output[e], typed[Peer(e)])

CopyInv == SenderCopies /\ WireCopies /\ InCopies /\ OutputFaithful

LEMMA CopiesAppend ==
    ASSUME NEW S, NEW q \in Seq(S), NEW s \in S, NEW n \in Nat, AllCopies(q, n), Copies(s, n)
    PROVE  AllCopies(Append(q, s), n)
<1>1. /\ Len(Append(q, s)) = Len(q) + 1 /\ Len(q) \in Nat
      /\ \A i \in 1..Len(q) : Append(q, s)[i] = q[i]
      /\ Append(q, s)[Len(q) + 1] = s
  BY AppendProperties, LenProperties
<1> HIDE DEF Copies
<1> QED
  BY <1>1 DEF AllCopies

LEMMA CopiesTail ==
    ASSUME NEW S, NEW q \in Seq(S), q # <<>>, NEW n \in Nat, AllCopies(q, n)
    PROVE  AllCopies(Tail(q), n) /\ Copies(Head(q), n)
<1>1. /\ Head(q) = q[1] /\ Len(q) \in Nat \ {0} /\ Len(Tail(q)) = Len(q) - 1
      /\ \A k \in 1..Len(q) - 1 : Tail(q)[k] = q[k + 1]
  BY TailFacts
<1> QED
  BY <1>1 DEF AllCopies

LEMMA CopiesEmpty == ASSUME NEW n PROVE AllCopies(<<>>, n)
<1>1. Len(<<>>) = 0
  BY EmptySeq
<1> QED
  BY <1>1 DEF AllCopies

\* More bytes typed do no harm.
LEMMA CopiesMore ==
    ASSUME NEW x, x.seqno \in Nat, Len(x.data) \in Nat, NEW n \in Nat, NEW m \in Nat, n <= m,
           Copies(x, n)
    PROVE  Copies(x, m)
  BY DEF Copies

\* A segment without data.
LEMMA CopiesNothing ==
    ASSUME TypeOK, SenderCopies, NEW e \in Ends, NEW fin \in BOOLEAN, NEW ackno \in Nat
    PROVE  Copies(NewSegment(e, <<>>, fin, ackno), typed[e])
<1> DEFINE s == NewSegment(e, <<>>, fin, ackno)
<1>1. s.seqno = sequence_number[e] /\ s.data = <<>>
  BY DEF NewSegment
<1>2. sequence_number[e] = typed[e] + 1 /\ typed[e] \in Nat
  BY DEF SenderCopies, TypeOK
<1>3. Len(<<>>) = 0
  BY EmptySeq
<1> HIDE DEF s
<1>4. <<>> = [k \in 1..0 |-> s.seqno - 1 + k]
  OBVIOUS
<1>5. Copies(s, typed[e])
  BY <1>1, <1>2, <1>3, <1>4 DEF Copies
<1> QED
  BY <1>5 DEF s

LEMMA WireCopiesSend ==
    ASSUME TypeOK, WireCopies, NEW e \in Ends, NEW s \in Segment, conn_send(e, s),
           Copies(s, typed[e]), UNCHANGED typed
    PROVE  WireCopies'
<1> DEFINE d == Peer(e)
<1>1. d \in Ends /\ Peer(d) = e /\ d # e
  BY DEF Ends, Peer
<1>2. wire[d] \in Seq(Segment) /\ typed[e] \in Nat /\ AllCopies(wire[d], typed[e])
  BY <1>1 DEF TypeOK, WireCopies
<1>3. /\ wire'[d] = Append(wire[d], s)
      /\ \A f \in Ends \ {d} : wire'[f] = wire[f]
  BY <1>1 DEF TypeOK, conn_send
<1>4. AllCopies(wire'[d], typed[e])
  BY <1>2, <1>3, CopiesAppend
<1> QED
  BY <1>1, <1>3, <1>4 DEF WireCopies

LEMMA SenderCopiesSame ==
    ASSUME SenderCopies, UNCHANGED <<pieces, status, send_window, sequence_number, typed,
                                     unacknowledged, pending>>
    PROVE  SenderCopies'
  BY DEF SenderCopies

LEMMA CopiesSame ==
    /\ WireCopies /\ UNCHANGED <<wire, typed>> => WireCopies'
    /\ InCopies /\ UNCHANGED <<in, typed>> => InCopies'
    /\ OutputFaithful /\ UNCHANGED <<output, typed>> => OutputFaithful'
  BY DEF WireCopies, InCopies, OutputFaithful

\* What one read queues.
LEMMA ReadFits ==
    ASSUME FittingReads, TypeOK, SenderCopies, NEW e \in Ends, NEW n \in Chunks, ctcp_read(e, n)
    PROVE  /\ n \in Nat \ {0} /\ typed[e] \in Nat /\ typed'[e] = typed[e] + n
           /\ \A d \in Ends \ {e} : typed'[d] = typed[d]
           /\ NewSegment(e, Whole(e, n), FALSE, received[e]) \in Segment
           /\ Copies(NewSegment(e, Whole(e, n), FALSE, received[e]), typed'[e])
           /\ Size(NewSegment(e, Whole(e, n), FALSE, received[e])) = n
           /\ pending' = [pending EXCEPT ![e] =
                             Append(@, NewSegment(e, Whole(e, n), FALSE, received[e]))]
           /\ sequence_number' = [sequence_number EXCEPT ![e] = @ + n]
           /\ pieces'[e] = <<>> /\ \A d \in Ends \ {e} : pieces'[d] = pieces[d]
           /\ UNCHANGED status /\ pc' = [pc EXCEPT ![e] = "fill"]
<1> DEFINE D == Whole(e, n)
           s == NewSegment(e, D, FALSE, received[e])
<1>1. /\ n \in Nat \ {0} /\ typed[e] \in Nat /\ received[e] \in Nat
      /\ sequence_number[e] = typed[e] + 1 /\ FALSE \in BOOLEAN
  BY CtcpAssumption DEF TypeOK, SenderCopies
<1>2. typed' = [typed EXCEPT ![e] = @ + n]
  BY DEF ctcp_read
<1>3. typed'[e] = typed[e] + n /\ \A d \in Ends \ {e} : typed'[d] = typed[d]
  BY <1>2 DEF TypeOK
<1>4. n <= send_window[e] /\ send_window[e] \in Nat
  <2>1. send_window[e] \in {Window} \cup Cwnds
    BY DEF SenderCopies
  <2> QED
    BY <2>1, CounterFacts DEF FittingReads
<1>5. D \in Bytes /\ Len(D) = n /\ D = [k \in 1..n |-> typed[e] + k]
  <2>1. \A k \in 1..n : typed[e] + k \in Nat
    BY <1>1
  <2> QED
    BY <1>1, <2>1 DEF Whole, Bytes
<1>6. Pieces(e, n) = <<D>>
  <2> DEFINE F == [i \in 1..0 |-> [k \in 1..send_window[e] |-> Byte(e, (i - 1) * send_window[e] + k, n)]]
  <2>1. ~(n > send_window[e])
    BY <1>1, <1>4
  <2>2. Pieces(e, n) = F \o <<D>>
    BY <2>1 DEF Pieces
  <2>3. F = <<>>
    OBVIOUS
  <2> HIDE DEF F, D
  <2>4. <<D>> \in Seq(Bytes)
    BY <1>5
  <2>5. <<>> \o <<D>> = <<D>>
    BY <2>4, ConcatEmptySeq
  <2> QED
    BY <2>2, <2>3, <2>5
<1> HIDE DEF D
<1>7. /\ s \in Segment /\ s.seqno = sequence_number[e] /\ s.data = D
  BY <1>1, <1>5 DEF NewSegment, Segment
<1>8. Head(Pieces(e, n)) = D /\ Tail(Pieces(e, n)) = <<>>
  BY <1>6
<1>9. /\ Enqueue(e, D) /\ pieces' = [pieces EXCEPT ![e] = <<>>]
      /\ UNCHANGED status /\ pc' = [pc EXCEPT ![e] = "fill"]
  <2>1. send_window[e] # 0
    BY <1>1, <1>4
  <2> QED
    BY <1>8, <2>1 DEF ctcp_read, Goto
<1>10. /\ pending' = [pending EXCEPT ![e] = Append(@, s)]
       /\ sequence_number' = [sequence_number EXCEPT ![e] = @ + n]
  BY <1>5, <1>9 DEF Enqueue
<1>11. pieces'[e] = <<>> /\ \A d \in Ends \ {e} : pieces'[d] = pieces[d]
  BY <1>9 DEF TypeOK
<1> HIDE DEF s
<1>12. Size(s) = n
  BY <1>5, <1>7 DEF Size
<1>13. Copies(s, typed'[e])
  <2>1. \A k \in 1..n : s.seqno - 1 + k = typed[e] + k
    BY <1>1, <1>7
  <2>2. s.data = [k \in 1..Len(s.data) |-> s.seqno - 1 + k]
    BY <2>1, <1>5, <1>7
  <2>3. Len(s.data) = n
    BY <1>5, <1>7
  <2>4. s.seqno >= 1 /\ s.seqno + n <= typed'[e] + 1
    BY <1>1, <1>3, <1>7
  <2> QED
    BY <2>2, <2>3, <2>4 DEF Copies
<1> QED
  BY <1>1, <1>3, <1>7, <1>9, <1>10, <1>11, <1>12, <1>13, Zenon DEF s, D

LEMMA CopyRead ==
    ASSUME FittingReads, CtcpInv, CopyInv, NEW e \in Ends, NEW n \in Chunks, ctcp_read(e, n)
    PROVE  CopyInv'
<1> DEFINE s == NewSegment(e, Whole(e, n), FALSE, received[e])
<1>0. TypeOK /\ SenderCopies /\ WireCopies /\ InCopies /\ OutputFaithful
  BY DEF CtcpInv, TypeInv, CopyInv
<1>1. /\ n \in Nat \ {0} /\ typed[e] \in Nat /\ typed'[e] = typed[e] + n
      /\ \A d \in Ends \ {e} : typed'[d] = typed[d]
      /\ s \in Segment /\ Copies(s, typed'[e])
      /\ pending' = [pending EXCEPT ![e] = Append(@, s)]
      /\ sequence_number' = [sequence_number EXCEPT ![e] = @ + n]
      /\ pieces'[e] = <<>> /\ \A d \in Ends \ {e} : pieces'[d] = pieces[d]
      /\ UNCHANGED status
  BY <1>0, ReadFits, Zenon
<1> HIDE DEF s
<1>2. UNCHANGED <<send_window, unacknowledged, output, in, wire>>
  BY DEF ctcp_read, recvVars
<1>3. \A d \in Ends : typed[d] \in Nat /\ typed'[d] \in Nat /\ typed[d] <= typed'[d]
  <2>1. \A d \in Ends : typed[d] \in Nat
    BY <1>0 DEF TypeOK
  <2> QED
    BY <2>1, <1>1
<1>4. ASSUME NEW x, x.seqno \in Nat, Len(x.data) \in Nat, NEW d \in Ends, Copies(x, typed[d])
      PROVE  Copies(x, typed'[d])
  BY <1>3, <1>4, CopiesMore
<1>5. \A x \in Segment : x.seqno \in Nat /\ Len(x.data) \in Nat
  BY SegmentFacts DEF Size
<1>6. \A x \in [seqno : Nat, data : Bytes] : x.seqno \in Nat /\ Len(x.data) \in Nat
  BY LenProperties DEF Bytes
<1>7. \A d \in Ends : Peer(d) \in Ends
  BY PeerFacts
<1>8. /\ \A d \in Ends : unacknowledged[d] \in Seq(Queued) /\ pending[d] \in Seq(Segment)
      /\ \A d \in Ends : wire[d] \in Seq(Segment) /\ in[d] \in Segment
      /\ \A d \in Ends : output[d] \in Seq([seqno : Nat, data : Bytes])
  BY <1>0 DEF TypeOK
<1>9. WireCopies'
  <2> SUFFICES ASSUME NEW d \in Ends, NEW i \in 1..Len(wire[d])
               PROVE  Copies(wire[d][i], typed'[Peer(d)])
    BY <1>2 DEF WireCopies, AllCopies
  <2>1. wire[d][i] \in Segment /\ Copies(wire[d][i], typed[Peer(d)])
    BY <1>0, <1>8, ElementOfSeq DEF WireCopies, AllCopies
  <2> QED
    BY <2>1, <1>4, <1>5, <1>7
<1>10. InCopies'
  BY <1>0, <1>2, <1>4, <1>5, <1>7, <1>8 DEF InCopies
<1>11. OutputFaithful'
  <2> SUFFICES ASSUME NEW d \in Ends, NEW i \in 1..Len(output[d])
               PROVE  Copies(output[d][i], typed'[Peer(d)])
    BY <1>2 DEF OutputFaithful, AllCopies
  <2>1. output[d][i] \in [seqno : Nat, data : Bytes] /\ Copies(output[d][i], typed[Peer(d)])
    BY <1>0, <1>8, ElementOfSeq DEF OutputFaithful, AllCopies
  <2> QED
    BY <2>1, <1>4, <1>6, <1>7
<1>12. ASSUME NEW d \in Ends, NEW i \in 1..Len(unacknowledged[d])
       PROVE  Copies(unacknowledged[d][i].seg, typed'[d])
  <2>1. unacknowledged[d][i].seg \in Segment /\ Copies(unacknowledged[d][i].seg, typed[d])
    BY <1>0, <1>8, ElementOfSeq, Unqueued DEF SenderCopies
  <2> QED
    BY <2>1, <1>4, <1>5
<1>13. ASSUME NEW d \in Ends PROVE AllCopies(pending[d], typed'[d])
  <2> SUFFICES ASSUME NEW i \in 1..Len(pending[d]) PROVE Copies(pending[d][i], typed'[d])
    BY DEF AllCopies
  <2>1. pending[d][i] \in Segment /\ Copies(pending[d][i], typed[d])
    BY <1>0, <1>8, ElementOfSeq DEF SenderCopies, AllCopies
  <2> QED
    BY <2>1, <1>4, <1>5
<1>14. ASSUME NEW d \in Ends PROVE AllCopies(pending'[d], typed'[d])
  <2>1. CASE d = e
    <3>1. pending'[e] = Append(pending[e], s)
      BY <1>0, <1>1 DEF TypeOK
    <3> QED
      BY <2>1, <3>1, <1>1, <1>3, <1>8, <1>13, CopiesAppend
  <2>2. CASE d # e
    BY <2>2, <1>0, <1>1, <1>13 DEF TypeOK
  <2> QED
    BY <2>1, <2>2
<1>15. \A d \in Ends : sequence_number'[d] = typed'[d] + 1
  <2>1. \A d \in Ends : sequence_number[d] = typed[d] + 1 /\ typed[d] \in Nat
    BY <1>0 DEF SenderCopies, TypeOK
  <2>2. /\ sequence_number'[e] = sequence_number[e] + n
        /\ \A d \in Ends \ {e} : sequence_number'[d] = sequence_number[d]
    BY <1>0, <1>1 DEF TypeOK
  <2> QED
    BY <2>1, <2>2, <1>1
<1>16. SenderCopies'
  BY <1>0, <1>1, <1>2, <1>12, <1>14, <1>15 DEF SenderCopies
<1> QED
  BY <1>9, <1>10, <1>11, <1>16 DEF CopyInv

----------------------------------------------------------------------------
\* The steps, for the copies

\* A step of e that types nothing and may only move segments between the lists.
LEMMA SenderCopiesFrame ==
    ASSUME SenderCopies, NEW e \in Ends, UNCHANGED <<sequence_number, typed>>,
           pieces'[e] = <<>>, \A d \in Ends \ {e} : pieces'[d] = pieces[d],
           \A d \in Ends : status'[d] # "hung",
           send_window'[e] \in {Window} \cup Cwnds,
           \A d \in Ends \ {e} : /\ unacknowledged'[d] = unacknowledged[d]
                                 /\ pending'[d] = pending[d]
                                 /\ send_window'[d] = send_window[d],
           \A i \in 1..Len(unacknowledged'[e]) : Copies(unacknowledged'[e][i].seg, typed[e]),
           AllCopies(pending'[e], typed[e])
    PROVE  SenderCopies'
  BY DEF SenderCopies

LEMMA CopyFill == ASSUME CtcpInv, CopyInv, NEW e \in Ends, Fill(e) PROVE CopyInv'
<1> DEFINE u == unacknowledged[e]
           p == pending[e]
           q == [seg |-> Head(p), sent |-> FALSE, tries |-> 0]
<1>0. TypeOK /\ SenderCopies
  BY DEF CtcpInv, TypeInv, CopyInv
<1>1. /\ u \in Seq(Queued) /\ p \in Seq(Segment) /\ p # <<>> /\ typed[e] \in Nat
      /\ \A i \in 1..Len(u) : Copies(u[i].seg, typed[e])
      /\ AllCopies(p, typed[e])
  BY <1>0 DEF TypeOK, SenderCopies, Fill, Fits
<1>2. q \in Queued /\ q.seg = Head(p) /\ AllCopies(Tail(p), typed[e]) /\ Copies(Head(p), typed[e])
  BY <1>1, TailFacts, NewlyQueued, CopiesTail
<1>3. /\ unacknowledged' = [unacknowledged EXCEPT ![e] = Append(u, q)]
      /\ pending' = [pending EXCEPT ![e] = Tail(p)]
      /\ UNCHANGED <<status, sequence_number, send_window, pieces, typed, in, wire, output>>
  BY DEF Fill, Move, recvVars, runVars
<1> HIDE DEF u, p, q
<1>4. /\ unacknowledged'[e] = Append(u, q) /\ pending'[e] = Tail(p)
      /\ \A d \in Ends \ {e} : unacknowledged'[d] = unacknowledged[d] /\ pending'[d] = pending[d]
  BY <1>0, <1>3 DEF TypeOK
<1>5. \A i \in 1..Len(Append(u, q)) : Copies(Append(u, q)[i].seg, typed[e])
  <2>1. /\ Len(Append(u, q)) = Len(u) + 1 /\ Len(u) \in Nat
        /\ \A i \in 1..Len(u) : Append(u, q)[i] = u[i]
        /\ Append(u, q)[Len(u) + 1] = q
    BY <1>1, <1>2, AppendProperties, LenProperties
  <2> QED
    BY <1>1, <1>2, <2>1
<1>6. SenderCopies'
  <2>1. \A d \in Ends : pieces'[d] = <<>> /\ status'[d] # "hung" /\ send_window'[d] = send_window[d]
                        /\ pieces[d] = <<>> /\ send_window[d] \in {Window} \cup Cwnds
    BY <1>0, <1>3 DEF SenderCopies
  <2> QED
    BY <1>0, <1>2, <1>3, <1>4, <1>5, <2>1, SenderCopiesFrame
<1> QED
  BY <1>3, <1>6, CopiesSame DEF CopyInv

LEMMA CopySendTurn == ASSUME CtcpInv, CopyInv, NEW e \in Ends, Send(e) PROVE CopyInv'
<1> DEFINE u == unacknowledged[e]
<1>0. TypeOK /\ SenderCopies /\ WireCopies
  BY DEF CtcpInv, TypeInv, CopyInv
<1>1. PICK i \in Unsent(e) :
          /\ conn_send(e, u[i].seg)
          /\ unacknowledged' = [unacknowledged EXCEPT ![e][i].sent = TRUE]
  BY DEF Send
<1>2. UNCHANGED <<status, sequence_number, send_window, pending, pieces, typed, in, output>>
  BY DEF Send, recvVars, runVars
<1> DEFINE q == [u[i] EXCEPT !.sent = TRUE]
           v == [u EXCEPT ![i] = q]
<1>3. /\ u \in Seq(Queued) /\ i \in 1..Len(u) /\ u[i] \in Queued
      /\ \A k \in 1..Len(u) : Copies(u[k].seg, typed[e])
  BY <1>0 DEF TypeOK, Unsent, SenderCopies
<1>4. q \in Queued /\ q.seg = u[i].seg /\ u[i].seg \in Segment
  BY <1>3, Unqueued
<1>5. unacknowledged' = [unacknowledged EXCEPT ![e] = v]
  BY <1>1
<1> HIDE DEF q
<1>6. /\ v \in Seq(Queued) /\ Len(v) = Len(u)
      /\ \A k \in 1..Len(u) : v[k].seg = u[k].seg
  BY <1>3, <1>4, Changed
<1> HIDE DEF u, v
<1>7. unacknowledged'[e] = v /\ \A d \in Ends \ {e} : unacknowledged'[d] = unacknowledged[d]
  BY <1>0, <1>5 DEF TypeOK
<1>8. \A k \in 1..Len(v) : Copies(v[k].seg, typed[e])
  BY <1>3, <1>6
<1>9. SenderCopies'
  <2>1. /\ \A d \in Ends : /\ pieces'[d] = <<>> /\ status'[d] # "hung"
                           /\ send_window'[d] = send_window[d] /\ pieces[d] = <<>>
                           /\ send_window[d] \in {Window} \cup Cwnds
        /\ AllCopies(pending'[e], typed[e])
    BY <1>0, <1>2 DEF SenderCopies
  <2> QED
    BY <1>0, <1>2, <1>7, <1>8, <2>1, SenderCopiesFrame
<1>10. WireCopies'
  BY <1>0, <1>1, <1>2, <1>3, <1>4, WireCopiesSend
<1> QED
  BY <1>2, <1>9, <1>10, CopiesSame DEF CopyInv

LEMMA CopyDestroy ==
    ASSUME TypeOK, SenderCopies, NEW e \in Ends, ctcp_destroy(e),
           UNCHANGED <<sequence_number, typed, pieces, send_window>>
    PROVE  SenderCopies'
<1>1. /\ unacknowledged'[e] = <<>> /\ pending'[e] = <<>> /\ status'[e] = "down"
      /\ \A d \in Ends \ {e} : /\ unacknowledged'[d] = unacknowledged[d]
                               /\ pending'[d] = pending[d] /\ status'[d] = status[d]
  BY DEF TypeOK, ctcp_destroy
<1>2. \A d \in Ends : /\ pieces'[d] = <<>> /\ status'[d] # "hung"
                      /\ send_window'[d] = send_window[d] /\ pieces[d] = <<>>
                      /\ send_window[d] \in {Window} \cup Cwnds
  BY <1>1 DEF SenderCopies
<1>3. Len(<<>>) = 0 /\ AllCopies(<<>>, typed[e])
  BY EmptySeq, CopiesEmpty
<1> QED
  BY <1>1, <1>2, <1>3, SenderCopiesFrame

LEMMA CopyReadEof == ASSUME CtcpInv, CopyInv, NEW e \in Ends, ReadEof(e) PROVE CopyInv'
<1> DEFINE s == NewSegment(e, <<>>, TRUE, received[e])
<1>0. TypeOK /\ SenderCopies /\ WireCopies
  BY DEF CtcpInv, TypeInv, CopyInv
<1>1. /\ conn_send(e, s)
      /\ UNCHANGED <<sequence_number, typed, pieces, send_window, in, output>>
      /\ \/ ctcp_destroy(e)
         \/ UNCHANGED <<status, unacknowledged, pending>>
  BY DEF ReadEof, recvVars, runVars
<1>2. s \in Segment /\ Copies(s, typed[e])
  BY <1>0, NewSegmentType, CopiesNothing, EmptyData DEF TypeOK
<1> HIDE DEF s
<1>3. WireCopies'
  BY <1>0, <1>1, <1>2, WireCopiesSend
<1>4. SenderCopies'
  BY <1>0, <1>1, CopyDestroy, SenderCopiesSame
<1> QED
  BY <1>1, <1>3, <1>4, CopiesSame DEF CopyInv

\* A segment is taken off the wire.
LEMMA WireCopiesTake ==
    ASSUME TypeOK, WireCopies, NEW e \in Ends, wire[e] # <<>>, UNCHANGED typed,
           wire' = [wire EXCEPT ![e] = Tail(@)]
    PROVE  WireCopies' /\ Copies(Head(wire[e]), typed[Peer(e)])
<1>1. /\ wire[e] \in Seq(Segment) /\ typed[Peer(e)] \in Nat /\ AllCopies(wire[e], typed[Peer(e)])
  BY PeerFacts DEF TypeOK, WireCopies
<1>2. AllCopies(Tail(wire[e]), typed[Peer(e)]) /\ Copies(Head(wire[e]), typed[Peer(e)])
  BY <1>1, CopiesTail
<1>3. wire'[e] = Tail(wire[e]) /\ \A d \in Ends \ {e} : wire'[d] = wire[d]
  BY DEF TypeOK
<1> QED
  BY <1>2, <1>3 DEF WireCopies

LEMMA CopyReceiveFin == ASSUME CtcpInv, CopyInv, NEW e \in Ends, ReceiveFin(e) PROVE CopyInv'
<1> DEFINE s == NewSegment(e, <<>>, FALSE, received[e])
           d == Peer(e)
<1>0. TypeOK /\ SenderCopies /\ WireCopies
  BY DEF CtcpInv, TypeInv, CopyInv
<1>1. /\ wire[e] # <<>>
      /\ wire' = [wire EXCEPT ![e] = Tail(@), ![d] = Append(@, s)]
      /\ UNCHANGED <<status, sequence_number, typed, pieces, send_window, unacknowledged,
                     pending, in, output>>
  BY DEF ReceiveFin, sendVars, runVars
<1>2. s \in Segment /\ Copies(s, typed[e])
  BY <1>0, NewSegmentType, CopiesNothing, EmptyData DEF TypeOK
<1> HIDE DEF s
<1>3. d \in Ends /\ d # e /\ Peer(d) = e /\ Ends = {d, e}
  BY DEF Ends, Peer
<1> HIDE DEF d
<1>4. wire'[e] = Tail(wire[e]) /\ wire'[d] = Append(wire[d], s)
  BY <1>0, <1>1, <1>3 DEF TypeOK
<1>5. /\ wire[e] \in Seq(Segment) /\ wire[d] \in Seq(Segment)
      /\ typed[e] \in Nat /\ typed[Peer(e)] \in Nat
      /\ AllCopies(wire[e], typed[Peer(e)]) /\ AllCopies(wire[d], typed[e])
  BY <1>0, <1>3, PeerFacts DEF TypeOK, WireCopies
<1>6. AllCopies(wire'[e], typed[Peer(e)]) /\ AllCopies(wire'[d], typed[e])
  BY <1>1, <1>2, <1>4, <1>5, CopiesTail, CopiesAppend
<1>7. WireCopies'
  BY <1>1, <1>3, <1>6 DEF WireCopies
<1>8. SenderCopies'
  BY <1>0, <1>1, SenderCopiesSame
<1> QED
  BY <1>1, <1>7, <1>8, CopiesSame DEF CopyInv

LEMMA CopyReceiveAfterFin ==
    ASSUME CtcpInv, CopyInv, NEW e \in Ends, ReceiveAfterFin(e) PROVE CopyInv'
<1>0. TypeOK /\ SenderCopies /\ WireCopies
  BY DEF CtcpInv, TypeInv, CopyInv
<1>1. /\ wire[e] # <<>> /\ wire' = [wire EXCEPT ![e] = Tail(@)] /\ ctcp_destroy(e)
      /\ UNCHANGED <<sequence_number, typed, pieces, send_window, in, output>>
  BY DEF ReceiveAfterFin, recvVars, runVars
<1>2. WireCopies' /\ SenderCopies'
  BY <1>0, <1>1, WireCopiesTake, CopyDestroy
<1> QED
  BY <1>1, <1>2, CopiesSame DEF CopyInv

LEMMA CopyReceive == ASSUME CtcpInv, CopyInv, NEW e \in Ends, Receive(e) PROVE CopyInv'
<1>0. TypeOK /\ SenderCopies /\ WireCopies /\ InCopies
  BY DEF CtcpInv, TypeInv, CopyInv
<1>1. /\ wire[e] # <<>> /\ wire' = [wire EXCEPT ![e] = Tail(@)]
      /\ in' = [in EXCEPT ![e] = Head(wire[e])]
      /\ UNCHANGED <<status, sequence_number, typed, pieces, send_window, unacknowledged,
                     pending, output>>
  BY DEF Receive, sendVars, recvVars
<1>2. WireCopies' /\ Copies(Head(wire[e]), typed[Peer(e)])
  BY <1>0, <1>1, WireCopiesTake
<1>3. in'[e] = Head(wire[e]) /\ \A d \in Ends \ {e} : in'[d] = in[d]
  BY <1>0, <1>1 DEF TypeOK
<1>4. InCopies'
  BY <1>0, <1>1, <1>2, <1>3 DEF InCopies
<1>5. SenderCopies'
  BY <1>1, <1>0, SenderCopiesSame
<1> QED
  BY <1>1, <1>2, <1>4, <1>5, CopiesSame DEF CopyInv

LEMMA CopyAck ==
    ASSUME CtcpInv, CopyInv, NEW e \in Ends, NEW cwnd \in Cwnds, Ack(e, cwnd) PROVE CopyInv'
<1> DEFINE u == unacknowledged[e]
<1>0. TypeOK /\ SenderCopies
  BY DEF CtcpInv, TypeInv, CopyInv
<1>1. /\ u # <<>> /\ unacknowledged' = [unacknowledged EXCEPT ![e] = Tail(@)]
      /\ send_window' = [send_window EXCEPT ![e] = cwnd]
      /\ UNCHANGED <<status, sequence_number, typed, pieces, pending, in, wire, output>>
  BY DEF Ack, Acked, recvVars
<1>2. /\ u \in Seq(Queued) /\ \A i \in 1..Len(u) : Copies(u[i].seg, typed[e])
  BY <1>0 DEF TypeOK, SenderCopies
<1> HIDE DEF u
<1>3. /\ Len(u) \in Nat \ {0} /\ Len(Tail(u)) = Len(u) - 1
      /\ \A k \in 1..Len(u) - 1 : Tail(u)[k] = u[k + 1]
  BY <1>1, <1>2, TailFacts
<1>4. \A i \in 1..Len(Tail(u)) : Copies(Tail(u)[i].seg, typed[e])
  BY <1>2, <1>3
<1>5. /\ unacknowledged'[e] = Tail(u) /\ send_window'[e] = cwnd
      /\ \A d \in Ends \ {e} : /\ unacknowledged'[d] = unacknowledged[d]
                               /\ send_window'[d] = send_window[d]
  BY <1>0, <1>1 DEF TypeOK, u
<1>6. SenderCopies'
  <2>1. /\ \A d \in Ends : pieces'[d] = <<>> /\ status'[d] # "hung" /\ pieces[d] = <<>>
        /\ AllCopies(pending'[e], typed[e])
    BY <1>0, <1>1 DEF SenderCopies
  <2> QED
    BY <1>0, <1>1, <1>4, <1>5, <2>1, SenderCopiesFrame
<1> QED
  BY <1>1, <1>6, CopiesSame DEF CopyInv

LEMMA CopyReceiveData ==
    ASSUME CtcpInv, CopyInv, NEW e \in Ends, ReceiveData(e) PROVE CopyInv'
<1> DEFINE s == NewSegment(e, <<>>, FALSE, After(e))
           x == [seqno |-> in[e].seqno, data |-> in[e].data]
<1>0. TypeOK /\ SenderCopies /\ WireCopies /\ InCopies /\ OutputFaithful
  BY DEF CtcpInv, TypeInv, CopyInv
<1>1. /\ in' = [in EXCEPT ![e] = NoSegment]
      /\ UNCHANGED <<status, sequence_number, typed, pieces, send_window, unacknowledged, pending>>
      /\ \/ Size(in[e]) > 0 /\ conn_send(e, s)
            /\ \/ output' = [output EXCEPT ![e] = Append(@, x)]
               \/ UNCHANGED output
         \/ UNCHANGED <<wire, output>>
  BY DEF ReceiveData, conn_output, sendVars
<1>2. SenderCopies'
  BY <1>0, <1>1, SenderCopiesSame
<1>3. in[e] \in Segment /\ After(e) \in Nat /\ typed[Peer(e)] \in Nat
  BY <1>0, SegmentFacts, PeerFacts DEF TypeOK, After, End
<1>4. s \in Segment /\ Copies(s, typed[e])
  BY <1>0, <1>3, NewSegmentType, CopiesNothing, EmptyData DEF TypeOK
<1>5. InCopies'
  <2>1. in'[e] = NoSegment /\ \A d \in Ends \ {e} : in'[d] = in[d]
    BY <1>0, <1>1 DEF TypeOK
  <2> QED
    BY <1>0, <1>1, <2>1 DEF InCopies
<1> HIDE DEF s
<1>6. WireCopies'
  BY <1>0, <1>1, <1>4, WireCopiesSend, CopiesSame
<1>7. OutputFaithful'
  <2>1. CASE UNCHANGED output
    BY <2>1, <1>0, <1>1, CopiesSame
  <2>2. CASE Size(in[e]) > 0 /\ output' = [output EXCEPT ![e] = Append(@, x)]
    <3>1. in[e] # NoSegment
      <4>1. Size(NoSegment) = 0
        BY EmptySeq DEF Size, NoSegment
      <4> QED
        BY <2>2, <4>1
    <3>2. Copies(x, typed[Peer(e)])
      BY <3>1, <1>0 DEF InCopies, Copies
    <3> DEFINE S == [seqno : Nat, data : Bytes]
    <3>3. x \in S
      BY <1>3, SegmentFacts
    <3> HIDE DEF x
    <3>4. /\ output[e] \in Seq(S)
          /\ AllCopies(output[e], typed[Peer(e)])
          /\ output'[e] = Append(output[e], x)
          /\ \A d \in Ends \ {e} : output'[d] = output[d]
      BY <1>0, <2>2 DEF TypeOK, OutputFaithful
    <3> HIDE DEF S
    <3>5. AllCopies(output'[e], typed[Peer(e)])
      BY <1>3, <3>2, <3>3, <3>4, CopiesAppend
    <3> QED
      BY <1>0, <1>1, <3>4, <3>5 DEF OutputFaithful
  <2> QED
    BY <1>1, <2>1, <2>2
<1> QED
  BY <1>2, <1>5, <1>6, <1>7 DEF CopyInv

LEMMA CopyOutput == ASSUME CtcpInv, CopyInv, NEW e \in Ends, ctcp_output(e) PROVE CopyInv'
<1> DEFINE s == NewSegment(e, <<>>, FALSE, received[e])
<1>0. TypeOK /\ SenderCopies /\ WireCopies
  BY DEF CtcpInv, TypeInv, CopyInv
<1>1. /\ conn_send(e, s)
      /\ UNCHANGED <<status, sequence_number, typed, pieces, send_window, unacknowledged,
                     pending, in, output>>
  BY DEF ctcp_output, sendVars, runVars
<1>2. s \in Segment /\ Copies(s, typed[e])
  BY <1>0, NewSegmentType, CopiesNothing, EmptyData DEF TypeOK
<1> HIDE DEF s
<1>3. WireCopies' /\ SenderCopies'
  BY <1>0, <1>1, <1>2, WireCopiesSend, SenderCopiesSame
<1> QED
  BY <1>1, <1>3, CopiesSame DEF CopyInv

LEMMA CopyTimer ==
    ASSUME CtcpInv, CopyInv, NEW e \in Ends, NEW i \in 1..Len(unacknowledged[e]), ctcp_timer(e, i)
    PROVE  CopyInv'
<1> DEFINE u == unacknowledged[e]
<1>0. TypeOK /\ SenderCopies /\ WireCopies
  BY DEF CtcpInv, TypeInv, CopyInv
<1>1. /\ conn_send(e, u[i].seg)
      /\ UNCHANGED <<sequence_number, typed, pieces, send_window, in, output>>
      /\ \/ ctcp_destroy(e)
         \/ /\ u[i].tries + 1 < MaxTries
            /\ unacknowledged' = [unacknowledged EXCEPT ![e][i].tries = @ + 1]
            /\ UNCHANGED <<status, pending>>
  <2>1. u[i] \in Queued
    BY <1>0, ElementOfSeq DEF TypeOK
  <2>2. MaxTries \in Nat /\ u[i].tries \in Nat
    BY <2>1, CtcpAssumption DEF Queued
  <2> QED
    BY <2>2 DEF ctcp_timer, recvVars, runVars
<1>2. /\ u \in Seq(Queued) /\ u[i] \in Queued /\ u[i].seg \in Segment
      /\ \A k \in 1..Len(u) : Copies(u[k].seg, typed[e])
  BY <1>0, Unqueued, ElementOfSeq DEF TypeOK, SenderCopies
<1>3. WireCopies'
  BY <1>0, <1>1, <1>2, WireCopiesSend
<1>4. ASSUME u[i].tries + 1 < MaxTries,
             unacknowledged' = [unacknowledged EXCEPT ![e][i].tries = @ + 1],
             UNCHANGED <<status, pending>>
      PROVE  SenderCopies'
  <2> DEFINE q == [u[i] EXCEPT !.tries = @ + 1]
             v == [u EXCEPT ![i] = q]
  <2>1. q \in Queued /\ q.seg = u[i].seg
    BY <1>2, <1>4, Unqueued
  <2>2. unacknowledged' = [unacknowledged EXCEPT ![e] = v]
    BY <1>4
  <2> HIDE DEF q
  <2>3. /\ v \in Seq(Queued) /\ Len(v) = Len(u)
        /\ \A k \in 1..Len(u) : v[k].seg = u[k].seg
    BY <1>2, <2>1, Changed
  <2> HIDE DEF u, v
  <2>4. unacknowledged'[e] = v /\ \A d \in Ends \ {e} : unacknowledged'[d] = unacknowledged[d]
    BY <1>0, <2>2 DEF TypeOK
  <2>5. \A k \in 1..Len(v) : Copies(v[k].seg, typed[e])
    BY <1>2, <2>3
  <2>6. /\ \A d \in Ends : /\ pieces'[d] = <<>> /\ status'[d] # "hung"
                           /\ send_window'[d] = send_window[d] /\ pieces[d] = <<>>
                           /\ send_window[d] \in {Window} \cup Cwnds
        /\ AllCopies(pending'[e], typed[e])
    BY <1>0, <1>1, <1>4 DEF SenderCopies
  <2> QED
    BY <1>0, <1>1, <1>4, <2>4, <2>5, <2>6, SenderCopiesFrame
<1>5. SenderCopies'
  BY <1>0, <1>1, <1>4, CopyDestroy
<1> QED
  BY <1>1, <1>3, <1>5, CopiesSame DEF CopyInv

LEMMA CopyNetwork == ASSUME CtcpInv, CopyInv, NEW e \in Ends, Network(e) PROVE CopyInv'
<1> DEFINE w == wire[e]
           n == typed[Peer(e)]
<1>0. TypeOK /\ SenderCopies /\ WireCopies
  BY DEF CtcpInv, TypeInv, CopyInv
<1>1. /\ w # <<>>
      /\ UNCHANGED <<status, sequence_number, typed, pieces, send_window, unacknowledged,
                     pending, in, output>>
  BY DEF Network, Lose, Duplicate, Delay, Fault, sendVars, recvVars, runVars
<1>2. PICK x : wire' = [wire EXCEPT ![e] = x]
               /\ x \in {Tail(w), <<Head(w)>> \o w, Append(Tail(w), Head(w))}
  BY DEF Network, Lose, Duplicate, Delay
<1>3. w \in Seq(Segment) /\ n \in Nat /\ AllCopies(w, n)
  BY <1>0, PeerFacts DEF TypeOK, WireCopies
<1> HIDE DEF w, n
<1>4. /\ Head(w) \in Segment /\ Tail(w) \in Seq(Segment)
      /\ AllCopies(Tail(w), n) /\ Copies(Head(w), n)
  BY <1>1, <1>3, TailFacts, CopiesTail
<1>5. AllCopies(<<Head(w)>> \o w, n)
  <2> DEFINE y == <<Head(w)>>
  <2>1. y \in Seq(Segment) /\ Len(y) = 1 /\ y[1] = Head(w) /\ Len(w) \in Nat
    BY <1>3, <1>4, LenProperties
  <2> HIDE DEF y
  <2>2. /\ Len(y \o w) = 1 + Len(w)
        /\ \A i \in 1..1 + Len(w) : (y \o w)[i] = IF i <= 1 THEN y[i] ELSE w[i - 1]
    <3>1. /\ Len(y \o w) = Len(y) + Len(w)
          /\ \A i \in 1..Len(y) + Len(w) :
                (y \o w)[i] = IF i <= Len(y) THEN y[i] ELSE w[i - Len(y)]
      BY <1>3, <2>1, ConcatProperties
    <3> QED
      BY <2>1, <3>1
  <2>3. ASSUME NEW i \in 1..Len(y \o w) PROVE Copies((y \o w)[i], n)
    <3>1. CASE i = 1
      BY <2>1, <2>2, <3>1, <1>4
    <3>2. CASE i # 1
      <4>1. i - 1 \in 1..Len(w) /\ (y \o w)[i] = w[i - 1]
        BY <2>1, <2>2, <3>2
      <4> QED
        BY <4>1, <1>3 DEF AllCopies
    <3> QED
      BY <3>1, <3>2
  <2> QED
    BY <2>3 DEF AllCopies, y
<1>6. AllCopies(x, n)
  BY <1>2, <1>3, <1>4, <1>5, CopiesAppend
<1>7. WireCopies'
  <2>1. wire'[e] = x /\ \A d \in Ends \ {e} : wire'[d] = wire[d]
    BY <1>0, <1>2 DEF TypeOK
  <2> QED
    BY <1>0, <1>1, <1>6, <2>1 DEF WireCopies, n
<1> QED
  BY <1>0, <1>1, <1>7, SenderCopiesSame, CopiesSame DEF CopyInv

LEMMA CopyNext == FittingReads /\ CtcpInv /\ CopyInv /\ [Next]_vars => CopyInv'
<1> SUFFICES ASSUME FittingReads, CtcpInv, CopyInv, [Next]_vars PROVE CopyInv'
  OBVIOUS
<1>1. ASSUME UNCHANGED <<pieces, status, send_window, sequence_number, typed,
                         unacknowledged, pending, wire, output>>,
             InCopies'
      PROVE  CopyInv'
  BY <1>1, SenderCopiesSame, CopiesSame DEF CopyInv
<1>2. ASSUME NEW e \in Ends, in' = in \/ in' = [in EXCEPT ![e] = NoSegment], UNCHANGED typed
      PROVE  InCopies'
  <2>1. \A d \in Ends : in'[d] = in[d] \/ in'[d] = NoSegment
    BY <1>2 DEF CtcpInv, TypeInv, TypeOK
  <2> QED
    BY <1>2, <2>1 DEF CopyInv, InCopies
<1>3. CASE UNCHANGED vars
  BY <1>3, <1>1, CopiesSame DEF vars, sendVars, recvVars, runVars, CopyInv
<1>4. ASSUME NEW e \in Ends, Endpoint(e) \/ Network(e) PROVE CopyInv'
  <2>1. CASE Fill(e)
    BY <2>1, CopyFill
  <2>2. CASE Send(e)
    BY <2>2, CopySendTurn
  <2>3. CASE \E bdp \in Bdps : Gate(e, bdp)
    BY <2>3, <1>1, <1>2 DEF Gate, EarlyReturn, sendVars, recvVars
  <2>4. CASE SendDone(e)
    BY <2>4, <1>1, <1>2 DEF SendDone, sendVars, recvVars
  <2>5. CASE \E n \in Chunks : ctcp_read(e, n)
    BY <2>5, CopyRead
  <2>6. CASE ReadPiece(e)
    BY <2>6 DEF ReadPiece, Up, CopyInv, SenderCopies, CtcpInv, TypeInv, ReadHasPieces
  <2>7. CASE ReadEof(e)
    BY <2>7, CopyReadEof
  <2>8. CASE ReceiveFin(e) \/ Receive(e) \/ ReceiveData(e)
    BY <2>8, CopyReceiveFin, CopyReceive, CopyReceiveData
  <2>9. CASE ReceiveAfterFin(e)
    BY <2>9, CopyReceiveAfterFin
  <2>10. CASE \E cwnd \in Cwnds : Ack(e, cwnd)
    BY <2>10, CopyAck
  <2>11. CASE ctcp_output(e)
    BY <2>11, CopyOutput
  <2>12. CASE \E i \in 1..Len(unacknowledged[e]) : ctcp_timer(e, i)
    BY <2>12, CopyTimer
  <2>13. CASE Network(e)
    BY <2>13, CopyNetwork
  <2> QED
    BY <1>4, <2>1, <2>2, <2>3, <2>4, <2>5, <2>6, <2>7, <2>8, <2>9, <2>10, <2>11, <2>12,
       <2>13 DEF Endpoint, Sending, Reading, Receiving
<1> QED
  BY <1>3, <1>4 DEF Next

LEMMA CopyInit == Init => CopyInv
<1> SUFFICES ASSUME Init PROVE CopyInv
  OBVIOUS
<1>1. Len(<<>>) = 0 /\ \A n : AllCopies(<<>>, n)
  BY EmptySeq, CopiesEmpty
<1> QED
  BY <1>1, PeerFacts DEF Init, CopyInv, SenderCopies, WireCopies, InCopies, OutputFaithful

\* Whatever the network loses, duplicates, delays or answers late, a chunk that
\* ctcp_receive has output at one end holds the bytes that were typed at the
\* other, at the places that its sequence number says, as long as no read is
\* longer than the window.
THEOREM OutputIsTyped == FittingReads => (Spec => []OutputFaithful)
<1> SUFFICES ASSUME FittingReads PROVE Spec => []OutputFaithful
  OBVIOUS
<1>1. CtcpInv /\ CopyInv /\ [Next]_vars => CopyInv'
  BY CopyNext
<1>2. CopyInv => OutputFaithful
  BY DEF CopyInv
<1> QED
  BY <1>1, <1>2, CopyInit, CtcpSafe, PTL DEF Spec

----------------------------------------------------------------------------
\* A stream undisturbed

\* What is needed for a byte stream to arrive whole: reads that fit a window (a
\* longer one is queued twice), a network without faults, a timer that finds no
\* segment overdue, one direction in use (an ACK without data moves the number
\* that the next data must have), and an output queue with room for all of the
\* stream (what finds it full is lost).  Nothing is assumed of the windows and
\* the products of BBR, nor of the widths of the counters.
Undisturbed ==
    /\ FittingReads /\ Faults \subseteq {"slow"}
    /\ Input["server"] = 0 /\ "server" \notin Closes /\ Input["client"] <= Room

\* The segments of q follow one another from number a up to b.
Run(q, a, b) ==
    /\ \A i \in 1..Len(q) - 1 : End(q[i]) = q[i + 1].seqno
    /\ q = <<>> => a = b
    /\ q # <<>> => q[1].seqno = a /\ End(q[Len(q)]) = b

\* The client sends and the server acknowledges; the client does not go down,
\* and its timer retransmits nothing.
OneWay ==
    /\ status["client"] = "up" /\ connection_state["client"] = 0
    /\ backlog["client"] = 0 /\ resent["client"] = 0 /\ unacknowledged["server"] = <<>>
    /\ typed["client"] <= Input["client"]
    /\ fins["client"] > 0 => typed["client"] = Input["client"]
    /\ pc["server"] \in {"idle", "acks"}
    /\ in["server"] # NoSegment <=> pc["server"] = "acks"
    /\ pc["server"] = "acks" => connection_state["server"] = 0
    /\ wrote_eof["server"] => connection_state["server"] = 1
    /\ received["server"] = expected["server"]

\* The client hears acknowledgements only, of bytes that have arrived.
IsAck(a) == Size(a) = 0 /\ a.ackno <= expected["server"]
AcksOnlyInv ==
    /\ \A i \in 1..Len(wire["client"]) : IsAck(wire["client"][i]) /\ ~wire["client"][i].fin
    /\ IsAck(in["client"])

\* The client sends bytes, and FINs (of which it has sent count).
IsData(s, count) == IF s.fin THEN Size(s) = 0 /\ count > 0 ELSE Size(s) > 0
DataOnly ==
    /\ \A i \in 1..Len(unacknowledged["client"]) :
          Size(unacknowledged["client"][i].seg) \in Chunks /\ ~unacknowledged["client"][i].seg.fin
    /\ \A i \in 1..Len(pending["client"]) :
          Size(pending["client"][i]) \in Chunks /\ ~pending["client"][i].fin
    /\ \A i \in 1..Len(wire["server"]) : IsData(wire["server"][i], fins["client"])
    /\ in["server"] # NoSegment => Size(in["server"]) > 0

\* The number of the first byte not yet sent, k segments of u being sent.
Unreached(u, p, n, k) ==
    IF k < Len(u) THEN u[k + 1].seg.seqno ELSE IF p # <<>> THEN p[1].seqno ELSE n

\* The number of the first byte the server still waits for.
Awaited == IF in["server"] = NoSegment THEN expected["server"] ELSE End(in["server"])

SentUpTo(u, k) == \A i \in 1..Len(u) : u[i].sent <=> i <= k

\* The segments of q lead from number a up to b, the FINs among them being taken
\* to stand at b: their own number is past what they have overtaken.
Landing(s, b) == IF s.fin THEN [s EXCEPT !.seqno = b] ELSE s
Landed(q, b) == [i \in 1..Len(q) |-> Landing(q[i], b)]
Lead(q, a, b) == Run(Landed(q, b), a, b)

\* The first k unacknowledged segments have been sent; what is under way leads
\* from the byte the server waits for to the first not yet sent.
Flow(k) ==
    LET u == unacknowledged["client"] IN
    /\ SentUpTo(u, k)
    /\ Lead(wire["server"], Awaited,
            Unreached(u, pending["client"], sequence_number["client"], k))

\* Once the client has sent a FIN it sends no more data, whatever it still has:
\* nothing is pending, and the loops over what is pending do not start again.
AfterEof ==
    /\ fins["client"] > 0 => pending["client"] = <<>> /\ pc["client"] \in {"idle", "acks"}
    /\ connection_state["server"] = 1 =>
          fins["client"] > 0 /\ \A i \in 1..Len(wire["server"]) : wire["server"][i].fin
    /\ \A i, j \in 1..Len(wire["server"]) :
          i < j /\ wire["server"][i].fin => wire["server"][j].fin

\* The server has output every byte up to the one it expects, none of them in
\* an empty chunk, so that the output queue cannot fill up.
Arrivals ==
    /\ Run(output["server"], 1, expected["server"])
    /\ \A i \in 1..Len(output["server"]) : Size(output["server"][i]) >= 1
    /\ backlog["server"] <= Len(output["server"])
    /\ in["server"] # NoSegment => in["server"].seqno = expected["server"]

Sent == \E k \in 0..Len(unacknowledged["client"]) : Flow(k)
PerfectInv == OneWay /\ AcksOnlyInv /\ DataOnly /\ Arrivals /\ Sent /\ AfterEof

----------------------------------------------------------------------------
\* Runs

LEMMA RunEmpty == ASSUME NEW n PROVE Run(<<>>, n, n)
<1>1. Len(<<>>) = 0
  BY EmptySeq
<1> QED
  BY <1>1 DEF Run

LEMMA RunAppend ==
    ASSUME NEW S, NEW q \in Seq(S), NEW s \in S, NEW a, NEW b, Run(q, a, b), s.seqno = b
    PROVE  Run(Append(q, s), a, End(s))
<1> DEFINE r == Append(q, s)
<1>1. /\ r # <<>> /\ Len(r) = Len(q) + 1 /\ Len(q) \in Nat
      /\ \A i \in 1..Len(q) : r[i] = q[i]
      /\ r[Len(q) + 1] = s
  BY AppendProperties, LenProperties
<1>2. q = <<>> <=> Len(q) = 0
  BY EmptySeq
<1> HIDE DEF r
<1>3. ASSUME NEW i \in 1..Len(r) - 1 PROVE End(r[i]) = r[i + 1].seqno
  <2>1. CASE i = Len(q)
    <3>1. q # <<>> /\ r[i] = q[Len(q)] /\ r[i + 1] = s
      BY <1>1, <1>2, <2>1
    <3> QED
      BY <3>1 DEF Run
  <2>2. CASE i # Len(q)
    <3>1. i \in 1..Len(q) - 1 /\ r[i] = q[i] /\ r[i + 1] = q[i + 1]
      BY <1>1, <2>2
    <3> QED
      BY <3>1 DEF Run
  <2> QED
    BY <2>1, <2>2
<1>4. r[1].seqno = a
  <2>1. CASE q = <<>>
    BY <1>1, <1>2, <2>1 DEF Run
  <2>2. CASE q # <<>>
    <3>1. r[1] = q[1]
      BY <1>1, <1>2, <2>2
    <3> QED
      BY <2>2, <3>1 DEF Run
  <2> QED
    BY <2>1, <2>2
<1>5. End(r[Len(r)]) = End(s)
  BY <1>1
<1> QED
  BY <1>1, <1>3, <1>4, <1>5 DEF Run, r

LEMMA RunTail ==
    ASSUME NEW S, NEW q \in Seq(S), q # <<>>, NEW a, NEW b, Run(q, a, b)
    PROVE  Head(q).seqno = a /\ Run(Tail(q), End(Head(q)), b)
<1> DEFINE r == Tail(q)
<1>1. /\ Head(q) = q[1] /\ Len(q) \in Nat \ {0} /\ Len(r) = Len(q) - 1
      /\ \A k \in 1..Len(q) - 1 : r[k] = q[k + 1]
      /\ r = <<>> <=> Len(q) = 1
  BY TailFacts
<1> HIDE DEF r
<1>2. ASSUME NEW i \in 1..Len(r) - 1 PROVE End(r[i]) = r[i + 1].seqno
  <2>1. r[i] = q[i + 1] /\ r[i + 1] = q[(i + 1) + 1] /\ i + 1 \in 1..Len(q) - 1
    BY <1>1
  <2> QED
    BY <2>1 DEF Run
<1>3. r = <<>> => End(Head(q)) = b
  BY <1>1 DEF Run
<1>4. r # <<>> => r[1].seqno = End(Head(q)) /\ End(r[Len(r)]) = b
  <2> SUFFICES ASSUME r # <<>> PROVE r[1].seqno = End(Head(q)) /\ End(r[Len(r)]) = b
    OBVIOUS
  <2>1. /\ r[1] = q[1 + 1] /\ 1 \in 1..Len(q) - 1 /\ Len(r) \in 1..Len(q) - 1
        /\ r[Len(r)] = q[Len(r) + 1] /\ Len(r) + 1 = Len(q)
    BY <1>1
  <2> QED
    BY <1>1, <2>1 DEF Run
<1>5. Head(q).seqno = a
  BY <1>1 DEF Run
<1> QED
  BY <1>2, <1>3, <1>4, <1>5 DEF Run, r

\* A run does not go back; its segments of at least m bytes are no more than
\* its bytes.
LEMMA RunGrows ==
    ASSUME NEW S, NEW q \in Seq(S), NEW a \in Nat, NEW b, Run(q, a, b), NEW m \in {0, 1},
           \A i \in 1..Len(q) : q[i].seqno \in Nat /\ Size(q[i]) \in Nat /\ Size(q[i]) >= m
    PROVE  /\ b \in Nat /\ a <= b /\ (m = 1 => a + Len(q) <= b)
           /\ \A i \in 1..Len(q) : a <= q[i].seqno /\ End(q[i]) \in a..b
<1> DEFINE f(n) == IF m = 0 THEN 0 ELSE n
           T == {n \in Nat : n + 1 <= Len(q) => a + f(n) <= q[n + 1].seqno}
           B == {n \in Nat : n < Len(q) => End(q[Len(q) - n]) <= End(q[Len(q)])}
<1>1. Len(q) \in Nat /\ (q = <<>> <=> Len(q) = 0)
  BY LenProperties, EmptySeq
<1>2. \A i \in 1..Len(q) : End(q[i]) \in Nat /\ End(q[i]) >= q[i].seqno + m
  BY DEF End
<1>3. 0 \in T
  <2> SUFFICES ASSUME 1 <= Len(q) PROVE a + f(0) <= q[1].seqno
    OBVIOUS
  <2>1. q[1].seqno = a
    BY <1>1 DEF Run
  <2> QED
    BY <2>1
<1>4. ASSUME NEW n \in Nat, n \in T PROVE n + 1 \in T
  <2> SUFFICES ASSUME (n + 1) + 1 <= Len(q) PROVE a + f(n + 1) <= q[(n + 1) + 1].seqno
    OBVIOUS
  <2>1. n + 1 \in 1..Len(q) - 1 /\ n + 1 \in 1..Len(q) /\ a + f(n) <= q[n + 1].seqno
    BY <1>1, <1>4
  <2>2. End(q[n + 1]) = q[(n + 1) + 1].seqno
    BY <2>1 DEF Run
  <2>3. End(q[n + 1]) >= q[n + 1].seqno + m /\ q[n + 1].seqno \in Nat /\ End(q[n + 1]) \in Nat
    BY <1>2, <2>1
  <2>4. f(n + 1) = f(n) + m /\ f(n) \in Nat /\ m \in Nat
    OBVIOUS
  <2> DEFINE x == f(n)
             y == q[n + 1].seqno
             z == End(q[n + 1])
  <2>5. x \in Nat /\ y \in Nat /\ z \in Nat /\ a + x <= y /\ z >= y + m
    BY <2>1, <2>3, <2>4
  <2> HIDE DEF f, x, y, z
  <2>6. a + (x + m) <= z
    BY <2>4, <2>5
  <2>7. f(n + 1) = x + m /\ q[(n + 1) + 1].seqno = z
    BY <2>2, <2>4 DEF x, z
  <2> QED
    BY <2>6, <2>7, Zenon
<1>5. \A n \in Nat : n \in T
  <2> HIDE DEF T
  <2> QED
    BY <1>3, <1>4, Induction
<1>6. \A i \in 1..Len(q) : a + f(i - 1) <= q[i].seqno
  <2> TAKE i \in 1..Len(q)
  <2>1. i - 1 \in Nat /\ (i - 1) + 1 = i /\ i <= Len(q)
    BY <1>1
  <2> HIDE DEF f
  <2> QED
    BY <1>5, <2>1
<1>7. 0 \in B
  <2> SUFFICES ASSUME 0 < Len(q) PROVE End(q[Len(q) - 0]) <= End(q[Len(q)])
    OBVIOUS
  <2> QED
    BY <1>1, <1>2
<1>8. ASSUME NEW n \in Nat, n \in B PROVE n + 1 \in B
  <2> SUFFICES ASSUME n + 1 < Len(q) PROVE End(q[Len(q) - (n + 1)]) <= End(q[Len(q)])
    OBVIOUS
  <2> DEFINE i == Len(q) - (n + 1)
  <2>1. /\ i \in 1..Len(q) - 1 /\ i \in 1..Len(q) /\ i + 1 \in 1..Len(q) /\ Len(q) - n = i + 1
        /\ Len(q) \in 1..Len(q)
    BY <1>1
  <2>2. End(q[Len(q) - n]) <= End(q[Len(q)])
    BY <1>8, <2>1
  <2> HIDE DEF i
  <2>3. End(q[i]) = q[i + 1].seqno
    BY <2>1 DEF Run
  <2>4. End(q[i + 1]) >= q[i + 1].seqno + m /\ q[i + 1].seqno \in Nat /\ End(q[i + 1]) \in Nat
        /\ End(q[Len(q)]) \in Nat /\ End(q[i]) \in Nat
    BY <1>2, <2>1
  <2>5. q[Len(q) - n] = q[i + 1]
    BY <2>1
  <2>6. End(q[i + 1]) <= End(q[Len(q)])
    BY <2>2, <2>5, Zenon
  <2>7. End(q[i]) <= End(q[Len(q)])
    <3> HIDE DEF End
    <3> QED
      BY <2>3, <2>4, <2>6
  <2> QED
    BY <2>7 DEF i
<1>9. \A n \in Nat : n \in B
  <2> HIDE DEF B
  <2> QED
    BY <1>7, <1>8, Induction
<1>10. \A i \in 1..Len(q) : End(q[i]) <= End(q[Len(q)])
  <2> TAKE i \in 1..Len(q)
  <2> DEFINE n == Len(q) - i
  <2>1. n \in Nat /\ Len(q) - n = i /\ n < Len(q)
    BY <1>1
  <2> HIDE DEF n
  <2>2. End(q[Len(q) - n]) <= End(q[Len(q)])
    BY <1>9, <2>1
  <2>3. q[Len(q) - n] = q[i]
    BY <2>1
  <2> QED
    BY <2>2, <2>3, Zenon
<1>11. CASE q = <<>>
  BY <1>1, <1>11 DEF Run
<1>12. CASE q # <<>>
  <2>1. /\ Len(q) \in 1..Len(q) /\ b = End(q[Len(q)])
        /\ a + f(Len(q) - 1) <= q[Len(q)].seqno
        /\ b \in Nat /\ b >= q[Len(q)].seqno + m /\ q[Len(q)].seqno \in Nat
    <3>1. Len(q) \in 1..Len(q) /\ b = End(q[Len(q)])
      BY <1>1, <1>12 DEF Run
    <3> HIDE DEF f
    <3> QED
      BY <3>1, <1>2, <1>6
  <2>2. a <= b /\ (m = 1 => a + Len(q) <= b)
    BY <2>1, <1>1
  <2>3. ASSUME NEW i \in 1..Len(q) PROVE a <= q[i].seqno /\ End(q[i]) \in a..b
    <3>1. f(i - 1) \in Nat
      BY <1>1
    <3> HIDE DEF f
    <3>2. /\ End(q[i]) \in Nat /\ End(q[i]) >= q[i].seqno + m /\ q[i].seqno \in Nat
          /\ a + f(i - 1) <= q[i].seqno /\ End(q[i]) <= End(q[Len(q)])
      BY <1>2, <1>6, <1>10
    <3>3. b = End(q[Len(q)]) /\ b \in Nat /\ m \in Nat
      BY <2>1
    <3> HIDE DEF End
    <3> QED
      BY <3>1, <3>2, <3>3
  <2> QED
    BY <2>1, <2>2, <2>3
<1> QED
  BY <1>11, <1>12

----------------------------------------------------------------------------
\* Runs with FINs

LEMMA LandedIs ==
    ASSUME NEW q \in Seq(Segment), NEW b \in Nat
    PROVE  /\ Landed(q, b) \in Seq(Segment) /\ Len(Landed(q, b)) = Len(q) /\ Len(q) \in Nat
           /\ \A i \in 1..Len(q) : Landed(q, b)[i] = Landing(q[i], b)
<1>1. Len(q) \in Nat /\ \A i \in 1..Len(q) : q[i] \in Segment
  BY LenProperties, ElementOfSeq
<1>2. ASSUME NEW s \in Segment PROVE Landing(s, b) \in Segment
  BY DEF Landing, Segment
<1>3. Landed(q, b) \in [1..Len(q) -> Segment]
  BY <1>1, <1>2 DEF Landed
<1>4. Landed(q, b) \in Seq(Segment)
  BY <1>1, <1>3, IsASeq
<1>5. Len(Landed(q, b)) = Len(q)
  BY <1>1, <1>3, <1>4, LenProperties
<1> QED
  BY <1>1, <1>4, <1>5 DEF Landed

LEMMA LandingIs ==
    ASSUME NEW s \in Segment, NEW b \in Nat
    PROVE  /\ Landing(s, b) \in Segment /\ Size(Landing(s, b)) = Size(s)
           /\ ~s.fin => Landing(s, b) = s
           /\ s.fin => Landing(s, b).seqno = b
           /\ s.fin /\ Size(s) = 0 => End(Landing(s, b)) = b
<1>1. Landing(s, b) \in Segment /\ Landing(s, b).data = s.data
  BY DEF Landing, Segment
<1>2. s.fin => Landing(s, b).seqno = b
  BY DEF Landing, Segment
<1> QED
  BY <1>1, <1>2 DEF Landing, Size, End

LEMMA LeadEmpty == ASSUME NEW n \in Nat PROVE Lead(<<>>, n, n)
<1>1. Landed(<<>>, n) = <<>>
  <2>1. <<>> \in Seq(Segment) /\ Len(<<>>) = 0
    BY EmptySeq
  <2>2. Landed(<<>>, n) \in Seq(Segment) /\ Len(Landed(<<>>, n)) = 0
    BY <2>1, LandedIs
  <2> QED
    BY <2>2, EmptySeq
<1> QED
  BY <1>1, RunEmpty DEF Lead

LEMMA LandedAppend ==
    ASSUME NEW q \in Seq(Segment), NEW s \in Segment, NEW b \in Nat
    PROVE  Landed(Append(q, s), b) = Append(Landed(q, b), Landing(s, b))
<1> DEFINE r == Append(q, s)
           t == Append(Landed(q, b), Landing(s, b))
<1>1. /\ r \in Seq(Segment) /\ Len(r) = Len(q) + 1 /\ Len(q) \in Nat
      /\ \A i \in 1..Len(q) : r[i] = q[i]
      /\ r[Len(q) + 1] = s
  BY AppendProperties, LenProperties
<1>2. /\ Landed(q, b) \in Seq(Segment) /\ Len(Landed(q, b)) = Len(q)
      /\ \A i \in 1..Len(q) : Landed(q, b)[i] = Landing(q[i], b)
  BY LandedIs
<1>3. Landing(s, b) \in Segment
  BY LandingIs
<1>4. /\ t \in Seq(Segment) /\ Len(t) = Len(q) + 1
      /\ \A i \in 1..Len(q) : t[i] = Landing(q[i], b)
      /\ t[Len(q) + 1] = Landing(s, b)
  BY <1>2, <1>3, AppendProperties
<1>5. Landed(r, b) \in Seq(Segment) /\ Len(Landed(r, b)) = Len(r)
      /\ \A i \in 1..Len(r) : Landed(r, b)[i] = Landing(r[i], b)
  BY <1>1, LandedIs
<1> HIDE DEF r, t
<1>6. \A i \in 1..Len(t) : Landed(r, b)[i] = t[i]
  BY <1>1, <1>4, <1>5
<1>7. Landed(r, b) = t
  BY <1>1, <1>4, <1>5, <1>6, SeqEqual
<1> QED
  BY <1>7 DEF r, t

\* One more data segment, with no FIN before it.
LEMMA LeadAppend ==
    ASSUME NEW q \in Seq(Segment), NEW s \in Segment, NEW a, NEW b \in Nat, Lead(q, a, b),
           \A i \in 1..Len(q) : ~q[i].fin, ~s.fin, s.seqno = b
    PROVE  Lead(Append(q, s), a, End(s))
<1>1. End(s) \in Nat
  BY SegmentFacts
<1>2. ASSUME NEW c \in Nat PROVE Landed(q, c) = q
  <2>1. /\ Landed(q, c) \in Seq(Segment) /\ Len(Landed(q, c)) = Len(q)
        /\ \A i \in 1..Len(q) : Landed(q, c)[i] = Landing(q[i], c)
    BY LandedIs
  <2>2. \A i \in 1..Len(q) : Landed(q, c)[i] = q[i]
    BY <2>1 DEF Landing
  <2> QED
    BY <2>1, <2>2, SeqEqual
<1>3. Landed(Append(q, s), End(s)) = Append(q, s)
  <2>1. Landing(s, End(s)) = s
    BY DEF Landing
  <2>2. Landed(q, End(s)) = q
    BY <1>1, <1>2
  <2> QED
    BY <1>1, <2>1, <2>2, LandedAppend
<1>4. Run(q, a, b)
  BY <1>2 DEF Lead
<1>5. Run(Append(q, s), a, End(s))
  BY <1>4, RunAppend
<1> QED
  BY <1>3, <1>5 DEF Lead

\* One more FIN.
LEMMA LeadFin ==
    ASSUME NEW q \in Seq(Segment), NEW s \in Segment, NEW a, NEW b \in Nat, Lead(q, a, b),
           s.fin, Size(s) = 0
    PROVE  Lead(Append(q, s), a, b)
<1>1. /\ Landing(s, b) \in Segment /\ Landing(s, b).seqno = b /\ End(Landing(s, b)) = b
  BY LandingIs
<1>2. Landed(q, b) \in Seq(Segment) /\ Run(Landed(q, b), a, b)
  BY LandedIs DEF Lead
<1>3. Run(Append(Landed(q, b), Landing(s, b)), a, End(Landing(s, b)))
  BY <1>1, <1>2, RunAppend
<1> QED
  BY <1>1, <1>3, LandedAppend DEF Lead

\* The first segment is taken off.
LEMMA LeadTail ==
    ASSUME NEW q \in Seq(Segment), q # <<>>, NEW a, NEW b \in Nat, Lead(q, a, b),
           Head(q).fin => Size(Head(q)) = 0
    PROVE  /\ ~Head(q).fin => Head(q).seqno = a /\ Lead(Tail(q), End(Head(q)), b)
           /\ Head(q).fin => a = b /\ Lead(Tail(q), a, b)
<1> DEFINE d == Landed(q, b)
<1>1. /\ Head(q) \in Segment /\ Head(q) = q[1] /\ Tail(q) \in Seq(Segment)
      /\ Len(q) \in Nat \ {0} /\ Len(Tail(q)) = Len(q) - 1
      /\ \A k \in 1..Len(q) - 1 : Tail(q)[k] = q[k + 1]
  BY TailFacts
<1>2. /\ d \in Seq(Segment) /\ Len(d) = Len(q)
      /\ \A i \in 1..Len(q) : d[i] = Landing(q[i], b)
  BY LandedIs
<1> HIDE DEF d
<1>3. d # <<>>
  BY <1>1, <1>2, EmptySeq
<1>4. /\ Head(d) = d[1] /\ Tail(d) \in Seq(Segment) /\ Len(Tail(d)) = Len(d) - 1
      /\ \A k \in 1..Len(d) - 1 : Tail(d)[k] = d[k + 1]
  BY <1>2, <1>3, TailFacts
<1>5. Tail(d) = Landed(Tail(q), b)
  <2>1. /\ Landed(Tail(q), b) \in Seq(Segment) /\ Len(Landed(Tail(q), b)) = Len(Tail(q))
        /\ \A i \in 1..Len(Tail(q)) : Landed(Tail(q), b)[i] = Landing(Tail(q)[i], b)
    BY <1>1, LandedIs
  <2>2. ASSUME NEW i \in 1..Len(Tail(d)) PROVE Tail(d)[i] = Landed(Tail(q), b)[i]
    <3>1. i \in 1..Len(q) - 1 /\ i + 1 \in 1..Len(q)
      BY <1>1, <1>2, <1>4
    <3> QED
      BY <1>1, <1>2, <1>4, <2>1, <3>1
  <2>3. Len(Tail(d)) = Len(Landed(Tail(q), b))
    BY <1>1, <1>2, <1>4, <2>1
  <2> QED
    BY <1>4, <2>1, <2>2, <2>3, SeqEqual
<1>6. Head(d) = Landing(Head(q), b)
  BY <1>1, <1>2, <1>4
<1>7. Head(d).seqno = a /\ Run(Tail(d), End(Head(d)), b)
  <2>1. Run(d, a, b)
    BY DEF Lead, d
  <2> QED
    BY <1>2, <1>3, <2>1, RunTail
<1>8. CASE ~Head(q).fin
  <2>1. Head(d) = Head(q)
    BY <1>6, <1>8 DEF Landing
  <2>2. Head(q).seqno = a /\ Run(Landed(Tail(q), b), End(Head(q)), b)
    BY <1>5, <1>7, <2>1
  <2> QED
    BY <1>8, <2>2 DEF Lead
<1>9. CASE Head(q).fin
  <2>1. Head(d).seqno = b /\ End(Head(d)) = b
    BY <1>1, <1>6, <1>9, LandingIs
  <2>2. a = b /\ Run(Landed(Tail(q), b), a, b)
    BY <1>5, <1>7, <2>1
  <2> QED
    BY <1>9, <2>2 DEF Lead
<1> QED
  BY <1>8, <1>9

LEMMA LeadGrows ==
    ASSUME NEW q \in Seq(Segment), NEW a \in Nat, NEW b \in Nat, Lead(q, a, b)
    PROVE  a <= b
<1> DEFINE d == Landed(q, b)
<1>1. d \in Seq(Segment) /\ Run(d, a, b)
  BY LandedIs DEF Lead
<1> HIDE DEF d
<1>2. 0 \in {0, 1} /\ \A i \in 1..Len(d) : d[i].seqno \in Nat /\ Size(d[i]) \in Nat /\ Size(d[i]) >= 0
  <2>1. \A i \in 1..Len(d) : d[i] \in Segment
    BY <1>1, ElementOfSeq
  <2>2. \A x \in Segment : x.seqno \in Nat /\ Size(x) \in Nat
    BY SegmentFacts
  <2> QED
    BY <2>1, <2>2
<1> QED
  BY <1>1, <1>2, RunGrows

----------------------------------------------------------------------------
\* What the server wrote

\* The first n bytes typed.
Typed(n) == [k \in 1..n |-> k]

LEMMA TypedFacts ==
    ASSUME NEW n \in Nat PROVE Typed(n) \in Seq(Nat) /\ Len(Typed(n)) = n
  BY DEF Typed

LEMMA TypedConcat ==
    ASSUME NEW m \in Nat, NEW n \in Nat
    PROVE  Typed(m) \o [k \in 1..n |-> m + k] = Typed(m + n)
<1> DEFINE s == Typed(m)
           t == [k \in 1..n |-> m + k]
           r == Typed(m + n)
<1>1. /\ s \in Seq(Nat) /\ Len(s) = m /\ \A k \in 1..m : s[k] = k
      /\ t \in Seq(Nat) /\ Len(t) = n /\ \A k \in 1..n : t[k] = m + k
      /\ r \in Seq(Nat) /\ Len(r) = m + n /\ \A k \in 1..m + n : r[k] = k
  BY TypedFacts DEF Typed
<1> HIDE DEF s, t, r
<1>2. /\ s \o t \in Seq(Nat) /\ Len(s \o t) = Len(s) + Len(t)
      /\ \A i \in 1..Len(s) + Len(t) : (s \o t)[i] = IF i <= Len(s) THEN s[i] ELSE t[i - Len(s)]
  <2>1. s \in Seq(Nat) /\ t \in Seq(Nat)
    BY <1>1
  <2> QED
    BY <2>1, ConcatProperties
<1>3. ASSUME NEW i \in 1..Len(s \o t) PROVE (s \o t)[i] = r[i]
  <2>1. CASE i <= m
    BY <1>1, <1>2, <2>1
  <2>2. CASE i > m
    <3>1. i - m \in 1..n /\ m + (i - m) = i
      BY <1>1, <1>2, <2>2
    <3> QED
      BY <1>1, <1>2, <2>2, <3>1
  <2> QED
    BY <1>1, <1>2, <2>1, <2>2
<1>4. s \o t = r
  BY <1>1, <1>2, <1>3, SeqEqual
<1> QED
  BY <1>4 DEF s, t, r

\* Pieces that follow one another, each holding the bytes of its number, are
\* the first bytes typed.
LEMMA FlattenTyped ==
    ASSUME NEW S, NEW o \in Seq(S), NEW b, Run(o, 1, b), NEW n, AllCopies(o, n),
           \A i \in 1..Len(o) : o[i].seqno \in Nat /\ Size(o[i]) \in Nat
    PROVE  b \in Nat \ {0} /\ FlattenSeq([i \in 1..Len(o) |-> o[i].data]) = Typed(b - 1)
<1> DEFINE d == [i \in 1..Len(o) |-> o[i].data]
           N == Len(o)
           f == [i \in 1..N |-> Typed(End(o[i]) - 1)]
           Body(g) == [i \in 1..N |-> IF i = 1 THEN d[i] ELSE g[i - 1] \o d[i]]
<1>1. N \in Nat /\ (o = <<>> <=> N = 0) /\ DOMAIN d = 1..N
  BY LenProperties, EmptySeq
<1>2. Len(d) = N /\ \A i \in 1..N : d[i] = o[i].data
  BY <1>1
<1>3. /\ b \in Nat /\ 1 <= b
      /\ \A i \in 1..N : 1 <= o[i].seqno /\ End(o[i]) \in 1..b
  <2>1. 0 \in {0, 1} /\ 1 \in Nat /\ \A i \in 1..Len(o) : Size(o[i]) >= 0
    OBVIOUS
  <2> QED
    BY <2>1, RunGrows
<1>4. ASSUME NEW i \in 1..N
      PROVE  /\ d[i] = [k \in 1..Size(o[i]) |-> (o[i].seqno - 1) + k]
             /\ End(o[i]) - 1 = (o[i].seqno - 1) + Size(o[i])
             /\ o[i].seqno - 1 \in Nat
  BY <1>2, <1>3 DEF AllCopies, Copies, Size, End
<1> HIDE DEF d
<1>5. ASSUME NEW i \in 1..N
      PROVE  f[i] = IF i = 1 THEN d[i] ELSE f[i - 1] \o d[i]
  <2> DEFINE m == o[i].seqno - 1
             z == Size(o[i])
  <2>1. /\ m \in Nat /\ z \in Nat /\ d[i] = [k \in 1..z |-> m + k] /\ f[i] = Typed(m + z)
    BY <1>4
  <2>2. CASE i = 1
    <3>1. m = 0
      BY <1>1, <2>2 DEF Run
    <3>2. Typed(0 + z) = [k \in 1..z |-> 0 + k]
      BY <2>1 DEF Typed
    <3> HIDE DEF m, z, f
    <3> QED
      BY <2>1, <2>2, <3>1, <3>2
  <2>3. CASE i # 1
    <3>1. i - 1 \in 1..N /\ i - 1 \in 1..Len(o) - 1 /\ (i - 1) + 1 = i
      BY <1>1, <2>3
    <3>2. End(o[i - 1]) = o[i].seqno
      BY <3>1 DEF Run
    <3>3. f[i - 1] = Typed(m)
      BY <3>1, <3>2
    <3> HIDE DEF m, z, f
    <3> QED
      BY <2>1, <2>3, <3>3, TypedConcat
  <2> QED
    BY <2>2, <2>3
<1>6. CASE N = 0
  <2>1. b = 1 /\ d = <<>>
    BY <1>1, <1>2, <1>6 DEF Run, d
  <2>2. FlattenSeq(d) = <<>>
    BY <2>1, <1>2, <1>6 DEF FlattenSeq
  <2>3. Typed(1 - 1) = <<>>
    BY DEF Typed
  <2> QED
    BY <2>1, <2>2, <2>3 DEF d
<1>7. CASE N # 0
  <2> DEFINE t == CHOOSE g : g = Body(g)
  <2>1. FlattenSeq(d) = t[N]
    BY <1>2, <1>7 DEF FlattenSeq
  <2>2. f = Body(f)
    BY <1>5
  <2> HIDE DEF f
  <2>3. t = Body(t)
    <3> HIDE DEF Body
    <3> QED
      BY <2>2
  <2> HIDE DEF t
  <2>4. \A i \in 1..N : t[i] = IF i = 1 THEN d[i] ELSE t[i - 1] \o d[i]
    BY <2>3
  <2> DEFINE E == {k \in Nat : k + 1 <= N => t[k + 1] = f[k + 1]}
  <2>5. 0 \in E
    <3> SUFFICES ASSUME 1 <= N PROVE t[1] = f[1]
      OBVIOUS
    <3>1. 1 \in 1..N
      BY <1>1
    <3> QED
      BY <3>1, <1>5, <2>4
  <2>6. ASSUME NEW k \in Nat, k \in E PROVE k + 1 \in E
    <3> SUFFICES ASSUME (k + 1) + 1 <= N PROVE t[(k + 1) + 1] = f[(k + 1) + 1]
      OBVIOUS
    <3> DEFINE i == (k + 1) + 1
    <3>1. i \in 1..N /\ i # 1 /\ i - 1 = k + 1 /\ t[k + 1] = f[k + 1]
      BY <1>1, <2>6
    <3> HIDE DEF i
    <3>2. t[i] = t[i - 1] \o d[i] /\ f[i] = f[i - 1] \o d[i]
      BY <1>5, <2>4, <3>1
    <3>3. t[i] = f[i]
      BY <3>1, <3>2
    <3> QED
      BY <3>3 DEF i
  <2>7. \A k \in Nat : k \in E
    <3> HIDE DEF E
    <3> QED
      BY <2>5, <2>6, Induction
  <2>8. N - 1 \in Nat /\ (N - 1) + 1 = N /\ N \in 1..N
    BY <1>1, <1>7
  <2>9. t[N] = f[N]
    <3> DEFINE k == N - 1
    <3>1. k \in Nat /\ k + 1 = N
      BY <2>8
    <3> HIDE DEF k
    <3>2. t[k + 1] = f[k + 1]
      BY <2>7, <3>1, <1>1
    <3> QED
      BY <3>1, <3>2
  <2>10. f[N] = Typed(b - 1)
    <3>1. End(o[N]) = b
      BY <1>1, <1>7 DEF Run
    <3> QED
      BY <2>8, <3>1 DEF f
  <2> QED
    BY <1>3, <2>1, <2>9, <2>10 DEF d
<1> QED
  BY <1>6, <1>7

----------------------------------------------------------------------------
\* The lists of the client

LEMMA FillFlow ==
    ASSUME NEW u \in Seq(Queued), NEW p \in Seq(Segment), p # <<>>, NEW n,
           NEW q \in Queued, q.seg = Head(p), ~q.sent, NEW k \in 0..Len(u), SentUpTo(u, k)
    PROVE  /\ k \in 0..Len(Append(u, q)) /\ SentUpTo(Append(u, q), k)
           /\ Unreached(Append(u, q), Tail(p), n, k) = Unreached(u, p, n, k)
<1> DEFINE v == Append(u, q)
<1>1. /\ Len(v) = Len(u) + 1 /\ Len(u) \in Nat
      /\ \A i \in 1..Len(u) : v[i] = u[i]
      /\ v[Len(u) + 1] = q
  BY AppendProperties, LenProperties
<1>2. q.seg = p[1]
  BY TailFacts
<1> HIDE DEF v
<1>3. SentUpTo(v, k)
  BY <1>1 DEF SentUpTo
<1>4. Unreached(v, Tail(p), n, k) = Unreached(u, p, n, k)
  <2>1. CASE k < Len(u)
    <3>1. k + 1 \in 1..Len(u) /\ k < Len(v)
      BY <1>1, <2>1
    <3> QED
      BY <1>1, <2>1, <3>1 DEF Unreached
  <2>2. CASE k = Len(u)
    <3>1. k < Len(v) /\ ~(k < Len(u)) /\ v[k + 1] = q
      BY <1>1, <2>2
    <3> QED
      BY <1>2, <3>1 DEF Unreached
  <2> QED
    BY <1>1, <2>1, <2>2
<1> QED
  BY <1>1, <1>3, <1>4 DEF v

LEMMA ReadFlow ==
    ASSUME NEW u, NEW p \in Seq(Segment), NEW s \in Segment, NEW n, NEW k
    PROVE  Unreached(u, Append(p, s), n, k) = Unreached(u, p, s.seqno, k)
<1>1. /\ Append(p, s) # <<>> /\ Len(p) \in Nat
      /\ \A i \in 1..Len(p) : Append(p, s)[i] = p[i]
      /\ Append(p, s)[Len(p) + 1] = s
  BY AppendProperties, LenProperties
<1>2. p = <<>> <=> Len(p) = 0
  BY EmptySeq
<1>3. Append(p, s)[1] = IF p # <<>> THEN p[1] ELSE s
  BY <1>1, <1>2
<1> QED
  BY <1>1, <1>3 DEF Unreached

LEMMA MarkSent ==
    ASSUME NEW u \in Seq(Queued), NEW i \in 1..Len(u)
    PROVE  LET v == [u EXCEPT ![i].sent = TRUE] IN
           /\ v \in Seq(Queued) /\ Len(v) = Len(u)
           /\ \A j \in 1..Len(u) : v[j].seg = u[j].seg /\ (v[j].sent <=> j = i \/ u[j].sent)
<1> DEFINE q == [u[i] EXCEPT !.sent = TRUE]
           v == [u EXCEPT ![i] = q]
<1>1. u[i] \in Queued
  BY ElementOfSeq
<1>2. q \in Queued /\ q.seg = u[i].seg /\ q.sent
  BY <1>1, Unqueued DEF Queued
<1> HIDE DEF q
<1>3. /\ v \in Seq(Queued) /\ Len(v) = Len(u)
      /\ \A j \in 1..Len(u) : v[j].seg = u[j].seg
  BY <1>2, Changed
<1>4. \A j \in 1..Len(u) : v[j].sent <=> j = i \/ u[j].sent
  BY <1>2
<1> QED
  BY <1>3, <1>4 DEF q

\* The next segment not yet sent is the first of them.
LEMMA SendFlow ==
    ASSUME NEW u \in Seq(Queued), NEW p \in Seq(Segment), NEW n, Chained(u, p, n),
           NEW k \in 0..Len(u), SentUpTo(u, k), NEW i \in 1..Len(u), ~u[i].sent,
           \A j \in 1..Len(u) : ~u[j].sent => i <= j,
           NEW v \in Seq(Queued), Len(v) = Len(u),
           \A j \in 1..Len(u) : v[j].seg = u[j].seg /\ (v[j].sent <=> j = i \/ u[j].sent)
    PROVE  /\ i = k + 1 /\ k + 1 \in 0..Len(u) /\ SentUpTo(v, k + 1)
           /\ Unreached(u, p, n, k) = u[i].seg.seqno
           /\ Unreached(v, p, n, k + 1) = End(u[i].seg)
<1>1. Len(u) \in Nat /\ i > k
  BY LenProperties DEF SentUpTo
<1>2. k + 1 \in 1..Len(u) /\ k + 1 <= i
  BY <1>1
<1>3. ~u[k + 1].sent
  BY <1>1, <1>2 DEF SentUpTo
<1>4. i = k + 1
  BY <1>1, <1>2, <1>3
<1>5. SentUpTo(v, k + 1)
  BY <1>1, <1>4 DEF SentUpTo
<1>6. Unreached(u, p, n, k) = u[i].seg.seqno
  BY <1>1, <1>2, <1>4 DEF Unreached
<1>7. Unreached(v, p, n, k + 1) = End(u[i].seg)
  <2>1. CASE i < Len(u)
    <3>1. i \in 1..Len(u) - 1 /\ i + 1 \in 1..Len(u) /\ k + 1 < Len(v)
      BY <1>1, <1>4, <2>1
    <3>2. End(u[i].seg) = u[i + 1].seg.seqno
      BY <3>1 DEF Chained
    <3> QED
      BY <1>4, <3>1, <3>2 DEF Unreached
  <2>2. CASE i = Len(u)
    <3>1. u # <<>> /\ ~(k + 1 < Len(v))
      BY <1>1, <1>4, <2>2, EmptySeq
    <3>2. End(u[i].seg) = IF p = <<>> THEN n ELSE p[1].seqno
      BY <2>2, <3>1 DEF Chained
    <3> QED
      BY <3>1, <3>2 DEF Unreached
  <2> QED
    BY <1>1, <2>1, <2>2
<1> QED
  BY <1>2, <1>4, <1>5, <1>6, <1>7

LEMMA AckFlow ==
    ASSUME NEW u \in Seq(Queued), u # <<>>, NEW p, NEW n, NEW k \in 1..Len(u), SentUpTo(u, k)
    PROVE  /\ k - 1 \in 0..Len(Tail(u)) /\ SentUpTo(Tail(u), k - 1)
           /\ Unreached(Tail(u), p, n, k - 1) = Unreached(u, p, n, k)
<1> DEFINE v == Tail(u)
<1>1. /\ v \in Seq(Queued) /\ Len(u) \in Nat \ {0} /\ Len(v) = Len(u) - 1
      /\ \A i \in 1..Len(u) - 1 : v[i] = u[i + 1]
  BY TailFacts
<1> HIDE DEF v
<1>2. SentUpTo(v, k - 1)
  <2> SUFFICES ASSUME NEW i \in 1..Len(v) PROVE v[i].sent <=> i <= k - 1
    BY DEF SentUpTo
  <2>1. i \in 1..Len(u) - 1 /\ i + 1 \in 1..Len(u) /\ v[i] = u[i + 1]
    BY <1>1
  <2>2. u[i + 1].sent <=> i + 1 <= k
    BY <2>1 DEF SentUpTo
  <2> QED
    BY <1>1, <2>1, <2>2
<1>3. Unreached(v, p, n, k - 1) = Unreached(u, p, n, k)
  <2>1. CASE k < Len(u)
    <3>1. k - 1 < Len(v) /\ k \in 1..Len(u) - 1 /\ (k - 1) + 1 = k /\ v[k] = u[k + 1]
      BY <1>1, <2>1
    <3> QED
      BY <2>1, <3>1 DEF Unreached
  <2>2. CASE k = Len(u)
    <3>1. ~(k - 1 < Len(v)) /\ ~(k < Len(u))
      BY <1>1, <2>2
    <3> QED
      BY <3>1 DEF Unreached
  <2> QED
    BY <1>1, <2>1, <2>2
<1> QED
  BY <1>1, <1>2, <1>3 DEF v

----------------------------------------------------------------------------
\* The steps of the client

LEMMA TwoEnds ==
    /\ "client" \in Ends /\ "server" \in Ends /\ Ends = {"client", "server"}
    /\ Peer("client") = "server" /\ Peer("server") = "client"
  BY DEF Ends, Peer

\* Typing of what the proofs speak of.
LEMMA Typing ==
    ASSUME CtcpInv
    PROVE  /\ unacknowledged["client"] \in Seq(Queued) /\ pending["client"] \in Seq(Segment)
           /\ wire["client"] \in Seq(Segment) /\ wire["server"] \in Seq(Segment)
           /\ in["client"] \in Segment /\ in["server"] \in Segment
           /\ expected["server"] \in Nat /\ received["server"] \in Nat
           /\ sequence_number["client"] \in Nat /\ inflight["client"] \in Nat
           /\ typed["client"] \in Nat /\ Input["client"] \in Nat /\ fins["client"] \in Nat
           /\ output["server"] \in Seq([seqno : Nat, data : Bytes])
           /\ backlog["server"] \in Nat /\ pc["client"] \in {"idle", "read", "fill", "send", "acks"}
           /\ Chained(unacknowledged["client"], pending["client"], sequence_number["client"])
  BY TwoEnds, CtcpAssumption DEF CtcpInv, TypeInv, TypeOK, StreamInv

\* The server, and what the client keeps of it.
serverVars ==
    <<connection_state["server"], received["server"], expected["server"], backlog["server"],
      wrote_eof["server"], output["server"], in["server"], pc["server"],
      unacknowledged["server"]>>

LEMMA UnreachedNat ==
    ASSUME CtcpInv, NEW k \in Nat
    PROVE  Unreached(unacknowledged["client"], pending["client"], sequence_number["client"], k) \in Nat
<1> DEFINE u == unacknowledged["client"]
           p == pending["client"]
<1>1. u \in Seq(Queued) /\ p \in Seq(Segment) /\ sequence_number["client"] \in Nat
  BY Typing
<1>2. ASSUME k < Len(u) PROVE u[k + 1].seg.seqno \in Nat
  <2>1. k + 1 \in 1..Len(u)
    BY <1>1, <1>2, LenProperties
  <2> QED
    BY <1>1, <2>1, ElementOfSeq, Unqueued, SegmentFacts
<1>3. ASSUME p # <<>> PROVE p[1].seqno \in Nat
  BY <1>1, <1>3, TailFacts, SegmentFacts
<1> QED
  BY <1>1, <1>2, <1>3 DEF Unreached

\* The client's steps before any FIN, and those that leave what matters here.
LEMMA EofFrame ==
    ASSUME AfterEof, UNCHANGED <<connection_state["server"], wire["server"], fins["client"]>>,
           fins["client"] > 0 =>
              pending'["client"] = pending["client"] /\ pc'["client"] \in {"idle", "acks"}
    PROVE  AfterEof'
  BY DEF AfterEof

LEMMA ClientFrame ==
    ASSUME PerfectInv, UNCHANGED serverVars, status'["client"] = "up",
           UNCHANGED <<connection_state["client"], backlog["client"], resent["client"]>>,
           typed'["client"] <= Input["client"],
           fins'["client"] > 0 => typed'["client"] = Input["client"]
    PROVE  OneWay' /\ Arrivals' /\ Awaited' = Awaited
  BY DEF PerfectInv, OneWay, Arrivals, serverVars, Awaited

LEMMA AcksFrame ==
    ASSUME AcksOnlyInv, UNCHANGED <<wire["client"], in["client"], expected["server"]>>
    PROVE  AcksOnlyInv'
  BY DEF AcksOnlyInv, IsAck

LEMMA DataFrame ==
    ASSUME DataOnly, UNCHANGED <<wire["server"], in["server"], fins["client"]>>,
           \A i \in 1..Len(unacknowledged'["client"]) :
              Size(unacknowledged'["client"][i].seg) \in Chunks /\ ~unacknowledged'["client"][i].seg.fin,
           \A i \in 1..Len(pending'["client"]) :
              Size(pending'["client"][i]) \in Chunks /\ ~pending'["client"][i].fin
    PROVE  DataOnly'
  BY DEF DataOnly, IsData

LEMMA QueuesSame ==
    ASSUME DataOnly, UNCHANGED <<unacknowledged["client"], pending["client"], in["server"]>>,
           \A i \in 1..Len(wire'["server"]) : IsData(wire'["server"][i], fins'["client"])
    PROVE  DataOnly'
  BY DEF DataOnly

LEMMA PerfectFill ==
    ASSUME CtcpInv, PerfectInv, Fill("client") PROVE PerfectInv'
<1> DEFINE u == unacknowledged["client"]
           p == pending["client"]
           q == [seg |-> Head(p), sent |-> FALSE, tries |-> 0]
           v == Append(u, q)
<1>0. OneWay /\ AcksOnlyInv /\ DataOnly /\ Arrivals /\ AfterEof /\ TypeOK
  BY DEF PerfectInv, CtcpInv, TypeInv
<1>1. /\ p # <<>> /\ pc["client"] = "fill" /\ sliding_window["client"] < send_window["client"]
      /\ unacknowledged' = [unacknowledged EXCEPT !["client"] = v]
      /\ pending' = [pending EXCEPT !["client"] = Tail(p)]
      /\ UNCHANGED <<status, sequence_number, inflight, resent, connection_state, received,
                     expected, backlog, wrote_eof, output, in, pc, typed, fins, wire>>
  BY DEF Fill, Move, Up, Fits, recvVars, runVars
<1>2. PICK k \in 0..Len(u) : Flow(k)
  BY DEF PerfectInv, Sent
<1>3. /\ u \in Seq(Queued) /\ p \in Seq(Segment) /\ Head(p) \in Segment /\ Head(p) = p[1]
      /\ Len(p) \in Nat \ {0} /\ Len(Tail(p)) = Len(p) - 1
      /\ \A i \in 1..Len(p) - 1 : Tail(p)[i] = p[i + 1]
  BY <1>1, Typing, TailFacts
<1>4. q \in Queued /\ q.seg = Head(p) /\ ~q.sent
  BY <1>3, NewlyQueued
<1>5. SentUpTo(u, k)
      /\ Lead(wire["server"], Awaited, Unreached(u, p, sequence_number["client"], k))
  BY <1>1, <1>2 DEF Flow
<1> HIDE DEF q
<1>6. /\ k \in 0..Len(v) /\ SentUpTo(v, k)
      /\ Unreached(v, Tail(p), sequence_number["client"], k)
            = Unreached(u, p, sequence_number["client"], k)
  <2> DEFINE n == sequence_number["client"]
  <2> HIDE DEF u, p, v, n
  <2>1. /\ k \in 0..Len(Append(u, q)) /\ SentUpTo(Append(u, q), k)
        /\ Unreached(Append(u, q), Tail(p), n, k) = Unreached(u, p, n, k)
    BY <1>1, <1>2, <1>3, <1>4, <1>5, FillFlow
  <2> QED
    BY <2>1 DEF v, n
<1>7. Size(q.seg) \in Chunks /\ ~q.seg.fin
  <2>1. 1 \in 1..Len(p)
    BY <1>3
  <2> QED
    BY <2>1, <1>0, <1>3, <1>4 DEF DataOnly
<1>9. /\ Len(v) = Len(u) + 1 /\ Len(u) \in Nat
      /\ \A i \in 1..Len(u) : v[i] = u[i]
      /\ v[Len(u) + 1] = q
  BY <1>3, <1>4, AppendProperties, LenProperties
<1> HIDE DEF v
<1>10. /\ unacknowledged'["client"] = v /\ pending'["client"] = Tail(p)
       /\ unacknowledged'["server"] = unacknowledged["server"]
  BY <1>0, <1>1, TwoEnds DEF TypeOK
<1>11. OneWay' /\ Arrivals' /\ Awaited' = Awaited
  BY <1>0, <1>1, <1>10, ClientFrame DEF serverVars, OneWay
<1>12. AcksOnlyInv'
  BY <1>0, <1>1, AcksFrame
<1>13. DataOnly'
  <2>1. \A i \in 1..Len(v) : Size(v[i].seg) \in Chunks /\ ~v[i].seg.fin
    <3>1. \A i \in 1..Len(u) : Size(u[i].seg) \in Chunks /\ ~u[i].seg.fin
      BY <1>0 DEF DataOnly
    <3> HIDE DEF u
    <3> QED
      BY <1>7, <1>9, <3>1
  <2>2. \A i \in 1..Len(Tail(p)) : Size(Tail(p)[i]) \in Chunks /\ ~Tail(p)[i].fin
    BY <1>0, <1>3 DEF DataOnly
  <2> QED
    BY <1>0, <1>1, <1>10, <2>1, <2>2, DataFrame
<1>14. Flow(k)'
  BY <1>1, <1>5, <1>6, <1>10, <1>11 DEF Flow
<1>15. Sent'
  BY <1>6, <1>10, <1>14 DEF Sent
<1>16. AfterEof'
  BY <1>0, <1>1, EofFrame DEF AfterEof
<1> QED
  BY <1>11, <1>12, <1>13, <1>15, <1>16 DEF PerfectInv

\* The handler ends, or goes on to its next step.
LEMMA PerfectTurn ==
    ASSUME CtcpInv, PerfectInv, NEW step,
           pc' = [pc EXCEPT !["client"] = step],
           in' = in \/ in' = [in EXCEPT !["client"] = NoSegment],
           UNCHANGED <<status, sendVars, connection_state, received["server"], expected["server"],
                       backlog, wrote_eof, output, typed, fins, wire>>,
           fins["client"] > 0 => step \in {"idle", "acks"}
    PROVE  PerfectInv'
<1>0. OneWay /\ AcksOnlyInv /\ DataOnly /\ Arrivals /\ AfterEof /\ TypeOK
  BY DEF PerfectInv, CtcpInv, TypeInv
<1>1. /\ pc'["client"] = step /\ pc'["server"] = pc["server"] /\ in'["server"] = in["server"]
      /\ in'["client"] \in {in["client"], NoSegment}
  BY <1>0, TwoEnds DEF TypeOK
<1>2. OneWay' /\ Arrivals' /\ Awaited' = Awaited
  BY <1>0, <1>1, ClientFrame DEF serverVars, OneWay, sendVars
<1>3. AcksOnlyInv'
  <2>1. Size(NoSegment) = 0 /\ NoSegment.ackno = 0 /\ expected["server"] \in Nat
    BY EmptyData, Typing DEF NoSegment, Size
  <2> QED
    BY <1>0, <1>1, <2>1 DEF AcksOnlyInv, IsAck
<1>4. DataOnly'
  BY <1>0, <1>1 DEF DataOnly, IsData, sendVars
<1>5. Sent'
  <2>1. PICK k \in 0..Len(unacknowledged["client"]) : Flow(k)
    BY DEF PerfectInv, Sent
  <2>2. UNCHANGED <<unacknowledged, pending, sequence_number, inflight, wire>>
    BY DEF sendVars
  <2>3. Flow(k)'
    BY <1>1, <1>2, <2>1, <2>2 DEF Flow
  <2> QED
    BY <2>2, <2>3 DEF Sent
<1>6. AfterEof'
  BY <1>0, <1>1, EofFrame DEF sendVars
<1> QED
  BY <1>2, <1>3, <1>4, <1>5, <1>6 DEF PerfectInv

LEMMA PerfectGate ==
    ASSUME CtcpInv, CopyInv, PerfectInv, NEW bdp \in Bdps, Gate("client", bdp)
    PROVE  PerfectInv'
<1>0. pieces["client"] = <<>>
  BY TwoEnds DEF CopyInv, SenderCopies
<1>1. UNCHANGED <<status, sendVars, connection_state, received["server"], expected["server"],
                  backlog, wrote_eof, output, typed, fins, wire>>
  BY DEF Gate, recvVars
<1>2. ~(fins["client"] > 0)
  BY DEF Gate, Up, PerfectInv, AfterEof
<1>3. CASE Goto("client", "send") /\ UNCHANGED in
  BY <1>1, <1>2, <1>3, PerfectTurn DEF Goto
<1>4. CASE EarlyReturn("client")
  <2>1. pc' = [pc EXCEPT !["client"] = "idle"] /\ in' = [in EXCEPT !["client"] = NoSegment]
    BY <1>0, <1>4 DEF EarlyReturn, Goto
  <2> QED
    BY <1>1, <1>2, <2>1, PerfectTurn
<1> QED
  BY <1>3, <1>4 DEF Gate

LEMMA PerfectSendDone ==
    ASSUME CtcpInv, PerfectInv, SendDone("client") PROVE PerfectInv'
<1> DEFINE step == AfterSend("client")
<1>1. /\ pc' = [pc EXCEPT !["client"] = step] /\ in' = in
      /\ UNCHANGED <<status, sendVars, connection_state, received["server"], expected["server"],
                     backlog, wrote_eof, output, typed, fins, wire>>
  BY DEF SendDone, Goto, recvVars
<1>2. ~(fins["client"] > 0)
  BY DEF SendDone, Up, PerfectInv, AfterEof
<1> HIDE DEF step
<1> QED
  BY <1>1, <1>2, PerfectTurn

LEMMA Appended ==
    ASSUME NEW w \in Seq(Segment), NEW s \in Segment
    PROVE  \A j \in 1..Len(Append(w, s)) :
              \/ j \in 1..Len(w) /\ Append(w, s)[j] = w[j]
              \/ Append(w, s)[j] = s /\ j > Len(w)
<1>1. /\ Len(Append(w, s)) = Len(w) + 1 /\ Len(w) \in Nat
      /\ \A i \in 1..Len(w) : Append(w, s)[i] = w[i]
      /\ Append(w, s)[Len(w) + 1] = s
  BY AppendProperties, LenProperties
<1> QED
  BY <1>1

LEMMA PerfectSend ==
    ASSUME CtcpInv, PerfectInv, Send("client") PROVE PerfectInv'
<1> DEFINE u == unacknowledged["client"]
           p == pending["client"]
           n == sequence_number["client"]
<1>0. OneWay /\ AcksOnlyInv /\ DataOnly /\ Arrivals /\ AfterEof /\ TypeOK
  BY DEF PerfectInv, CtcpInv, TypeInv
<1>1. PICK i \in Unsent("client") :
          /\ IsNext("client", i) /\ conn_send("client", u[i].seg)
          /\ unacknowledged' = [unacknowledged EXCEPT !["client"][i].sent = TRUE]
  BY DEF Send
<1>2. /\ pc["client"] = "send"
      /\ UNCHANGED <<status, sequence_number, pending, resent, connection_state, received,
                     expected, backlog, wrote_eof, output, pc, in, typed, fins>>
  BY DEF Send, Up, recvVars, runVars
<1> DEFINE v == [u EXCEPT ![i].sent = TRUE]
<1>3. /\ u \in Seq(Queued) /\ p \in Seq(Segment) /\ Chained(u, p, n)
      /\ wire["server"] \in Seq(Segment) /\ i \in 1..Len(u) /\ ~u[i].sent
      /\ \A j \in 1..Len(u) : ~u[j].sent => i <= j
  BY <1>1, Typing DEF Unsent, IsNext
<1>4. PICK k \in 0..Len(u) : Flow(k)
  BY DEF PerfectInv, Sent
<1>5. SentUpTo(u, k)
      /\ Lead(wire["server"], Awaited, Unreached(u, p, n, k))
  BY <1>2, <1>4 DEF Flow
<1>6. /\ unacknowledged'["client"] = v /\ unacknowledged'["server"] = unacknowledged["server"]
      /\ wire'["server"] = Append(wire["server"], u[i].seg) /\ wire'["client"] = wire["client"]
  BY <1>0, <1>1, TwoEnds DEF TypeOK, conn_send
<1>v. /\ v \in Seq(Queued) /\ Len(v) = Len(u)
      /\ \A j \in 1..Len(u) : v[j].seg = u[j].seg /\ (v[j].sent <=> j = i \/ u[j].sent)
  <2> HIDE DEF u
  <2> QED
    BY <1>3, MarkSent
<1>n. Unreached(u, p, n, k) \in Nat
  <2>1. k \in Nat
    BY <1>3, <1>4, LenProperties
  <2> QED
    BY <2>1, UnreachedNat
<1> HIDE DEF u, p, n, v
<1>7. /\ i = k + 1 /\ k + 1 \in 0..Len(u)
      /\ v \in Seq(Queued) /\ Len(v) = Len(u) /\ SentUpTo(v, k + 1)
      /\ \A j \in 1..Len(u) : v[j].seg = u[j].seg
      /\ Unreached(u, p, n, k) = u[i].seg.seqno
      /\ Unreached(v, p, n, k + 1) = End(u[i].seg)
  <2>1. u \in Seq(Queued) /\ v \in Seq(Queued) /\ i \in 1..Len(u) /\ p \in Seq(Segment)
    BY <1>v, <1>3
  <2>2. Chained(u, p, n)
    BY <1>3
  <2>3. ~u[i].sent
    BY <1>3
  <2>4. \A j \in 1..Len(u) : ~u[j].sent => i <= j
    BY <1>3
  <2>5. k \in 0..Len(u)
    BY <1>4
  <2>6. SentUpTo(u, k)
    BY <1>5
  <2>7. \A j \in 1..Len(u) : v[j].seg = u[j].seg /\ (v[j].sent <=> j = i \/ u[j].sent)
    BY <1>v
  <2>8. Len(v) = Len(u)
    BY <1>v
  <2>9. /\ i = k + 1 /\ k + 1 \in 0..Len(u) /\ SentUpTo(v, k + 1)
        /\ Unreached(u, p, n, k) = u[i].seg.seqno
        /\ Unreached(v, p, n, k + 1) = End(u[i].seg)
    BY <2>1, <2>2, <2>3, <2>4, <2>5, <2>6, <2>7, <2>8, SendFlow
  <2> QED
    BY <2>9, <1>v
<1>8. u[i].seg \in Segment
  BY <1>3, ElementOfSeq, Unqueued
<1>9. Lead(wire'["server"], Awaited, Unreached(v, p, n, k + 1))
  <2>1. ~(fins["client"] > 0) /\ ~u[i].seg.fin
    BY <1>0, <1>2, <1>3 DEF AfterEof, DataOnly, u
  <2>2. \A j \in 1..Len(wire["server"]) : ~wire["server"][j].fin
    BY <1>0, <2>1 DEF DataOnly, IsData
  <2> QED
    BY <1>n, <1>3, <1>5, <1>6, <1>7, <1>8, <2>1, <2>2, LeadAppend
<1>10. AfterEof'
  <2>1. ~(fins["client"] > 0) /\ ~u[i].seg.fin
    BY <1>0, <1>2, <1>3 DEF AfterEof, DataOnly, u
  <2>2. \A j \in 1..Len(wire["server"]) : ~wire["server"][j].fin
    BY <1>0, <2>1 DEF DataOnly, IsData
  <2>3. \A j \in 1..Len(wire'["server"]) :
           \/ j \in 1..Len(wire["server"]) /\ wire'["server"][j] = wire["server"][j]
           \/ wire'["server"][j] = u[i].seg
    BY <1>3, <1>6, <1>8, Appended
  <2>4. \A j \in 1..Len(wire'["server"]) : ~wire'["server"][j].fin
    BY <2>1, <2>2, <2>3, Zenon
  <2> QED
    BY <1>0, <1>2, <2>1, <2>4 DEF AfterEof
<1>11. OneWay' /\ Arrivals' /\ Awaited' = Awaited
  BY <1>0, <1>2, <1>6, ClientFrame DEF serverVars, OneWay
<1>12. AcksOnlyInv'
  BY <1>0, <1>2, <1>6, AcksFrame
<1>13. DataOnly'
  <2>1. \A j \in 1..Len(u) : Size(u[j].seg) \in Chunks /\ ~u[j].seg.fin
    BY <1>0 DEF DataOnly, u
  <2>2. \A j \in 1..Len(v) : Size(v[j].seg) \in Chunks /\ ~v[j].seg.fin
    BY <2>1, <1>7
  <2>3. IsData(u[i].seg, fins["client"])
    <3>1. Size(u[i].seg) \in Nat \ {0} /\ ~u[i].seg.fin
      BY <2>1, <1>3, CtcpAssumption
    <3> QED
      BY <3>1 DEF IsData
  <2>4. /\ Len(wire'["server"]) = Len(wire["server"]) + 1 /\ Len(wire["server"]) \in Nat
        /\ \A j \in 1..Len(wire["server"]) : wire'["server"][j] = wire["server"][j]
        /\ wire'["server"][Len(wire["server"]) + 1] = u[i].seg
    BY <1>3, <1>6, <1>8, AppendProperties, LenProperties
  <2>5. \A j \in 1..Len(wire'["server"]) : IsData(wire'["server"][j], fins["client"])
    <3>1. \A j \in 1..Len(wire["server"]) : IsData(wire["server"][j], fins["client"])
      BY <1>0 DEF DataOnly
    <3> QED
      BY <2>3, <2>4, <3>1
  <2>6. \A j \in 1..Len(p) : Size(p[j]) \in Chunks /\ ~p[j].fin
    BY <1>0 DEF DataOnly, p
  <2>7. in'["server"] # NoSegment => Size(in'["server"]) > 0
    BY <1>0, <1>2 DEF DataOnly
  <2> QED
    BY <1>2, <1>6, <2>2, <2>5, <2>6, <2>7 DEF DataOnly, p
<1>14. Sent'
  <2>1. SentUpTo(unacknowledged'["client"], k + 1)
    BY <1>6, <1>7
  <2>2. Flow(k + 1)'
    BY <1>2, <1>6, <1>7, <1>9, <1>11 DEF Flow, p, n
  <2>3. k + 1 \in 0..Len(unacknowledged'["client"])
    BY <1>6, <1>7
  <2> QED
    BY <2>2, <2>3 DEF Sent
<1> QED
  BY <1>10, <1>11, <1>12, <1>13, <1>14 DEF PerfectInv

LEMMA PerfectRead ==
    ASSUME Undisturbed, CtcpInv, CopyInv, PerfectInv, NEW m \in Chunks, ctcp_read("client", m)
    PROVE  PerfectInv'
<1> DEFINE u == unacknowledged["client"]
           p == pending["client"]
           n == sequence_number["client"]
           s == NewSegment("client", Whole("client", m), FALSE, received["client"])
<1>0. OneWay /\ AcksOnlyInv /\ DataOnly /\ Arrivals /\ AfterEof /\ TypeOK /\ SenderCopies /\ FittingReads
  BY DEF PerfectInv, CtcpInv, TypeInv, CopyInv, Undisturbed
<1>1. /\ m \in Nat \ {0} /\ typed["client"] \in Nat /\ typed'["client"] = typed["client"] + m
      /\ s \in Segment /\ Size(s) = m
      /\ pending' = [pending EXCEPT !["client"] = Append(@, s)]
      /\ sequence_number' = [sequence_number EXCEPT !["client"] = @ + m]
      /\ UNCHANGED status /\ pc' = [pc EXCEPT !["client"] = "fill"]
  BY <1>0, TwoEnds, ReadFits, Zenon
<1>2. s.seqno = n /\ ~s.fin
  BY DEF NewSegment
<1> HIDE DEF s
<1>3. /\ UNCHANGED <<inflight, unacknowledged, resent, connection_state, received, expected,
                     backlog, wrote_eof, output, in, fins, wire>>
      /\ typed["client"] + m <= Input["client"] /\ pc["client"] = "idle"
  BY DEF ctcp_read, recvVars, Up
<1>4. /\ pending'["client"] = Append(p, s) /\ sequence_number'["client"] = n + m
      /\ pc'["client"] = "fill" /\ pc'["server"] = pc["server"]
  BY <1>0, <1>1, TwoEnds DEF TypeOK
<1>5. u \in Seq(Queued) /\ p \in Seq(Segment) /\ Input["client"] \in Nat /\ fins["client"] \in Nat
  BY Typing
<1>6. OneWay' /\ Arrivals' /\ Awaited' = Awaited
  <2>1. /\ status'["client"] = "up"
        /\ UNCHANGED <<connection_state["client"], backlog["client"], resent["client"]>>
        /\ typed'["client"] <= Input["client"]
        /\ fins'["client"] > 0 => typed'["client"] = Input["client"]
    BY <1>0, <1>1, <1>3, <1>5 DEF OneWay
  <2>2. UNCHANGED serverVars
    BY <1>3, <1>4 DEF serverVars
  <2> QED
    BY <2>1, <2>2, ClientFrame
<1>7. AcksOnlyInv'
  BY <1>0, <1>3, AcksFrame
<1>8. DataOnly'
  <2>1. \A j \in 1..Len(p) : Size(p[j]) \in Chunks /\ ~p[j].fin
    BY <1>0 DEF DataOnly
  <2>2. /\ Len(Append(p, s)) = Len(p) + 1 /\ Len(p) \in Nat
        /\ \A j \in 1..Len(p) : Append(p, s)[j] = p[j]
        /\ Append(p, s)[Len(p) + 1] = s
    BY <1>1, <1>5, AppendProperties, LenProperties
  <2> HIDE DEF p
  <2>3. \A j \in 1..Len(Append(p, s)) : Size(Append(p, s)[j]) \in Chunks /\ ~Append(p, s)[j].fin
    BY <1>1, <1>2, <2>1, <2>2
  <2>4. \A j \in 1..Len(u) : Size(u[j].seg) \in Chunks /\ ~u[j].seg.fin
    BY <1>0 DEF DataOnly
  <2> QED
    BY <1>0, <1>3, <1>4, <2>3, <2>4, DataFrame
<1>9. Sent'
  <2>1. PICK k \in 0..Len(u) : Flow(k)
    BY DEF PerfectInv, Sent
  <2>2. Unreached(u, Append(p, s), n + m, k) = Unreached(u, p, n, k)
    BY <1>1, <1>2, <1>5, ReadFlow
  <2>4. Flow(k)'
    BY <1>3, <1>4, <1>6, <2>1, <2>2 DEF Flow
  <2> QED
    BY <1>3, <2>1, <2>4 DEF Sent
<1>10. AfterEof'
  <2>1. ~(fins["client"] > 0)
    BY <1>0, <1>1, <1>3, <1>5 DEF OneWay
  <2> QED
    BY <1>0, <1>3, <2>1, EofFrame
<1> QED
  BY <1>6, <1>7, <1>8, <1>9, <1>10 DEF PerfectInv

\* One more segment for the server.
LEMMA DataSent ==
    ASSUME NEW w \in Seq(Segment), NEW s \in Segment, NEW c \in Nat, NEW d \in Nat, IsData(s, d), c <= d,
           \A i \in 1..Len(w) : IsData(w[i], c)
    PROVE  \A i \in 1..Len(Append(w, s)) : IsData(Append(w, s)[i], d)
<1>1. /\ Len(Append(w, s)) = Len(w) + 1 /\ Len(w) \in Nat
      /\ \A i \in 1..Len(w) : Append(w, s)[i] = w[i]
      /\ Append(w, s)[Len(w) + 1] = s
  BY AppendProperties, LenProperties
<1>2. \A i \in 1..Len(w) : IsData(w[i], d)
  BY DEF IsData
<1> QED
  BY <1>1, <1>2

LEMMA PerfectReadEof ==
    ASSUME CtcpInv, PerfectInv, ReadEof("client") PROVE PerfectInv'
<1> DEFINE u == unacknowledged["client"]
           s == NewSegment("client", <<>>, TRUE, received["client"])
<1>0. OneWay /\ AcksOnlyInv /\ DataOnly /\ Arrivals /\ AfterEof /\ TypeOK
  BY DEF PerfectInv, CtcpInv, TypeInv
<1>1. /\ pc["client"] = "idle" /\ typed["client"] = Input["client"]
      /\ pending["client"] = <<>> /\ conn_send("client", s)
      /\ fins' = [fins EXCEPT !["client"] = @ + 1]
      /\ UNCHANGED <<status, unacknowledged, pending, sequence_number, inflight, resent,
                     connection_state, received, expected, backlog, wrote_eof, output, pc, in,
                     typed>>
  <2>1. connection_state["client"] # 1
    BY <1>0 DEF OneWay
  <2> HIDE DEF s
  <2>2. conn_send("client", s)
    BY DEF ReadEof, s
  <2> QED
    BY <2>1, <2>2 DEF ReadEof, Up, recvVars, runVars
<1>2. s \in Segment /\ s.fin /\ Size(s) = 0
  <2>1. s \in Segment
    BY <1>0, TwoEnds, NewSegmentType, EmptyData DEF TypeOK
  <2> QED
    BY <2>1, EmptyData DEF NewSegment, Size
<1> HIDE DEF s
<1>3. /\ wire'["server"] = Append(wire["server"], s) /\ wire'["client"] = wire["client"]
      /\ fins'["client"] = fins["client"] + 1 /\ fins["client"] \in Nat
  BY <1>0, <1>1, TwoEnds DEF TypeOK, conn_send
<1>4. wire["server"] \in Seq(Segment)
  BY Typing
<1>5. OneWay' /\ Arrivals' /\ Awaited' = Awaited
  BY <1>0, <1>1, ClientFrame DEF serverVars, OneWay
<1>6. AcksOnlyInv'
  BY <1>0, <1>1, <1>3, AcksFrame
<1>7. DataOnly'
  <2>1. IsData(s, fins'["client"]) /\ fins["client"] <= fins'["client"] /\ fins'["client"] \in Nat
    BY <1>2, <1>3 DEF IsData
  <2>2. \A i \in 1..Len(wire["server"]) : IsData(wire["server"][i], fins["client"])
    BY <1>0 DEF DataOnly
  <2>3. \A i \in 1..Len(wire'["server"]) : IsData(wire'["server"][i], fins'["client"])
    BY <1>2, <1>3, <1>4, <2>1, <2>2, DataSent
  <2> QED
    BY <1>0, <1>1, <2>3, QueuesSame
<1>8. Sent'
  <2>1. PICK k \in 0..Len(u) : Flow(k)
    BY DEF PerfectInv, Sent
  <2> DEFINE b == Unreached(u, pending["client"], sequence_number["client"], k)
  <2>2. b \in Nat
    <3>1. k \in Nat
      BY Typing, LenProperties
    <3> QED
      BY <3>1, UnreachedNat
  <2>3. Lead(wire["server"], Awaited, b)
    BY <2>1 DEF Flow
  <2> HIDE DEF b
  <2>4. Lead(wire'["server"], Awaited, b)
    BY <1>2, <1>3, <1>4, <2>2, <2>3, LeadFin
  <2>5. Flow(k)'
    BY <1>1, <1>5, <2>1, <2>4 DEF Flow, b
  <2> QED
    BY <1>1, <2>1, <2>5 DEF Sent
<1>9. AfterEof'
  <2>1. \A j \in 1..Len(wire'["server"]) :
           \/ j \in 1..Len(wire["server"]) /\ wire'["server"][j] = wire["server"][j]
           \/ wire'["server"][j] = s /\ j > Len(wire["server"])
    BY <1>2, <1>3, <1>4, Appended
  <2>2. connection_state["server"] = 1 => \A i \in 1..Len(wire'["server"]) : wire'["server"][i].fin
    BY <1>0, <1>2, <2>1 DEF AfterEof
  <2>3. ASSUME NEW i \in 1..Len(wire'["server"]), NEW j \in 1..Len(wire'["server"]),
               i < j, wire'["server"][i].fin
        PROVE  wire'["server"][j].fin
    <3>1. CASE wire'["server"][j] = s
      BY <1>2, <3>1
    <3>2. CASE j \in 1..Len(wire["server"]) /\ wire'["server"][j] = wire["server"][j]
      <4>1. ~(i > Len(wire["server"]))
        BY <1>4, <2>3, <3>2, LenProperties
      <4>2. i \in 1..Len(wire["server"]) /\ wire'["server"][i] = wire["server"][i]
        BY <2>1, <4>1
      <4> QED
        BY <1>0, <2>3, <3>2, <4>2 DEF AfterEof
    <3> QED
      BY <2>1, <3>1, <3>2
  <2>4. fins'["client"] > 0
    BY <1>3
  <2> QED
    BY <1>1, <2>2, <2>3, <2>4 DEF AfterEof
<1> QED
  BY <1>5, <1>6, <1>7, <1>8, <1>9 DEF PerfectInv

\* The client is acknowledged.
LEMMA PerfectAckReceived ==
    ASSUME CtcpInv, PerfectInv, Receive("client") PROVE PerfectInv'
<1> DEFINE w == wire["client"]
           u == unacknowledged["client"]
<1>0. OneWay /\ AcksOnlyInv /\ DataOnly /\ Arrivals /\ AfterEof /\ TypeOK
  BY DEF PerfectInv, CtcpInv, TypeInv
<1>1. /\ w # <<>> /\ pc["client"] = "idle" /\ w \in Seq(Segment)
      /\ in' = [in EXCEPT !["client"] = Head(w)]
      /\ wire' = [wire EXCEPT !["client"] = Tail(w)]
      /\ pc' = [pc EXCEPT !["client"] = "acks"]
      /\ UNCHANGED <<status, unacknowledged, pending, sequence_number, inflight, resent,
                     connection_state, received, expected, backlog, wrote_eof, output,
                     typed, fins>>
  BY Typing DEF Receive, Up, Goto, sendVars, recvVars
<1>2. /\ in'["client"] = Head(w) /\ in'["server"] = in["server"]
      /\ wire'["client"] = Tail(w) /\ wire'["server"] = wire["server"]
      /\ pc'["client"] = "acks" /\ pc'["server"] = pc["server"]
  BY <1>0, <1>1, TwoEnds DEF TypeOK
<1>3. OneWay' /\ Arrivals' /\ Awaited' = Awaited
  BY <1>0, <1>1, <1>2, ClientFrame DEF serverVars, OneWay
<1>4. AcksOnlyInv'
  <2>1. /\ Head(w) = w[1] /\ Len(w) \in Nat \ {0} /\ Len(Tail(w)) = Len(w) - 1
        /\ \A i \in 1..Len(w) - 1 : Tail(w)[i] = w[i + 1]
    BY <1>1, TailFacts
  <2>2. \A i \in 1..Len(w) : /\ Size(w[i]) = 0 /\ w[i].ackno <= expected["server"]
                             /\ ~w[i].fin
    BY <1>0 DEF AcksOnlyInv, IsAck
  <2> HIDE DEF w
  <2>3. /\ \A i \in 1..Len(Tail(w)) : /\ Size(Tail(w)[i]) = 0 /\ Tail(w)[i].ackno <= expected["server"]
                                      /\ ~Tail(w)[i].fin
        /\ Size(Head(w)) = 0 /\ Head(w).ackno <= expected["server"]
    BY <2>1, <2>2
  <2> QED
    BY <1>1, <1>2, <2>3 DEF AcksOnlyInv, IsAck
<1>5. DataOnly'
  BY <1>0, <1>1, <1>2 DEF DataOnly
<1>6. Sent'
  <2>1. PICK k \in 0..Len(u) : Flow(k)
    BY DEF PerfectInv, Sent
  <2>2. Flow(k)'
    BY <1>1, <1>2, <1>3, <2>1 DEF Flow
  <2> QED
    BY <1>1, <2>1, <2>2 DEF Sent
<1>7. AfterEof'
  BY <1>0, <1>1, <1>2, EofFrame
<1> QED
  BY <1>3, <1>4, <1>5, <1>6, <1>7 DEF PerfectInv

LEMMA PerfectAckData ==
    ASSUME CtcpInv, PerfectInv, ReceiveData("client") PROVE PerfectInv'
<1>1. Size(in["client"]) = 0
  BY DEF PerfectInv, AcksOnlyInv, IsAck
<1>2. /\ pc["client"] = "acks" /\ pc' = [pc EXCEPT !["client"] = "idle"]
      /\ in' = [in EXCEPT !["client"] = NoSegment]
      /\ received' = [received EXCEPT !["client"] = After("client")]
      /\ expected' = [expected EXCEPT !["client"] = IF Fresh("client") THEN After("client") ELSE @]
      /\ UNCHANGED <<status, sendVars, connection_state, backlog, wrote_eof, output, typed, fins,
                     wire>>
  BY <1>1 DEF ReceiveData, Up, Goto
<1>3. UNCHANGED <<received["server"], expected["server"]>>
  BY <1>2, TwoEnds DEF CtcpInv, TypeInv, TypeOK
<1> QED
  BY <1>2, <1>3, PerfectTurn

\* Only what was sent is acknowledged.
LEMMA AckedIsSent ==
    ASSUME CtcpInv, PerfectInv, Acked("client"), NEW k \in 0..Len(unacknowledged["client"]), Flow(k)
    PROVE  k # 0
<1> DEFINE u == unacknowledged["client"]
           w == wire["server"]
           b == Unreached(u, pending["client"], sequence_number["client"], k)
<1>1. /\ u # <<>> /\ Head(u).seg.seqno < in["client"].ackno
      /\ in["client"].ackno <= expected["server"]
  BY DEF Acked, PerfectInv, AcksOnlyInv, IsAck
<1>2. u \in Seq(Queued) /\ w \in Seq(Segment) /\ in["client"] \in Segment /\ in["server"] \in Segment
      /\ expected["server"] \in Nat
  BY Typing
<1>3. Head(u) = u[1] /\ Len(u) \in Nat \ {0} /\ Head(u).seg \in Segment
  BY <1>1, <1>2, TailFacts, Unqueued
<1>4. Lead(w, Awaited, b) /\ b \in Nat
  <2>1. k \in Nat
    BY <1>3
  <2> QED
    BY <2>1, UnreachedNat DEF Flow
<1>5. Awaited \in Nat /\ expected["server"] <= Awaited
  <2>1. CASE in["server"] = NoSegment
    BY <1>2, <2>1 DEF Awaited
  <2>2. CASE in["server"] # NoSegment
    <3>1. in["server"].seqno = expected["server"]
      BY <2>2 DEF PerfectInv, Arrivals
    <3>2. Size(in["server"]) \in Nat
      BY <1>2, SegmentFacts
    <3> QED
      BY <1>2, <2>2, <3>1, <3>2 DEF Awaited, End
  <2> QED
    BY <2>1, <2>2
<1> HIDE DEF b, w, u
<1>6. Awaited <= b
  BY <1>2, <1>4, <1>5, LeadGrows
<1>7. ASSUME k = 0 PROVE FALSE
  <2>1. b = Head(u).seg.seqno
    BY <1>3, <1>7 DEF Unreached, b, u
  <2>2. Head(u).seg.seqno \in Nat /\ in["client"].ackno \in Nat
    BY <1>2, <1>3, SegmentFacts
  <2> QED
    BY <1>1, <1>2, <1>5, <1>6, <2>1, <2>2 DEF u
<1> QED
  BY <1>7

LEMMA PerfectAck ==
    ASSUME CtcpInv, PerfectInv, NEW cwnd \in Cwnds, Ack("client", cwnd)
    PROVE  PerfectInv'
<1> DEFINE u == unacknowledged["client"]
           p == pending["client"]
           n == sequence_number["client"]
<1>0. OneWay /\ AcksOnlyInv /\ DataOnly /\ Arrivals /\ AfterEof /\ TypeOK
  BY DEF PerfectInv, CtcpInv, TypeInv
<1>1. /\ u # <<>> /\ pc["client"] = "acks" /\ Acked("client")
      /\ unacknowledged' = [unacknowledged EXCEPT !["client"] = Tail(u)]
      /\ pc' = pc \/ (p # <<>> /\ pc' = [pc EXCEPT !["client"] = "fill"])
      /\ UNCHANGED <<status, sequence_number, pending, resent, connection_state, received,
                     expected, backlog, wrote_eof, output, in, typed, fins, wire>>
  BY DEF Ack, Up, Acked, Goto, recvVars
<1>2. u \in Seq(Queued)
  BY Typing
<1>3. /\ Len(u) \in Nat \ {0} /\ Len(Tail(u)) = Len(u) - 1 /\ Head(u) = u[1]
      /\ \A i \in 1..Len(u) - 1 : Tail(u)[i] = u[i + 1]
  BY <1>1, <1>2, TailFacts
<1>4. /\ unacknowledged'["client"] = Tail(u) /\ unacknowledged'["server"] = unacknowledged["server"]
      /\ pc'["server"] = pc["server"]
  BY <1>0, <1>1, <1>3, TwoEnds DEF TypeOK
<1>5. PICK k \in 0..Len(u) : Flow(k)
  BY DEF PerfectInv, Sent
<1>6. k \in 1..Len(u)
  <2>1. k # 0
    BY <1>1, <1>5, AckedIsSent
  <2> QED
    BY <1>3, <2>1
<1>7. SentUpTo(u, k) /\ Lead(wire["server"], Awaited, Unreached(u, p, n, k))
  BY <1>1, <1>5 DEF Flow
<1> HIDE DEF u, p, n
<1>8. /\ k - 1 \in 0..Len(Tail(u)) /\ SentUpTo(Tail(u), k - 1)
      /\ Unreached(Tail(u), p, n, k - 1) = Unreached(u, p, n, k)
  BY <1>1, <1>2, <1>6, <1>7, AckFlow
<1>9. AfterEof'
  BY <1>0, <1>1, EofFrame DEF AfterEof, p
<1>10. OneWay' /\ Arrivals' /\ Awaited' = Awaited
  BY <1>0, <1>1, <1>4, ClientFrame DEF serverVars, OneWay
<1>11. AcksOnlyInv'
  BY <1>0, <1>1, AcksFrame
<1>12. DataOnly'
  <2>1. \A i \in 1..Len(u) : Size(u[i].seg) \in Chunks /\ ~u[i].seg.fin
    BY <1>0 DEF DataOnly, u
  <2>2. \A i \in 1..Len(Tail(u)) : Size(Tail(u)[i].seg) \in Chunks /\ ~Tail(u)[i].seg.fin
    BY <1>3, <2>1
  <2>3. \A i \in 1..Len(p) : Size(p[i]) \in Chunks /\ ~p[i].fin
    BY <1>0 DEF DataOnly, p
  <2> QED
    BY <1>0, <1>1, <1>4, <2>2, <2>3, DataFrame DEF p
<1>13. Flow(k - 1)'
  BY <1>1, <1>4, <1>7, <1>8, <1>10 DEF Flow, p, n
<1>14. Sent'
  BY <1>4, <1>8, <1>13 DEF Sent
<1> QED
  BY <1>9, <1>10, <1>11, <1>12, <1>14 DEF PerfectInv

----------------------------------------------------------------------------
\* The steps of the server

clientVars ==
    <<status["client"], connection_state["client"], backlog["client"], resent["client"],
      unacknowledged["client"], pending["client"], sequence_number["client"],
      inflight["client"], pc["client"], in["client"], typed["client"], fins["client"]>>

\* What the client has sent goes on to the server as it was.
LEMMA ServerFrame ==
    ASSUME CtcpInv, PerfectInv, UNCHANGED clientVars,
           \A b \in Nat : Lead(wire["server"], Awaited, b) => Lead(wire'["server"], Awaited', b)
    PROVE  Sent'
<1>1. PICK k \in 0..Len(unacknowledged["client"]) : Flow(k)
  BY DEF PerfectInv, Sent
<1> DEFINE b == Unreached(unacknowledged["client"], pending["client"],
                          sequence_number["client"], k)
<1>2. b \in Nat
  <2>1. k \in Nat
    BY Typing, LenProperties
  <2> QED
    BY <2>1, UnreachedNat
<1>3. SentUpTo(unacknowledged["client"], k) /\ Lead(wire["server"], Awaited, b)
  BY <1>1 DEF Flow
<1> HIDE DEF b
<1>4. Lead(wire'["server"], Awaited', b)
  BY <1>2, <1>3
<1>5. Flow(k)'
  BY <1>3, <1>4 DEF Flow, clientVars, b
<1> QED
  BY <1>1, <1>5 DEF Sent, clientVars

LEMMA DataTaken ==
    ASSUME DataOnly, CtcpInv, UNCHANGED clientVars, wire["server"] # <<>>,
           wire'["server"] = Tail(wire["server"]),
           in'["server"] # NoSegment => Size(in'["server"]) > 0
    PROVE  DataOnly'
<1> DEFINE w == wire["server"]
<1>1. /\ Len(w) \in Nat \ {0} /\ Len(Tail(w)) = Len(w) - 1
      /\ \A i \in 1..Len(w) - 1 : Tail(w)[i] = w[i + 1]
  BY Typing, TailFacts
<1>2. \A i \in 1..Len(w) : IsData(w[i], fins["client"])
  BY DEF DataOnly
<1> HIDE DEF w
<1>3. \A i \in 1..Len(Tail(w)) : IsData(Tail(w)[i], fins["client"])
  BY <1>1, <1>2
<1> QED
  BY <1>3 DEF DataOnly, clientVars, w

\* The first segment on its way to the server.
LEMMA HeadFacts ==
    ASSUME CtcpInv, PerfectInv, wire["server"] # <<>>
    PROVE  LET h == Head(wire["server"]) IN
           /\ h \in Segment /\ IsData(h, fins["client"]) /\ (~h.fin => h.seqno = Awaited)
           /\ \A b \in Nat : Lead(wire["server"], Awaited, b) =>
                 Lead(Tail(wire["server"]), IF h.fin THEN Awaited ELSE End(h), b)
<1> DEFINE w == wire["server"]
           h == Head(w)
<1>1. /\ w \in Seq(Segment) /\ h \in Segment /\ h = w[1] /\ Len(w) \in Nat \ {0}
  BY Typing, TailFacts
<1>2. IsData(h, fins["client"])
  <2>1. 1 \in 1..Len(w)
    BY <1>1
  <2> QED
    BY <1>1, <2>1 DEF PerfectInv, DataOnly
<1>3. h.fin => Size(h) = 0
  BY <1>2 DEF IsData
<1>4. ~h.fin => h.seqno = Awaited
  <2>1. PICK k \in 0..Len(unacknowledged["client"]) : Flow(k)
    BY DEF PerfectInv, Sent
  <2>2. k \in Nat
    BY Typing, LenProperties
  <2>3. PICK b \in Nat : Lead(w, Awaited, b)
    BY <2>1, <2>2, UnreachedNat DEF Flow
  <2> QED
    BY <1>1, <1>3, <2>3, LeadTail
<1>5. ASSUME NEW b \in Nat, Lead(w, Awaited, b)
      PROVE  Lead(Tail(w), IF h.fin THEN Awaited ELSE End(h), b)
  BY <1>1, <1>3, <1>5, LeadTail
<1> QED
  BY <1>1, <1>2, <1>4, <1>5

\* What the server takes off the wire leaves FINs where there are FINs.
LEMMA EofTaken ==
    ASSUME CtcpInv, AfterEof, UNCHANGED <<pending["client"], pc["client"], fins["client"]>>,
           wire["server"] # <<>>, wire'["server"] = Tail(wire["server"]),
           \/ connection_state'["server"] = connection_state["server"]
           \/ Head(wire["server"]).fin /\ fins["client"] > 0
    PROVE  AfterEof'
<1> DEFINE w == wire["server"]
           v == Tail(w)
<1>1. /\ Head(w) = w[1] /\ Len(w) \in Nat \ {0} /\ Len(v) = Len(w) - 1
      /\ \A i \in 1..Len(w) - 1 : v[i] = w[i + 1]
  BY Typing, TailFacts
<1>2. \A i, j \in 1..Len(w) : i < j /\ w[i].fin => w[j].fin
  BY DEF AfterEof
<1>3. connection_state["server"] = 1 => fins["client"] > 0 /\ \A i \in 1..Len(w) : w[i].fin
  BY DEF AfterEof
<1>4. wire'["server"] = v
  OBVIOUS
<1> HIDE DEF w, v
<1>5. \A i, j \in 1..Len(v) : i < j /\ v[i].fin => v[j].fin
  <2> SUFFICES ASSUME NEW i \in 1..Len(v), NEW j \in 1..Len(v), i < j, v[i].fin PROVE v[j].fin
    OBVIOUS
  <2>1. i + 1 \in 1..Len(w) /\ j + 1 \in 1..Len(w) /\ i + 1 < j + 1
    BY <1>1
  <2>2. v[i] = w[i + 1] /\ v[j] = w[j + 1]
    BY <1>1
  <2> QED
    BY <1>2, <2>1, <2>2
<1>6. Head(w).fin => \A i \in 1..Len(v) : v[i].fin
  <2> SUFFICES ASSUME Head(w).fin, NEW i \in 1..Len(v) PROVE v[i].fin
    OBVIOUS
  <2>1. 1 \in 1..Len(w) /\ i + 1 \in 1..Len(w) /\ 1 < i + 1 /\ v[i] = w[i + 1]
    BY <1>1
  <2> QED
    BY <1>1, <1>2, <2>1
<1>7. (\A i \in 1..Len(w) : w[i].fin) => Head(w).fin
  BY <1>1
<1>8. connection_state'["server"] = 1 => fins["client"] > 0 /\ \A i \in 1..Len(v) : v[i].fin
  BY <1>3, <1>6, <1>7 DEF w
<1>9. fins["client"] > 0 => pending["client"] = <<>> /\ pc["client"] \in {"idle", "acks"}
  BY DEF AfterEof
<1> QED
  BY <1>4, <1>5, <1>8, <1>9 DEF AfterEof

\* The server acknowledges.
LEMMA AckSent ==
    ASSUME CtcpInv, AcksOnlyInv, NEW s \in Segment, wire'["client"] = Append(wire["client"], s),
           Size(s) = 0, ~s.fin, s.ackno <= expected'["server"],
           expected'["server"] \in Nat, expected["server"] <= expected'["server"],
           UNCHANGED in["client"]
    PROVE  AcksOnlyInv'
<1> DEFINE w == wire["client"]
<1>1. w \in Seq(Segment) /\ expected["server"] \in Nat /\ in["client"] \in Segment
  BY Typing
<1>2. /\ Len(Append(w, s)) = Len(w) + 1 /\ Len(w) \in Nat
      /\ \A i \in 1..Len(w) : Append(w, s)[i] = w[i]
      /\ Append(w, s)[Len(w) + 1] = s
  BY <1>1, AppendProperties, LenProperties
<1>3. ASSUME NEW a \in Segment, a.ackno <= expected["server"] PROVE a.ackno <= expected'["server"]
  BY <1>1, <1>3, SegmentFacts
<1>4. \A i \in 1..Len(w) : w[i] \in Segment /\ Size(w[i]) = 0 /\ w[i].ackno <= expected["server"] /\ ~w[i].fin
  BY <1>1, ElementOfSeq DEF AcksOnlyInv, IsAck
<1> HIDE DEF w
<1>5. \A i \in 1..Len(Append(w, s)) : /\ Size(Append(w, s)[i]) = 0
                                      /\ Append(w, s)[i].ackno <= expected'["server"]
                                      /\ ~Append(w, s)[i].fin
  BY <1>2, <1>3, <1>4
<1>6. Size(in["client"]) = 0 /\ in["client"].ackno <= expected'["server"]
  BY <1>1, <1>3 DEF AcksOnlyInv, IsAck
<1> QED
  BY <1>5, <1>6 DEF AcksOnlyInv, IsAck, w

LEMMA PerfectReceiveFin ==
    ASSUME CtcpInv, PerfectInv, ReceiveFin("server") PROVE PerfectInv'
<1> DEFINE w == wire["server"]
           s == NewSegment("server", <<>>, FALSE, received["server"])
<1>0. OneWay /\ AcksOnlyInv /\ DataOnly /\ Arrivals /\ AfterEof /\ TypeOK
  BY DEF PerfectInv, CtcpInv, TypeInv
<1>1. /\ pc["server"] = "idle" /\ w # <<>> /\ Head(w).fin
      /\ connection_state' = [connection_state EXCEPT !["server"] = 1]
      /\ wire' = [wire EXCEPT !["server"] = Tail(@), !["client"] = Append(@, s)]
      /\ wrote_eof' = [wrote_eof EXCEPT !["server"] = TRUE]
      /\ UNCHANGED <<status, sendVars, received, expected, backlog, output, runVars,
                     typed, fins>>
  BY TwoEnds DEF ReceiveFin, Up
<1>2. /\ s \in Segment /\ Size(s) = 0 /\ ~s.fin /\ s.ackno = expected["server"]
      /\ expected["server"] \in Nat
  <2>1. s \in Segment
    BY <1>0, TwoEnds, NewSegmentType, EmptyData DEF TypeOK
  <2> QED
    BY <2>1, <1>0, EmptyData, Typing DEF NewSegment, Size, OneWay
<1> HIDE DEF s
<1>3. /\ wire'["server"] = Tail(w) /\ wire'["client"] = Append(wire["client"], s)
      /\ connection_state'["server"] = 1 /\ connection_state'["client"] = connection_state["client"]
  BY <1>0, <1>1, TwoEnds DEF TypeOK
<1>4. in["server"] = NoSegment /\ Awaited = expected["server"] /\ Awaited' = Awaited
  BY <1>0, <1>1 DEF OneWay, Awaited, runVars
<1>5. /\ fins["client"] > 0
      /\ \A b \in Nat : Lead(w, Awaited, b) => Lead(Tail(w), Awaited, b)
  BY <1>1, HeadFacts DEF IsData
<1>7. OneWay'
  BY <1>0, <1>1, <1>3, <1>4 DEF OneWay, sendVars, runVars
<1>8. Arrivals'
  BY <1>0, <1>1 DEF Arrivals, runVars
<1>9. UNCHANGED clientVars
  BY <1>1, <1>3 DEF clientVars, sendVars, runVars
<1>10. AcksOnlyInv'
  <2>1. /\ s.ackno <= expected'["server"] /\ expected'["server"] \in Nat
        /\ expected["server"] <= expected'["server"] /\ UNCHANGED in["client"]
    BY <1>1, <1>2 DEF runVars
  <2> QED
    BY <1>0, <1>2, <1>3, <2>1, AckSent
<1>11. DataOnly'
  BY <1>0, <1>1, <1>3, <1>4, <1>9, DataTaken DEF runVars
<1>12. Sent'
  <2>1. \A b \in Nat : Lead(w, Awaited, b) => Lead(wire'["server"], Awaited', b)
    BY <1>3, <1>4, <1>5
  <2> QED
    BY <1>9, <2>1, ServerFrame
<1>13. AfterEof'
  BY <1>0, <1>1, <1>3, <1>5, <1>9, EofTaken DEF clientVars
<1> QED
  BY <1>7, <1>8, <1>10, <1>11, <1>12, <1>13 DEF PerfectInv

LEMMA PerfectReceiveAfterFin ==
    ASSUME CtcpInv, PerfectInv, ReceiveAfterFin("server") PROVE PerfectInv'
<1> DEFINE w == wire["server"]
<1>0. OneWay /\ AcksOnlyInv /\ DataOnly /\ Arrivals /\ AfterEof /\ TypeOK
  BY DEF PerfectInv, CtcpInv, TypeInv
<1>1. /\ pc["server"] = "idle" /\ w # <<>> /\ connection_state["server"] = 1
      /\ wire' = [wire EXCEPT !["server"] = Tail(w)]
      /\ status' = [status EXCEPT !["server"] = "down"]
      /\ unacknowledged' = [unacknowledged EXCEPT !["server"] = <<>>]
      /\ pending' = [pending EXCEPT !["server"] = <<>>]
      /\ UNCHANGED <<sequence_number, inflight, resent, recvVars, runVars, typed, fins>>
  BY DEF ReceiveAfterFin, Up, ctcp_destroy
<1>2. /\ wire'["server"] = Tail(w) /\ wire'["client"] = wire["client"]
      /\ status'["client"] = status["client"] /\ pending'["client"] = pending["client"]
      /\ unacknowledged'["client"] = unacknowledged["client"] /\ unacknowledged'["server"] = <<>>
  BY <1>0, <1>1, TwoEnds DEF TypeOK
<1>3. in["server"] = NoSegment /\ Awaited = expected["server"] /\ Awaited' = Awaited
  BY <1>0, <1>1 DEF OneWay, Awaited, runVars, recvVars
<1>4. Head(w).fin
  <2>1. Head(w) = w[1] /\ 1 \in 1..Len(w)
    BY <1>1, Typing, TailFacts
  <2> QED
    BY <1>0, <1>1, <2>1 DEF AfterEof
<1>5. \A b \in Nat : Lead(w, Awaited, b) => Lead(Tail(w), Awaited, b)
  BY <1>1, <1>4, HeadFacts
<1>8. OneWay'
  BY <1>0, <1>1, <1>2 DEF OneWay, recvVars, runVars
<1>9. Arrivals'
  BY <1>0, <1>1 DEF Arrivals, recvVars, runVars
<1>10. UNCHANGED clientVars
  BY <1>1, <1>2 DEF clientVars, recvVars, runVars
<1>11. AcksOnlyInv'
  BY <1>0, <1>1, <1>2, AcksFrame DEF recvVars, runVars
<1>12. DataOnly'
  BY <1>0, <1>1, <1>2, <1>3, <1>10, DataTaken DEF runVars
<1>13. Sent'
  <2>1. \A b \in Nat : Lead(w, Awaited, b) => Lead(wire'["server"], Awaited', b)
    BY <1>2, <1>3, <1>5
  <2> QED
    BY <1>10, <2>1, ServerFrame
<1>14. AfterEof'
  BY <1>0, <1>1, <1>2, <1>10, EofTaken DEF clientVars, recvVars
<1> QED
  BY <1>8, <1>9, <1>11, <1>12, <1>13, <1>14 DEF PerfectInv

LEMMA PerfectReceive ==
    ASSUME CtcpInv, PerfectInv, Receive("server") PROVE PerfectInv'
<1> DEFINE w == wire["server"]
<1>0. OneWay /\ AcksOnlyInv /\ DataOnly /\ Arrivals /\ AfterEof /\ TypeOK
  BY DEF PerfectInv, CtcpInv, TypeInv
<1>1. /\ pc["server"] = "idle" /\ w # <<>> /\ ~Head(w).fin /\ connection_state["server"] = 0
      /\ in' = [in EXCEPT !["server"] = Head(w)]
      /\ wire' = [wire EXCEPT !["server"] = Tail(w)]
      /\ pc' = [pc EXCEPT !["server"] = "acks"]
      /\ UNCHANGED <<status, sendVars, recvVars, typed, fins>>
  BY DEF Receive, Up, Goto
<1>2. /\ wire'["server"] = Tail(w) /\ wire'["client"] = wire["client"]
      /\ in'["server"] = Head(w) /\ in'["client"] = in["client"]
      /\ pc'["server"] = "acks" /\ pc'["client"] = pc["client"]
  BY <1>0, <1>1, TwoEnds DEF TypeOK
<1>3. in["server"] = NoSegment /\ Awaited = expected["server"]
  BY <1>0, <1>1 DEF OneWay, Awaited
<1>4. /\ IsData(Head(w), fins["client"]) /\ Head(w).seqno = Awaited
      /\ \A b \in Nat : Lead(w, Awaited, b) => Lead(Tail(w), End(Head(w)), b)
  BY <1>1, HeadFacts
<1>5. Size(Head(w)) > 0 /\ Head(w) # NoSegment
  BY <1>1, <1>4 DEF IsData, NoSegment
<1>6. Awaited' = End(Head(w))
  BY <1>2, <1>5 DEF Awaited
<1>7. OneWay'
  BY <1>0, <1>1, <1>2, <1>5 DEF OneWay, sendVars, recvVars
<1>8. Arrivals'
  BY <1>0, <1>1, <1>2, <1>3, <1>4 DEF Arrivals, recvVars
<1>9. UNCHANGED clientVars
  BY <1>1, <1>2 DEF clientVars, sendVars, recvVars
<1>10. AcksOnlyInv'
  BY <1>0, <1>1, <1>2, AcksFrame DEF recvVars
<1>11. DataOnly'
  BY <1>0, <1>1, <1>2, <1>5, <1>9, DataTaken
<1>12. Sent'
  <2>1. \A b \in Nat : Lead(w, Awaited, b) => Lead(wire'["server"], Awaited', b)
    BY <1>2, <1>4, <1>6
  <2> QED
    BY <1>9, <2>1, ServerFrame
<1>13. AfterEof'
  BY <1>0, <1>1, <1>2, <1>9, EofTaken DEF clientVars, recvVars
<1> QED
  BY <1>7, <1>8, <1>10, <1>11, <1>12, <1>13 DEF PerfectInv

\* There is room for what has arrived, and it is the next of the stream.
LEMMA ArrivalFits ==
    ASSUME Undisturbed, CtcpInv, CopyInv, PerfectInv, pc["server"] = "acks"
    PROVE  /\ in["server"] # NoSegment /\ Size(in["server"]) > 0 /\ Fresh("server")
           /\ Outputs("server") /\ After("server") = End(in["server"])
           /\ After("server") = expected["server"] + Size(in["server"])
           /\ After("server") <= typed["client"] + 1
           /\ Awaited = After("server")
<1> DEFINE x == in["server"]
           o == output["server"]
<1>0. OneWay /\ DataOnly /\ Arrivals /\ InCopies
  BY DEF PerfectInv, CopyInv
<1>1. x # NoSegment /\ Size(x) > 0 /\ x.seqno = expected["server"] /\ ~wrote_eof["server"]
  BY <1>0 DEF OneWay, DataOnly, Arrivals
<1>2. /\ x \in Segment /\ expected["server"] \in Nat /\ Size(x) \in Nat
      /\ typed["client"] \in Nat /\ Input["client"] \in Nat /\ backlog["server"] \in Nat
      /\ typed["client"] <= Input["client"] /\ Input["client"] <= Room /\ Room \in Nat
  BY <1>0, Typing, SegmentFacts, CtcpAssumption DEF OneWay, Undisturbed
<1>3. x.seqno + Size(x) <= typed["client"] + 1
  BY <1>0, <1>1, TwoEnds DEF InCopies, Copies, Size
<1>4. Fresh("server") /\ After("server") = expected["server"] + Size(x) /\ After("server") = End(x)
  BY <1>1, <1>2 DEF Fresh, After, End
<1>5. /\ Len(o) \in Nat /\ \A i \in 1..Len(o) : o[i].seqno \in Nat /\ Size(o[i]) \in Nat
  <2> DEFINE S == [seqno : Nat, data : Bytes]
  <2>1. o \in Seq(S)
    BY Typing
  <2>2. \A y \in S : y.seqno \in Nat /\ Size(y) \in Nat
    BY LenProperties DEF Bytes, Size
  <2> HIDE DEF S
  <2> QED
    BY <2>1, <2>2, ElementOfSeq, LenProperties
<1>6. 1 + Len(o) <= expected["server"]
  <2>1. /\ Run(o, 1, expected["server"]) /\ \A i \in 1..Len(o) : Size(o[i]) >= 1
        /\ 1 \in {0, 1} /\ 1 \in Nat
    BY <1>0 DEF Arrivals
  <2>2. o \in Seq([seqno : Nat, data : Bytes])
    BY Typing
  <2> HIDE DEF o
  <2> QED
    BY <1>5, <2>1, <2>2, RunGrows
<1>7. backlog["server"] < Room
  BY <1>0, <1>1, <1>2, <1>3, <1>5, <1>6 DEF Arrivals
<1>8. Outputs("server")
  BY <1>1, <1>7 DEF Outputs
<1>9. Awaited = After("server")
  BY <1>1, <1>4 DEF Awaited
<1> QED
  BY <1>1, <1>2, <1>3, <1>4, <1>8, <1>9

LEMMA PerfectReceiveData ==
    ASSUME Undisturbed, CtcpInv, CopyInv, PerfectInv, ReceiveData("server") PROVE PerfectInv'
<1> DEFINE s == NewSegment("server", <<>>, FALSE, After("server"))
           z == [seqno |-> in["server"].seqno, data |-> in["server"].data]
           o == output["server"]
<1>0. OneWay /\ AcksOnlyInv /\ DataOnly /\ Arrivals /\ AfterEof /\ TypeOK
  BY DEF PerfectInv, CtcpInv, TypeInv
<1>1. /\ pc["server"] = "acks" /\ pc' = [pc EXCEPT !["server"] = "idle"]
      /\ in' = [in EXCEPT !["server"] = NoSegment]
      /\ received' = [received EXCEPT !["server"] = After("server")]
      /\ UNCHANGED <<status, sendVars, connection_state, wrote_eof, typed, fins>>
  BY DEF ReceiveData, Up, Goto
<1>2. /\ in["server"] # NoSegment /\ Size(in["server"]) > 0 /\ Fresh("server")
      /\ Outputs("server") /\ After("server") = End(in["server"])
      /\ After("server") = expected["server"] + Size(in["server"])
      /\ Awaited = After("server")
  BY <1>1, ArrivalFits
<1>3. /\ expected' = [expected EXCEPT !["server"] = After("server")]
      /\ conn_send("server", s)
      /\ output' = [output EXCEPT !["server"] = Append(@, z)]
      /\ backlog' = backlog \/ backlog' = [backlog EXCEPT !["server"] = @ + 1]
  BY <1>2 DEF ReceiveData, conn_output
<1>4. /\ in["server"] \in Segment /\ expected["server"] \in Nat /\ Size(in["server"]) \in Nat
      /\ After("server") \in Nat /\ backlog["server"] \in Nat
  BY <1>2, Typing, SegmentFacts
<1>5. s \in Segment /\ Size(s) = 0 /\ ~s.fin /\ s.ackno = After("server")
  <2>1. s \in Segment
    BY <1>0, <1>4, TwoEnds, NewSegmentType, EmptyData
  <2> QED
    BY <2>1, EmptyData DEF NewSegment, Size
<1> HIDE DEF s
<1>6. /\ wire'["server"] = wire["server"] /\ wire'["client"] = Append(wire["client"], s)
      /\ in'["server"] = NoSegment /\ in'["client"] = in["client"]
      /\ pc'["server"] = "idle" /\ pc'["client"] = pc["client"]
      /\ received'["server"] = After("server") /\ expected'["server"] = After("server")
      /\ output'["server"] = Append(o, z)
      /\ backlog'["server"] \in {backlog["server"], backlog["server"] + 1}
      /\ backlog'["client"] = backlog["client"]
  BY <1>0, <1>1, <1>3, TwoEnds DEF TypeOK, conn_send
<1>7. Awaited' = Awaited
  BY <1>2, <1>6 DEF Awaited
<1>8. OneWay'
  BY <1>0, <1>1, <1>6 DEF OneWay, sendVars
<1>9. Arrivals'
  <2> DEFINE S == [seqno : Nat, data : Bytes]
  <2>1. o \in Seq(S) /\ z \in S
    BY <1>4, Typing, SegmentFacts
  <2>2. Run(o, 1, expected["server"]) /\ z.seqno = expected["server"]
    BY <1>0, <1>2 DEF Arrivals
  <2>3. Size(z) = Size(in["server"]) /\ End(z) = After("server")
    BY <1>2 DEF End, Size
  <2>4. \A i \in 1..Len(o) : Size(o[i]) >= 1
    BY <1>0 DEF Arrivals
  <2>5. backlog["server"] <= Len(o)
    BY <1>0 DEF Arrivals
  <2> HIDE DEF S, z, o
  <2>6. /\ Len(Append(o, z)) = Len(o) + 1 /\ Len(o) \in Nat
        /\ \A i \in 1..Len(o) : Append(o, z)[i] = o[i]
        /\ Append(o, z)[Len(o) + 1] = z
    BY <2>1, AppendProperties, LenProperties
  <2>7. Run(Append(o, z), 1, After("server"))
    BY <2>1, <2>2, <2>3, RunAppend
  <2>8. \A i \in 1..Len(Append(o, z)) : Size(Append(o, z)[i]) >= 1
    BY <1>2, <1>4, <2>3, <2>4, <2>6
  <2>9. backlog'["server"] <= Len(Append(o, z))
    BY <1>4, <1>6, <2>5, <2>6
  <2> QED
    BY <1>6, <2>7, <2>8, <2>9 DEF Arrivals, Size
<1>10. UNCHANGED clientVars
  BY <1>1, <1>6 DEF clientVars, sendVars
<1>11. AcksOnlyInv'
  <2>1. /\ s.ackno <= expected'["server"] /\ expected'["server"] \in Nat
        /\ expected["server"] <= expected'["server"]
    BY <1>2, <1>4, <1>5, <1>6
  <2> QED
    BY <1>0, <1>5, <1>6, <2>1, AckSent
<1>12. DataOnly'
  BY <1>0, <1>6, <1>10 DEF DataOnly, clientVars
<1>13. Sent'
  <2>1. \A b \in Nat : Lead(wire["server"], Awaited, b) => Lead(wire'["server"], Awaited', b)
    BY <1>6, <1>7
  <2> QED
    BY <1>10, <2>1, ServerFrame
<1>14. AfterEof'
  BY <1>0, <1>1, <1>6, <1>10, EofFrame DEF clientVars, AfterEof
<1> QED
  BY <1>8, <1>9, <1>11, <1>12, <1>13, <1>14 DEF PerfectInv

LEMMA PerfectOutput ==
    ASSUME CtcpInv, PerfectInv, ctcp_output("server") PROVE PerfectInv'
<1> DEFINE s == NewSegment("server", <<>>, FALSE, received["server"])
<1>0. OneWay /\ AcksOnlyInv /\ DataOnly /\ Arrivals /\ AfterEof /\ TypeOK
  BY DEF PerfectInv, CtcpInv, TypeInv
<1>1. PICK left \in 0..backlog["server"] - 1 : backlog' = [backlog EXCEPT !["server"] = left]
  BY DEF ctcp_output
<1>2. /\ conn_send("server", s)
      /\ UNCHANGED <<status, sendVars, connection_state, received, expected, wrote_eof, output,
                     runVars, typed, fins>>
  BY DEF ctcp_output
<1>3. /\ s \in Segment /\ Size(s) = 0 /\ ~s.fin /\ s.ackno = expected["server"]
      /\ expected["server"] \in Nat /\ backlog["server"] \in Nat
  <2>1. s \in Segment
    BY <1>0, TwoEnds, NewSegmentType, EmptyData DEF TypeOK
  <2> QED
    BY <2>1, <1>0, EmptyData, Typing DEF NewSegment, Size, OneWay
<1> HIDE DEF s
<1>4. /\ wire'["server"] = wire["server"] /\ wire'["client"] = Append(wire["client"], s)
      /\ backlog'["server"] = left /\ backlog'["client"] = backlog["client"]
  BY <1>0, <1>1, <1>2, TwoEnds DEF TypeOK, conn_send
<1>5. OneWay' /\ Awaited' = Awaited
  BY <1>0, <1>2, <1>4 DEF OneWay, sendVars, runVars, Awaited
<1>6. Arrivals'
  <2>1. Len(output["server"]) \in Nat /\ left <= backlog["server"]
    BY <1>3, Typing, LenProperties
  <2>2. left <= Len(output["server"])
    BY <1>0, <1>3, <2>1 DEF Arrivals
  <2> QED
    BY <1>0, <1>2, <1>4, <2>2 DEF Arrivals, runVars
<1>7. UNCHANGED clientVars
  BY <1>2, <1>4 DEF clientVars, sendVars, runVars
<1>8. AcksOnlyInv'
  BY <1>0, <1>2, <1>3, <1>4, AckSent DEF runVars
<1>9. DataOnly'
  BY <1>0, <1>2, <1>4, <1>7 DEF DataOnly, clientVars, runVars
<1>10. Sent'
  <2>1. \A b \in Nat : Lead(wire["server"], Awaited, b) => Lead(wire'["server"], Awaited', b)
    BY <1>4, <1>5
  <2> QED
    BY <1>7, <2>1, ServerFrame
<1>11. AfterEof'
  BY <1>0, <1>2, <1>4, <1>7, EofFrame DEF clientVars, AfterEof
<1> QED
  BY <1>5, <1>6, <1>8, <1>9, <1>10, <1>11 DEF PerfectInv

----------------------------------------------------------------------------
\* The steps together

\* Undisturbed, these are the steps there are.
LEMMA StepsLeft ==
    ASSUME Undisturbed, CtcpInv, CopyInv, PerfectInv, [Next]_vars
    PROVE  \/ UNCHANGED vars
           \/ Fill("client") \/ Send("client") \/ SendDone("client")
           \/ \E bdp \in Bdps : Gate("client", bdp)
           \/ \E n \in Chunks : ctcp_read("client", n)
           \/ ReadEof("client") \/ Receive("client") \/ ReceiveData("client")
           \/ \E cwnd \in Cwnds : Ack("client", cwnd)
           \/ ReceiveFin("server") \/ ReceiveAfterFin("server") \/ Receive("server")
           \/ ReceiveData("server") \/ ctcp_output("server")
<1>0. OneWay /\ AcksOnlyInv /\ SenderCopies /\ TypeOK /\ ReadHasPieces
  BY DEF PerfectInv, CopyInv, CtcpInv, TypeInv
<1>1. ASSUME NEW e \in Ends PROVE ~ReadPiece(e)
  BY <1>0 DEF ReadPiece, Up, SenderCopies, ReadHasPieces
<1>2. ASSUME NEW e \in Ends, NEW i PROVE ~ctcp_timer(e, i)
  BY DEF ctcp_timer, Undisturbed
<1>3. ASSUME NEW e \in Ends PROVE ~Network(e)
  BY DEF Network, Lose, Duplicate, Delay, Fault, Undisturbed
<1>4. ASSUME Endpoint("server")
      PROVE  \/ ReceiveFin("server") \/ ReceiveAfterFin("server") \/ Receive("server")
             \/ ReceiveData("server") \/ ctcp_output("server")
  <2>1. ~Sending("server")
    BY <1>0 DEF OneWay, Sending, Fill, Send, SendDone, Gate, Up
  <2>2. ASSUME NEW n \in Chunks PROVE ~ctcp_read("server", n)
    <3>1. n \in Nat \ {0} /\ typed["server"] \in Nat
      BY <1>0, TwoEnds, CtcpAssumption DEF TypeOK
    <3> QED
      BY <3>1 DEF ctcp_read, Undisturbed
  <2>3. ~ReadEof("server")
    BY DEF ReadEof, Undisturbed
  <2>4. ASSUME NEW cwnd PROVE ~Ack("server", cwnd)
    BY <1>0 DEF OneWay, Ack, Acked
  <2> QED
    BY <1>1, <1>2, <1>4, <2>1, <2>2, <2>3, <2>4, TwoEnds DEF Endpoint, Reading, Receiving
<1>5. ASSUME Endpoint("client")
      PROVE  \/ Fill("client") \/ Send("client") \/ SendDone("client")
             \/ \E bdp \in Bdps : Gate("client", bdp)
             \/ \E n \in Chunks : ctcp_read("client", n)
             \/ ReadEof("client") \/ Receive("client") \/ ReceiveData("client")
             \/ \E cwnd \in Cwnds : Ack("client", cwnd)
  <2>1. ~ReceiveFin("client")
    <3> SUFFICES ASSUME wire["client"] # <<>> PROVE ~Head(wire["client"]).fin
      BY DEF ReceiveFin
    <3>1. Head(wire["client"]) = wire["client"][1] /\ 1 \in 1..Len(wire["client"])
      BY Typing, TailFacts
    <3> QED
      BY <1>0, <3>1 DEF AcksOnlyInv
  <2>2. ~ReceiveAfterFin("client")
    BY <1>0 DEF OneWay, ReceiveAfterFin
  <2>3. ~ctcp_output("client")
    BY <1>0 DEF OneWay, ctcp_output
  <2> QED
    BY <1>1, <1>2, <1>5, <2>1, <2>2, <2>3, TwoEnds DEF Endpoint, Sending, Reading, Receiving
<1> QED
  BY <1>3, <1>4, <1>5, TwoEnds DEF Next

LEMMA PerfectNext ==
    Undisturbed /\ CtcpInv /\ CopyInv /\ PerfectInv /\ [Next]_vars => PerfectInv'
<1> SUFFICES ASSUME Undisturbed, CtcpInv, CopyInv, PerfectInv, [Next]_vars
             PROVE  PerfectInv'
  OBVIOUS
<1>1. CASE UNCHANGED vars
  <2>1. UNCHANGED <<OneWay, AcksOnlyInv, DataOnly, Arrivals, AfterEof>>
    BY <1>1 DEF vars, sendVars, recvVars, runVars, OneWay, AcksOnlyInv, IsAck, DataOnly, IsData,
       Arrivals, AfterEof
  <2>2. Awaited' = Awaited
    BY <1>1 DEF vars, recvVars, runVars, Awaited
  <2>3. UNCHANGED clientVars /\ UNCHANGED wire
    BY <1>1 DEF vars, sendVars, recvVars, runVars, clientVars
  <2>4. Sent'
    BY <2>2, <2>3, ServerFrame
  <2> QED
    BY <2>1, <2>4 DEF PerfectInv
<1>2. CASE Fill("client") \/ Send("client") \/ SendDone("client")
  BY <1>2, PerfectFill, PerfectSend, PerfectSendDone
<1>3. CASE \E bdp \in Bdps : Gate("client", bdp)
  BY <1>3, PerfectGate
<1>4. CASE \E n \in Chunks : ctcp_read("client", n)
  BY <1>4, PerfectRead
<1>5. CASE ReadEof("client") \/ Receive("client") \/ ReceiveData("client")
  BY <1>5, PerfectReadEof, PerfectAckReceived, PerfectAckData
<1>6. CASE \E cwnd \in Cwnds : Ack("client", cwnd)
  BY <1>6, PerfectAck
<1>7. CASE ReceiveFin("server") \/ ReceiveAfterFin("server") \/ Receive("server")
  BY <1>7, PerfectReceiveFin, PerfectReceiveAfterFin, PerfectReceive
<1>8. CASE ReceiveData("server") \/ ctcp_output("server")
  BY <1>8, PerfectReceiveData, PerfectOutput
<1> QED
  BY <1>1, <1>2, <1>3, <1>4, <1>5, <1>6, <1>7, <1>8, StepsLeft

LEMMA PerfectInit == Init => PerfectInv
<1> SUFFICES ASSUME Init PROVE PerfectInv
  OBVIOUS
<1>0. /\ Len(<<>>) = 0 /\ <<>> \in Seq(Queued)
      /\ Size(NoSegment) = 0 /\ NoSegment.ackno = 0
  BY EmptySeq DEF NoSegment, Size
<1>1. OneWay
  BY TwoEnds, CtcpAssumption DEF Init, OneWay
<1>2. AcksOnlyInv /\ DataOnly
  BY <1>0, TwoEnds DEF Init, AcksOnlyInv, IsAck, DataOnly
<1>3. Arrivals
  BY <1>0, TwoEnds, RunEmpty DEF Init, Arrivals
<1>4. Flow(0)
  <2>1. Lead(wire["server"], Awaited, Unreached(<<>>, <<>>, 1, 0))
    BY <1>0, TwoEnds, LeadEmpty DEF Init, Awaited, Unreached
  <2>2. SentUpTo(<<>>, 0)
    BY <1>0 DEF SentUpTo
  <2>3. /\ unacknowledged["client"] = <<>> /\ pending["client"] = <<>>
        /\ sequence_number["client"] = 1
    BY TwoEnds DEF Init
  <2> QED
    BY <2>1, <2>2, <2>3 DEF Flow
<1>5. Sent
  BY <1>0, <1>4, TwoEnds DEF Init, Sent
<1>6. AfterEof
  BY <1>0, TwoEnds DEF Init, AfterEof
<1> QED
  BY <1>1, <1>2, <1>3, <1>5, <1>6 DEF PerfectInv

----------------------------------------------------------------------------
\* The stream of CtcpStream

\* What the server has written is what was typed, up to what it expects.
LEMMA WrittenIs ==
    ASSUME NEW o \in Seq([seqno : Nat, data : Bytes]), NEW b, NEW n, Run(o, 1, b), AllCopies(o, n)
    PROVE  b \in Nat \ {0} /\ FlattenSeq([i \in 1..Len(o) |-> o[i].data]) = Typed(b - 1)
<1> DEFINE S == [seqno : Nat, data : Bytes]
<1>1. \A y \in S : y.seqno \in Nat /\ Size(y) \in Nat
  BY LenProperties DEF Bytes, Size
<1>2. o \in Seq(S)
  OBVIOUS
<1> HIDE DEF S
<1>3. \A i \in 1..Len(o) : o[i].seqno \in Nat /\ Size(o[i]) \in Nat
  BY <1>1, <1>2, ElementOfSeq, LenProperties
<1> QED
  BY <1>2, <1>3, FlattenTyped

LEMMA StreamInit == Init => Stream!Init
<1> SUFFICES ASSUME Init PROVE Stream!Init
  OBVIOUS
<1>1. output["server"] = <<>> /\ Len(<<>>) = 0 /\ <<>> \in Seq([seqno : Nat, data : Bytes])
  BY EmptySeq, TwoEnds DEF Init
<1>2. Run(<<>>, 1, 1) /\ AllCopies(<<>>, 0)
  BY RunEmpty, CopiesEmpty
<1>3. Written("server") = Typed(1 - 1)
  BY <1>1, <1>2, WrittenIs DEF Written
<1>4. Typed(1 - 1) = <<>>
  BY DEF Typed
<1> QED
  BY <1>3, <1>4, TwoEnds DEF Init, Stream!Init

StreamState == <<typed["client"], fins["client"] > 0, Written("server"), wrote_eof["server"] /\ ~Overtaken>>

LEMMA AllSent ==
    ASSUME NEW u \in Seq(Queued), NEW k \in 0..Len(u), SentUpTo(u, k)
    PROVE  {i \in 1..Len(u) : ~u[i].sent} = {} <=> k = Len(u)
<1>1. Len(u) \in Nat
  BY LenProperties
<1>2. ASSUME k # Len(u) PROVE k + 1 \in {i \in 1..Len(u) : ~u[i].sent}
  BY <1>1, <1>2 DEF SentUpTo
<1>3. ASSUME k = Len(u) PROVE {i \in 1..Len(u) : ~u[i].sent} = {}
  BY <1>1, <1>3 DEF SentUpTo
<1> QED
  BY <1>2, <1>3

\* What CtcpStream keeps.  Every step is one of its steps, or leaves it alone.
LEMMA StreamStep ==
    ASSUME Undisturbed, CtcpInv, CopyInv, PerfectInv, CtcpInv', CopyInv', PerfectInv', [Next]_vars
    PROVE  Stream!Next \/ UNCHANGED StreamState
<1> DEFINE n == expected["server"]
           m == expected'["server"]
<1>0. OneWay /\ AfterEof /\ TypeOK
  BY DEF PerfectInv, CtcpInv, TypeInv
<1>1. n \in Nat \ {0} /\ Written("server") = Typed(n - 1)
  <2>1. /\ output["server"] \in Seq([seqno : Nat, data : Bytes]) /\ Run(output["server"], 1, n)
        /\ AllCopies(output["server"], typed["client"])
    BY TwoEnds, Typing DEF PerfectInv, Arrivals, CopyInv, OutputFaithful
  <2> QED
    BY <2>1, WrittenIs DEF Written
<1>2. m \in Nat \ {0} /\ Written("server")' = Typed(m - 1)
  <2>1. output'["server"] \in Seq([seqno : Nat, data : Bytes])
    BY TwoEnds DEF CtcpInv, TypeInv, TypeOK
  <2>2. Run(output'["server"], 1, m)
    BY DEF PerfectInv, Arrivals, Run, End, Size
  <2>3. AllCopies(output'["server"], typed'["client"])
    BY TwoEnds DEF CopyInv, OutputFaithful, AllCopies, Copies
  <2>4. m \in Nat \ {0} /\ FlattenSeq([i \in 1..Len(output'["server"]) |-> output'["server"][i].data]) = Typed(m - 1)
    BY <2>1, <2>2, <2>3, WrittenIs
  <2> QED
    BY <2>4 DEF Written
<1>3. /\ typed["client"] \in Nat /\ fins["client"] \in Nat /\ Input["client"] \in Nat
      /\ Len(Written("server")) = n - 1
  <2>1. n - 1 \in Nat
    BY <1>1
  <2>2. Len(Typed(n - 1)) = n - 1
    BY <2>1, TypedFacts
  <2> QED
    BY <1>1, <2>2, Typing
\* EOF counts once it is written, when all of the client's data has been sent.
<1>e. /\ (wrote_eof["server"] /\ ~Overtaken) = (wrote_eof["server"] /\ Unsent("client") = {})
      /\ (wrote_eof["server"] /\ ~Overtaken)' = (wrote_eof'["server"] /\ (Unsent("client") = {})')
      /\ wrote_eof["server"] => fins["client"] > 0
  BY DEF PerfectInv, OneWay, AfterEof, Overtaken
<1>4. ASSUME UNCHANGED <<typed["client"], wrote_eof["server"], expected["server"]>>,
             fins'["client"] > 0 <=> fins["client"] > 0,
             fins["client"] > 0 => ((Unsent("client") = {})' <=> Unsent("client") = {})
      PROVE  UNCHANGED StreamState
  BY <1>1, <1>2, <1>e, <1>4 DEF StreamState
<1>5. ASSUME UNCHANGED <<typed, fins, wrote_eof, expected>>,
             \/ ~(fins["client"] > 0) \/ unacknowledged'["client"] = unacknowledged["client"]
      PROVE  UNCHANGED StreamState
  BY <1>4, <1>5 DEF Unsent
<1>6. CASE UNCHANGED vars
  BY <1>5, <1>6 DEF vars, sendVars, recvVars
<1>7. CASE \/ Fill("client") \/ Send("client") \/ SendDone("client")
           \/ \E bdp \in Bdps : Gate("client", bdp)
  <2>1. ~(fins["client"] > 0)
    BY <1>0, <1>7 DEF AfterEof, Fill, Send, SendDone, Gate, Up
  <2>2. UNCHANGED <<typed, fins, wrote_eof, expected>>
    BY <1>7 DEF recvVars, Fill, Send, SendDone, Gate
  <2> QED
    BY <1>5, <2>1, <2>2
<1>8. CASE \E k \in Chunks : ctcp_read("client", k)
  <2>1. PICK k \in Chunks : ctcp_read("client", k)
    BY <1>8
  <2>2. k \in Nat \ {0} /\ typed'["client"] = typed["client"] + k
    BY <1>0, <2>1, TwoEnds, ReadFits DEF Undisturbed, CopyInv
  <2>3. typed["client"] + k <= Input["client"] /\ UNCHANGED <<fins, wrote_eof, expected>>
    BY <2>1 DEF ctcp_read, recvVars
  <2>4. ~(fins["client"] > 0)
    BY <1>0, <1>3, <2>2, <2>3 DEF OneWay
  <2>5. k \in 1..Input["client"] - typed["client"]
    BY <1>3, <2>2, <2>3
  <2>6. Written("server")' = Written("server")
    BY <1>1, <1>2, <2>3
  <2>7. (wrote_eof["server"] /\ ~Overtaken)' = (wrote_eof["server"] /\ ~Overtaken)
    BY <1>e, <2>3, <2>4
  <2>8. Stream!Type
    BY <2>2, <2>3, <2>4, <2>5, <2>6, <2>7 DEF Stream!Type
  <2> QED
    BY <2>8 DEF Stream!Next
<1>9. CASE ReadEof("client")
  <2>1. fins'["client"] = fins["client"] + 1 /\ UNCHANGED <<typed, wrote_eof, expected>>
        /\ unacknowledged'["client"] = unacknowledged["client"]
    BY <1>0, <1>9, TwoEnds DEF ReadEof, recvVars, TypeOK, OneWay
  <2>2. CASE fins["client"] > 0
    <3>1. fins'["client"] > 0
      BY <1>3, <2>1
    <3> QED
      BY <1>4, <2>1, <2>2, <3>1 DEF Unsent
  <2>3. CASE ~(fins["client"] > 0)
    <3>1. Written("server")' = Written("server")
      BY <1>1, <1>2, <2>1
    <3>2. fins'["client"] > 0
      BY <1>3, <2>1
    <3>3. (wrote_eof["server"] /\ ~Overtaken)' = (wrote_eof["server"] /\ ~Overtaken)
      BY <1>e, <2>1, <2>3
    <3>4. Stream!Close
      BY <2>1, <2>3, <3>1, <3>2, <3>3 DEF Stream!Close
    <3> QED
      BY <3>4 DEF Stream!Next
  <2> QED
    BY <2>2, <2>3
<1>10. CASE Receive("client") \/ Receive("server") \/ ReceiveAfterFin("server") \/ ctcp_output("server")
  <2>1. UNCHANGED <<typed, fins, wrote_eof, expected>>
    BY <1>10 DEF recvVars, Receive, ReceiveAfterFin, ctcp_output
  <2>2. unacknowledged'["client"] = unacknowledged["client"]
    BY <1>0, <1>10, TwoEnds DEF sendVars, Receive, ReceiveAfterFin, ctcp_destroy, ctcp_output, TypeOK
  <2> QED
    BY <1>5, <2>1, <2>2
<1>11. CASE \E cwnd \in Cwnds : Ack("client", cwnd)
  <2> DEFINE u == unacknowledged["client"]
  <2>1. /\ UNCHANGED <<typed, fins, wrote_eof, expected>> /\ Acked("client")
        /\ u # <<>> /\ unacknowledged'["client"] = Tail(u)
    BY <1>0, <1>11, TwoEnds DEF recvVars, Ack, Acked, TypeOK
  <2>2. PICK k \in 0..Len(u) : Flow(k)
    BY DEF PerfectInv, Sent
  <2>3. u \in Seq(Queued) /\ Tail(u) \in Seq(Queued) /\ Len(u) \in Nat \ {0} /\ Len(Tail(u)) = Len(u) - 1
    BY <2>1, Typing, TailFacts
  <2>4. k \in 1..Len(u)
    BY <2>1, <2>2, <2>3, AckedIsSent
  <2>5. SentUpTo(u, k) /\ SentUpTo(Tail(u), k - 1) /\ k - 1 \in 0..Len(Tail(u))
    <3>1. SentUpTo(u, k)
      BY <2>2 DEF Flow
    <3> HIDE DEF u
    <3> QED
      BY <2>1, <2>3, <2>4, <3>1, AckFlow
  <2> HIDE DEF u
  <2>6. /\ {i \in 1..Len(u) : ~u[i].sent} = {} <=> k = Len(u)
        /\ {i \in 1..Len(Tail(u)) : ~Tail(u)[i].sent} = {} <=> k - 1 = Len(Tail(u))
    BY <2>2, <2>3, <2>5, AllSent
  <2>7. (Unsent("client") = {})' <=> Unsent("client") = {}
    BY <2>1, <2>3, <2>4, <2>6 DEF Unsent, u
  <2> QED
    BY <1>4, <2>1, <2>7
<1>12. CASE ReceiveData("client")
  <2>1. UNCHANGED <<typed, fins, wrote_eof, unacknowledged>>
    BY <1>12 DEF ReceiveData, sendVars
  <2>2. expected'["server"] = expected["server"]
    BY <1>0, <1>12, TwoEnds DEF ReceiveData, TypeOK
  <2> QED
    BY <1>4, <2>1, <2>2 DEF Unsent
<1>13. CASE ReceiveFin("server")
  <2> DEFINE u == unacknowledged["client"]
             b(k) == Unreached(u, pending["client"], sequence_number["client"], k)
  <2>1. /\ wire["server"] # <<>> /\ Head(wire["server"]).fin /\ pc["server"] = "idle"
        /\ UNCHANGED <<typed, fins, expected, unacknowledged>> /\ wrote_eof'["server"] = TRUE
        /\ connection_state["server"] = 0
    BY <1>0, <1>13, TwoEnds DEF ReceiveFin, Up, sendVars, TypeOK
  <2>2. /\ IsData(Head(wire["server"]), fins["client"]) /\ wire["server"] \in Seq(Segment)
    BY <2>1, HeadFacts, Typing
  <2>3. fins["client"] > 0 /\ pending["client"] = <<>> /\ typed["client"] = Input["client"]
    BY <1>0, <2>1, <2>2 DEF IsData, AfterEof, OneWay
  <2>4. Awaited = n /\ ~wrote_eof["server"]
    BY <1>0, <2>1 DEF OneWay, Awaited
  <2>5. Written("server")' = Written("server")
    BY <1>1, <1>2, <2>1
  <2>6. CASE Unsent("client") # {}
    <3>1. (wrote_eof["server"] /\ ~Overtaken)' = (wrote_eof["server"] /\ ~Overtaken)
      BY <1>e, <2>1, <2>4, <2>6 DEF Unsent
    <3> QED
      BY <2>1, <2>5, <3>1 DEF StreamState
  <2>7. CASE Unsent("client") = {}
    <3>1. PICK k \in 0..Len(u) : Flow(k)
      BY DEF PerfectInv, Sent
    <3>2. u \in Seq(Queued) /\ Len(u) \in Nat /\ k \in Nat
      BY Typing, LenProperties
    <3>3. k = Len(u)
      <4>1. SentUpTo(u, k)
        BY <3>1 DEF Flow
      <4>2. {i \in 1..Len(u) : ~u[i].sent} = {}
        BY <2>7 DEF Unsent
      <4> HIDE DEF u
      <4> QED
        BY <3>1, <3>2, <4>1, <4>2, AllSent
    <3>4. b(k) = typed["client"] + 1
      <4>1. b(k) = sequence_number["client"]
        BY <2>3, <3>3 DEF Unreached
      <4>2. sequence_number["client"] = typed["client"] + 1
        BY <2>3, TwoEnds DEF CopyInv, SenderCopies
      <4> QED
        BY <4>1, <4>2
    <3>5. Lead(wire["server"], Awaited, b(k)) /\ b(k) \in Nat
      BY <3>1, <3>2, UnreachedNat DEF Flow
    <3> HIDE DEF b
    <3>6. Awaited = b(k)
      <4>1. Size(Head(wire["server"])) = 0
        BY <2>1, <2>2 DEF IsData
      <4> QED
        BY <2>1, <2>2, <3>5, <4>1, LeadTail
    <3>7. Len(Written("server")) = typed["client"]
      BY <1>3, <2>4, <3>4, <3>6
    <3>8. (wrote_eof["server"] /\ ~Overtaken)'
      BY <1>e, <2>1, <2>7 DEF Unsent
    <3>9. Stream!End
      BY <2>1, <2>3, <2>5, <3>7, <3>8 DEF Stream!End
    <3> QED
      BY <3>9 DEF Stream!Next
  <2> QED
    BY <2>6, <2>7
<1>14. CASE ReceiveData("server")
  <2>1. pc["server"] = "acks" /\ UNCHANGED <<typed, fins, wrote_eof, unacknowledged>>
    BY <1>14 DEF ReceiveData, Up, sendVars
  <2>2. /\ Size(in["server"]) > 0 /\ Fresh("server") /\ ~wrote_eof["server"]
        /\ After("server") = n + Size(in["server"]) /\ After("server") <= typed["client"] + 1
    BY <2>1, ArrivalFits DEF Outputs
  <2>3. m = After("server")
    BY <1>0, <1>14, <2>2, TwoEnds DEF ReceiveData, TypeOK
  <2>4. Size(in["server"]) \in Nat
    BY Typing, SegmentFacts
  <2> DEFINE k == m - 1
  <2>5. k \in (n - 1) + 1..typed["client"]
    BY <1>1, <1>2, <1>3, <2>2, <2>3, <2>4
  <2>6. Written("server")' = [i \in 1..k |-> i]
    BY <1>2 DEF Typed
  <2> HIDE DEF k
  <2>7. (wrote_eof["server"] /\ ~Overtaken)' = (wrote_eof["server"] /\ ~Overtaken)
    BY <1>e, <2>1, <2>2
  <2>8. Stream!Write
    BY <1>3, <2>1, <2>2, <2>5, <2>6, <2>7 DEF Stream!Write
  <2> QED
    BY <2>8 DEF Stream!Next
<1> QED
  BY <1>6, <1>7, <1>8, <1>9, <1>10, <1>11, <1>12, <1>13, <1>14, StepsLeft

\* The invariants together.
LEMMA PerfectSafe == Undisturbed => (Spec => [](CtcpInv /\ CopyInv /\ PerfectInv))
<1> SUFFICES ASSUME Undisturbed PROVE Spec => [](CtcpInv /\ CopyInv /\ PerfectInv)
  OBVIOUS
<1>1. FittingReads
  BY DEF Undisturbed
<1>2. CtcpInv /\ CopyInv /\ [Next]_vars => CopyInv'
  BY <1>1, CopyNext
<1>3. CtcpInv /\ CopyInv /\ PerfectInv /\ [Next]_vars => PerfectInv'
  BY PerfectNext
<1> QED
  BY <1>2, <1>3, CopyInit, PerfectInit, CtcpSafe, PTL DEF Spec

\* Undisturbed, what ctcp_read reads at the client is what ctcp_receive outputs
\* at the server, every byte once and in order, and EOF is written after the
\* last byte unless the FIN has overtaken data that the client has not sent:
\* Ctcp implements CtcpStream in the sense of ImplementsStream, for any amount
\* of data, sizes of reads, windows and products of BBR, widths of the counters
\* and interleaving of the two ends.
THEOREM StreamArrives == Undisturbed => (Spec => ImplementsStream)
<1> SUFFICES ASSUME Undisturbed PROVE Spec => ImplementsStream
  OBVIOUS
<1>1. Spec => [](CtcpInv /\ CopyInv /\ PerfectInv)
  BY PerfectSafe
<1>2. /\ CtcpInv /\ CopyInv /\ PerfectInv /\ CtcpInv' /\ CopyInv' /\ PerfectInv' /\ [Next]_vars
         => [Stream!Next]_StreamState
  BY StreamStep
<1> QED
  BY <1>1, <1>2, StreamInit, PTL DEF Spec, ImplementsStream, Stream!Spec, StreamState
=============================================================================
