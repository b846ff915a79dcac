---------------------------- MODULE CtcpIOProofs ----------------------------
(***************************************************************************)
(* Proofs about CtcpIO for any number of connections, any buffer space and *)
(* whatever the readers take of each write: types, how far the queue may   *)
(* outgrow its bound, and that every byte received is accounted for.       *)
(***************************************************************************)
EXTENDS CtcpIO, FiniteSetTheorems, SequenceTheorems, TLAPS

\* The bytes of a queue, and its chunks in order.
InQueue(q) == UNION {k.first..k.last : k \in ToSet(q)}
Sorted(q) == \A i, j \in 1..Len(q) : i < j => q[i].last < q[j].first

\* Of n bytes received W are written, R refused and the rest in the queue q.
Account(W, q, R, n) ==
    /\ W \cup InQueue(q) \cup R = 1..n
    /\ W \cap InQueue(q) = {} /\ R \cap (W \cup InQueue(q)) = {}
    /\ \A b \in W, x \in InQueue(q) : b < x
    /\ Sorted(q)

Accounted(c) == Account(written[c], out_queue[c], refused[c], received[c])

\* OutputAccounted is about the connections in the list; the others have no
\* bytes, which NewClient relies on.
IOInv == TypeOK /\ \A c \in Conns : Accounted(c)

\* A write to a program takes all of a segment, and so leaves nothing to queue;
\* what is being written was within the bound when it came.
ForPrograms ==
    /\ run_program => \A c \in Conns : out_queue[c] = <<>>
    /\ stage = "program" =>
          run_program /\ received[segment.conn] + segment.length <= MaxReceived

----------------------------------------------------------------------------
\* Queues

LEMMA ChunkFacts ==
    ASSUME NEW k \in Chunks
    PROVE  /\ k.first \in Nat /\ k.last \in Nat /\ 1 <= k.first
           /\ k.first <= k.last /\ k.last <= MaxReceived
           /\ Size(k) \in Nat \ {0}
  BY IOAssumption DEF Chunks, Bytes, Size

LEMMA QueueMember ==
    ASSUME NEW q \in Seq(Chunks), NEW b
    PROVE  b \in InQueue(q) <=> \E i \in 1..Len(q) : b \in q[i].first..q[i].last
<1>1. DOMAIN q = 1..Len(q) /\ \A i \in 1..Len(q) : q[i] \in Chunks
  OBVIOUS
<1>2. ToSet(q) = {q[i] : i \in 1..Len(q)}
  BY <1>1 DEF ToSet
<1>3. InQueue(q) = UNION {k.first..k.last : k \in {q[i] : i \in 1..Len(q)}}
  BY <1>2 DEF InQueue
<1> QED
  BY <1>3

LEMMA EmptyQueue == InQueue(<<>>) = {} /\ Sorted(<<>>) /\ <<>> \in Seq(Chunks)
<1>1. <<>> \in Seq(Chunks) /\ Len(<<>>) = 0
  BY EmptySeq
<1>2. \A b : b \notin InQueue(<<>>)
  <2> TAKE b
  <2>1. b \in InQueue(<<>>) <=>
            \E i \in 1..Len(<<>>) : b \in (<<>>)[i].first..(<<>>)[i].last
    BY <1>1, QueueMember
  <2>2. 1..Len(<<>>) = {}
    BY <1>1
  <2> QED
    BY <2>1, <2>2
<1>3. InQueue(<<>>) = {}
  BY <1>2
<1> QED
  BY <1>1, <1>3 DEF Sorted

LEMMA QueueBytes ==
    ASSUME NEW q \in Seq(Chunks)
    PROVE  InQueue(q) \subseteq Bytes /\ IsFiniteSet(InQueue(q))
<1>1. \A i \in 1..Len(q) : q[i] \in Chunks
  OBVIOUS
<1>2. InQueue(q) \subseteq Bytes
  BY <1>1, QueueMember, ChunkFacts, IOAssumption DEF Bytes
<1>3. IsFiniteSet(Bytes)
  BY FS_Interval, IOAssumption DEF Bytes
<1> QED
  BY <1>2, <1>3, FS_Subset

\* A chunk at the end of a queue.
LEMMA AppendChunk ==
    ASSUME NEW q \in Seq(Chunks), NEW k \in Chunks, Sorted(q),
           \A x \in InQueue(q) : x < k.first
    PROVE  /\ Append(q, k) \in Seq(Chunks) /\ Sorted(Append(q, k))
           /\ InQueue(Append(q, k)) = InQueue(q) \cup k.first..k.last
<1> DEFINE r == Append(q, k)
<1>1. /\ r \in Seq(Chunks) /\ Len(r) = Len(q) + 1 /\ Len(q) \in Nat
      /\ \A i \in 1..Len(q) : r[i] = q[i]
      /\ r[Len(q) + 1] = k
  BY AppendProperties
<1> HIDE DEF r
<1>2. \A b : b \in InQueue(r) <=> \E i \in 1..Len(r) : b \in r[i].first..r[i].last
  BY <1>1, QueueMember
<1>3. \A b : b \in InQueue(q) <=> \E i \in 1..Len(q) : b \in q[i].first..q[i].last
  BY QueueMember
<1>4. 1..Len(r) = 1..Len(q) \cup {Len(q) + 1}
  BY <1>1
<1>5. InQueue(r) = InQueue(q) \cup k.first..k.last
  BY <1>1, <1>2, <1>3, <1>4
<1>6. \A i \in 1..Len(q) : q[i].last < k.first
  <2> TAKE i \in 1..Len(q)
  <2>1. q[i] \in Chunks
    OBVIOUS
  <2>2. q[i].last \in q[i].first..q[i].last
    BY <2>1, ChunkFacts
  <2> QED
    BY <2>2, <1>3
<1>7. Sorted(r)
  BY <1>1, <1>4, <1>6 DEF Sorted
<1> QED
  BY <1>1, <1>5, <1>7 DEF r

\* The queue when w bytes of its head are written: they are its first, and
\* only they have left it.
LEMMA HeadWritten ==
    ASSUME NEW q \in Seq(Chunks), q # <<>>, Sorted(q), NEW w \in 0..Size(Head(q))
    PROVE  LET k == Head(q) r == AfterWrite(q, w) IN
           /\ r \in Seq(Chunks) /\ Sorted(r)
           /\ k.first..k.first + w - 1 \subseteq InQueue(q)
           /\ InQueue(r) = InQueue(q) \ (k.first..k.first + w - 1)
           /\ \A x \in InQueue(r) : k.first + w <= x
<1> DEFINE k == Head(q)
           r == AfterWrite(q, w)
<1>1. /\ Len(q) \in Nat \ {0} /\ k = q[1] /\ k \in Chunks
      /\ \A i \in 1..Len(q) : q[i] \in Chunks
  BY EmptySeq, HeadTailProperties
<1>2. /\ k.first \in Nat /\ k.last \in Nat /\ k.first <= k.last /\ 1 <= k.first
      /\ k.last <= MaxReceived /\ Size(k) = k.last - k.first + 1 /\ w \in Nat
  BY <1>1, ChunkFacts DEF Size
<1>3. \A b : b \in InQueue(q) <=> \E i \in 1..Len(q) : b \in q[i].first..q[i].last
  BY QueueMember
<1>4. \A i \in 2..Len(q) : k.last < q[i].first
  BY <1>1 DEF Sorted
<1>5. k.first..k.first + w - 1 \subseteq InQueue(q)
  BY <1>1, <1>2, <1>3
<1>6. CASE w = Size(k)
  <2>1. /\ r = Tail(q) /\ r \in Seq(Chunks) /\ Len(r) = Len(q) - 1
        /\ \A i \in 1..Len(r) : r[i] = q[i + 1]
    BY <1>1, <1>6, HeadTailProperties DEF AfterWrite
  <2>2. \A b : b \in InQueue(r) <=> \E i \in 1..Len(r) : b \in r[i].first..r[i].last
    BY <2>1, QueueMember
  <2>3. \A b : b \in InQueue(r) <=> \E i \in 2..Len(q) : b \in q[i].first..q[i].last
    <3> TAKE b
    <3>1. ASSUME NEW i \in 1..Len(r), b \in r[i].first..r[i].last
          PROVE  \E j \in 2..Len(q) : b \in q[j].first..q[j].last
      <4>1. i + 1 \in 2..Len(q)
        BY <2>1, <1>1
      <4> QED
        BY <4>1, <3>1, <2>1
    <3>2. ASSUME NEW j \in 2..Len(q), b \in q[j].first..q[j].last
          PROVE  \E i \in 1..Len(r) : b \in r[i].first..r[i].last
      <4>1. j - 1 \in 1..Len(r) /\ r[j - 1] = q[j]
        BY <2>1, <1>1
      <4> QED
        BY <4>1, <3>2
    <3> QED
      BY <2>2, <3>1, <3>2
  <2>4. \A i \in 2..Len(q) : q[i].first \in Nat /\ q[i].last \in Nat
    BY <1>1, ChunkFacts
  <2>5. \A b \in InQueue(r) : b \in Nat /\ k.last < b
    BY <2>3, <2>4, <1>2, <1>4
  <2>6. 1..Len(q) = {1} \cup 2..Len(q)
    BY <1>1
  <2>7. \A b : b \in InQueue(q) <=> b \in k.first..k.last \/ b \in InQueue(r)
    BY <2>3, <2>6, <1>1, <1>3
  <2>8. k.first..k.first + w - 1 = k.first..k.last
    BY <1>2, <1>6
  <2>9. InQueue(r) = InQueue(q) \ (k.first..k.first + w - 1)
    BY <2>5, <2>7, <2>8, <1>2
  <2>10. Sorted(r)
    BY <2>1, <1>1 DEF Sorted
  <2>11. \A x \in InQueue(r) : k.first + w <= x
    BY <2>5, <1>2, <1>6
  <2> QED
    BY <2>1, <2>9, <2>10, <2>11, <1>5
<1>7. CASE w # Size(k)
  <2> DEFINE h == [first |-> k.first + w, last |-> k.last]
  <2>1. h \in Chunks /\ h.first = k.first + w /\ h.last = k.last
    BY <1>1, <1>2, <1>7, IOAssumption DEF Chunks, Bytes
  <2>2. r = [q EXCEPT ![1] = h]
    BY <1>1, <1>7 DEF AfterWrite
  <2> HIDE DEF h
  <2>3. /\ r \in Seq(Chunks) /\ Len(r) = Len(q) /\ r[1] = h
        /\ \A i \in 2..Len(q) : r[i] = q[i]
    BY <1>1, <2>1, <2>2
  <2>4. \A b : b \in InQueue(r) <=> \E i \in 1..Len(q) : b \in r[i].first..r[i].last
    BY <2>3, QueueMember
  <2>5. 1..Len(q) = {1} \cup 2..Len(q)
    BY <1>1
  <2>6. \A b : b \in InQueue(r) <=>
                  b \in h.first..h.last \/ \E i \in 2..Len(q) : b \in q[i].first..q[i].last
    BY <2>3, <2>4, <2>5
  <2>7. \A b : b \in InQueue(q) <=>
                  b \in k.first..k.last \/ \E i \in 2..Len(q) : b \in q[i].first..q[i].last
    BY <2>5, <1>1, <1>3
  <2>8. \A i \in 2..Len(q) : q[i].first \in Nat /\ q[i].last \in Nat
    BY <1>1, ChunkFacts
  <2>9. \A b : (\E i \in 2..Len(q) : b \in q[i].first..q[i].last) => b \in Nat /\ k.last < b
    BY <2>8, <1>2, <1>4
  <2>10. InQueue(r) = InQueue(q) \ (k.first..k.first + w - 1)
    <3>1. \A b : b \in h.first..h.last <=>
                     b \in k.first..k.last /\ b \notin k.first..k.first + w - 1
      BY <2>1, <1>2
    <3>2. \A b \in Nat : k.last < b => b \notin k.first..k.first + w - 1
      BY <1>2
    <3> QED
      BY <2>6, <2>7, <2>9, <3>1, <3>2
  <2>11. \A x \in InQueue(r) : k.first + w <= x
    BY <2>1, <2>6, <2>9, <1>2
  <2>12. Sorted(r)
    BY <2>1, <2>3, <2>5, <1>1 DEF Sorted
  <2> QED
    BY <2>3, <2>10, <2>11, <2>12, <1>5
<1> QED
  BY <1>6, <1>7

----------------------------------------------------------------------------
\* Accounts

LEMMA QueuedIs == \A c \in Conns : Queued(c) = InQueue(out_queue[c])
  BY DEF Queued, InQueue

\* What drains moves from the queue to what is written.
LEMMA AccountDrains ==
    ASSUME NEW W, NEW q \in Seq(Chunks), NEW R, NEW n \in Nat, Account(W, q, R, n),
           q # <<>>, NEW w \in 0..Size(Head(q))
    PROVE  Account(W \cup (Head(q).first..Head(q).first + w - 1), AfterWrite(q, w), R, n)
<1> DEFINE k == Head(q)
           r == AfterWrite(q, w)
           N == k.first..k.first + w - 1
<1>1. /\ r \in Seq(Chunks) /\ Sorted(r) /\ N \subseteq InQueue(q)
      /\ InQueue(r) = InQueue(q) \ N
      /\ \A x \in InQueue(r) : k.first + w <= x
  BY HeadWritten DEF Account
<1>2. k \in Chunks
  BY EmptySeq, HeadTailProperties
<1>3. k.first \in Nat /\ w \in Nat
  BY <1>2, ChunkFacts
<1>4. \A x \in InQueue(r) : x \in Nat
  BY <1>1, QueueBytes, IOAssumption DEF Bytes
<1>5. \A b \in N, x \in InQueue(r) : b < x
  BY <1>1, <1>3, <1>4
<1> HIDE DEF N, r
<1>6. Account(W \cup N, r, R, n)
  BY <1>1, <1>5 DEF Account
<1> QED
  BY <1>6 DEF N, r

\* What is received is written, then queued.
LEMMA AccountGrows ==
    ASSUME NEW W, NEW q \in Seq(Chunks), NEW R, NEW n \in Nat, Account(W, q, R, n),
           NEW m \in Nat, n + m <= MaxReceived, NEW w \in 0..m, w > 0 => q = <<>>
    PROVE  LET r == IF n + 1 + w <= n + m
                    THEN Append(q, [first |-> n + 1 + w, last |-> n + m]) ELSE q
           IN  /\ r \in Seq(Chunks) /\ InQueue(r) \subseteq InQueue(q) \cup n + 1..n + m
               /\ Account(W \cup (n + 1..n + 1 + w - 1), r, R, n + m)
<1> DEFINE k == [first |-> n + 1 + w, last |-> n + m]
           r == IF n + 1 + w <= n + m THEN Append(q, k) ELSE q
           N == n + 1..n + 1 + w - 1
<1>1. /\ W \cup InQueue(q) \cup R = 1..n
      /\ W \cap InQueue(q) = {} /\ R \cap (W \cup InQueue(q)) = {}
      /\ \A b \in W, x \in InQueue(q) : b < x
      /\ Sorted(q)
  BY DEF Account
<1>2. w \in Nat /\ w <= m
  OBVIOUS
<1>3. r \in Seq(Chunks) /\ Sorted(r) /\ InQueue(r) = InQueue(q) \cup (n + 1 + w..n + m)
  <2>1. CASE n + 1 + w <= n + m
    <3>1. k \in Chunks
      BY <2>1, <1>2, IOAssumption DEF Chunks, Bytes
    <3>2. \A x \in InQueue(q) : x < k.first
      BY <1>1, <1>2
    <3>3. /\ Append(q, k) \in Seq(Chunks) /\ Sorted(Append(q, k))
          /\ InQueue(Append(q, k)) = InQueue(q) \cup k.first..k.last
      BY <3>1, <3>2, <1>1, AppendChunk
    <3> QED
      BY <2>1, <3>3
  <2>2. CASE ~(n + 1 + w <= n + m)
    <3>1. n + 1 + w..n + m = {}
      BY <2>2, <1>2
    <3> QED
      BY <2>2, <3>1, <1>1
  <2> QED
    BY <2>1, <2>2
<1>4. N \cup (n + 1 + w..n + m) = n + 1..n + m /\ N \cap (n + 1 + w..n + m) = {}
  BY <1>2
<1>5. 1..n \cup (n + 1..n + m) = 1..n + m /\ 1..n \cap (n + 1..n + m) = {}
  OBVIOUS
<1>6. w > 0 => InQueue(q) = {}
  BY EmptyQueue
<1>7. w = 0 => N = {}
  OBVIOUS
<1>8. \A b \in N, x \in n + 1 + w..n + m : b < x
  BY <1>2
<1>9. \A b \in 1..n, x \in n + 1 + w..n + m : b < x
  BY <1>2
<1> DEFINE Q == n + 1 + w..n + m
<1> HIDE DEF r, N, Q
<1>10. InQueue(r) = InQueue(q) \cup Q /\ N \cup Q = n + 1..n + m /\ N \cap Q = {}
  BY <1>3, <1>4 DEF Q
<1>11. (W \cup N) \cup InQueue(r) \cup R = 1..n + m
  BY <1>1, <1>5, <1>10
<1>12. (W \cup N) \cap InQueue(r) = {} /\ R \cap ((W \cup N) \cup InQueue(r)) = {}
  BY <1>1, <1>5, <1>6, <1>7, <1>10, <1>2
<1>13. \A b \in W \cup N, x \in InQueue(r) : b < x
  <2>1. \A b \in W, x \in Q : b < x
    BY <1>1, <1>9 DEF Q
  <2>2. \A b \in N, x \in Q : b < x
    BY <1>8 DEF Q
  <2>3. \A b \in N, x \in InQueue(q) : b < x
    BY <1>6, <1>7, <1>2
  <2> QED
    BY <2>1, <2>2, <2>3, <1>1, <1>10
<1>14. Account(W \cup N, r, R, n + m)
  BY <1>3, <1>11, <1>12, <1>13 DEF Account
<1>15. InQueue(r) \subseteq InQueue(q) \cup n + 1..n + m
  BY <1>10
<1> QED
  BY <1>3, <1>14, <1>15 DEF r, N

LEMMA AccountRefuses ==
    ASSUME NEW W, NEW q, NEW R, NEW n \in Nat, Account(W, q, R, n), NEW m \in Nat
    PROVE  Account(W, q, R \cup (n + 1..n + m), n + m)
<1>1. 1..n \cup (n + 1..n + m) = 1..n + m /\ 1..n \cap (n + 1..n + m) = {}
  OBVIOUS
<1> QED
  BY <1>1 DEF Account
----------------------------------------------------------------------------
\* The initial state, and steps that leave the queues alone

LEMMA EmptyAccount == Account({}, <<>>, {}, 0)
  BY EmptyQueue DEF Account

LEMMA BoundPositive == Cardinality({}) < MAX_BUF_SPACE + MaxLen
<1>1. Cardinality({}) = 0
  BY FS_EmptySet
<1> QED
  BY <1>1, IOAssumption

LEMMA IOInit == Init => IOInv /\ ForPrograms
<1> SUFFICES ASSUME Init PROVE IOInv /\ ForPrograms
  OBVIOUS
<1> USE IOAssumption DEF Init
<1>1. \A c \in Conns : Queued(c) = {} /\ Accounted(c)
  BY QueuedIs, EmptyQueue, EmptyAccount DEF Accounted
<1>2. QueueBounded
  BY <1>1, BoundPositive DEF QueueBounded
<1>3. TypeOK
  <2>1. room \in [Peers -> Nat] /\ \A p \in Peers : room[p] <= Limit(p)
    BY DEF Limit
  <2>2. segment \in [conn : Nat, length : 0..MaxLen]
    BY DEF NoSegment
  <2> QED
    BY <1>2, <2>1, <2>2, EmptyQueue DEF TypeOK, Peers
<1> QED
  BY <1>1, <1>3 DEF IOInv, ForPrograms

LEMMA SameQueues ==
    ASSUME IOInv, UNCHANGED <<out_queue, byteVars>>
    PROVE  QueueBounded' /\ \A c \in Conns : Accounted(c)'
<1>1. \A c \in Conns : Queued(c)' = Queued(c)
  BY DEF Queued
<1>2. QueueBounded'
  BY <1>1 DEF IOInv, TypeOK, QueueBounded
<1>3. \A c \in Conns : Accounted(c)'
  BY DEF IOInv, Accounted, byteVars
<1> QED
  BY <1>2, <1>3

LEMMA ReadTypes ==
    ASSUME TypeOK, NEW S, S \subseteq Conns, ctcp_read(S)
    PROVE  /\ pending' \subseteq Peers /\ waiting' \subseteq Conns
           /\ read_eof' \subseteq Conns /\ delete_me' \subseteq Conns
  BY DEF ctcp_read, ReadToEnd, TypeOK

LEMMA DrainNextType ==
    ASSUME NEW rest, DrainNext(rest)
    PROVE  stage' \in {"drain", "programs", "socket"}
  BY DEF DrainNext, Then

----------------------------------------------------------------------------
\* The loop

LEMMA PollStep == ASSUME IOInv, Poll PROVE IOInv'
<1> USE DEF listVars, byteVars
<1>1. TypeOK
  BY DEF IOInv
<1>2. QueueBounded' /\ \A c \in Conns : Accounted(c)'
  BY SameQueues DEF Poll
<1>3. /\ pending' \subseteq Peers /\ waiting' \subseteq Conns
      /\ read_eof' \subseteq Conns /\ delete_me' \subseteq Conns
  <2> DEFINE S == IF ~run_program /\ Terminal \in Readable
                  THEN {c \in connections : IsNewest(c, connections)} ELSE {}
  <2>1. S \subseteq Conns
    BY <1>1 DEF TypeOK
  <2>2. ctcp_read(S)
    BY DEF Poll
  <2> QED
    BY <1>1, <2>1, <2>2, ReadTypes
<1>4. stage' \in {"drain", "programs", "socket"}
  BY DrainNextType DEF Poll
<1>5. ready' \subseteq Conns /\ draining' \subseteq Conns
  BY <1>1 DEF Poll, TypeOK
<1>6. TypeOK'
  BY <1>1, <1>2, <1>3, <1>4, <1>5 DEF Poll, TypeOK
<1> QED
  BY <1>2, <1>6 DEF IOInv

LEMMA ProgramsStep == ASSUME IOInv, Programs PROVE IOInv'
<1> USE DEF listVars, byteVars
<1>1. TypeOK
  BY DEF IOInv
<1>2. QueueBounded' /\ \A c \in Conns : Accounted(c)'
  BY SameQueues DEF Programs
<1>3. /\ pending' \subseteq Peers /\ waiting' \subseteq Conns
      /\ read_eof' \subseteq Conns /\ delete_me' \subseteq Conns
  BY <1>1, ReadTypes DEF Programs, TypeOK
<1>4. TypeOK'
  BY <1>1, <1>2, <1>3 DEF Programs, Then, TypeOK
<1> QED
  BY <1>2, <1>4 DEF IOInv

\* The steps of conn_drain that write nothing.
LEMMA DrainsNothing ==
    ASSUME IOInv, NEW c \in Conns, DrainEnter(c) \/ DrainError(c) PROVE IOInv'
<1> USE DEF listVars, byteVars, peerVars
<1>1. TypeOK
  BY DEF IOInv
<1>2. QueueBounded' /\ \A d \in Conns : Accounted(d)'
  BY SameQueues DEF DrainEnter, DrainError
<1>3. stage' \in {"write", "drain", "programs", "socket"} /\ draining' \subseteq Conns
  BY <1>1, DrainNextType DEF DrainEnter, DrainError, Leave, Then, TypeOK
<1>4. wrote_err' \subseteq Conns /\ stalled' \subseteq Conns /\ pollout' \in BOOLEAN
  BY <1>1 DEF DrainEnter, DrainError, EndOutput, Left, TypeOK
<1>5. TypeOK'
  BY <1>1, <1>2, <1>3, <1>4 DEF DrainEnter, DrainError, TypeOK
<1> QED
  BY <1>2, <1>5 DEF IOInv

\* What a write to the terminal takes.
LEMMA TakesRange ==
    ASSUME TypeOK, NEW n \in Nat
    PROVE  /\ Takes(n) \in 0..n /\ room[Terminal] - Takes(n) \in Nat
           /\ room[Terminal] - Takes(n) <= Limit(Terminal)
<1>1. /\ room[Terminal] \in Nat /\ Limit(Terminal) \in Nat
      /\ room[Terminal] <= Limit(Terminal)
  BY IOAssumption DEF TypeOK, Peers, Limit
<1> QED
  BY <1>1 DEF Takes

LEMMA PeerType == ASSUME NEW c \in Conns PROVE Peer(c) \in Peers
  BY DEF Peer, Peers

\* The reader of c when w bytes have been written to it.
LEMMA RoomLeft ==
    ASSUME TypeOK, NEW c \in Conns, NEW from, NEW w, WriteTo(c, from, w),
           room[Peer(c)] - w \in Nat, room[Peer(c)] - w <= Limit(Peer(c))
    PROVE  room' \in [Peers -> Nat] /\ \A p \in Peers : room'[p] <= Limit(p)
  BY PeerType DEF WriteTo, TypeOK

\* A queue that has lost bytes, or got at most n more, keeps its bound.
LEMMA BoundKept ==
    ASSUME NEW q \in Seq(Chunks), NEW r \in Seq(Chunks), NEW n \in Nat, NEW m \in 0..MaxLen,
           InQueue(r) \subseteq InQueue(q) \cup (n + 1..n + m), NEW bound \in Nat,
           Cardinality(InQueue(q)) < bound
    PROVE  Cardinality(InQueue(r)) < bound + m
<1>1. /\ IsFiniteSet(InQueue(q)) /\ IsFiniteSet(n + 1..n + m)
      /\ Cardinality(n + 1..n + m) = m
  BY QueueBytes, FS_Interval, IOAssumption
<1>2. /\ IsFiniteSet(InQueue(q) \cup (n + 1..n + m))
      /\ Cardinality(InQueue(q) \cup (n + 1..n + m)) =
            Cardinality(InQueue(q)) + m - Cardinality(InQueue(q) \cap (n + 1..n + m))
  BY <1>1, FS_Union
<1>3. /\ Cardinality(InQueue(q)) \in Nat
      /\ Cardinality(InQueue(q) \cap (n + 1..n + m)) \in Nat
  <2>1. IsFiniteSet(InQueue(q) \cap (n + 1..n + m))
    BY <1>1, FS_Subset
  <2> QED
    BY <1>1, <2>1, FS_CardinalityType
<1>4. /\ Cardinality(InQueue(r)) <= Cardinality(InQueue(q) \cup (n + 1..n + m))
      /\ Cardinality(InQueue(r)) \in Nat
  BY <1>2, QueueBytes, FS_Subset, FS_CardinalityType
<1> QED
  BY <1>2, <1>3, <1>4

LEMMA DrainWriteStep ==
    ASSUME IOInv, ForPrograms, NEW c \in Conns, DrainWrite(c) PROVE IOInv'
<1> DEFINE q == out_queue[c]
           k == Head(q)
           w == Takes(Size(k))
<1> USE DEF listVars, byteVars, peerVars
<1>1. TypeOK /\ Accounted(c)
  BY DEF IOInv
<1>2. q \in Seq(Chunks) /\ q # <<>> /\ k \in Chunks
  BY <1>1, EmptySeq, HeadTailProperties DEF TypeOK, DrainWrite
<1>3. Size(k) \in Nat
  BY <1>2, ChunkFacts
<1>4. w \in 0..Size(k) /\ room[Peer(c)] - w \in Nat /\ room[Peer(c)] - w <= Limit(Peer(c))
  <2>1. ~run_program
    BY <1>2 DEF ForPrograms
  <2>2. Peer(c) = Terminal
    BY <2>1 DEF Peer
  <2> QED
    BY <1>1, <1>3, <2>2, TakesRange
<1>5. /\ WriteTo(c, k.first, w)
      /\ written' = [written EXCEPT ![c] = @ \cup (k.first..k.first + w - 1)]
      /\ out_queue' = [out_queue EXCEPT ![c] = AfterWrite(q, w)]
      /\ UNCHANGED <<received, refused>>
  BY DEF DrainWrite, WriteTo
<1>6. AfterWrite(q, w) \in Seq(Chunks) /\ InQueue(AfterWrite(q, w)) \subseteq InQueue(q)
  BY <1>1, <1>2, <1>4, HeadWritten DEF Accounted, Account
<1>7. k.first..k.first + w - 1 \subseteq Bytes
  <2>1. k.first..k.first + w - 1 \subseteq InQueue(q)
    BY <1>1, <1>2, <1>4, HeadWritten DEF Accounted, Account
  <2> QED
    BY <2>1, <1>2, QueueBytes
<1>8. \A d \in Conns : Accounted(d)'
  <2>1. received[c] \in Nat
    BY <1>1, IOAssumption DEF TypeOK
  <2>2. Account(written[c] \cup (k.first..k.first + w - 1), AfterWrite(q, w), refused[c], received[c])
    BY <1>1, <1>2, <1>4, <2>1, AccountDrains DEF Accounted
  <2> HIDE DEF w, k, q
  <2>3. Accounted(c)'
    BY <2>2, <1>1, <1>5 DEF Accounted, TypeOK, q
  <2>4. ASSUME NEW d \in Conns \ {c} PROVE Accounted(d)'
    BY <1>1, <1>5 DEF IOInv, Accounted, TypeOK
  <2> QED
    BY <2>3, <2>4
<1>9. QueueBounded'
  <2>1. Cardinality(InQueue(q)) < MAX_BUF_SPACE + MaxLen
    BY <1>1, QueuedIs DEF TypeOK, QueueBounded
  <2>2. Cardinality(InQueue(AfterWrite(q, w))) < MAX_BUF_SPACE + MaxLen
    <3> HIDE DEF w, q
    <3>1. MAX_BUF_SPACE + MaxLen \in Nat /\ 0 \in 0..MaxLen /\ 0 \in Nat
      BY IOAssumption
    <3>2. InQueue(AfterWrite(q, w)) \subseteq InQueue(q) \cup (0 + 1..0 + 0)
      BY <1>6
    <3>3. Cardinality(InQueue(AfterWrite(q, w))) < MAX_BUF_SPACE + MaxLen + 0
      BY <1>2, <1>6, <2>1, <3>1, <3>2, BoundKept
    <3> QED
      BY <3>1, <3>3
  <2> HIDE DEF w, q
  <2>3. \A d \in Conns : Queued(d)' = IF d = c THEN InQueue(AfterWrite(q, w)) ELSE Queued(d)
    BY <1>1, <1>5, QueuedIs DEF TypeOK, Queued, InQueue
  <2> QED
    BY <1>1, <2>2, <2>3 DEF TypeOK, QueueBounded
<1>10. stage' \in {"write", "drain", "programs", "socket"} /\ draining' \subseteq Conns
  <2>1. stage = "write"
    BY DEF DrainWrite, At
  <2> QED
    BY <1>1, <2>1, DrainNextType DEF DrainWrite, Leave, TypeOK
<1>11. wrote_err' \subseteq Conns /\ stalled' \subseteq Conns /\ pollout' \in BOOLEAN
  BY <1>1 DEF DrainWrite, EndOutput, TypeOK
<1>12. /\ room' \in [Peers -> Nat] /\ \A p \in Peers : room'[p] <= Limit(p)
       /\ written' \in [Conns -> SUBSET Bytes]
       /\ out_queue' \in [Conns -> Seq(Chunks)]
  <2> HIDE DEF w, k, q
  <2>1. room' \in [Peers -> Nat] /\ \A p \in Peers : room'[p] <= Limit(p)
    BY <1>1, <1>4, <1>5, RoomLeft
  <2> QED
    BY <2>1, <1>1, <1>4, <1>5, <1>6, <1>7 DEF TypeOK
<1>13. UNCHANGED <<run_program, connections, fresh, wrote_eof, read_eof, delete_me, closed,
                   pending, ended, waiting, segment, ready, received, refused>>
  BY DEF DrainWrite
<1>14. TypeOK'
  BY <1>1, <1>9, <1>10, <1>11, <1>12, <1>13 DEF TypeOK
<1> QED
  BY <1>8, <1>14 DEF IOInv

----------------------------------------------------------------------------
\* What arrives

LEMMA ReceiveDataStep ==
    ASSUME IOInv, NEW c \in Conns, NEW n \in 1..MaxLen, ReceiveData(c, n) PROVE IOInv'
<1> DEFINE q == out_queue[c]
           old == received[c]
           refuse == c \in wrote_err \/ ~HasSpace(c) \/ (WriteNow(c) /\ Gone(Peer(c)))
           w == IF WriteNow(c) THEN Takes(n) ELSE 0
           r == IF old + 1 + w <= old + n
                THEN Append(q, [first |-> old + 1 + w, last |-> old + n]) ELSE q
           N == old + 1..old + 1 + w - 1
<1> USE DEF listVars, byteVars, peerVars
<1>1. TypeOK /\ Accounted(c)
  BY DEF IOInv
<1>2. /\ old \in Nat /\ n \in Nat /\ n <= MaxLen /\ q \in Seq(Chunks)
      /\ MAX_BUF_SPACE \in Nat /\ MaxLen \in Nat /\ MaxReceived \in Nat
  BY <1>1, IOAssumption DEF TypeOK
<1>3. old + n <= MaxReceived /\ received' = [received EXCEPT ![c] = old + n]
  <2>1. MaxForPrograms \in Nat /\ MaxForPrograms <= MaxReceived
    BY IOAssumption
  <2>2. InBound(c, old + n) /\ received' = [received EXCEPT ![c] = old + n]
    BY DEF ReceiveData
  <2> QED
    BY <1>2, <2>1, <2>2 DEF InBound
<1>4. UNCHANGED <<run_program, connections, fresh, wrote_eof, read_eof, delete_me, closed,
                  pending, ended, waiting, segment, ready, draining>> /\ stage' = "timer"
  BY DEF ReceiveData, Then
<1>5. received' \in [Conns -> 0..MaxReceived]
  BY <1>1, <1>2, <1>3 DEF TypeOK
<1>6. CASE refuse
  <2>1. /\ refused' = [refused EXCEPT ![c] = @ \cup (old + 1..old + n)]
        /\ wrote_err' \in {wrote_err, wrote_err \cup {c}}
        /\ UNCHANGED <<out_queue, pollout, room, written, stalled>>
    BY <1>6 DEF ReceiveData
  <2>2. Account(written[c], q, refused[c] \cup (old + 1..old + n), old + n)
    BY <1>1, <1>2, AccountRefuses DEF Accounted
  <2>3. \A d \in Conns : Accounted(d)'
    <3> HIDE DEF old, q
    <3>1. Accounted(c)'
      BY <2>1, <2>2, <1>1, <1>3 DEF Accounted, TypeOK, q
    <3>2. ASSUME NEW d \in Conns \ {c} PROVE Accounted(d)'
      BY <2>1, <1>1, <1>3 DEF IOInv, Accounted, TypeOK
    <3> QED
      BY <3>1, <3>2
  <2>4. QueueBounded'
    BY <2>1, <1>1 DEF TypeOK, QueueBounded, Queued
  <2>5. old + 1..old + n \subseteq Bytes
    BY <1>2, <1>3 DEF Bytes
  <2>6. refused' \in [Conns -> SUBSET Bytes]
    <3> HIDE DEF old
    <3> QED
      BY <1>1, <2>1, <2>5 DEF TypeOK
  <2>7. wrote_err' \subseteq Conns
    BY <1>1, <2>1 DEF TypeOK
  <2>8. TypeOK'
    <3> HIDE DEF old
    <3> QED
      BY <1>1, <1>4, <1>5, <2>1, <2>4, <2>6, <2>7 DEF TypeOK
  <2> QED
    BY <2>3, <2>8 DEF IOInv
<1>7. CASE ~refuse
  <2>1. /\ WriteTo(c, old + 1, w) /\ Store(c, old + 1, old + n, w)
        /\ UNCHANGED <<refused, wrote_err>> /\ Peer(c) = Terminal
    BY <1>7 DEF ReceiveData, Peer
  <2>2. /\ written' = [written EXCEPT ![c] = @ \cup N]
        /\ out_queue' = [out_queue EXCEPT ![c] = r]
    BY <2>1 DEF WriteTo, Store
  <2>3. pollout' \in BOOLEAN /\ stalled' \subseteq Conns
    BY <2>1, <1>1 DEF Store, TypeOK, AsksForOutput
  <2>4. /\ w \in 0..n /\ room[Peer(c)] - w \in Nat
        /\ room[Peer(c)] - w <= Limit(Peer(c))
    <3>1. room[Peer(c)] \in Nat /\ room[Peer(c)] <= Limit(Peer(c))
      BY <1>1, PeerType DEF TypeOK
    <3>2. /\ Takes(n) \in 0..n /\ room[Peer(c)] - Takes(n) \in Nat
          /\ room[Peer(c)] - Takes(n) <= Limit(Peer(c))
      BY <1>1, <1>2, <2>1, TakesRange
    <3> QED
      BY <3>1, <3>2, <1>2
  <2>5. w > 0 => q = <<>>
    BY DEF WriteNow
  <2>6. /\ r \in Seq(Chunks) /\ InQueue(r) \subseteq InQueue(q) \cup old + 1..old + n
        /\ Account(written[c] \cup N, r, refused[c], old + n)
    <3> HIDE DEF w, q, old
    <3> QED
      BY <1>1, <1>2, <1>3, <2>4, <2>5, AccountGrows DEF Accounted, q, old
  <2>7. N \subseteq Bytes
    BY <1>2, <1>3, <2>4 DEF Bytes
  <2> HIDE DEF r, N, w
  <2>8. \A d \in Conns : Accounted(d)'
    <3> HIDE DEF old, q
    <3>1. Accounted(c)'
      BY <2>1, <2>2, <2>6, <1>1, <1>3 DEF Accounted, TypeOK
    <3>2. ASSUME NEW d \in Conns \ {c} PROVE Accounted(d)'
      BY <2>1, <2>2, <1>1, <1>3 DEF IOInv, Accounted, TypeOK
    <3> QED
      BY <3>1, <3>2
  <2>9. QueueBounded'
    <3>1. Cardinality(InQueue(q)) < MAX_BUF_SPACE
      BY <1>7, QueuedIs DEF HasSpace
    <3>2. Cardinality(InQueue(r)) < MAX_BUF_SPACE + MaxLen
      <4> HIDE DEF old, q
      <4>1. Cardinality(InQueue(r)) < MAX_BUF_SPACE + n
        <5>1. n \in 0..MaxLen
          BY <1>2
        <5> QED
          BY <1>2, <2>6, <3>1, <5>1, BoundKept
      <4>2. Cardinality(InQueue(r)) \in Nat
        BY <2>6, QueueBytes, FS_CardinalityType
      <4> QED
        BY <4>1, <4>2, <1>2
    <3>3. \A d \in Conns : Queued(d)' = IF d = c THEN InQueue(r) ELSE Queued(d)
      BY <1>1, <2>2, QueuedIs DEF TypeOK, Queued, InQueue
    <3> QED
      BY <1>1, <3>2, <3>3 DEF TypeOK, QueueBounded
  <2>10. /\ room' \in [Peers -> Nat] /\ \A p \in Peers : room'[p] <= Limit(p)
         /\ written' \in [Conns -> SUBSET Bytes] /\ out_queue' \in [Conns -> Seq(Chunks)]
    <3> HIDE DEF old, q
    <3>1. room' \in [Peers -> Nat] /\ \A p \in Peers : room'[p] <= Limit(p)
      BY <1>1, <2>1, <2>4, RoomLeft
    <3> QED
      BY <3>1, <1>1, <2>2, <2>6, <2>7 DEF TypeOK
  <2>11. TypeOK'
    <3> HIDE DEF old, q
    <3> QED
      BY <1>1, <1>4, <1>5, <2>1, <2>3, <2>9, <2>10 DEF TypeOK
  <2> QED
    BY <2>8, <2>11 DEF IOInv
<1> QED
  BY <1>6, <1>7

\* A segment for a program is written or refused as a whole.
LEMMA ProgramStep ==
    ASSUME IOInv, ForPrograms, NEW c \in Conns, WrittenToProgram(c) \/ ProgramGone(c)
    PROVE  IOInv'
<1> DEFINE q == out_queue[c]
           old == received[c]
           n == segment.length
           N == old + 1..old + n
<1> USE DEF listVars, flagVars, byteVars, peerVars
<1>1. TypeOK /\ Accounted(c)
  BY DEF IOInv
<1>2. /\ stage = "program" /\ c = segment.conn /\ run_program /\ q = <<>>
      /\ Peer(c) = c /\ old + n <= MaxReceived
  BY DEF WrittenToProgram, ProgramGone, At, ForPrograms, Peer
<1>3. /\ old \in Nat /\ n \in Nat /\ n <= MaxLen /\ q \in Seq(Chunks)
      /\ MaxLen \in Nat /\ MaxReceived \in Nat
  BY <1>1, IOAssumption DEF TypeOK
<1>4. /\ received' = [received EXCEPT ![c] = old + n]
      /\ UNCHANGED <<run_program, connections, fresh, out_queue, wrote_eof, read_eof,
                     delete_me, pollout, closed, pending, ended, waiting, ready,
                     draining, stalled>>
      /\ stage' = "timer" /\ segment' = NoSegment
  BY DEF WrittenToProgram, ProgramGone, Then
<1>5. N \subseteq Bytes
  BY <1>2, <1>3 DEF Bytes
<1>6. /\ received' \in [Conns -> 0..MaxReceived]
      /\ segment' \in [conn : Nat, length : 0..MaxLen]
  BY <1>1, <1>2, <1>3, <1>4 DEF TypeOK, NoSegment
<1>7. QueueBounded'
  BY <1>4, <1>1 DEF TypeOK, QueueBounded, Queued
<1> HIDE DEF old, n, q, N
<1>8. CASE WrittenToProgram(c)
  <2>1. /\ WriteTo(c, old + 1, n) /\ UNCHANGED <<refused, wrote_err>> /\ n <= room[c]
    BY <1>8, <1>2 DEF WrittenToProgram, old, n
  <2>2. written' = [written EXCEPT ![c] = @ \cup N]
    <3>1. old + 1 + n - 1 = old + n
      BY <1>3
    <3> QED
      BY <2>1, <3>1 DEF WriteTo, N
  <2>3. room' \in [Peers -> Nat] /\ \A p \in Peers : room'[p] <= Limit(p)
    <3>1. room[c] \in Nat /\ Limit(c) \in Nat /\ room[c] <= Limit(c)
      BY <1>1, IOAssumption DEF TypeOK, Peers, Limit
    <3>2. room[c] - n \in Nat /\ room[c] - n <= Limit(c)
      BY <3>1, <2>1, <1>3
    <3>3. room[Peer(c)] - n \in Nat /\ room[Peer(c)] - n <= Limit(Peer(c))
      BY <3>2, <1>2
    <3> QED
      BY <3>3, <2>1, <1>1, RoomLeft
  <2>4. Account(written[c] \cup N, q, refused[c], old + n)
    <3>1. n \in 0..n /\ (n > 0 => q = <<>>) /\ ~(old + 1 + n <= old + n)
      BY <1>2, <1>3 DEF q
    <3>2. Account(written[c] \cup (old + 1..old + 1 + n - 1), q, refused[c], old + n)
      <4>1. Account(written[c], q, refused[c], old)
        BY <1>1 DEF Accounted, q, old
      <4> QED
        BY <3>1, <4>1, <1>2, <1>3, AccountGrows
    <3>3. old + 1 + n - 1 = old + n
      BY <1>3
    <3> QED
      BY <3>2, <3>3 DEF N
  <2>5. \A d \in Conns : Accounted(d)'
    <3>1. Accounted(c)'
      BY <2>1, <2>2, <2>4, <1>1, <1>4 DEF Accounted, TypeOK, q
    <3>2. ASSUME NEW d \in Conns \ {c} PROVE Accounted(d)'
      BY <2>1, <2>2, <1>1, <1>4 DEF IOInv, Accounted, TypeOK
    <3> QED
      BY <3>1, <3>2
  <2>6. written' \in [Conns -> SUBSET Bytes]
    BY <2>2, <1>1, <1>5 DEF TypeOK
  <2>7. TypeOK'
    BY <1>1, <1>4, <1>6, <1>7, <2>1, <2>3, <2>6 DEF TypeOK
  <2> QED
    BY <2>5, <2>7 DEF IOInv
<1>9. CASE ProgramGone(c)
  <2>1. /\ refused' = [refused EXCEPT ![c] = @ \cup N]
        /\ wrote_err' = wrote_err \cup {c} /\ UNCHANGED <<room, written>>
    BY <1>9 DEF ProgramGone, N, old, n
  <2>2. Account(written[c], q, refused[c] \cup N, old + n)
    BY <1>1, <1>3, AccountRefuses DEF Accounted, q, old, N
  <2>3. \A d \in Conns : Accounted(d)'
    <3>1. Accounted(c)'
      BY <2>1, <2>2, <1>1, <1>4 DEF Accounted, TypeOK, q
    <3>2. ASSUME NEW d \in Conns \ {c} PROVE Accounted(d)'
      BY <2>1, <1>1, <1>4 DEF IOInv, Accounted, TypeOK
    <3> QED
      BY <3>1, <3>2
  <2>4. refused' \in [Conns -> SUBSET Bytes] /\ wrote_err' \subseteq Conns
    BY <2>1, <1>1, <1>5 DEF TypeOK
  <2>5. TypeOK'
    BY <1>1, <1>4, <1>6, <1>7, <2>1, <2>4 DEF TypeOK
  <2> QED
    BY <2>3, <2>5 DEF IOInv
<1> QED
  BY <1>8, <1>9

\* The rest of what arrives leaves the queues alone.
LEMMA OtherArrivals ==
    ASSUME IOInv, NEW c \in Conns,
           \/ ReceiveFin(c) \/ ReceiveAfterFin(c) \/ NewClient(c) \/ NothingArrived
           \/ \E n \in 1..MaxLen : ReceiveForProgram(c, n)
    PROVE  IOInv'
<1> USE DEF listVars, flagVars, byteVars, peerVars, Then
<1>1. TypeOK
  BY DEF IOInv
<1>2. QueueBounded' /\ \A d \in Conns : Accounted(d)'
  BY SameQueues DEF ReceiveFin, ReceiveAfterFin, NewClient, NothingArrived,
                    ReceiveForProgram
<1>3. CASE ReceiveFin(c)
  BY <1>1, <1>2, <1>3 DEF ReceiveFin, TypeOK, IOInv
<1>4. CASE ReceiveAfterFin(c)
  BY <1>1, <1>2, <1>4 DEF ReceiveAfterFin, TypeOK, IOInv
<1>5. CASE NewClient(c)
  BY <1>1, <1>2, <1>5 DEF NewClient, TypeOK, IOInv
<1>6. CASE NothingArrived
  BY <1>1, <1>2, <1>6 DEF NothingArrived, TypeOK, IOInv
<1>7. ASSUME NEW n \in 1..MaxLen, ReceiveForProgram(c, n) PROVE IOInv'
  <2>1. segment' \in [conn : Nat, length : 0..MaxLen]
    BY <1>7, IOAssumption DEF ReceiveForProgram
  <2>2. segment'.conn \in connections /\ segment'.length > 0
    BY <1>7, IOAssumption DEF ReceiveForProgram, Open
  <2> QED
    BY <1>1, <1>2, <1>7, <2>1, <2>2 DEF ReceiveForProgram, TypeOK, IOInv
<1> QED
  BY <1>3, <1>4, <1>5, <1>6, <1>7

\* A connection that leaves takes its queue and its bytes with it.
LEMMA TimerStep == ASSUME IOInv, Timer PROVE IOInv'
<1> USE DEF listVars, flagVars, byteVars, peerVars
<1>1. TypeOK
  BY DEF IOInv
<1>2. connections' \subseteq Conns
  BY <1>1 DEF Timer, TypeOK
<1>3. \A c \in Conns :
          \/ /\ out_queue'[c] = out_queue[c] /\ received'[c] = received[c]
             /\ written'[c] = written[c] /\ refused'[c] = refused[c]
          \/ /\ out_queue'[c] = <<>> /\ received'[c] = 0
             /\ written'[c] = {} /\ refused'[c] = {}
  BY DEF Timer
<1>4. \A c \in Conns : Accounted(c)'
  BY <1>3, EmptyAccount DEF IOInv, Accounted
<1>5. \A c \in Conns : Queued(c)' = Queued(c) \/ Queued(c)' = {}
  BY <1>3, EmptyQueue DEF Queued, InQueue
<1>6. QueueBounded'
  <2>1. \A c \in Conns : Cardinality(Queued(c)) < MAX_BUF_SPACE + MaxLen
    BY <1>1 DEF TypeOK, QueueBounded
  <2>2. \A c \in Conns : Cardinality(Queued(c)') < MAX_BUF_SPACE + MaxLen
    BY <1>5, <2>1, BoundPositive
  <2> QED
    BY <2>2 DEF QueueBounded
<1>7. /\ out_queue' \in [Conns -> Seq(Chunks)] /\ received' \in [Conns -> 0..MaxReceived]
      /\ written' \in [Conns -> SUBSET Bytes] /\ refused' \in [Conns -> SUBSET Bytes]
  BY <1>1, EmptyQueue, IOAssumption DEF Timer, TypeOK
<1>8. /\ wrote_eof' \subseteq Conns /\ wrote_err' \subseteq Conns /\ read_eof' \subseteq Conns
      /\ stalled' \subseteq Conns /\ delete_me' \subseteq Conns /\ stage' = "poll"
      /\ waiting' \subseteq Conns
  BY <1>1 DEF Timer, TypeOK, Then
<1>9. UNCHANGED <<run_program, fresh, pollout, room, closed, pending, ended, segment,
                  ready, draining>>
  BY DEF Timer
<1>10. TypeOK'
  BY <1>1, <1>2, <1>6, <1>7, <1>8, <1>9 DEF TypeOK
<1> QED
  BY <1>4, <1>10 DEF IOInv

LEMMA OutsideStep == ASSUME IOInv, Outside PROVE IOInv'
<1> USE DEF peerFrame, listVars, flagVars, byteVars
<1>1. TypeOK /\ Terminal \in Peers
  BY DEF IOInv, Peers
<1>2. QueueBounded' /\ \A d \in Conns : Accounted(d)'
  BY SameQueues DEF Outside, EndInput, CloseOutput, Consume, Produce, Wait, Exit
<1>3. ASSUME NEW p \in Peers, Consume(p) PROVE TypeOK'
  <2>1. \A x \in room[p] + 1..Limit(p) : x \in Nat /\ x <= Limit(p)
    BY <1>1, IOAssumption DEF TypeOK, Limit
  <2>2. room' \in [Peers -> Nat] /\ \A d \in Peers : room'[d] <= Limit(d)
    BY <1>1, <1>3, <2>1 DEF Consume, TypeOK
  <2> QED
    BY <1>1, <1>2, <1>3, <2>2 DEF Consume, TypeOK
<1>4. ASSUME NEW p \in Peers, Produce(p) \/ Wait(p) \/ Exit(p) PROVE TypeOK'
  BY <1>1, <1>2, <1>4 DEF Produce, Wait, Exit, TypeOK, Running, Peers
<1>5. ASSUME EndInput \/ CloseOutput PROVE TypeOK'
  BY <1>1, <1>2, <1>5 DEF EndInput, CloseOutput, TypeOK
<1>6. TypeOK'
  BY <1>3, <1>4, <1>5 DEF Outside
<1> QED
  BY <1>2, <1>6 DEF IOInv

\* Only do_loop changes the queues, and only the arrival of a segment for a
\* program begins a write to it.
LEMMA ProgramsStay == IOInv /\ ForPrograms /\ [Next]_vars => ForPrograms'
<1> SUFFICES ASSUME IOInv, ForPrograms, [Next]_vars PROVE ForPrograms'
  OBVIOUS
<1> USE DEF ForPrograms, listVars, flagVars, byteVars, peerVars, At, Then
<1>1. TypeOK
  BY DEF IOInv
<1>2. CASE Poll \/ Programs
  BY <1>2, DrainNextType DEF Poll, Programs
<1>3. ASSUME NEW c \in Conns, DrainEnter(c) \/ DrainError(c) PROVE ForPrograms'
  <2>1. stage' # "program"
    BY <1>3, DrainNextType DEF DrainEnter, DrainError, Leave
  <2> QED
    BY <1>3, <2>1 DEF DrainEnter, DrainError
<1>4. ASSUME NEW c \in Conns, DrainWrite(c) PROVE ForPrograms'
  <2>1. ~run_program /\ run_program' = run_program
    BY <1>4 DEF DrainWrite
  <2>2. stage' # "program"
    BY <1>4, DrainNextType DEF DrainWrite, Leave
  <2> QED
    BY <2>1, <2>2
<1>5. ASSUME NEW c \in Conns,
             ReceiveFin(c) \/ ReceiveAfterFin(c) \/ NewClient(c) \/ NothingArrived
      PROVE  ForPrograms'
  BY <1>5 DEF ReceiveFin, ReceiveAfterFin, NewClient, NothingArrived
<1>6. ASSUME NEW c \in Conns, NEW n \in 1..MaxLen, ReceiveData(c, n) PROVE ForPrograms'
  BY <1>6 DEF ReceiveData
<1>7. ASSUME NEW c \in Conns, WrittenToProgram(c) \/ ProgramGone(c) PROVE ForPrograms'
  BY <1>7 DEF WrittenToProgram, ProgramGone
<1>8. ASSUME NEW c \in Conns, NEW n \in 1..MaxLen, ReceiveForProgram(c, n)
      PROVE  ForPrograms'
  <2>1. received[c] + n <= MaxReceived
    <3>1. MaxForPrograms \in Nat /\ MaxReceived \in Nat /\ MaxForPrograms <= MaxReceived
          /\ received[c] \in Nat /\ n \in Nat
      BY <1>1, IOAssumption DEF TypeOK
    <3> QED
      BY <3>1, <1>8 DEF ReceiveForProgram, InBound
  <2> QED
    BY <1>8, <2>1 DEF ReceiveForProgram
<1>9. CASE Timer
  BY <1>9, <1>1 DEF Timer, TypeOK
<1>10. CASE Outside
  BY <1>10 DEF Outside, EndInput, CloseOutput, Consume, Produce, Wait, Exit, peerFrame
<1>11. CASE NothingArrived
  BY <1>11 DEF NothingArrived
<1>12. CASE UNCHANGED vars
  BY <1>12 DEF vars
<1> QED
  BY <1>2, <1>3, <1>4, <1>5, <1>6, <1>7, <1>8, <1>9, <1>10, <1>11, <1>12
     DEF Next, Loop, Receive, Drain

LEMMA IOStep == IOInv /\ ForPrograms /\ [Next]_vars => IOInv'
<1> SUFFICES ASSUME IOInv, ForPrograms, [Next]_vars PROVE IOInv'
  OBVIOUS
<1>1. CASE Poll
  BY <1>1, PollStep
<1>2. CASE Programs
  BY <1>2, ProgramsStep
<1>3. ASSUME NEW c \in Conns, Drain(c) PROVE IOInv'
  BY <1>3, DrainsNothing, DrainWriteStep DEF Drain
<1>4. CASE Receive
  <2>1. CASE NothingArrived
    <3>1. CASE Conns = {}
      <4>1. TypeOK
        BY DEF IOInv
      <4> QED
        BY <2>1, <3>1, <4>1, SameQueues
           DEF NothingArrived, IOInv, TypeOK, listVars, flagVars, byteVars, peerVars, Then
    <3> QED
      BY <2>1, <3>1, OtherArrivals
  <2> QED
    BY <2>1, <1>4, OtherArrivals, ReceiveDataStep, ProgramStep DEF Receive
<1>5. CASE Timer
  BY <1>5, TimerStep
<1>6. CASE Outside
  BY <1>6, OutsideStep
<1>7. CASE UNCHANGED vars
  <2>1. TypeOK
    BY DEF IOInv
  <2>2. QueueBounded' /\ \A c \in Conns : Accounted(c)'
    BY <1>7, SameQueues DEF vars
  <2> QED
    BY <1>7, <2>1, <2>2 DEF vars, IOInv, TypeOK, listVars, flagVars, byteVars, peerVars
<1> QED
  BY <1>1, <1>2, <1>3, <1>4, <1>5, <1>6, <1>7 DEF Next, Loop

LEMMA IOInvariant == Spec => [](IOInv /\ ForPrograms)
  BY IOInit, IOStep, ProgramsStay, PTL DEF Spec

----------------------------------------------------------------------------
\* Every variable keeps its type, and no queue holds MaxLen bytes more than
\* MAX_BUF_SPACE, although conn_output takes a whole segment for one free byte.
THEOREM TypeCorrect == Spec => []TypeOK
<1>1. IOInv => TypeOK
  BY DEF IOInv
<1> QED
  BY IOInvariant, <1>1, PTL

\* Every byte received is written, queued or refused, exactly one of these, and
\* written in order, whatever the readers take and whoever shares them; nothing
\* is ever queued for a program.
THEOREM EveryByteAccounted == Spec => []OutputAccounted
<1>1. IOInv /\ ForPrograms => OutputAccounted
  <2> SUFFICES ASSUME IOInv, ForPrograms PROVE OutputAccounted
    OBVIOUS
  <2>1. connections \subseteq Conns
    BY DEF IOInv, TypeOK
  <2>2. \A c \in Conns : Queued(c) = InQueue(out_queue[c]) /\ Accounted(c)
    BY QueuedIs DEF IOInv
  <2> QED
    BY <2>1, <2>2 DEF OutputAccounted, Accounted, Account, Sorted, ForPrograms
<1> QED
  BY IOInvariant, <1>1, PTL
=============================================================================
