-------------------------- MODULE CtcpServerProofs --------------------------
(***************************************************************************)
(* Proofs about CtcpServer for every number of clients and connections:    *)
(* type correctness, that the pointers of the connection list stay right   *)
(* whatever connections are freed, that a turn of the loop starts with no  *)
(* connection marked, and that only ACKs are discarded.                    *)
(***************************************************************************)
EXTENDS CtcpServer, SequenceTheorems, TLAPS

\* The head has no predecessor, so that conn_add may overwrite its prev.
HeadIsFirst == connections # Null => prev[connections] \notin Conns

\* The objects can be ranked so that next always leads down: no cycle.
Acyclic == \E rank \in [Conns -> Nat] :
               \A c \in allocated : next[c] # Null => rank[next[c]] < rank[c]

\* LinksAgree is not inductive: conn_add needs the first of these, and
\* the delete loop, which goes on at next of a freed object, the second.
ListInv == TypeOK /\ LinksAgree /\ HeadIsFirst /\ Acyclic

\* The loops over the list visit objects that are allocated.
LEMMA ListedAllocated ==
    ASSUME TypeOK, LinksAgree PROVE Listed \subseteq allocated
<1>1. allocated \in SUBSET Conns
  BY DEF TypeOK
<1>2. connections \in allocated \cup {Null}
  BY DEF LinksAgree
<1>3. \A c \in allocated : next[c] \in allocated \cup {Null}
  BY DEF LinksAgree
<1> QED
  BY <1>1, <1>2, <1>3 DEF Listed

\* The first segment at the socket, and the queue without it.
LEMMA HeadArrived ==
    ASSUME TypeOK, arrived # <<>>
    PROVE  /\ Head(arrived) \in [from : Clients, kind : Kinds]
           /\ Tail(arrived) \in Seq([from : Clients, kind : Kinds])
<1>1. arrived \in Seq([from : Clients, kind : Kinds])
  BY DEF TypeOK
<1> QED
  BY <1>1, HeadTailProperties

----------------------------------------------------------------------------
\* The initial state

LEMMA ListInit == Init => ListInv
<1> SUFFICES ASSUME Init PROVE ListInv
  OBVIOUS
<1> USE ServerAssumption DEF Init
<1>1. TypeOK
  <2>1. arrived \in Seq([from : Clients, kind : Kinds])
    BY EmptySeq
  <2>2. num_connected \in 0..MaxClients
    OBVIOUS
  <2> QED
    BY <2>1, <2>2 DEF TypeOK
<1>2. LinksAgree
  BY DEF LinksAgree
<1>3. HeadIsFirst
  BY DEF HeadIsFirst
<1>4. Acyclic
  <2>1. [c \in Conns |-> 0] \in [Conns -> Nat]
    OBVIOUS
  <2> QED
    BY <2>1 DEF Acyclic
<1> QED
  BY <1>1, <1>2, <1>3, <1>4 DEF ListInv

----------------------------------------------------------------------------
\* Types

\* A step of the server keeps the types.
LEMMA ServerType ==
    ASSUME ListInv, Server PROVE TypeOK'
<1> USE ServerAssumption DEF At, Then, Destroy, listVars, stateVars, clientVars
<1>a. TypeOK /\ LinksAgree
  BY DEF ListInv
<1>b. Listed \subseteq allocated
  BY <1>a, ListedAllocated
<1>1. CASE Stdin
  BY <1>1, <1>a DEF Stdin, TypeOK, LinksAgree
<1>2. CASE RefuseClient
  BY <1>2, <1>a, HeadArrived DEF RefuseClient, TypeOK
<1>3. ASSUME NEW c \in Conns, NewClient(c) PROVE TypeOK'
  <2>1. Head(arrived).from \in Clients /\ Tail(arrived) \in Seq([from : Clients, kind : Kinds])
    BY <1>3, <1>a, HeadArrived DEF NewClient
  <2>2. num_connected' \in 0..MaxClients
    BY <1>3, <1>a DEF NewClient, HasRoom, TypeOK
  <2>3. next' \in [Conns -> Conns \cup {Null}] /\ prev' \in [Conns -> Conns \cup {Null, Stack}]
    BY <1>3, <1>a DEF NewClient, conn_add, TypeOK
  <2> QED
    BY <1>3, <1>a, <2>1, <2>2, <2>3 DEF NewClient, conn_add, TypeOK
<1>4. ASSUME NEW c \in Conns, Segment(c) PROVE TypeOK'
  <2>1. c \in allocated
    BY <1>4, <1>b DEF Segment, Found
  <2> QED
    BY <1>4, <1>a, <2>1, HeadArrived DEF Segment, TypeOK
<1>5. CASE DiscardAck
  BY <1>5, <1>a, HeadArrived DEF DiscardAck, Reset, TypeOK
<1>6. CASE SegmentDestroyed
  BY <1>6, <1>a, HeadArrived DEF SegmentDestroyed, TypeOK
<1>7. CASE Ignore
  BY <1>7, <1>a, HeadArrived DEF Ignore, TypeOK
<1>8. CASE NothingArrived
  BY <1>8, <1>a DEF NothingArrived, TypeOK
<1>9. CASE Timer
  BY <1>9, <1>a DEF Timer, TypeOK
<1>10. CASE DeleteNext
  <2>1. cursor \in Conns /\ next[cursor] \in Conns \cup {Null}
    BY <1>10, <1>a DEF DeleteNext, TypeOK
  <2>2. CASE cursor \in delete_me
    <3>1. next' \in [Conns -> Conns \cup {Null}] /\ prev' \in [Conns -> Conns \cup {Null, Stack}]
      BY <1>10, <1>a, <2>1, <2>2 DEF DeleteNext, conn_free, TypeOK
    <3> QED
      BY <1>10, <1>a, <2>1, <2>2, <3>1 DEF DeleteNext, conn_free, NextToDelete, TypeOK
  <2>3. CASE cursor \notin delete_me
    BY <1>10, <1>a, <2>1, <2>3 DEF DeleteNext, NextToDelete, TypeOK
  <2> QED
    BY <2>2, <2>3
<1>11. CASE DeleteDone
  BY <1>11, <1>a DEF DeleteDone, TypeOK
<1> QED
  BY <1>1, <1>2, <1>3, <1>4, <1>5, <1>6, <1>7, <1>8, <1>9, <1>10, <1>11 DEF Server

\* A step of a client keeps the types.
LEMMA ClientType ==
    ASSUME TypeOK, NEW p \in Clients, Client(p) PROVE TypeOK'
<1>1. ASSUME NEW kind \in Kinds, ClientSends(p, kind)
      PROVE  arrived' \in Seq([from : Clients, kind : Kinds])
  <2>1. [from |-> p, kind |-> kind] \in [from : Clients, kind : Kinds]
    OBVIOUS
  <2> QED
    BY <1>1, <2>1 DEF ClientSends, TypeOK
<1>2. PICK kind \in Kinds : ClientSends(p, kind)
  BY DEF Client, Connect, Acknowledge, SendFirst, SendMore, Kinds, Handshake, First
<1>3. phase' \in [Clients -> {"new", "connecting", "accepted", "connected", "sending"}]
  BY DEF Client, Connect, Acknowledge, SendFirst, SendMore, TypeOK
<1> QED
  BY <1>1, <1>2, <1>3 DEF ClientSends, TypeOK, listVars, stateVars

\* Every step keeps the types.
LEMMA TypeStep ==
    ASSUME ListInv, [Next]_vars PROVE TypeOK'
<1>1. CASE Server
  BY <1>1, ServerType
<1>2. ASSUME NEW p \in Clients, Client(p) PROVE TypeOK'
  BY <1>2, ClientType DEF ListInv
<1>3. CASE UNCHANGED vars
  BY <1>3 DEF vars, listVars, stateVars, clientVars, ListInv, TypeOK
<1> QED
  BY <1>1, <1>2, <1>3 DEF Next

----------------------------------------------------------------------------
\* The list

\* conn_add of a new object puts it in front: the other links stay.
LEMMA AddKeepsLinks ==
    ASSUME ListInv, NEW c \in Conns, NewClient(c)
    PROVE  LinksAgree' /\ HeadIsFirst' /\ Acyclic'
<1> USE ServerAssumption
<1>1. /\ connections \in allocated \cup {Null} /\ cursor \in allocated \cup {Null}
      /\ c \notin allocated /\ allocated \subseteq Conns /\ Null \notin Conns
      /\ next \in [Conns -> Conns \cup {Null}]
      /\ prev \in [Conns -> Conns \cup {Null, Stack}]
  BY DEF ListInv, TypeOK, LinksAgree, NewClient
<1>2. /\ connections' = c /\ allocated' = allocated \cup {c} /\ cursor' = cursor
      /\ next' = [next EXCEPT ![c] = connections]
      /\ prev' = [d \in Conns |-> IF d = c THEN Stack
                                 ELSE IF d = connections THEN c ELSE prev[d]]
  BY DEF NewClient, conn_add
<1>3. \A d \in allocated : next'[d] = next[d]
  BY <1>1, <1>2
<1>4. next'[c] = connections /\ prev'[c] = Stack /\ Stack \notin Conns
  BY <1>1, <1>2
<1>5. HeadIsFirst'
  BY <1>2, <1>4 DEF HeadIsFirst
<1>6. LinksAgree'
  <2>1. ASSUME NEW d \in allocated, next[d] # Null
        PROVE  next[d] \in allocated /\ prev[next[d]] = d /\ next[d] # connections
    BY <2>1, <1>1 DEF ListInv, LinksAgree, HeadIsFirst
  <2>2. ASSUME NEW d \in allocated, d # connections, prev[d] \in Conns
        PROVE  prev[d] \in allocated /\ next[prev[d]] = d
    BY <2>2 DEF ListInv, LinksAgree
  <2>3. ASSUME NEW d \in allocated', next'[d] # Null
        PROVE  next'[d] \in allocated' /\ prev'[next'[d]] = d
    <3>1. CASE d = c
      BY <3>1, <2>3, <1>1, <1>2, <1>4
    <3>2. CASE d # c
      <4>1. d \in allocated /\ next'[d] = next[d]
        BY <3>2, <2>3, <1>2, <1>3
      <4>2. next[d] \in allocated /\ prev[next[d]] = d /\ next[d] # connections
        BY <4>1, <2>1, <2>3
      <4> QED
        BY <4>1, <4>2, <1>1, <1>2
    <3> QED
      BY <3>1, <3>2
  <2>4. ASSUME NEW d \in allocated', prev'[d] \in Conns
        PROVE  prev'[d] \in allocated' /\ next'[prev'[d]] = d
    <3>1. d # c /\ d \in allocated
      BY <2>4, <1>2, <1>4
    <3>2. CASE d = connections
      BY <3>1, <3>2, <1>1, <1>2, <1>4
    <3>3. CASE d # connections
      <4>1. prev'[d] = prev[d]
        BY <3>1, <3>3, <1>1, <1>2
      <4> QED
        BY <4>1, <3>1, <3>3, <2>2, <2>4, <1>2, <1>3
    <3> QED
      BY <3>2, <3>3
  <2> QED
    BY <2>3, <2>4, <1>1, <1>2 DEF LinksAgree
<1>7. Acyclic'
  <2>1. PICK rank \in [Conns -> Nat] :
            \A d \in allocated : next[d] # Null => rank[next[d]] < rank[d]
    BY DEF ListInv, Acyclic
  <2> DEFINE new == [rank EXCEPT ![c] = IF connections = Null THEN 0 ELSE rank[connections] + 1]
  <2>2. new \in [Conns -> Nat]
    BY <1>1
  <2>3. ASSUME NEW d \in allocated', next'[d] # Null
        PROVE  new[next'[d]] < new[d]
    <3>1. CASE d = c
      BY <3>1, <2>3, <1>1, <1>4
    <3>2. CASE d # c
      <4>1. d \in allocated /\ next'[d] = next[d]
        BY <3>2, <2>3, <1>2, <1>3
      <4>2. next[d] \in allocated
        BY <4>1, <2>3 DEF ListInv, LinksAgree
      <4> QED
        BY <4>1, <4>2, <3>2, <2>1, <2>3, <1>1
    <3> QED
      BY <3>1, <3>2
  <2> HIDE DEF new
  <2> QED
    BY <2>2, <2>3 DEF Acyclic
<1> QED
  BY <1>5, <1>6, <1>7

\* conn_free links the neighbours of an object: what it leaves is a list, and
\* the next object, where the delete loop goes on, is still allocated.
LEMMA FreeKeepsLinks ==
    ASSUME ListInv, DeleteNext, cursor \in delete_me
    PROVE  LinksAgree' /\ HeadIsFirst' /\ Acyclic'
<1> USE ServerAssumption
<1> DEFINE c == cursor
<1>1. /\ c \in allocated /\ allocated \subseteq Conns /\ Null \notin Conns
      /\ connections \in allocated \cup {Null}
      /\ next \in [Conns -> Conns \cup {Null}]
      /\ prev \in [Conns -> Conns \cup {Null, Stack}]
  BY DEF ListInv, TypeOK, LinksAgree
<1>2. /\ allocated' = allocated \ {c} /\ cursor' = next[c]
      /\ connections' = IF c = connections THEN Null ELSE connections
      /\ next' = [d \in Conns |-> IF d = prev[c] THEN next[c] ELSE next[d]]
      /\ prev' = [d \in Conns |-> IF d = next[c] THEN prev[c] ELSE prev[d]]
  BY DEF DeleteNext, conn_free, NextToDelete
<1>3. ASSUME NEW d \in allocated, next[d] # Null
      PROVE  next[d] \in allocated /\ prev[next[d]] = d
  BY <1>3 DEF ListInv, LinksAgree
<1>4. ASSUME NEW d \in allocated, prev[d] \in Conns
      PROVE  prev[d] \in allocated /\ next[prev[d]] = d
  BY <1>4 DEF ListInv, LinksAgree
<1>5. PICK rank \in [Conns -> Nat] :
          \A d \in allocated : next[d] # Null => rank[next[d]] < rank[d]
  BY DEF ListInv, Acyclic
<1>6. \A d \in Conns : rank[d] \in Nat
  OBVIOUS
<1> HIDE DEF c
<1>7. next[c] # c /\ prev[c] # c
  <2>1. next[c] # c
    BY <1>1, <1>5, <1>6
  <2> QED
    BY <2>1, <1>1, <1>4
<1>8. ASSUME NEW d \in allocated', next'[d] # Null
      PROVE  next'[d] \in allocated' /\ prev'[next'[d]] = d /\ rank[next'[d]] < rank[d]
  <2>1. d \in allocated /\ d # c
    BY <1>2
  <2>2. CASE d = prev[c]
    <3>1. next'[d] = next[c] /\ next[d] = c
      BY <2>1, <2>2, <1>1, <1>2, <1>4
    <3>2. next[c] \in allocated /\ next[c] # c
      BY <3>1, <1>1, <1>3, <1>7, <1>8
    <3>3. rank[next[c]] < rank[c] /\ rank[c] < rank[d]
      BY <3>1, <2>1, <1>1, <1>5, <1>8
    <3>4. rank[next[c]] < rank[d]
      BY <3>2, <3>3, <2>1, <1>1, <1>6
    <3> QED
      BY <3>1, <3>2, <3>4, <2>2, <1>1, <1>2
  <2>3. CASE d # prev[c]
    <3>1. next'[d] = next[d]
      BY <2>1, <2>3, <1>1, <1>2
    <3>2. next[d] \in allocated /\ prev[next[d]] = d
      BY <3>1, <2>1, <1>3, <1>8
    <3>3. next[d] # c /\ next[d] # next[c]
      BY <3>1, <3>2, <2>1, <2>3, <1>1, <1>3, <1>8
    <3> QED
      BY <3>1, <3>2, <3>3, <2>1, <1>1, <1>2, <1>5, <1>8
  <2> QED
    BY <2>2, <2>3
<1>9. ASSUME NEW d \in allocated', prev'[d] \in Conns
      PROVE  prev'[d] \in allocated' /\ next'[prev'[d]] = d
  <2>1. d \in allocated /\ d # c
    BY <1>2
  <2>2. CASE d = next[c]
    <3>1. prev'[d] = prev[c] /\ prev[c] \in allocated /\ prev[c] # c
      BY <2>1, <2>2, <1>1, <1>2, <1>4, <1>7, <1>9
    <3> QED
      BY <3>1, <2>2, <1>1, <1>2
  <2>3. CASE d # next[c]
    <3>1. prev'[d] = prev[d]
      BY <2>1, <2>3, <1>1, <1>2
    <3>2. prev[d] \in allocated /\ next[prev[d]] = d
      BY <3>1, <2>1, <1>4, <1>9
    <3>3. prev[d] # c /\ prev[d] # prev[c]
      BY <3>1, <3>2, <2>1, <2>3, <1>1, <1>4, <1>9
    <3> QED
      BY <3>1, <3>2, <3>3, <1>1, <1>2
  <2> QED
    BY <2>2, <2>3
<1>10. {connections', cursor'} \subseteq allocated' \cup {Null}
  BY <1>1, <1>2, <1>3, <1>7
<1>11. HeadIsFirst'
  <2>1. ASSUME c # connections, connections # Null PROVE prev'[connections] \notin Conns
    <3>1. prev[connections] \notin Conns
      BY <2>1 DEF ListInv, HeadIsFirst
    <3>2. connections # next[c]
      BY <2>1, <3>1, <1>1, <1>3
    <3> QED
      BY <2>1, <3>1, <3>2, <1>1, <1>2
  <2> QED
    BY <2>1, <1>2 DEF HeadIsFirst
<1>12. LinksAgree'
  BY <1>8, <1>9, <1>10 DEF LinksAgree
<1>13. Acyclic'
  BY <1>8 DEF Acyclic
<1> QED
  BY <1>11, <1>12, <1>13

\* Only NewClient and DeleteNext change the list.
LEMMA ListStep ==
    ASSUME ListInv, [Next]_vars PROVE ListInv'
<1>1. TypeOK'
  BY TypeStep
<1>2. ASSUME NEW c \in Conns, NewClient(c) PROVE ListInv'
  BY <1>1, <1>2, AddKeepsLinks DEF ListInv
<1>3. ASSUME DeleteNext, cursor \in delete_me PROVE ListInv'
  BY <1>1, <1>3, FreeKeepsLinks DEF ListInv
<1>4. ASSUME UNCHANGED <<connections, next, prev, allocated>>,
             cursor' \in allocated \cup {Null}
      PROVE  ListInv'
  BY <1>1, <1>4 DEF ListInv, LinksAgree, HeadIsFirst, Acyclic
<1>5. connections \in allocated \cup {Null} /\ cursor \in allocated \cup {Null}
  BY DEF ListInv, LinksAgree
<1>6. CASE DeleteNext /\ cursor \notin delete_me
  <2>1. cursor' \in allocated \cup {Null}
    BY <1>6 DEF ListInv, LinksAgree, DeleteNext, NextToDelete
  <2> QED
    BY <1>4, <1>6, <2>1 DEF DeleteNext
<1>7. CASE Timer
  BY <1>4, <1>5, <1>7 DEF Timer, listVars
<1>8. CASE \/ Stdin \/ RefuseClient \/ (\E c \in Conns : Segment(c)) \/ DiscardAck
           \/ SegmentDestroyed \/ Ignore \/ NothingArrived \/ DeleteDone
  BY <1>4, <1>5, <1>8 DEF Stdin, RefuseClient, Segment, DiscardAck,
     SegmentDestroyed, Ignore, NothingArrived, DeleteDone, listVars
<1>9. ASSUME NEW p \in Clients, Client(p) PROVE ListInv'
  BY <1>4, <1>5, <1>9 DEF Client, Connect, Acknowledge, SendFirst, SendMore,
     ClientSends, listVars
<1>10. CASE UNCHANGED vars
  BY <1>4, <1>5, <1>10 DEF vars, listVars
<1> QED
  BY <1>2, <1>3, <1>6, <1>7, <1>8, <1>9, <1>10 DEF Next, Server

\* The inductive invariant holds in every reachable state.
LEMMA ListAlways == Spec => []ListInv
BY ListInit, ListStep, PTL DEF Spec

\* Every reachable state of a server has its type, for any number of clients
\* and connections; the limit on the clients is part of it.
THEOREM TypeCorrect == Spec => []TypeOK
<1>1. ListInv => TypeOK
  BY DEF ListInv
<1> QED
  BY <1>1, ListAlways, PTL

\* The pointers of the connection list (conn_add, conn_free and the delete
\* loop) never lead to a freed object, and both directions agree, although
\* conn_free of the head loses the list.
THEOREM ListSafe == Spec => []LinksAgree
<1>1. ListInv => LinksAgree
  BY DEF ListInv
<1> QED
  BY <1>1, ListAlways, PTL

----------------------------------------------------------------------------
(***************************************************************************)
(* The delete loop.  Whatever is to be removed and on the list is still    *)
(* ahead of the loop, so that nothing is left when it ends.                *)
(***************************************************************************)

\* The objects that next leads to from c.
From(c) ==
    {d \in Conns : \A S \in SUBSET Conns :
        c \in S \cup {Null} /\ (\A x \in S : next[x] \in S \cup {Null}) => d \in S}

DeletesAhead == stage = "delete" => Listed \cap delete_me \subseteq From(cursor)
CleanInv == ListInv /\ TurnStartsClean /\ DeletesAhead

LEMMA ListedFrom == Listed = From(connections)
BY DEF Listed, From

LEMMA FromNull == From(Null) = {}
<1>1. {} \in SUBSET Conns /\ Null \in {} \cup {Null}
  OBVIOUS
<1> QED
  BY <1>1 DEF From

\* Past c itself.
LEMMA FromNext ==
    ASSUME TypeOK, NEW c \in Conns, NEW d \in From(c), d # c PROVE d \in From(next[c])
<1>1. ASSUME NEW S \in SUBSET Conns, next[c] \in S \cup {Null},
             \A x \in S : next[x] \in S \cup {Null}
      PROVE  d \in S
  <2>1. S \cup {c} \in SUBSET Conns /\ \A x \in S \cup {c} : next[x] \in (S \cup {c}) \cup {Null}
    BY <1>1
  <2>2. d \in S \cup {c}
    BY <2>1 DEF From
  <2> QED
    BY <2>2
<1>2. d \in Conns
  BY DEF From
<1> QED
  BY <1>1, <1>2 DEF From

\* When the object at the cursor is freed, the list loses it, and what was
\* ahead of the loop stays ahead.
LEMMA FreeStep ==
    ASSUME ListInv, DeleteNext, cursor \in delete_me
    PROVE  /\ Listed' \subseteq Listed
           /\ \A d \in From(cursor) : d # cursor => d \in From(cursor)'
<1> DEFINE c == cursor
<1>1. /\ c \in Conns /\ cursor' = next[c]
      /\ next \in [Conns -> Conns \cup {Null}] /\ Null \notin Conns
      /\ prev[c] \in Conns => next[prev[c]] = c
  BY ServerAssumption DEF ListInv, TypeOK, LinksAgree, DeleteNext, NextToDelete
<1>2. /\ connections' = IF c = connections THEN Null ELSE connections
      /\ \A x \in Conns : next'[x] = IF x = prev[c] THEN next[c] ELSE next[x]
  BY DEF DeleteNext, conn_free
<1>3. Listed' \subseteq Listed
  <2> SUFFICES ASSUME NEW d \in Listed', NEW S \in SUBSET Conns, connections \in S \cup {Null},
                      \A x \in S : next[x] \in S \cup {Null}
               PROVE  d \in S
    BY DEF Listed
  <2>1. ASSUME NEW x \in S PROVE next'[x] \in S \cup {Null}
    BY <1>1, <1>2, <2>1
  <2>2. connections' \in S \cup {Null}
    BY <1>2
  <2> QED
    BY <2>1, <2>2 DEF Listed
<1>4. ASSUME NEW d \in From(c), d # c PROVE d \in From(cursor)'
  <2> SUFFICES ASSUME NEW S \in SUBSET Conns, cursor' \in S \cup {Null},
                      \A x \in S : next'[x] \in S \cup {Null}
               PROVE  d \in S
    BY DEF From
  <2>1. ASSUME NEW x \in S \cup {c} PROVE next[x] \in (S \cup {c}) \cup {Null}
    <3>1. CASE x = c
      BY <3>1, <1>1
    <3>2. CASE x # c /\ x = prev[c]
      BY <3>2, <1>1, <2>1
    <3>3. CASE x # c /\ x # prev[c]
      BY <3>3, <1>1, <1>2, <2>1
    <3> QED
      BY <3>1, <3>2, <3>3
  <2>2. S \cup {c} \in SUBSET Conns /\ c \in (S \cup {c}) \cup {Null}
    BY <1>1
  <2> HIDE DEF c
  <2>3. d \in S \cup {c}
    BY <2>1, <2>2, <1>4 DEF From
  <2> QED
    BY <1>4, <2>3
<1> QED
  BY <1>3, <1>4

LEMMA CleanStep ==
    ASSUME CleanInv, ListInv', [Next]_vars PROVE CleanInv'
<1> USE DEF CleanInv, TurnStartsClean, DeletesAhead, Then
<1>1. CASE \/ Stdin \/ RefuseClient \/ (\E c \in Conns : NewClient(c) \/ Segment(c))
           \/ DiscardAck \/ SegmentDestroyed \/ Ignore \/ NothingArrived
  BY <1>1 DEF Stdin, RefuseClient, NewClient, Segment, DiscardAck, SegmentDestroyed, Ignore, NothingArrived
<1>2. CASE Timer
  <2>1. stage' = "delete" /\ cursor' = connections /\ UNCHANGED <<connections, next>>
    BY <1>2 DEF Timer, listVars
  <2>2. Listed' = From(cursor)'
    BY <2>1 DEF Listed, From
  <2> QED
    BY <2>1, <2>2
<1>3. ASSUME DeleteNext, cursor \in delete_me PROVE CleanInv'
  <2>1. /\ stage = "delete" /\ stage' = "delete" /\ delete_me' = delete_me \ {cursor}
    BY <1>3 DEF DeleteNext, conn_free, At
  <2> QED
    BY <1>3, <2>1, FreeStep
<1>4. ASSUME DeleteNext, cursor \notin delete_me PROVE CleanInv'
  <2>1. /\ stage = "delete" /\ stage' = "delete" /\ cursor \in Conns /\ cursor' = next[cursor]
        /\ UNCHANGED <<connections, next, delete_me>>
    BY <1>4 DEF DeleteNext, At, NextToDelete, stateVars, ListInv, TypeOK
  <2>2. Listed' = Listed /\ From(cursor)' = From(next[cursor])
    BY <2>1 DEF Listed, From
  <2>3. \A d \in From(cursor) : d # cursor => d \in From(next[cursor])
    BY <2>1, FromNext DEF ListInv
  <2> QED
    BY <1>4, <2>1, <2>2, <2>3
<1>5. CASE DeleteDone
  <2>1. stage = "delete" /\ stage' = "stdin" /\ cursor = Null /\ UNCHANGED <<connections, next, delete_me>>
    BY <1>5 DEF DeleteDone, At, listVars, stateVars
  <2>2. Listed' = Listed
    BY <2>1 DEF Listed
  <2> QED
    BY <2>1, <2>2, FromNull
<1>6. CASE (\E p \in Clients : Client(p)) \/ UNCHANGED vars
  <2>1. UNCHANGED <<stage, cursor, connections, next, delete_me>>
    BY <1>6 DEF Client, Connect, Acknowledge, SendFirst, SendMore, ClientSends, vars, listVars, stateVars
  <2>2. Listed' = Listed /\ From(cursor)' = From(cursor)
    BY <2>1 DEF Listed, From
  <2> QED
    BY <2>1, <2>2
<1> QED
  BY <1>1, <1>2, <1>3, <1>4, <1>5, <1>6 DEF Next, Server

LEMMA CleanAlways == Spec => []CleanInv
<1>1. Init => CleanInv
  <2> SUFFICES ASSUME Init PROVE CleanInv
    OBVIOUS
  <2>1. Listed = {}
    BY ListedFrom, FromNull DEF Init
  <2> QED
    BY <2>1, ListInit DEF Init, CleanInv, TurnStartsClean, DeletesAhead
<1> QED
  BY <1>1, CleanStep, ListAlways, PTL DEF Spec

\* At the start of a turn no connection on the list has been destroyed, for
\* any number of connections destroyed in a turn, and although conn_free of
\* the head loses what follows it.
THEOREM TurnsStartClean == Spec => []TurnStartsClean
<1>1. CleanInv => TurnStartsClean
  BY DEF CleanInv
<1> QED
  BY <1>1, CleanAlways, PTL

----------------------------------------------------------------------------
(***************************************************************************)
(* The list as a set.  Listed is the least set that holds the head and is  *)
(* closed under next, so that a set is shown to hold it by being closed.   *)
(***************************************************************************)
HoldsHead(S) == connections \in S \cup {Null} /\ \A d \in S : next[d] \in S \cup {Null}

LEMMA ListedLeast ==
    ASSUME TypeOK
    PROVE  /\ Listed \subseteq Conns /\ HoldsHead(Listed)
           /\ \A S \in SUBSET Conns : HoldsHead(S) => Listed \subseteq S
<1>1. /\ connections \in Conns \cup {Null} /\ next \in [Conns -> Conns \cup {Null}]
      /\ Null \notin Conns
  BY ServerAssumption DEF TypeOK
<1>2. Listed \subseteq Conns /\ \A S \in SUBSET Conns : HoldsHead(S) => Listed \subseteq S
  BY DEF Listed, HoldsHead
<1>3. connections \in Listed \cup {Null}
  BY <1>1 DEF Listed
<1>4. ASSUME NEW d \in Listed, next[d] # Null PROVE next[d] \in Listed
  <2>1. d \in Conns /\ next[d] \in Conns
    BY <1>1, <1>2, <1>4
  <2>2. ASSUME NEW S \in SUBSET Conns, connections \in S \cup {Null},
               \A x \in S : next[x] \in S \cup {Null}
        PROVE  next[d] \in S
    BY <1>4, <2>2 DEF Listed
  <2> QED
    BY <2>1, <2>2 DEF Listed
<1> QED
  BY <1>2, <1>3, <1>4 DEF HoldsHead

\* conn_add puts the new object on the list and loses none.
LEMMA AddsOne ==
    ASSUME ListInv, TypeOK', NEW c \in Conns, NewClient(c)
    PROVE  List!Add(c)
<1>1. /\ connections \in allocated \cup {Null} /\ c \notin allocated /\ allocated \subseteq Conns
      /\ \A d \in allocated : next[d] \in allocated \cup {Null}
  BY DEF ListInv, TypeOK, LinksAgree, NewClient
<1>2. connections' = c /\ next'[c] = connections /\ \A d \in Conns \ {c} : next'[d] = next[d]
  BY DEF NewClient, conn_add, ListInv, TypeOK
<1>3. TypeOK /\ c \notin Listed /\ Listed \subseteq allocated
  BY <1>1, ListedAllocated DEF ListInv
<1>4. Listed' \subseteq Listed \cup {c}
  <2>1. HoldsHead(Listed) /\ Listed \subseteq Conns
    BY <1>3, ListedLeast
  <2> DEFINE S == Listed \cup {c}
  <2>2. ASSUME NEW d \in S PROVE next'[d] \in S \cup {Null}
    BY <1>2, <2>1, <2>2 DEF HoldsHead
  <2>3. S \in SUBSET Conns /\ connections' \in S \cup {Null}
    BY <1>2, <2>1
  <2> QED
    BY <2>2, <2>3 DEF Listed
<1>5. ASSUME NEW S \in SUBSET Conns, connections' \in S \cup {Null},
             \A d \in S : next'[d] \in S \cup {Null}
      PROVE  Listed \cup {c} \subseteq S
  <2>1. c \in S
    BY <1>2, <1>5, ServerAssumption
  <2> DEFINE T == S \cap allocated
  <2>2. connections \in T \cup {Null}
    BY <1>1, <1>2, <1>5, <2>1
  <2>3. ASSUME NEW d \in T PROVE next[d] \in T \cup {Null}
    BY <1>1, <1>2, <1>5, <2>3
  <2>4. Listed \subseteq T
    BY <1>3, <2>2, <2>3, ListedLeast DEF HoldsHead
  <2> QED
    BY <2>1, <2>4
<1>6. Listed \cup {c} \subseteq Listed'
  BY <1>3, <1>5, ListedLeast DEF Listed
<1> QED
  BY <1>2, <1>3, <1>4, <1>6 DEF List!Add

\* conn_free of an object that is not the head takes that object off the
\* list, wherever it was and although the delete loop is walking over it, and
\* no other; an object that was on no list leaves the list as it was.
LEMMA FreesOne ==
    ASSUME ListInv, ListInv', DeleteNext, cursor \in delete_me, cursor # connections
    PROVE  connections' = connections /\ Listed' = Listed \ {cursor}
<1> DEFINE c == cursor
<1>1. /\ c \in allocated /\ allocated \subseteq Conns /\ Null \notin Conns
      /\ \A d \in allocated : /\ next[d] \in allocated \cup {Null}
                              /\ next[d] = c => prev[c] = d
      /\ prev[c] \in Conns => prev[c] \in allocated /\ next[prev[c]] = c
  BY ServerAssumption DEF ListInv, TypeOK, LinksAgree
<1>2. /\ connections' = connections /\ allocated' = allocated \ {c}
      /\ \A d \in Conns : next'[d] = IF d = prev[c] THEN next[c] ELSE next[d]
  BY DEF DeleteNext, conn_free
<1>3. /\ TypeOK /\ Listed \subseteq allocated
      /\ connections \in (Listed \ {c}) \cup {Null} /\ next[c] # c
  <2>1. TypeOK /\ Listed \subseteq allocated
    BY ListedAllocated DEF ListInv
  <2>2. PICK rank \in [Conns -> Nat] :
            \A d \in allocated : next[d] # Null => rank[next[d]] < rank[d]
    BY DEF ListInv, Acyclic
  <2>3. next[c] # c
    BY <1>1, <2>2
  <2> QED
    BY <2>1, <2>3, ListedLeast DEF HoldsHead
<1> HIDE DEF c
<1>4. Listed' \subseteq Listed \ {c}
  <2> DEFINE S == Listed \ {c}
  <2>1. S \in SUBSET Conns /\ connections' \in S \cup {Null}
    BY <1>1, <1>2, <1>3
  <2>2. ASSUME NEW d \in S PROVE next'[d] \in S \cup {Null}
    <3>1. d \in Listed /\ d \in allocated /\ next[d] \in Listed \cup {Null}
      BY <1>3, <2>2, ListedLeast DEF HoldsHead
    <3>2. CASE d = prev[c]
      <4>1. next'[d] = next[c] /\ c \in Listed
        BY <1>1, <1>2, <3>1, <3>2
      <4>2. next[c] \in Listed \cup {Null}
        BY <1>3, <4>1, ListedLeast DEF HoldsHead
      <4> QED
        BY <1>3, <4>1, <4>2
    <3>3. CASE d # prev[c]
      BY <1>1, <1>2, <3>1, <3>3
    <3> QED
      BY <3>2, <3>3
  <2> QED
    BY <2>1, <2>2 DEF Listed
<1>5. ASSUME NEW S \in SUBSET Conns, connections' \in S \cup {Null},
             \A d \in S : next'[d] \in S \cup {Null}
      PROVE  Listed \ {c} \subseteq S
  <2> DEFINE T == IF prev[c] \in S \cap allocated THEN (S \cap allocated) \cup {c}
                  ELSE (S \cap allocated) \ {c}
  <2>1. connections \in T \cup {Null}
    BY <1>2, <1>5 DEF c, ListInv, LinksAgree
  <2>2. ASSUME NEW d \in T PROVE next[d] \in T \cup {Null}
    <3>1. CASE d = prev[c]
      BY <1>1, <2>2, <3>1
    <3>2. CASE d # prev[c] /\ d # c
      <4>1. d \in S /\ d \in allocated /\ next'[d] = next[d]
        BY <1>1, <1>2, <2>2, <3>2
      <4> QED
        BY <1>1, <1>5, <3>2, <4>1
    <3>3. CASE d # prev[c] /\ d = c
      <4>1. prev[c] \in S \cap allocated /\ next'[prev[c]] = next[c]
        BY <1>1, <1>2, <2>2, <3>3
      <4> QED
        BY <1>1, <1>5, <3>3, <4>1
    <3> QED
      BY <3>1, <3>2, <3>3
  <2>3. T \in SUBSET Conns
    BY <1>1
  <2>4. Listed \subseteq T
    BY <1>3, <2>1, <2>2, <2>3, ListedLeast DEF HoldsHead
  <2> QED
    BY <2>4
<1>6. Listed \ {c} \subseteq Listed'
  BY <1>3, <1>5, ListedLeast DEF Listed
<1> QED
  BY <1>2, <1>4, <1>6 DEF c

\* conn_free of the head: nothing is on the list any more.
LEMMA FreesAll ==
    ASSUME ListInv, DeleteNext, cursor \in delete_me, cursor = connections
    PROVE  List!RemoveNewest
<1>1. connections' = Null /\ connections # Null
  BY DEF DeleteNext, conn_free
<1>2. Listed' = {}
  <2>1. {} \in SUBSET Conns /\ connections' \in {} \cup {Null} /\ \A d \in {} : next'[d] \in {} \cup {Null}
    BY <1>1
  <2> QED
    BY <2>1 DEF Listed
<1>3. connections \in Listed
  BY <1>1, ListedLeast DEF ListInv, HoldsHead
<1> QED
  BY <1>1, <1>2, <1>3 DEF List!RemoveNewest

\* Nothing else that the server or a client does touches the list.
LEMMA ListRefined ==
    ASSUME ListInv, ListInv', [Next]_vars PROVE [List!Next]_<<Listed, connections>>
<1>1. ASSUME UNCHANGED <<connections, next>> PROVE UNCHANGED <<Listed, connections>>
  BY <1>1 DEF Listed
<1>2. ASSUME NEW c \in Conns, NewClient(c) PROVE List!Next
  BY <1>2, AddsOne DEF ListInv, List!Next
<1>3. ASSUME DeleteNext, cursor \in delete_me PROVE [List!Next]_<<Listed, connections>>
  <2>1. CASE cursor = connections
    BY <1>3, <2>1, FreesAll DEF List!Next
  <2>2. CASE cursor # connections /\ cursor \in Listed
    <3>1. connections' = connections /\ Listed' = Listed \ {cursor} /\ cursor \in Conns
      BY <1>3, <2>2, FreesOne DEF Listed
    <3>2. List!Remove(cursor)
      BY <2>2, <3>1 DEF List!Remove
    <3> QED
      BY <3>1, <3>2 DEF List!Next
  <2>3. CASE cursor # connections /\ cursor \notin Listed
    BY <1>3, <2>3, FreesOne
  <2> QED
    BY <2>1, <2>2, <2>3
<1>4. CASE DeleteNext /\ cursor \notin delete_me
  BY <1>1, <1>4 DEF DeleteNext
<1>5. CASE \/ Stdin \/ RefuseClient \/ (\E c \in Conns : Segment(c)) \/ DiscardAck
           \/ SegmentDestroyed \/ Ignore \/ NothingArrived \/ Timer \/ DeleteDone
  BY <1>1, <1>5 DEF Stdin, RefuseClient, Segment, DiscardAck, SegmentDestroyed,
     Ignore, NothingArrived, Timer, DeleteDone, listVars
<1>6. CASE (\E p \in Clients : Client(p)) \/ UNCHANGED vars
  BY <1>1, <1>6 DEF Client, Connect, Acknowledge, SendFirst, SendMore,
     ClientSends, vars, listVars
<1> QED
  BY <1>2, <1>3, <1>4, <1>5, <1>6 DEF Next, Server

\* The pointers of the list (conn_add, conn_free, the delete loop) implement a
\* set of connections, for any number of them: conn_add loses none of the
\* others, and conn_free takes off the one it is given and no other, unless it
\* is the head, with which all go.
THEOREM ListImplementsSet == Spec => ImplementsList
<1>1. Init => List!Init
  BY ListedFrom, FromNull DEF Init, List!Init
<1>2. ListInv /\ ListInv' /\ [Next]_vars => [List!Next]_<<Listed, connections>>
  BY ListRefined
<1> QED
  BY <1>1, <1>2, ListAlways, PTL DEF Spec, ImplementsList, List!Spec

----------------------------------------------------------------------------
(***************************************************************************)
(* The acknowledgement of the handshake.  A client sends it before         *)
(* anything else, so that it is first to be met while new_connection is    *)
(* the client, unless it was dropped, when the client is not listed (and   *)
(* never is again).                                                        *)
(***************************************************************************)
Message == [from : Clients, kind : Kinds]
Of(p) == {i \in 1..Len(arrived) : arrived[i].from = p}

\* What of p may be at the socket in each phase.
InPhase(p) ==
    /\ phase[p] \in {"new", "accepted"} => Of(p) = {}
    /\ phase[p] = "connecting" =>
          /\ \A i, j \in Of(p) : i = j
          /\ \A i \in Of(p) : arrived[i].kind = "syn"
    /\ phase[p] = "connected" => \A i \in Of(p) : arrived[i].kind = "ack"
    /\ phase[p] = "sending" => \A i \in Of(p) : arrived[i].kind # "syn"

AckFirst(p) ==
    new_connection = p /\ Found(p) # {} /\ phase[p] \in {"connected", "sending"} =>
        \E j \in Of(p) : /\ arrived[j].kind = "ack"
                         /\ \A i \in Of(p) : arrived[i].kind \in First => j < i

AckInv == ListInv /\ \A p \in Clients : InPhase(p) /\ AckFirst(p)

\* Without the first message, the others are one place further on.
LEMMA Taken ==
    ASSUME TypeOK, arrived # <<>>, arrived' = Tail(arrived)
    PROVE  /\ Len(arrived) \in Nat \ {0} /\ Len(arrived') = Len(arrived) - 1
           /\ \A i \in 1..Len(arrived') : arrived'[i] = arrived[i + 1]
           /\ Head(arrived) = arrived[1]
<1>1. arrived \in Seq(Message)
  BY DEF TypeOK, Message
<1> QED
  BY <1>1, HeadTailProperties, EmptySeq

\* The order of a client's messages survives their removal.
LEMMA TakenInPhase ==
    ASSUME TypeOK, arrived # <<>>, arrived' = Tail(arrived), NEW p \in Clients,
           phase'[p] = phase[p], InPhase(p)
    PROVE  InPhase(p)'
<1>1. ASSUME NEW i \in Of(p)' PROVE i + 1 \in Of(p) /\ i \in Nat /\ arrived'[i] = arrived[i + 1]
  BY Taken DEF Of
<1>2. phase[p] \in {"new", "accepted"} => Of(p)' = {}
  BY <1>1 DEF InPhase
<1>3. phase[p] = "connecting" => \A i, j \in Of(p)' : i = j
  <2>1. ASSUME phase[p] = "connecting", NEW i \in Of(p)', NEW j \in Of(p)' PROVE i = j
    <3>1. i + 1 = j + 1 /\ i \in Nat /\ j \in Nat
      BY <1>1, <2>1 DEF InPhase
    <3> QED
      BY <3>1
  <2> QED
    BY <2>1
<1> QED
  BY <1>1, <1>2, <1>3 DEF InPhase

\* As does the place of the acknowledgement, when something else is removed.
LEMMA TakenAckFirst ==
    ASSUME TypeOK, arrived # <<>>, arrived' = Tail(arrived), NEW p \in Clients,
           UNCHANGED <<phase, new_connection, connections, next, port>>, AckFirst(p),
           ~(TakesForAck(Head(arrived)) /\ Found(Head(arrived).from) # {})
    PROVE  AckFirst(p)'
<1> SUFFICES ASSUME new_connection = p, Found(p)' # {}, phase[p] \in {"connected", "sending"}
             PROVE  \E j \in Of(p)' : /\ arrived'[j].kind = "ack"
                                      /\ \A i \in Of(p)' : arrived'[i].kind \in First => j < i
  BY DEF AckFirst
<1>1. Found(p) # {}
  BY DEF Found, Listed
<1>2. PICK j \in Of(p) : arrived[j].kind = "ack" /\ \A i \in Of(p) : arrived[i].kind \in First => j < i
  BY <1>1 DEF AckFirst
<1>3. j \in 1..Len(arrived) /\ arrived[j].from = p
  BY DEF Of
<1>4. j # 1
  BY <1>1, <1>2, <1>3, Taken DEF TakesForAck
<1>5. j - 1 \in Of(p)' /\ arrived'[j - 1] = arrived[j]
  BY <1>3, <1>4, Taken DEF Of
<1>6. ASSUME NEW i \in Of(p)', arrived'[i].kind \in First PROVE j - 1 < i
  <2>1. i \in Nat /\ i + 1 \in Of(p) /\ arrived[i + 1].kind \in First
    BY <1>6, Taken DEF Of
  <2>2. j < i + 1
    BY <1>2, <2>1
  <2> QED
    BY <1>3, <2>1, <2>2
<1> QED
  BY <1>2, <1>5, <1>6

\* A client adds its next message.
LEMMA SentAck ==
    ASSUME AckInv, TypeOK', NEW p \in Clients, Client(p), NEW r \in Clients
    PROVE  InPhase(r)' /\ AckFirst(r)'
<1>1. PICK kind \in Kinds :
          /\ ClientSends(p, kind)
          /\ \/ phase[p] = "new" /\ kind = "syn" /\ phase' = [phase EXCEPT ![p] = "connecting"]
             \/ phase[p] = "accepted" /\ kind = "ack" /\ phase' = [phase EXCEPT ![p] = "connected"]
             \/ /\ phase[p] = "connected" /\ kind \notin Handshake
                /\ phase' = [phase EXCEPT ![p] = "sending"]
             \/ phase[p] = "sending" /\ kind \notin Handshake \cup First /\ phase' = phase
  BY DEF Client, Connect, Acknowledge, SendFirst, SendMore, Kinds, Handshake, First
<1> DEFINE n == Len(arrived) + 1
<1>2. arrived \in Seq(Message) /\ phase \in [Clients -> {"new", "connecting", "accepted", "connected", "sending"}]
  BY DEF AckInv, ListInv, TypeOK, Message
<1>3. /\ Len(arrived) \in Nat /\ Len(arrived') = n /\ arrived'[n] = [from |-> p, kind |-> kind]
      /\ \A i \in 1..Len(arrived) : arrived'[i] = arrived[i]
  <2>1. [from |-> p, kind |-> kind] \in Message
    BY DEF Message
  <2>2. arrived' = Append(arrived, [from |-> p, kind |-> kind])
    BY <1>1 DEF ClientSends
  <2> QED
    BY <1>2, <2>1, <2>2, AppendProperties, LenProperties
<1> HIDE DEF n
<1>4. /\ Of(r)' = IF r = p THEN Of(r) \cup {n} ELSE Of(r)
      /\ n \notin Of(r) /\ \A i \in Of(r) : arrived'[i] = arrived[i] /\ i < n
  BY <1>3 DEF Of, n
<1>5. UNCHANGED <<new_connection, connections, next, port>>
  BY <1>1 DEF ClientSends, listVars
<1>6. Found(r)' = Found(r)
  BY <1>5 DEF Found, Listed
<1>7. InPhase(r) /\ AckFirst(r)
  BY DEF AckInv
<1>8. CASE r # p
  <2>1. phase'[r] = phase[r]
    BY <1>1, <1>2, <1>8
  <2>2. Of(r)' = Of(r)
    BY <1>4, <1>8
  <2>3. InPhase(r)'
    BY <1>4, <1>7, <2>1, <2>2 DEF InPhase
  <2>4. AckFirst(r)'
    BY <1>4, <1>5, <1>6, <1>7, <2>1, <2>2 DEF AckFirst
  <2> QED
    BY <2>3, <2>4
<1>9. CASE r = p
  <2>1. CASE phase[p] \in {"new", "accepted"}
    <3>1. Of(p)' = {n}
      BY <1>4, <1>7, <1>9, <2>1 DEF InPhase
    <3>2. phase'[p] = IF phase[p] = "new" THEN "connecting" ELSE "connected"
      BY <1>1, <1>2, <2>1
    <3>3. arrived'[n].kind = IF phase[p] = "new" THEN "syn" ELSE "ack"
      BY <1>1, <1>3, <2>1
    <3> QED
      BY <1>9, <2>1, <3>1, <3>2, <3>3 DEF InPhase, AckFirst, First
  <2>2. CASE phase[p] \notin {"new", "accepted"}
    <3>1. /\ phase'[p] = "sending" /\ phase[p] \in {"connected", "sending"}
          /\ kind \notin Handshake
      BY <1>1, <1>2, <2>2 DEF Handshake
    <3>2. Of(p)' = Of(p) \cup {n} /\ arrived'[n].kind = kind
      BY <1>3, <1>4, <1>9
    <3>3. InPhase(p)'
      BY <1>4, <1>7, <1>9, <3>1, <3>2 DEF InPhase, Handshake
    <3>4. AckFirst(p)'
      BY <1>4, <1>5, <1>6, <1>7, <1>9, <3>1, <3>2 DEF AckFirst
    <3> QED
      BY <1>9, <3>3, <3>4
  <2> QED
    BY <2>1, <2>2
<1> QED
  BY <1>8, <1>9

\* The server takes one message, or none.
LEMMA TakenAck ==
    ASSUME AckInv, Server, NEW p \in Clients PROVE InPhase(p)' /\ AckFirst(p)'
<1> USE DEF Then, At
<1>1. TypeOK /\ InPhase(p) /\ AckFirst(p)
  BY DEF AckInv, ListInv
<1>2. CASE \/ RefuseClient \/ (\E c \in Conns : Segment(c)) \/ SegmentDestroyed \/ Ignore
  <2>1. /\ arrived # <<>> /\ arrived' = Tail(arrived)
        /\ UNCHANGED <<phase, new_connection, connections, next, port>>
        /\ ~(TakesForAck(Head(arrived)) /\ Found(Head(arrived).from) # {})
    BY <1>2 DEF RefuseClient, Segment, SegmentDestroyed, Ignore, TakesForAck, First, listVars
  <2> QED
    BY <1>1, <2>1, TakenInPhase, TakenAckFirst
<1>3. CASE DiscardAck
  <2>1. arrived # <<>> /\ arrived' = Tail(arrived) /\ phase' = phase /\ new_connection' # p
    BY <1>3, ServerAssumption DEF DiscardAck, Reset
  <2> QED
    BY <1>1, <2>1, TakenInPhase DEF AckFirst
<1>4. ASSUME NEW c \in Conns, NewClient(c) PROVE InPhase(p)' /\ AckFirst(p)'
  <2> DEFINE q == Head(arrived).from
  <2>1. /\ arrived # <<>> /\ arrived' = Tail(arrived) /\ Head(arrived).kind = "syn"
        /\ phase' = [phase EXCEPT ![q] = "accepted"] /\ new_connection' = q
    BY <1>4 DEF NewClient
  <2>2. /\ Len(arrived) \in Nat \ {0} /\ Len(arrived') = Len(arrived) - 1
        /\ \A i \in 1..Len(arrived') : arrived'[i] = arrived[i + 1]
        /\ Head(arrived) = arrived[1]
    BY <1>1, <2>1, Taken
  <2>3. CASE p # q
    <3>1. phase'[p] = phase[p]
      BY <2>1, <2>3
    <3> QED
      BY <1>1, <2>1, <2>3, <3>1, TakenInPhase DEF AckFirst
  <2>4. CASE p = q
    <3>1. 1 \in Of(p) /\ arrived[1].kind = "syn"
      BY <2>1, <2>2, <2>4 DEF Of
    <3>2. phase[p] = "connecting"
      BY <1>1, <3>1 DEF InPhase, TypeOK
    <3>3. Of(p)' = {}
      <4>1. ASSUME NEW i \in Of(p)' PROVE FALSE
        <5>1. i \in Nat \ {0} /\ i + 1 \in Of(p)
          BY <2>2, <4>1 DEF Of
        <5>2. i + 1 = 1
          BY <1>1, <3>1, <3>2, <5>1 DEF InPhase
        <5> QED
          BY <5>1, <5>2
      <4> QED
        BY <4>1
    <3>4. phase'[p] = "accepted"
      BY <1>1, <2>1, <2>4 DEF TypeOK
    <3> QED
      BY <3>3, <3>4 DEF InPhase, AckFirst
  <2> QED
    BY <2>3, <2>4
<1>5. CASE Stdin \/ NothingArrived \/ Timer \/ DeleteNext \/ DeleteDone
  <2>1. UNCHANGED <<arrived, phase, new_connection, port>>
    BY <1>5 DEF Stdin, NothingArrived, Timer, DeleteNext, DeleteDone, clientVars, listVars
  <2>2. Listed' \subseteq Listed
    <3>1. CASE DeleteNext /\ cursor \in delete_me
      BY <3>1, FreeStep DEF AckInv
    <3>2. CASE ~(DeleteNext /\ cursor \in delete_me)
      <4>1. UNCHANGED <<connections, next>>
        BY <1>5, <3>2 DEF Stdin, NothingArrived, Timer, DeleteNext, DeleteDone, listVars
      <4> QED
        BY <4>1 DEF Listed
    <3> QED
      BY <3>1, <3>2
  <2>3. Found(p)' \subseteq Found(p) /\ Of(p)' = Of(p)
    BY <2>1, <2>2 DEF Found, Of
  <2>4. InPhase(p)'
    BY <1>1, <2>1, <2>3 DEF InPhase
  <2>5. AckFirst(p)'
    BY <1>1, <2>1, <2>3 DEF AckFirst
  <2> QED
    BY <2>4, <2>5
<1> QED
  BY <1>2, <1>3, <1>4, <1>5 DEF Server

LEMMA AckAlways == Spec => []AckInv
<1>1. Init => AckInv
  <2> SUFFICES ASSUME Init PROVE AckInv
    OBVIOUS
  <2>0. Len(arrived) = 0
    BY EmptySeq DEF Init
  <2>1. \A p \in Clients : Of(p) = {}
    BY <2>0 DEF Of
  <2> QED
    BY <2>1, ListInit DEF Init, AckInv, InPhase, AckFirst
<1>2. AckInv /\ ListInv' /\ [Next]_vars => AckInv'
  <2> SUFFICES ASSUME AckInv, ListInv', [Next]_vars, NEW p \in Clients
               PROVE  InPhase(p)' /\ AckFirst(p)'
    BY DEF AckInv
  <2>1. CASE UNCHANGED vars
    <3>1. UNCHANGED <<arrived, phase, new_connection, port, connections, next>>
      BY <2>1 DEF vars, listVars, clientVars
    <3>2. Found(p)' = Found(p) /\ Of(p)' = Of(p)
      BY <3>1 DEF Found, Listed, Of
    <3> QED
      BY <3>1, <3>2 DEF AckInv, InPhase, AckFirst
  <2>2. TypeOK'
    BY DEF ListInv
  <2> QED
    BY <2>1, <2>2, TakenAck, SentAck DEF Next
<1> QED
  BY <1>1, <1>2, ListAlways, PTL DEF Spec

\* What the server discards as the ACK of a handshake is one, and never the
\* first segment of a client that looks like it, for any number of clients
\* and any order in which they connect, send and are destroyed.
THEOREM AcksOnly == Spec => []OnlyAcksDiscarded
<1>1. AckInv => OnlyAcksDiscarded
  <2> SUFFICES ASSUME AckInv, NEW i \in 1..Len(arrived), arrived[i].kind \in First,
                      arrived[i].from = new_connection, Found(arrived[i].from) # {}
               PROVE  \E j \in 1..i - 1 : arrived[j] = [from |-> arrived[i].from, kind |-> "ack"]
    BY DEF OnlyAcksDiscarded
  <2> DEFINE p == arrived[i].from
  <2>1. arrived \in Seq(Message) /\ p \in Clients
    <3>1. arrived \in Seq(Message)
      BY DEF AckInv, ListInv, TypeOK, Message
    <3>2. arrived[i] \in Message
      BY <3>1
    <3> QED
      BY <3>1, <3>2 DEF Message
  <2>2. i \in Of(p)
    BY DEF Of
  <2>3. phase[p] \in {"connected", "sending"}
    BY <2>1, <2>2 DEF AckInv, ListInv, TypeOK, InPhase, First
  <2>4. PICK j \in Of(p) : arrived[j].kind = "ack" /\ \A k \in Of(p) : arrived[k].kind \in First => j < k
    BY <2>1, <2>3 DEF AckInv, AckFirst
  <2>5. j \in 1..i - 1 /\ arrived[j] \in Message /\ arrived[j].from = p
    BY <2>1, <2>2, <2>4 DEF Of
  <2>6. arrived[j] = [from |-> p, kind |-> "ack"]
    BY <2>4, <2>5 DEF Message
  <2> QED
    BY <2>5, <2>6
<1> QED
  BY <1>1, AckAlways, PTL
=============================================================================
