-------------------------- MODULE VnsSessionProofs --------------------------
(***************************************************************************)
(* Proofs about VnsSession for any number of routers, interfaces, routing  *)
(* tables and frames: types, HWINFO messages are whole, only frames that   *)
(* come too early end a session, and no frame is skipped.                  *)
(***************************************************************************)
EXTENDS VnsSession, SequenceTheorems, TLAPS

\* Messages to a router whose HWINFO, if it is one, is whole.
Whole == {msg \in FromServer : msg.type = "hwinfo" => msg.interfaces = Interfaces /\ Interfaces \subseteq ports}

\* What the POX thread has done when the reactor reads the interfaces.
ListsAgree ==
    /\ interfaces \in {{}, Interfaces}
    /\ interfaces # {} => Interfaces \subseteq ports
    /\ pox = "info" => Interfaces \ todo \subseteq ports
    /\ pox = "broadcast" => frames # 0

HwinfoWhole ==
    \A r \in Routers : /\ if_list[r] \in {{}, Interfaces} /\ if_list[r] \subseteq ports
                       /\ toRouter[r] \in Seq(Whole)

\* Before its connection, and until it is greeted.
Waiting(r) ==
    /\ phase[r] \in {"off", "auth request"} /\ if_list[r] = {}
    /\ toRouter[r] = <<>> /\ toServer[r] = <<>>
    /\ r \in ToSet(srclients) => phase[r] # "off" /\ r \in greeting

\* One message of the negotiation is under way.
Negotiating(r) ==
    /\ r \in ToSet(srclients) \ greeting /\ if_list[r] = {}
    /\ \/ /\ phase[r] = "auth request"
          /\ toRouter[r] = <<Plain("auth request")>> /\ toServer[r] = <<>>
       \/ /\ phase[r] = "auth status"
          /\ toRouter[r] = <<>> /\ toServer[r] = <<Plain("auth reply")>>
       \/ /\ phase[r] = "auth status"
          /\ toRouter[r] = <<Plain("auth status")>> /\ toServer[r] = <<>>
       \/ /\ phase[r] = "loop"
          /\ toRouter[r] = <<>> /\ toServer[r] \in {<<>>, <<Plain("open")>>}

\* HWINFO comes first, then frames, both ways once it is read.
Opening(r) ==
    /\ r \in ToSet(srclients) \ greeting /\ phase[r] = "loop" /\ if_list[r] = {}
    /\ toRouter[r] # <<>> /\ Head(toRouter[r]) = Hwinfo(Interfaces)
    /\ Tail(toRouter[r]) \in Seq(Downs) /\ toServer[r] = <<>>

Opened(r) ==
    /\ r \in ToSet(srclients) \ greeting /\ phase[r] = "loop" /\ if_list[r] = Interfaces
    /\ toRouter[r] \in Seq(Downs) /\ toServer[r] \in Seq(Ups)

Orderly(r) == Waiting(r) \/ Negotiating(r) \/ Opening(r) \/ Opened(r)

\* An early frame is still to be read, before any HWINFO.
Doomed(r) ==
    \E k \in 1..Len(toRouter[r]) :
        /\ toRouter[r][k].type = "packet"
        /\ \A j \in 1..k : toRouter[r][j].type # "hwinfo"

RouterInv(r) ==
    IF r \in early THEN if_list[r] = {} /\ (phase[r] \in Gone \/ Doomed(r))
    ELSE phase[r] = "ended" \/ Orderly(r)

SessionInv ==
    TypeOK /\ ListsAgree /\ HwinfoWhole /\ \A r \in Routers : RouterInv(r)

----------------------------------------------------------------------------
\* Sequences

LEMMA AppendFacts ==
    ASSUME NEW S, NEW s \in Seq(S), NEW x \in S
    PROVE  /\ Append(s, x) \in Seq(S) /\ Append(s, x) # <<>>
           /\ Len(Append(s, x)) = Len(s) + 1
           /\ \A k \in 1..Len(s) : Append(s, x)[k] = s[k]
           /\ Append(s, x)[Len(s) + 1] = x
           /\ ToSet(Append(s, x)) = ToSet(s) \cup {x}
           /\ s # <<>> => /\ Head(Append(s, x)) = Head(s)
                          /\ Tail(Append(s, x)) = Append(Tail(s), x)
<1>1. /\ Append(s, x) \in Seq(S) /\ Append(s, x) # <<>>
      /\ Len(Append(s, x)) = Len(s) + 1
      /\ \A k \in 1..Len(s) : Append(s, x)[k] = s[k]
      /\ Append(s, x)[Len(s) + 1] = x
  BY AppendProperties
<1>2. ToSet(Append(s, x)) = ToSet(s) \cup {x}
  <2>1. /\ DOMAIN Append(s, x) = 1..Len(s) + 1 /\ DOMAIN s = 1..Len(s) /\ Len(s) \in Nat
    BY <1>1
  <2> QED
    BY <1>1, <2>1 DEF ToSet
<1>3. ASSUME s # <<>>
      PROVE  Head(Append(s, x)) = Head(s) /\ Tail(Append(s, x)) = Append(Tail(s), x)
  <2>1. Len(s) \in Nat \ {0} /\ Tail(s) \in Seq(S) /\ Len(Tail(s)) = Len(s) - 1
    BY <1>3, EmptySeq, HeadTailProperties
  <2>2. Head(Append(s, x)) = Head(s)
    BY <1>1, <2>1
  <2>3. Tail(Append(s, x)) = Append(Tail(s), x)
    BY <1>1, <2>1
  <2> QED
    BY <2>2, <2>3
<1> QED
  BY <1>1, <1>2, <1>3

LEMMA TailFacts ==
    ASSUME NEW S, NEW s \in Seq(S), s # <<>>
    PROVE  /\ Head(s) \in S /\ Head(s) = s[1] /\ Tail(s) \in Seq(S)
           /\ Len(s) \in Nat \ {0} /\ Len(Tail(s)) = Len(s) - 1
           /\ \A k \in 1..Len(s) - 1 : Tail(s)[k] = s[k + 1]
  BY HeadTailProperties, EmptySeq

LEMMA SeqGrows ==
    ASSUME NEW S, NEW T, S \subseteq T, NEW s \in Seq(S) PROVE s \in Seq(T)
  BY SeqMonotonic


LEMMA Single ==
    ASSUME NEW x, NEW s, s = <<x>>
    PROVE  Len(s) = 1 /\ Head(s) = x /\ Tail(s) = <<>> /\ \A k \in 1..Len(s) : s[k] = x
  OBVIOUS

LEMMA AppendFirst ==
    ASSUME NEW x PROVE Append(<<>>, x) = <<x>>
  OBVIOUS

LEMMA SingleInSeq ==
    ASSUME NEW S, NEW x \in S PROVE <<x>> \in Seq(S)
  OBVIOUS

----------------------------------------------------------------------------
\* The initial state, and steps that leave a router alone

LEMMA SessionInit == Init => SessionInv
<1> SUFFICES ASSUME Init PROVE SessionInv
  OBVIOUS
<1> USE SessionAssumption DEF Init
<1>1. TypeOK
  <2>1. ToSet(srclients) = {} /\ Len(srclients) = 0 /\ srclients \in Seq(Routers)
    BY EmptySeq DEF ToSet
  <2>2. toRouter \in [Routers -> Seq(FromServer)] /\ toServer \in [Routers -> Seq(FromRouter)]
    BY EmptySeq
  <2>3. phase \in [Routers -> Phases]
    BY DEF Phases
  <2> QED
    BY <2>1, <2>2, <2>3 DEF TypeOK
<1>2. ListsAgree
  BY DEF ListsAgree
<1>3. HwinfoWhole
  BY EmptySeq DEF HwinfoWhole
<1>4. \A r \in Routers : RouterInv(r)
  BY DEF RouterInv, Orderly, Waiting, ToSet
<1> QED
  BY <1>1, <1>2, <1>3, <1>4 DEF SessionInv

LEMMA ClientsAreRouters ==
    ASSUME TypeOK PROVE ToSet(srclients) \subseteq Routers /\ online \subseteq Routers
<1>1. \A k \in 1..Len(srclients) : srclients[k] \in Routers
  BY ElementOfSeq DEF TypeOK
<1>2. DOMAIN srclients = 1..Len(srclients)
  BY DEF TypeOK
<1> QED
  BY <1>1, <1>2 DEF ToSet, TypeOK

LEMMA Elsewhere ==
    ASSUME NEW r \in Routers, RouterInv(r),
           phase'[r] = phase[r], if_list'[r] = if_list[r],
           toRouter'[r] = toRouter[r], toServer'[r] = toServer[r],
           (r \in early') <=> (r \in early), (r \in greeting') <=> (r \in greeting),
           (r \in ToSet(srclients')) <=> (r \in ToSet(srclients))
    PROVE  RouterInv(r)'
<1>1. Orderly(r) => Orderly(r)'
  BY DEF Orderly, Waiting, Negotiating, Opening, Opened
<1>2. Doomed(r) => Doomed(r)'
  BY DEF Doomed
<1> QED
  BY <1>1, <1>2 DEF RouterInv

LEMMA PoxElsewhere ==
    ASSUME \A r \in Routers : RouterInv(r),
           UNCHANGED <<clientVars, routerVars, early, toRouter, toServer>>
    PROVE  \A r \in Routers : RouterInv(r)'
<1> TAKE r \in Routers
<1> QED
  BY Elsewhere DEF clientVars, routerVars

\* HWINFO under way stays whole when ports are added.
LEMMA WholeStays ==
    ASSUME HwinfoWhole, ports \subseteq ports',
           UNCHANGED <<if_list, toRouter>>
    PROVE  HwinfoWhole'
<1>1. Whole \subseteq Whole'
  BY DEF Whole
<1> QED
  BY <1>1, SeqGrows DEF HwinfoWhole

----------------------------------------------------------------------------
\* The POX thread

LEMMA ConnectionUpStep ==
    ASSUME SessionInv, ConnectionUp PROVE SessionInv'
<1> USE DEF ConnectionUp, SessionInv
<1>1. TypeOK'
  BY DEF TypeOK, clientVars, routerVars
<1>2. ListsAgree'
  BY DEF ListsAgree
<1>3. HwinfoWhole'
  BY WholeStays DEF routerVars
<1> QED
  BY <1>1, <1>2, <1>3, PoxElsewhere

LEMMA LearnPortStep ==
    ASSUME SessionInv, NEW i \in Interfaces, LearnPort(i) PROVE SessionInv'
<1> USE DEF LearnPort, SessionInv
<1>1. TypeOK'
  BY DEF TypeOK, clientVars, routerVars
<1>2. ListsAgree'
  BY DEF ListsAgree
<1>3. HwinfoWhole'
  BY WholeStays DEF routerVars
<1> QED
  BY <1>1, <1>2, <1>3, PoxElsewhere

LEMMA StoreInterfacesStep ==
    ASSUME SessionInv, StoreInterfaces PROVE SessionInv'
<1> USE DEF StoreInterfaces, SessionInv
<1>1. TypeOK'
  BY DEF TypeOK, clientVars, routerVars
<1>2. ListsAgree'
  BY DEF ListsAgree, PublishAll
<1>3. HwinfoWhole'
  BY WholeStays DEF routerVars
<1> QED
  BY <1>1, <1>2, <1>3, PoxElsewhere

LEMMA PacketInStep ==
    ASSUME SessionInv, NEW i \in Interfaces, PacketIn(i) PROVE SessionInv'
<1> USE DEF PacketIn, SessionInv
<1>1. TypeOK'
  <2>1. frames' \in 0..MaxFrames /\ at' \in 1..Len(srclients') + 1
    BY SessionAssumption DEF TypeOK, clientVars
  <2> QED
    BY <2>1 DEF TypeOK, clientVars, routerVars
<1>2. ListsAgree'
  BY DEF ListsAgree, TypeOK
<1>3. HwinfoWhole'
  BY WholeStays DEF routerVars
<1> QED
  BY <1>1, <1>2, <1>3, PoxElsewhere

LEMMA BroadcastDoneStep ==
    ASSUME SessionInv, BroadcastDone PROVE SessionInv'
<1> USE DEF BroadcastDone, SessionInv
<1>1. TypeOK'
  <2>1. at' \in 1..Len(srclients') + 1
    BY DEF TypeOK, clientVars
  <2> QED
    BY <2>1 DEF TypeOK, clientVars, routerVars
<1>2. ListsAgree'
  BY DEF ListsAgree
<1>3. HwinfoWhole'
  BY WholeStays DEF routerVars
<1> QED
  BY <1>1, <1>2, <1>3, PoxElsewhere

\* A message that is no HWINFO, or follows an early frame, does not save a
\* router that was sent one.
LEMMA DoomedStays ==
    ASSUME NEW r \in Routers, toRouter[r] \in Seq(FromServer), Doomed(r),
           NEW msg \in FromServer, toRouter'[r] = Append(toRouter[r], msg)
    PROVE  Doomed(r)'
<1>1. PICK k \in 1..Len(toRouter[r]) :
          /\ toRouter[r][k].type = "packet"
          /\ \A j \in 1..k : toRouter[r][j].type # "hwinfo"
  BY DEF Doomed
<1>2. \A j \in 1..k : toRouter'[r][j] = toRouter[r][j]
  BY AppendFacts
<1>3. k \in 1..Len(toRouter'[r])
  BY AppendFacts
<1> QED
  BY <1>1, <1>2, <1>3 DEF Doomed

\* One turn of a broadcast, for the router whose turn it is.
LEMMA FrameSent ==
    ASSUME SessionInv, NEW r \in online, NEW i \in Interfaces, pox = "broadcast",
           toRouter' = [toRouter EXCEPT ![r] = Append(@, Packet(i, frames))],
           early' = IF Informed(r) THEN early ELSE early \cup {r},
           UNCHANGED <<clientVars, routerVars, toServer>>
    PROVE  RouterInv(r)'
<1> DEFINE msg == Packet(i, frames)
<1>1. /\ r \in Routers /\ toRouter[r] \in Seq(FromServer)
      /\ toRouter'[r] = Append(toRouter[r], msg)
  <2>1. online \subseteq Routers
    BY ClientsAreRouters DEF SessionInv
  <2> QED
    BY <2>1 DEF SessionInv, TypeOK
<1>2. msg \in FromServer /\ msg \in Downs /\ msg.type = "packet"
  <2>1. frames \in 1..MaxFrames
    BY DEF SessionInv, ListsAgree, TypeOK
  <2>2. msg \in Downs
    BY <2>1 DEF Downs
  <2>3. msg.type = "packet"
    BY DEF Packet
  <2> QED
    BY <2>2, <2>3 DEF FromServer
<1> HIDE DEF msg
<1>3. RouterInv(r)
  BY <1>1 DEF SessionInv
<1>4. CASE r \in early
  BY <1>1, <1>2, <1>3, <1>4, DoomedStays DEF RouterInv, routerVars
<1>5. CASE r \notin early /\ ~Informed(r)
  <2>1. /\ if_list[r] = {}
        /\ \A k \in 1..Len(toRouter[r]) : toRouter[r][k].type # "hwinfo"
    BY <1>5 DEF Informed
  <2>2. Doomed(r)'
    <3>1. /\ Len(toRouter'[r]) = Len(toRouter[r]) + 1 /\ Len(toRouter[r]) \in Nat
          /\ toRouter'[r][Len(toRouter[r]) + 1] = msg
          /\ \A k \in 1..Len(toRouter[r]) : toRouter'[r][k] = toRouter[r][k]
      BY <1>1, <1>2, AppendFacts
    <3>2. \A j \in 1..Len(toRouter[r]) + 1 : toRouter'[r][j].type # "hwinfo"
      BY <1>2, <2>1, <3>1
    <3> QED
      BY <1>2, <3>1, <3>2 DEF Doomed
  <2> QED
    BY <1>5, <2>1, <2>2 DEF RouterInv, routerVars
<1>6. CASE r \notin early /\ Informed(r)
  <2>1. CASE phase[r] = "ended"
    BY <1>6, <2>1 DEF RouterInv, routerVars
  <2>2. ~Waiting(r) /\ ~Negotiating(r)
    <3>1. ASSUME NEW type \in {"auth request", "auth status"}, toRouter[r] = <<Plain(type)>>
          PROVE  \A k \in 1..Len(toRouter[r]) : toRouter[r][k].type # "hwinfo"
      <4>1. Plain(type).type # "hwinfo"
        BY DEF Plain
      <4>2. \A k \in 1..Len(toRouter[r]) : toRouter[r][k] = Plain(type)
        BY <3>1, Single
      <4> QED
        BY <4>1, <4>2
    <3>2. toRouter[r] = <<>> => \A k \in 1..Len(toRouter[r]) : FALSE
      OBVIOUS
    <3> QED
      BY <1>6, <3>1, <3>2 DEF Informed, Waiting, Negotiating
  <2>3. CASE Opening(r)
    <3>1. /\ toRouter'[r] # <<>> /\ Head(toRouter'[r]) = Head(toRouter[r])
          /\ Tail(toRouter'[r]) = Append(Tail(toRouter[r]), msg)
      BY <1>1, <1>2, <2>3, AppendFacts DEF Opening
    <3>2. Tail(toRouter'[r]) \in Seq(Downs)
      BY <1>2, <2>3, <3>1, AppendFacts DEF Opening
    <3> QED
      BY <1>6, <2>3, <3>1, <3>2 DEF RouterInv, Orderly, Opening, routerVars, clientVars
  <2>4. CASE Opened(r)
    <3>1. toRouter'[r] \in Seq(Downs)
      BY <1>1, <1>2, <2>4, AppendFacts DEF Opened
    <3> QED
      BY <1>6, <2>4, <3>1 DEF RouterInv, Orderly, Opened, routerVars, clientVars
  <2> QED
    BY <1>3, <1>6, <2>1, <2>2, <2>3, <2>4 DEF RouterInv, Orderly
<1> QED
  BY <1>4, <1>5, <1>6


LEMMA BroadcastStep ==
    ASSUME SessionInv, broadcast PROVE SessionInv'
<1> DEFINE r == srclients[at]
<1>1. r \in Routers /\ at' \in 1..Len(srclients) + 1 /\ at \in 1..Len(srclients)
  BY ElementOfSeq DEF SessionInv, TypeOK, broadcast
<1> HIDE DEF r
<1>2. CASE r \notin online
  <2>1. UNCHANGED <<interfaces, ports, pox, todo, frames, arriving, clientVars,
                    routerVars, early, toRouter, toServer>>
    BY <1>2 DEF broadcast, r
  <2>2. TypeOK'
    BY <1>1, <2>1 DEF SessionInv, TypeOK, clientVars, routerVars
  <2>3. ListsAgree'
    BY <2>1 DEF SessionInv, ListsAgree
  <2>4. HwinfoWhole'
    BY <2>1, WholeStays DEF SessionInv, routerVars
  <2> QED
    BY <2>1, <2>2, <2>3, <2>4, PoxElsewhere DEF SessionInv
<1>3. CASE r \in online
  <2>1. PICK i \in arriving : toRouter' = [toRouter EXCEPT ![r] = Append(@, Packet(i, frames))]
    BY <1>3 DEF broadcast, r
  <2>2. /\ pox = "broadcast" /\ early' = IF Informed(r) THEN early ELSE early \cup {r}
        /\ UNCHANGED <<interfaces, ports, pox, todo, frames, arriving, clientVars,
                       routerVars, toServer>>
    BY <1>3 DEF broadcast, r
  <2>3. i \in Interfaces /\ frames \in 1..MaxFrames
    BY <2>2 DEF SessionInv, TypeOK, ListsAgree
  <2>4. Packet(i, frames) \in FromServer /\ Packet(i, frames).type = "packet"
    <3>1. Packet(i, frames) \in Downs
      BY <2>3 DEF Downs
    <3>2. Packet(i, frames).type = "packet"
      BY DEF Packet
    <3> QED
      BY <3>1, <3>2 DEF FromServer
  <2>5. TypeOK'
    <3>1. toRouter' \in [Routers -> Seq(FromServer)]
      BY <1>1, <2>1, <2>4, AppendFacts DEF SessionInv, TypeOK
    <3> QED
      BY <1>1, <2>2, <3>1 DEF SessionInv, TypeOK, clientVars, routerVars
  <2>6. ListsAgree'
    BY <2>2 DEF SessionInv, ListsAgree
  <2>7. HwinfoWhole'
    <3>1. Packet(i, frames) \in Whole /\ Whole' = Whole
      BY <2>2, <2>4 DEF Whole
    <3>2. \A s \in Routers : toRouter'[s] \in Seq(Whole)
      <4>1. Append(toRouter[r], Packet(i, frames)) \in Seq(Whole)
        BY <1>1, <3>1, AppendFacts DEF SessionInv, HwinfoWhole
      <4> QED
        BY <1>1, <2>1, <4>1 DEF SessionInv, HwinfoWhole, TypeOK
    <3> QED
      BY <2>2, <3>1, <3>2 DEF SessionInv, HwinfoWhole, routerVars
  <2>8. ASSUME NEW s \in Routers PROVE RouterInv(s)'
    <3>1. CASE s = r
      BY <1>3, <2>1, <2>2, <2>3, <3>1, FrameSent
    <3>2. CASE s # r
      <4>1. toRouter'[s] = toRouter[s] /\ ((s \in early') <=> (s \in early))
        BY <1>1, <2>1, <2>2, <3>2 DEF SessionInv, TypeOK
      <4> QED
        BY <2>2, <4>1, Elsewhere DEF SessionInv, clientVars, routerVars
    <3> QED
      BY <3>1, <3>2
  <2> QED
    BY <2>5, <2>6, <2>7, <2>8 DEF SessionInv
<1> QED
  BY <1>2, <1>3

----------------------------------------------------------------------------
\* The reactor thread.  Its steps, and a router's, are about one router.

LEMMA OneRouter ==
    ASSUME SessionInv, NEW r \in Routers, TypeOK', UNCHANGED <<poxVars, early>>,
           RouterInv(r)', if_list'[r] \in {{}, Interfaces}, if_list'[r] \subseteq ports,
           toRouter'[r] \in Seq(Whole),
           \A s \in Routers \ {r} :
               /\ phase'[s] = phase[s] /\ if_list'[s] = if_list[s]
               /\ toRouter'[s] = toRouter[s] /\ toServer'[s] = toServer[s]
               /\ s \in greeting' <=> s \in greeting
               /\ s \in ToSet(srclients') <=> s \in ToSet(srclients)
    PROVE  SessionInv'
<1>1. ListsAgree'
  BY DEF SessionInv, ListsAgree, poxVars
<1>2. HwinfoWhole'
  <2>1. Whole' = Whole /\ ports' = ports
    BY DEF Whole, poxVars
  <2> QED
    BY <2>1 DEF SessionInv, HwinfoWhole
<1>3. ASSUME NEW s \in Routers PROVE RouterInv(s)'
  <2>1. CASE s = r
    BY <2>1
  <2>2. CASE s # r
    BY <2>2, Elsewhere DEF SessionInv
  <2> QED
    BY <2>1, <2>2
<1> QED
  BY <1>1, <1>2, <1>3 DEF SessionInv

LEMMA NewClientStep ==
    ASSUME SessionInv, NEW r \in Routers, _handle_new_client(r) PROVE SessionInv'
<1> USE DEF _handle_new_client
<1>1. srclients \in Seq(Routers) /\ ToSet(srclients') = ToSet(srclients) \cup {r}
  BY AppendFacts DEF SessionInv, TypeOK
<1>2. TypeOK'
  <2>1. srclients' \in Seq(Routers) /\ Len(srclients') = Len(srclients) + 1
    BY <1>1, AppendFacts
  <2>2. at' \in 1..Len(srclients') + 1
    BY <1>1, <2>1 DEF SessionInv, TypeOK, poxVars
  <2> QED
    BY <1>1, <2>1, <2>2 DEF SessionInv, TypeOK, poxVars, routerVars
<1>3. RouterInv(r)'
  <2>1. RouterInv(r) /\ UNCHANGED <<phase, if_list, early, toRouter, toServer>>
    BY DEF SessionInv, routerVars
  <2>2. Doomed(r) => Doomed(r)'
    BY DEF Doomed
  <2>3. Orderly(r) => Waiting(r)'
    BY <2>1 DEF Orderly, Waiting, Negotiating, Opening, Opened
  <2> QED
    BY <2>1, <2>2, <2>3 DEF RouterInv, Orderly
<1> QED
  BY <1>1, <1>2, <1>3, OneRouter DEF SessionInv, HwinfoWhole, routerVars

\* What a message does to a router that has ended or had an early frame.
LEMMA MessageSent ==
    ASSUME SessionInv, NEW r \in Routers, NEW msg \in Whole,
           toRouter' = [toRouter EXCEPT ![r] = Append(@, msg)],
           UNCHANGED <<routerVars, early>>, r \in early \/ phase[r] = "ended"
    PROVE  RouterInv(r)'
<1>1. toRouter'[r] = Append(toRouter[r], msg) /\ toRouter[r] \in Seq(FromServer) /\ msg \in FromServer
  BY DEF SessionInv, TypeOK, Whole
<1> QED
  BY <1>1, DoomedStays DEF SessionInv, RouterInv, routerVars

\* The queue of r after a message is sent.
LEMMA QueueGrows ==
    ASSUME SessionInv, NEW r \in Routers, NEW msg \in Whole,
           toRouter' = [toRouter EXCEPT ![r] = Append(@, msg)]
    PROVE  /\ toRouter' \in [Routers -> Seq(FromServer)]
           /\ toRouter'[r] \in Seq(Whole)
           /\ toRouter'[r] = Append(toRouter[r], msg)
           /\ \A s \in Routers \ {r} : toRouter'[s] = toRouter[s]
<1>1. toRouter \in [Routers -> Seq(FromServer)] /\ toRouter[r] \in Seq(Whole) /\ msg \in FromServer
  BY DEF SessionInv, TypeOK, HwinfoWhole, Whole
<1>2. Append(toRouter[r], msg) \in Seq(FromServer) /\ Append(toRouter[r], msg) \in Seq(Whole)
  BY <1>1, AppendFacts
<1> QED
  BY <1>1, <1>2

LEMMA SendAuthRequestStep ==
    ASSUME SessionInv, NEW r \in Routers, SendAuthRequest(r) PROVE SessionInv'
<1> DEFINE msg == Plain("auth request")
<1>1. msg \in Whole
  BY DEF Whole, FromServer, Plain
<1>2. toRouter' = [toRouter EXCEPT ![r] = Append(@, msg)]
  BY DEF SendAuthRequest
<1>3. TypeOK'
  BY <1>1, <1>2, QueueGrows DEF SendAuthRequest, SessionInv, TypeOK, poxVars, routerVars
<1>4. RouterInv(r)'
  <2>1. CASE r \in early \/ phase[r] = "ended"
    BY <1>1, <1>2, <2>1, MessageSent DEF SendAuthRequest
  <2>2. CASE r \notin early /\ phase[r] # "ended"
    <3>1. r \in ToSet(srclients) /\ r \in greeting
      BY DEF SendAuthRequest, SessionInv, TypeOK
    <3>2. Waiting(r)
      BY <2>2, <3>1 DEF SessionInv, RouterInv, Orderly, Negotiating, Opening, Opened
    <3>3. toRouter'[r] = <<msg>>
      BY <1>1, <1>2, <3>2, QueueGrows, AppendFirst DEF Waiting
    <3>4. Negotiating(r)'
      BY <3>1, <3>2, <3>3 DEF Negotiating, Waiting, SendAuthRequest, routerVars
    <3> QED
      BY <2>2, <3>4 DEF RouterInv, Orderly, SendAuthRequest
  <2> QED
    BY <2>1, <2>2
<1> QED
  BY <1>1, <1>2, <1>3, <1>4, QueueGrows, OneRouter
     DEF SendAuthRequest, SessionInv, HwinfoWhole, routerVars

LEMMA DisconnectedStep ==
    ASSUME SessionInv, NEW r \in Routers, _handle_client_disconnected(r) PROVE SessionInv'
<1> USE DEF _handle_client_disconnected
<1>1. srclients' = srclients
  BY DEF Clients
<1>2. toRouter'[r] = <<>> /\ toRouter'[r] \in Seq(Whole)
  BY EmptySeq DEF SessionInv, TypeOK
<1>3. TypeOK'
  <2>1. /\ toRouter' \in [Routers -> Seq(FromServer)]
        /\ toServer' \in [Routers -> Seq(FromRouter)]
    BY EmptySeq DEF SessionInv, TypeOK
  <2>2. greeting' \subseteq online'
    BY DEF SessionInv, TypeOK
  <2> QED
    BY <1>1, <2>1, <2>2 DEF SessionInv, TypeOK, poxVars, routerVars
<1>4. RouterInv(r)'
  BY DEF SessionInv, RouterInv, Orderly, Waiting, Negotiating, Opening, Opened,
         Gone, routerVars
<1>5. \A s \in Routers \ {r} : toRouter'[s] = toRouter[s] /\ toServer'[s] = toServer[s]
  BY DEF SessionInv, TypeOK
<1> QED
  BY <1>1, <1>2, <1>3, <1>4, <1>5, OneRouter DEF SessionInv, HwinfoWhole, routerVars

\* The queue of the server from r after a message is taken.
LEMMA MessageTaken ==
    ASSUME SessionInv, NEW r \in Routers, NEW type, Takes(r, type)
    PROVE  /\ toServer' \in [Routers -> Seq(FromRouter)]
           /\ toServer'[r] = Tail(toServer[r])
           /\ Head(toServer[r]).type = type /\ toServer[r] # <<>>
           /\ \A s \in Routers \ {r} : toServer'[s] = toServer[s]
<1>1. toServer \in [Routers -> Seq(FromRouter)]
  BY DEF SessionInv, TypeOK
<1>2. Tail(toServer[r]) \in Seq(FromRouter)
  BY <1>1, TailFacts DEF Takes
<1> QED
  BY <1>1, <1>2 DEF Takes

\* The type of the next message to the server tells how far the session is.
LEMMA NextToServer ==
    ASSUME NEW r \in Routers, Orderly(r), toServer[r] # <<>>
    PROVE  \/ /\ Head(toServer[r]).type = "auth reply" /\ Negotiating(r)
              /\ phase[r] = "auth status" /\ toRouter[r] = <<>>
              /\ toServer[r] = <<Plain("auth reply")>> /\ Tail(toServer[r]) = <<>>
           \/ /\ Head(toServer[r]).type = "open" /\ Negotiating(r)
              /\ phase[r] = "loop" /\ toRouter[r] = <<>>
              /\ toServer[r] = <<Plain("open")>> /\ Tail(toServer[r]) = <<>>
           \/ Head(toServer[r]).type = "packet" /\ Opened(r)
<1>1. \A type : Plain(type).type = type
  BY DEF Plain
<1>2. ASSUME Opened(r) PROVE Head(toServer[r]).type = "packet"
  <2>1. Head(toServer[r]) \in Ups
    BY <1>2, TailFacts DEF Opened
  <2> QED
    BY <2>1 DEF Ups, Packet
<1>3. ASSUME NEW type, toServer[r] = <<Plain(type)>> 
      PROVE  Head(toServer[r]).type = type /\ Tail(toServer[r]) = <<>>
  BY <1>1, <1>3, Single
<1> QED
  BY <1>2, <1>3 DEF Orderly, Waiting, Negotiating, Opening

LEMMA AuthReplyStep ==
    ASSUME SessionInv, NEW r \in Routers, _handle_auth_reply(r) PROVE SessionInv'
<1> DEFINE msg == Plain("auth status")
<1>1. msg \in Whole
  BY DEF Whole, FromServer, Plain
<1>2. toRouter' = [toRouter EXCEPT ![r] = Append(@, msg)] /\ Takes(r, "auth reply")
  BY DEF _handle_auth_reply
<1>3. UNCHANGED <<poxVars, clientVars, routerVars, early>>
  BY DEF _handle_auth_reply
<1> HIDE DEF msg
<1>6. /\ toServer[r] # <<>> /\ Head(toServer[r]).type = "auth reply"
      /\ toServer'[r] = Tail(toServer[r])
  BY <1>2, MessageTaken
<1>4. TypeOK'
  BY <1>1, <1>2, <1>3, QueueGrows, MessageTaken
     DEF SessionInv, TypeOK, poxVars, clientVars, routerVars
<1>5. RouterInv(r)'
  <2>1. CASE r \in early \/ phase[r] = "ended"
    BY <1>1, <1>2, <1>3, <2>1, MessageSent
  <2>2. CASE r \notin early /\ phase[r] # "ended"
    <3>1. /\ Negotiating(r) /\ phase[r] = "auth status" /\ toRouter[r] = <<>>
          /\ Tail(toServer[r]) = <<>>
      <4>1. Orderly(r)
        BY <2>2 DEF SessionInv, RouterInv
      <4> QED
        BY <1>6, <4>1, NextToServer
    <3>2. toRouter'[r] = <<msg>> /\ toServer'[r] = <<>>
      <4>1. toRouter'[r] = Append(<<>>, msg)
        BY <1>1, <1>2, <3>1, QueueGrows
      <4> QED
        BY <1>6, <3>1, <4>1, AppendFirst
    <3>3. Negotiating(r)'
      BY <1>3, <3>1, <3>2 DEF Negotiating, routerVars, clientVars, msg
    <3> QED
      BY <1>3, <2>2, <3>3 DEF RouterInv, Orderly
  <2> QED
    BY <2>1, <2>2
<1> QED
  BY <1>1, <1>2, <1>3, <1>4, <1>5, QueueGrows, MessageTaken, OneRouter
     DEF SessionInv, HwinfoWhole, routerVars, clientVars

LEMMA OpenStep ==
    ASSUME SessionInv, NEW r \in Routers, _handle_open_msg(r) PROVE SessionInv'
<1> DEFINE msg == Hwinfo(Interfaces)
<1>1. Takes(r, "open") /\ UNCHANGED <<poxVars, clientVars, routerVars, early>>
  BY DEF _handle_open_msg
<1>2. Orderly(r) => /\ Negotiating(r) /\ phase[r] = "loop" /\ toRouter[r] = <<>>
                    /\ toServer[r] = <<Plain("open")>> /\ toServer'[r] = <<>>
  <2>1. /\ toServer[r] # <<>> /\ Head(toServer[r]).type = "open"
        /\ toServer'[r] = Tail(toServer[r])
    BY <1>1, MessageTaken
  <2> SUFFICES ASSUME Orderly(r)
               PROVE  /\ Negotiating(r) /\ phase[r] = "loop" /\ toRouter[r] = <<>>
                      /\ toServer[r] = <<Plain("open")>> /\ Tail(toServer[r]) = <<>>
    BY <2>1
  <2> QED
    BY <2>1, NextToServer
<1>3. CASE interfaces = {}
  <2>1. toRouter' = toRouter
    BY <1>3 DEF _handle_open_msg, HasInterfaces
  <2>2. TypeOK'
    BY <1>1, <2>1, MessageTaken DEF SessionInv, TypeOK, poxVars, clientVars, routerVars
  <2>3. Orderly(r) => Negotiating(r)'
    BY <1>1, <1>2, <2>1 DEF Negotiating, clientVars, routerVars
  <2>4. Doomed(r) => Doomed(r)'
    BY <2>1 DEF Doomed
  <2>5. RouterInv(r)'
    BY <1>1, <2>3, <2>4 DEF SessionInv, RouterInv, Orderly, routerVars
  <2> QED
    BY <1>1, <2>1, <2>2, <2>5, MessageTaken, OneRouter
       DEF SessionInv, HwinfoWhole, routerVars, clientVars
<1>4. CASE interfaces # {}
  <2>1. interfaces = Interfaces /\ Interfaces \subseteq ports
    BY <1>4 DEF SessionInv, ListsAgree
  <2>2. msg \in Whole
    BY <2>1 DEF Whole, FromServer, Hwinfo
  <2>3. toRouter' = [toRouter EXCEPT ![r] = Append(@, msg)]
    BY <1>4, <2>1 DEF _handle_open_msg, HasInterfaces
  <2> HIDE DEF msg
  <2>4. TypeOK'
    BY <1>1, <2>2, <2>3, QueueGrows, MessageTaken
       DEF SessionInv, TypeOK, poxVars, clientVars, routerVars
  <2>5. RouterInv(r)'
    <3>1. CASE r \in early \/ phase[r] = "ended"
      BY <1>1, <2>2, <2>3, <3>1, MessageSent
    <3>2. CASE r \notin early /\ phase[r] # "ended"
      <4>1. Orderly(r)
        BY <3>2 DEF SessionInv, RouterInv
      <4>2. toRouter'[r] = <<msg>>
        BY <1>2, <2>2, <2>3, <4>1, QueueGrows, AppendFirst
      <4>3. toRouter'[r] # <<>> /\ Head(toRouter'[r]) = msg /\ Tail(toRouter'[r]) \in Seq(Downs)
        BY <4>2, Single, EmptySeq
      <4>4. Opening(r)'
        BY <1>1, <1>2, <4>1, <4>3 DEF Opening, Negotiating, routerVars, clientVars, msg
      <4> QED
        BY <1>1, <3>2, <4>4 DEF RouterInv, Orderly
    <3> QED
      BY <3>1, <3>2
  <2> QED
    BY <1>1, <2>2, <2>3, <2>4, <2>5, QueueGrows, MessageTaken, OneRouter
       DEF SessionInv, HwinfoWhole, routerVars, clientVars
<1> QED
  BY <1>3, <1>4

LEMMA PacketMsgStep ==
    ASSUME SessionInv, NEW r \in Routers, _handle_packet_msg(r) PROVE SessionInv'
<1>1. /\ Takes(r, "packet")
      /\ UNCHANGED <<poxVars, clientVars, routerVars, early, toRouter>>
  BY DEF _handle_packet_msg
<1>2. TypeOK'
  BY <1>1, MessageTaken DEF SessionInv, TypeOK, poxVars, clientVars, routerVars
<1>3. Orderly(r) => Opened(r)'
  <2> SUFFICES ASSUME Orderly(r) PROVE Opened(r)'
    OBVIOUS
  <2>1. /\ toServer[r] # <<>> /\ Head(toServer[r]).type = "packet"
        /\ toServer'[r] = Tail(toServer[r])
    BY <1>1, MessageTaken
  <2>2. Opened(r)
    BY <2>1, NextToServer
  <2>3. toServer'[r] \in Seq(Ups)
    BY <2>1, <2>2, TailFacts DEF Opened
  <2> QED
    BY <1>1, <2>2, <2>3 DEF Opened, clientVars, routerVars
<1>4. Doomed(r) => Doomed(r)'
  BY <1>1 DEF Doomed
<1>5. RouterInv(r)'
  BY <1>1, <1>3, <1>4 DEF SessionInv, RouterInv, Orderly, routerVars
<1> QED
  BY <1>1, <1>2, <1>5, MessageTaken, OneRouter DEF SessionInv, HwinfoWhole, routerVars, clientVars

----------------------------------------------------------------------------
\* A router

LEMMA ConnectStep ==
    ASSUME SessionInv, NEW r \in Routers, Connect(r) PROVE SessionInv'
<1> USE DEF Connect
<1>1. phase \in [Routers -> Phases] /\ "auth request" \in Phases
  BY DEF SessionInv, TypeOK, Phases
<1>2. TypeOK'
  BY <1>1 DEF SessionInv, TypeOK, poxVars, clientVars
<1>3. RouterInv(r)'
  <2>1. Doomed(r) => Doomed(r)'
    BY DEF Doomed
  <2>2. Orderly(r) => Waiting(r)'
    BY <1>1 DEF Orderly, Waiting, Negotiating, Opening, Opened, clientVars
  <2> QED
    BY <1>1, <2>1, <2>2 DEF SessionInv, RouterInv, Orderly, Gone
<1> QED
  BY <1>1, <1>2, <1>3, OneRouter DEF SessionInv, HwinfoWhole, clientVars

LEMMA InterruptStep ==
    ASSUME SessionInv, NEW r \in Routers, Interrupt(r) PROVE SessionInv'
<1> USE DEF Interrupt
<1>1. phase \in [Routers -> Phases] /\ "ended" \in Phases /\ "ended" \in Gone
  BY DEF SessionInv, TypeOK, Phases, Gone
<1>2. TypeOK'
  BY <1>1 DEF SessionInv, TypeOK, poxVars, clientVars
<1>3. RouterInv(r)'
  BY <1>1 DEF SessionInv, RouterInv, Gone
<1> QED
  BY <1>1, <1>2, <1>3, OneRouter DEF SessionInv, HwinfoWhole, clientVars

LEMMA SendPacketStep ==
    ASSUME SessionInv, NEW r \in Routers, SendPacket(r) PROVE SessionInv'
<1>1. PICK i \in if_list[r] : toServer' = [toServer EXCEPT ![r] = <<Packet(i, 0)>>]
  BY DEF SendPacket
<1>2. /\ phase[r] = "loop"
      /\ UNCHANGED <<poxVars, clientVars, routerVars, early, toRouter>>
  BY DEF SendPacket
<1>3. Packet(i, 0) \in Ups
  BY <1>1 DEF SessionInv, TypeOK, Ups
<1>4. <<Packet(i, 0)>> \in Seq(Ups) /\ <<Packet(i, 0)>> \in Seq(FromRouter)
  <2>1. Packet(i, 0) \in FromRouter
    BY <1>3 DEF FromRouter
  <2> QED
    BY <1>3, <2>1, SingleInSeq
<1>5. TypeOK'
  BY <1>1, <1>2, <1>4 DEF SessionInv, TypeOK, poxVars, clientVars, routerVars
<1>6. toServer'[r] = <<Packet(i, 0)>> /\ \A s \in Routers \ {r} : toServer'[s] = toServer[s]
  BY <1>1 DEF SessionInv, TypeOK
<1>7. RouterInv(r)'
  <2>1. r \notin early /\ Orderly(r)
    BY <1>1, <1>2 DEF SessionInv, RouterInv
  <2>2. Opened(r)
    BY <1>1, <2>1 DEF Orderly, Waiting, Negotiating, Opening
  <2>3. Opened(r)'
    BY <1>2, <1>4, <1>6, <2>2 DEF Opened, clientVars, routerVars
  <2> QED
    BY <1>2, <2>1, <2>3 DEF RouterInv, Orderly
<1> QED
  BY <1>2, <1>5, <1>6, <1>7, OneRouter DEF SessionInv, HwinfoWhole, clientVars, routerVars

\* The queue of r after a message is read.
LEMMA MessageRead ==
    ASSUME SessionInv, NEW r \in Routers, Reads(r)
    PROVE  /\ toRouter' \in [Routers -> Seq(FromServer)]
           /\ toRouter'[r] = Tail(toRouter[r]) /\ toRouter'[r] \in Seq(Whole)
           /\ toRouter[r] # <<>> /\ Head(toRouter[r]) \in Whole
           /\ \A s \in Routers \ {r} : toRouter'[s] = toRouter[s]
           /\ UNCHANGED <<poxVars, clientVars, early>>
<1>1. toRouter \in [Routers -> Seq(FromServer)] /\ toRouter[r] \in Seq(Whole) /\ toRouter[r] # <<>>
  BY DEF SessionInv, TypeOK, HwinfoWhole, Reads
<1>2. /\ Tail(toRouter[r]) \in Seq(FromServer) /\ Tail(toRouter[r]) \in Seq(Whole)
      /\ Head(toRouter[r]) \in Whole
  BY <1>1, TailFacts
<1> QED
  BY <1>1, <1>2 DEF Reads

\* The early frame of r comes nearer, until it is read.
LEMMA DoomedReads ==
    ASSUME NEW r \in Routers, toRouter[r] \in Seq(FromServer), toRouter[r] # <<>>,
           Doomed(r), toRouter'[r] = Tail(toRouter[r])
    PROVE  /\ Head(toRouter[r]).type # "hwinfo"
           /\ Head(toRouter[r]).type # "packet" => Doomed(r)'
<1>1. PICK k \in 1..Len(toRouter[r]) :
          /\ toRouter[r][k].type = "packet"
          /\ \A j \in 1..k : toRouter[r][j].type # "hwinfo"
  BY DEF Doomed
<1>2. /\ Head(toRouter[r]) = toRouter[r][1] /\ Len(toRouter[r]) \in Nat \ {0}
      /\ Len(toRouter'[r]) = Len(toRouter[r]) - 1
      /\ \A j \in 1..Len(toRouter[r]) - 1 : toRouter'[r][j] = toRouter[r][j + 1]
  BY TailFacts
<1>3. Head(toRouter[r]).type # "hwinfo"
  BY <1>1, <1>2
<1>4. ASSUME Head(toRouter[r]).type # "packet" PROVE Doomed(r)'
  <2>1. k # 1
    BY <1>1, <1>2, <1>4
  <2>2. k - 1 \in 1..Len(toRouter'[r]) /\ toRouter'[r][k - 1] = toRouter[r][k]
    BY <1>2, <2>1
  <2>3. \A j \in 1..k - 1 : toRouter'[r][j].type # "hwinfo"
    BY <1>1, <1>2
  <2> QED
    BY <1>1, <2>2, <2>3 DEF Doomed
<1> QED
  BY <1>3, <1>4

\* The type of the next message to a router tells how far the session is.
LEMMA NextToRouter ==
    ASSUME NEW r \in Routers, Orderly(r), toRouter[r] # <<>>
    PROVE  \/ /\ phase[r] \in {"auth request", "auth status"} /\ Negotiating(r)
              /\ Head(toRouter[r]) = Plain(phase[r]) /\ Tail(toRouter[r]) = <<>>
              /\ toServer[r] = <<>>
           \/ Head(toRouter[r]).type = "hwinfo" /\ Opening(r)
           \/ /\ Head(toRouter[r]).type = "packet" /\ Opened(r)
              /\ Head(toRouter[r]).interface \in Interfaces
<1>1. ASSUME Opened(r)
      PROVE  Head(toRouter[r]).type = "packet" /\ Head(toRouter[r]).interface \in Interfaces
  <2>1. Head(toRouter[r]) \in Downs
    BY <1>1, TailFacts DEF Opened
  <2> QED
    BY <2>1 DEF Downs, Packet
<1>2. ASSUME NEW type, toRouter[r] = <<Plain(type)>>
      PROVE  Head(toRouter[r]) = Plain(type) /\ Tail(toRouter[r]) = <<>>
  BY <1>2, Single
<1>3. Opening(r) => Head(toRouter[r]).type = "hwinfo"
  BY DEF Opening, Hwinfo
<1> QED
  BY <1>1, <1>2, <1>3 DEF Orderly, Waiting, Negotiating

LEMMA NegotiateStep ==
    ASSUME SessionInv, NEW r \in Routers, Negotiate(r) PROVE SessionInv'
<1>1. /\ phase[r] \in {"auth request", "auth status"} /\ Reads(r)
      /\ UNCHANGED <<if_list, seen>>
  BY DEF Negotiate
<1>2. /\ phase \in [Routers -> Phases] /\ toServer \in [Routers -> Seq(FromRouter)]
      /\ toRouter[r] \in Seq(FromServer)
  BY DEF SessionInv, TypeOK
<1>3. /\ toRouter'[r] = Tail(toRouter[r]) /\ toRouter[r] # <<>>
      /\ UNCHANGED <<poxVars, clientVars, early>>
  BY <1>1, MessageRead
<1>4. CASE Expected(r)
  <2>1. PICK msg \in {Plain("auth reply"), Plain("open")} :
           /\ toServer' = [toServer EXCEPT ![r] = Append(@, msg)]
           /\ \/ /\ phase[r] = "auth request" /\ msg = Plain("auth reply")
                 /\ phase' = [phase EXCEPT ![r] = "auth status"]
              \/ /\ phase[r] = "auth status" /\ msg = Plain("open")
                 /\ phase' = [phase EXCEPT ![r] = "loop"]
    BY <1>4 DEF Negotiate
  <2>2. /\ toServer' \in [Routers -> Seq(FromRouter)]
        /\ toServer'[r] = Append(toServer[r], msg)
        /\ \A s \in Routers \ {r} : toServer'[s] = toServer[s]
    <3>1. Append(toServer[r], msg) \in Seq(FromRouter)
      BY <1>2, AppendFacts DEF FromRouter
    <3> QED
      BY <1>2, <2>1, <3>1
  <2>3. TypeOK'
    <3>1. phase' \in [Routers -> Phases]
      BY <1>2, <2>1 DEF Phases
    <3> QED
      BY <1>1, <1>3, <2>2, <3>1, MessageRead DEF SessionInv, TypeOK, poxVars, clientVars
  <2>4. RouterInv(r)'
    <3>1. CASE r \in early
      <4>1. if_list[r] = {} /\ Doomed(r)
        BY <1>1, <3>1 DEF SessionInv, RouterInv, Gone
      <4>2. Head(toRouter[r]).type # "packet"
        BY <1>1, <1>4 DEF Expected
      <4>3. Doomed(r)'
        BY <1>2, <1>3, <4>1, <4>2, DoomedReads
      <4> QED
        BY <1>1, <1>3, <3>1, <4>1, <4>3 DEF RouterInv
    <3>2. CASE r \notin early
      <4>1. Orderly(r)
        BY <1>1, <3>2 DEF SessionInv, RouterInv
      <4>2. Negotiating(r) /\ toRouter'[r] = <<>> /\ toServer[r] = <<>>
        BY <1>1, <1>3, <4>1, NextToRouter DEF Opening, Opened
      <4>3. toServer'[r] = <<msg>>
        BY <2>2, <4>2, AppendFirst
      <4>4. Negotiating(r)'
        BY <1>1, <1>2, <1>3, <2>1, <4>2, <4>3 DEF Negotiating, clientVars
      <4> QED
        BY <1>3, <3>2, <4>4 DEF RouterInv, Orderly
    <3> QED
      BY <3>1, <3>2
  <2>5. \A s \in Routers \ {r} : phase'[s] = phase[s]
    BY <1>2, <2>1
  <2> QED
    BY <1>1, <1>3, <2>2, <2>3, <2>4, <2>5, MessageRead, OneRouter
       DEF SessionInv, HwinfoWhole, clientVars
<1>5. CASE ~Expected(r)
  <2>1. phase' = [phase EXCEPT ![r] = "failed"] /\ toServer' = toServer
    BY <1>5 DEF Negotiate
  <2>2. TypeOK'
    <3>1. phase' \in [Routers -> Phases]
      BY <1>2, <2>1 DEF Phases
    <3> QED
      BY <1>1, <1>3, <2>1, <3>1, MessageRead DEF SessionInv, TypeOK, poxVars, clientVars
  <2>3. r \in early /\ if_list[r] = {}
    <3>1. ASSUME Orderly(r) PROVE FALSE
      <4>1. Head(toRouter[r]) = Plain(phase[r])
        BY <1>1, <1>3, <3>1, NextToRouter DEF Opening, Opened
      <4> QED
        BY <1>5, <4>1 DEF Expected, Plain
    <3> QED
      BY <1>1, <3>1 DEF SessionInv, RouterInv
  <2>4. RouterInv(r)'
    BY <1>1, <1>2, <1>3, <2>1, <2>3 DEF RouterInv, Gone
  <2>5. \A s \in Routers \ {r} : phase'[s] = phase[s]
    BY <1>2, <2>1
  <2> QED
    BY <1>1, <1>3, <2>1, <2>2, <2>4, <2>5, MessageRead, OneRouter
       DEF SessionInv, HwinfoWhole, clientVars
<1> QED
  BY <1>4, <1>5

LEMMA HwinfoStep ==
    ASSUME SessionInv, NEW r \in Routers, sr_handle_hwinfo(r) PROVE SessionInv'
<1> DEFINE got == Head(toRouter[r]).interfaces
<1>1. /\ phase[r] = "loop" /\ Reads(r) /\ Head(toRouter[r]).type = "hwinfo"
      /\ if_list' = [if_list EXCEPT ![r] = @ \cup got]
      /\ phase' = phase \/ phase' = [phase EXCEPT ![r] = "ended"]
      /\ UNCHANGED <<seen, toServer>>
  BY DEF sr_handle_hwinfo
<1>2. /\ phase \in [Routers -> Phases] /\ if_list \in [Routers -> SUBSET Interfaces]
      /\ toRouter[r] \in Seq(FromServer) /\ "ended" \in Phases
  BY DEF SessionInv, TypeOK, Phases
<1>3. /\ toRouter'[r] = Tail(toRouter[r]) /\ toRouter[r] # <<>>
      /\ Head(toRouter[r]) \in Whole /\ UNCHANGED <<poxVars, clientVars, early>>
  BY <1>1, MessageRead
<1>4. got = Interfaces /\ Interfaces \subseteq ports
  BY <1>1, <1>3 DEF Whole
<1> HIDE DEF got
<1>5. if_list'[r] = Interfaces /\ if_list' \in [Routers -> SUBSET Interfaces]
  BY <1>1, <1>2, <1>4
<1>6. phase' \in [Routers -> Phases] /\ phase'[r] \in {"loop", "ended"}
  BY <1>1, <1>2
<1>7. TypeOK'
  BY <1>1, <1>3, <1>5, <1>6, MessageRead DEF SessionInv, TypeOK, poxVars, clientVars
<1>8. RouterInv(r)'
  <2>1. r \notin early
    BY <1>1, <1>2, <1>3, DoomedReads DEF SessionInv, RouterInv, Gone
  <2>2. Orderly(r)
    BY <1>1, <2>1 DEF SessionInv, RouterInv
  <2>3. Opening(r)
    BY <1>1, <1>3, <2>2, NextToRouter DEF Negotiating
  <2>4. phase'[r] = "loop" => Opened(r)'
    BY <1>1, <1>3, <1>5, <2>3, EmptySeq DEF Opening, Opened, clientVars
  <2> QED
    BY <1>3, <1>6, <2>1, <2>4 DEF RouterInv, Orderly
<1>9. \A s \in Routers \ {r} : phase'[s] = phase[s] /\ if_list'[s] = if_list[s]
  BY <1>1, <1>2
<1> QED
  BY <1>1, <1>3, <1>4, <1>5, <1>7, <1>8, <1>9, MessageRead, OneRouter DEF clientVars

LEMMA HandlePacketStep ==
    ASSUME SessionInv, NEW r \in Routers, HandlePacket(r) PROVE SessionInv'
<1> DEFINE msg == Head(toRouter[r])
<1>1. /\ phase[r] = "loop" /\ Reads(r) /\ msg.type = "packet"
      /\ seen' = [seen EXCEPT ![r] = msg.frame]
      /\ phase' = IF Known(r) THEN phase ELSE [phase EXCEPT ![r] = "aborted"]
      /\ UNCHANGED <<if_list, toServer>>
  BY DEF HandlePacket
<1>2. /\ phase \in [Routers -> Phases] /\ if_list \in [Routers -> SUBSET Interfaces]
      /\ toRouter[r] \in Seq(FromServer) /\ "aborted" \in Phases /\ "aborted" \in Gone
  BY DEF SessionInv, TypeOK, Phases, Gone
<1>3. /\ toRouter'[r] = Tail(toRouter[r]) /\ toRouter[r] # <<>>
      /\ msg \in Whole /\ UNCHANGED <<poxVars, clientVars, early>>
  BY <1>1, MessageRead
<1>4. msg.frame \in 0..MaxFrames
  <2>1. msg \in FromServer
    BY <1>3 DEF Whole
  <2>2. msg \in Downs
    <3>1. (\A type : Plain(type).type = type) /\ \A S : Hwinfo(S).type = "hwinfo"
      BY DEF Plain, Hwinfo
    <3> QED
      BY <1>1, <2>1, <3>1 DEF FromServer
  <2> QED
    BY <2>2, SessionAssumption DEF Downs, Packet
<1>5. TypeOK'
  <2>1. phase' \in [Routers -> Phases]
    BY <1>1, <1>2
  <2>2. seen' \in [Routers -> 0..MaxFrames]
    BY <1>1, <1>4 DEF SessionInv, TypeOK
  <2> QED
    BY <1>1, <1>3, <2>1, <2>2, MessageRead DEF SessionInv, TypeOK, poxVars, clientVars
<1>6. RouterInv(r)'
  <2>1. CASE r \in early
    <3>1. if_list[r] = {}
      BY <2>1 DEF SessionInv, RouterInv
    <3>2. phase'[r] = "aborted"
      BY <1>1, <1>2, <3>1 DEF Known
    <3> QED
      BY <1>1, <1>2, <1>3, <2>1, <3>1, <3>2 DEF RouterInv
  <2>2. CASE r \notin early
    <3>1. Orderly(r)
      BY <1>1, <2>2 DEF SessionInv, RouterInv
    <3>2. Opened(r) /\ msg.interface \in Interfaces
      BY <1>1, <1>3, <3>1, NextToRouter DEF Plain
    <3>3. phase' = phase
      BY <1>1, <3>2 DEF Known, Opened
    <3>4. Tail(toRouter[r]) \in Seq(Downs)
      BY <1>3, <3>2, TailFacts DEF Opened
    <3>5. Opened(r)'
      BY <1>1, <1>3, <3>2, <3>3, <3>4 DEF Opened, clientVars
    <3> QED
      BY <1>3, <2>2, <3>5 DEF RouterInv, Orderly
  <2> QED
    BY <2>1, <2>2
<1>7. \A s \in Routers \ {r} : phase'[s] = phase[s]
  BY <1>1, <1>2
<1> QED
  BY <1>1, <1>3, <1>5, <1>6, <1>7, MessageRead, OneRouter
     DEF SessionInv, HwinfoWhole, clientVars

----------------------------------------------------------------------------
\* The theorems

LEMMA SessionStep == SessionInv /\ [Next]_vars => SessionInv'
<1> SUFFICES ASSUME SessionInv, [Next]_vars PROVE SessionInv'
  OBVIOUS
<1>1. CASE Pox
  BY <1>1, ConnectionUpStep, StoreInterfacesStep, BroadcastStep, BroadcastDoneStep,
     LearnPortStep, PacketInStep DEF Pox
<1>2. ASSUME NEW r \in Routers, Reactor(r) PROVE SessionInv'
  BY <1>2, NewClientStep, SendAuthRequestStep, DisconnectedStep, AuthReplyStep,
     OpenStep, PacketMsgStep DEF Reactor
<1>3. ASSUME NEW r \in Routers, Router(r) \/ Connect(r) \/ SendPacket(r) \/ Interrupt(r)
      PROVE  SessionInv'
  BY <1>3, NegotiateStep, HwinfoStep, HandlePacketStep, ConnectStep, SendPacketStep,
     InterruptStep DEF Router
<1>4. CASE UNCHANGED vars
  <2>1. TypeOK'
    BY <1>4 DEF SessionInv, TypeOK, vars, poxVars, clientVars, routerVars
  <2>2. ListsAgree'
    BY <1>4 DEF SessionInv, ListsAgree, vars, poxVars
  <2>3. HwinfoWhole'
    BY <1>4, WholeStays DEF SessionInv, vars, poxVars, routerVars
  <2> QED
    BY <1>4, <2>1, <2>2, <2>3, PoxElsewhere DEF SessionInv, vars
<1> QED
  BY <1>1, <1>2, <1>3, <1>4 DEF Next

LEMMA SessionHolds == Spec => []SessionInv
  BY SessionInit, SessionStep, PTL DEF Spec

\* The state of POX and of every router has its type.
THEOREM TypeCorrect == Spec => []TypeOK
<1>1. SessionInv => TypeOK
  BY DEF SessionInv
<1> QED
  BY <1>1, SessionHolds, PTL

\* Without a lock between POX's threads, a HWINFO message lists every interface
\* and the ports of all of them are known (_handle_RouterInfo, _handle_open_msg).
THEOREM HwinfoSafe == Spec => []HwinfoComplete
<1>1. SessionInv => HwinfoComplete
  <2> SUFFICES ASSUME SessionInv, NEW r \in Routers
               PROVE  /\ if_list[r] \in {{}, Interfaces} /\ if_list[r] \subseteq ports
                      /\ \A k \in 1..Len(toRouter[r]) :
                            toRouter[r][k].type = "hwinfo" =>
                               /\ toRouter[r][k].interfaces = Interfaces
                               /\ Interfaces \subseteq ports
    BY DEF HwinfoComplete
  <2>1. \A k \in 1..Len(toRouter[r]) : toRouter[r][k] \in Whole
    BY ElementOfSeq DEF SessionInv, HwinfoWhole
  <2> QED
    BY <2>1 DEF SessionInv, HwinfoWhole, Whole
<1> QED
  BY <1>1, SessionHolds, PTL

\* A router fails an expectation or an assertion only if the broadcast sent it a
\* frame before its HWINFO (srclients.append comes first), and such a router
\* never has interfaces.
THEOREM EarlyFramesSafe == Spec => []EarlyFramesEnd
<1>1. SessionInv => EarlyFramesEnd
  <2> SUFFICES ASSUME SessionInv, NEW r \in Routers
               PROVE  /\ phase[r] \in {"failed", "aborted"} => r \in early
                      /\ if_list[r] # {} => r \notin early
    BY DEF EarlyFramesEnd
  <2> QED
    BY DEF SessionInv, RouterInv, Orderly, Waiting, Negotiating, Opening, Opened
<1> QED
  BY <1>1, SessionHolds, PTL

----------------------------------------------------------------------------
(***************************************************************************)
(* No frame is skipped.  The clients that the loop of a broadcast has not  *)
(* reached have been sent all frames but the last: an index says as much   *)
(* of a client only because a client is on the list once and stays where   *)
(* it is.                                                                  *)
(***************************************************************************)
Awaits(r) == pox = "broadcast" /\ \E k \in at..Len(srclients) : srclients[k] = r
LastSent(r) == IF Awaits(r) THEN frames - 1 ELSE frames

NoGap(r) ==
    \E first \in 1..LastSent(r) + 1 : /\ InARow(toRouter[r], first, LastSent(r))
                                      /\ seen[r] # 0 => first = seen[r] + 1

OnListOnce == \A j, k \in 1..Len(srclients) : srclients[j] = srclients[k] => j = k

Untouched(r) ==
    /\ r \notin ToSet(srclients) => toRouter[r] = <<>> /\ seen[r] = 0
    /\ phase[r] \in {"off", "auth request", "auth status"} => seen[r] = 0

FramesInv == /\ SessionInv /\ OnListOnce
             /\ \A r \in Routers : Untouched(r)
             /\ \A r \in online : NoGap(r)

\* Frames and other messages are added to a queue and taken off it.

LEMMA RunEmpty == ASSUME NEW n \in Nat PROVE InARow(<<>>, n + 1, n)
<1>1. Packets(<<>>) = {}
  BY EmptySeq DEF Packets
<1> QED
  BY <1>1 DEF InARow

LEMMA RunAppend ==
    ASSUME NEW m \in Seq(FromServer), NEW msg \in FromServer, NEW l \in Nat, NEW f \in 1..l + 1,
           InARow(m, f, l)
    PROVE  /\ msg.type # "packet" => InARow(Append(m, msg), f, l)
           /\ msg.type = "packet" /\ msg.frame = l + 1 => InARow(Append(m, msg), f, l + 1)
<1> DEFINE v == Append(m, msg)
           n == Len(m) + 1
<1>1. /\ Len(m) \in Nat /\ Len(v) = n /\ v[n] = msg
      /\ \A k \in 1..Len(m) : v[k] = m[k]
  BY AppendFacts, LenProperties
<1> HIDE DEF v
<1>2. ASSUME msg.type # "packet" PROVE InARow(v, f, l)
  <2>1. Packets(v) = Packets(m) /\ \A k \in Packets(m) : v[k] = m[k]
    BY <1>1, <1>2 DEF Packets
  <2> QED
    BY <2>1 DEF InARow
<1>3. ASSUME msg.type = "packet", msg.frame = l + 1 PROVE InARow(v, f, l + 1)
  <2>1. /\ Packets(v) = Packets(m) \cup {n} /\ \A k \in Packets(m) : v[k] = m[k] /\ k < n /\ k \in Nat
    BY <1>1, <1>3 DEF Packets
  <2>2. \A k \in Packets(m) : m[k].frame \in f..l
    BY DEF InARow
  <2>3. \A j, k \in Packets(v) : j < k => v[j].frame < v[k].frame
    <3> TAKE j, k \in Packets(v)
    <3> HAVE j < k
    <3>1. j \in Packets(m)
      BY <1>1, <2>1
    <3>2. CASE k = n
      <4>1. v[j].frame \in f..l /\ v[k].frame = l + 1
        BY <1>1, <1>3, <2>1, <2>2, <3>1, <3>2
      <4> QED
        BY <4>1
    <3>3. CASE k # n
      BY <2>1, <3>1, <3>3 DEF InARow
    <3> QED
      BY <3>2, <3>3
  <2>4. {v[k].frame : k \in Packets(v)} = {m[k].frame : k \in Packets(m)} \cup {l + 1}
    BY <1>1, <1>3, <2>1
  <2>5. {v[k].frame : k \in Packets(v)} = f..l + 1
    <3>1. f..l + 1 = (f..l) \cup {l + 1}
      OBVIOUS
    <3> QED
      BY <2>4, <3>1 DEF InARow
  <2> QED
    BY <2>3, <2>5 DEF InARow
<1> QED
  BY <1>2, <1>3 DEF v

LEMMA RunTail ==
    ASSUME NEW m \in Seq(FromServer), m # <<>>, NEW l \in Nat, NEW f \in 1..l + 1, InARow(m, f, l)
    PROVE  /\ Head(m).type # "packet" => InARow(Tail(m), f, l)
           /\ Head(m).type = "packet" =>
                 Head(m).frame = f /\ f <= l /\ InARow(Tail(m), f + 1, l)
<1> DEFINE v == Tail(m)
<1>1. /\ Head(m) = m[1] /\ Len(m) \in Nat \ {0} /\ Len(v) = Len(m) - 1
      /\ \A k \in 1..Len(m) - 1 : v[k] = m[k + 1]
  BY TailFacts
<1> HIDE DEF v
<1>2. \A k \in Packets(v) : k \in Nat /\ k + 1 \in Packets(m) /\ v[k] = m[k + 1]
  BY <1>1 DEF Packets
<1>3. \A k \in Packets(m) : k # 1 => k \in Nat /\ k - 1 \in Packets(v) /\ v[k - 1] = m[k]
  BY <1>1 DEF Packets
<1>4. ASSUME NEW j \in Packets(v), NEW k \in Packets(v), j < k PROVE v[j].frame < v[k].frame
  <2>1. j + 1 < k + 1
    BY <1>2, <1>4
  <2> QED
    BY <1>2, <2>1 DEF InARow
<1>5. CASE m[1].type # "packet"
  <2>1. 1 \notin Packets(m)
    BY <1>5 DEF Packets
  <2>2. {v[k].frame : k \in Packets(v)} = {m[k].frame : k \in Packets(m)}
    BY <1>2, <1>3, <2>1
  <2> QED
    BY <1>1, <1>4, <1>5, <2>2 DEF InARow, v
<1>6. CASE m[1].type = "packet"
  <2>1. 1 \in Packets(m)
    BY <1>1, <1>6 DEF Packets
  <2>2. \A k \in Packets(m) : m[k].frame \in f..l
    BY DEF InARow
  <2>3. \A k \in Packets(m) : k # 1 => m[1].frame < m[k].frame
    <3>1. \A k \in Packets(m) : k # 1 => 1 < k
      BY <1>1 DEF Packets
    <3> QED
      BY <2>1, <3>1 DEF InARow
  <2>4. f <= l
    BY <2>1, <2>2
  <2>5. PICK k \in Packets(m) : m[k].frame = f
    BY <2>4 DEF InARow
  <2>6. m[1].frame = f
    BY <2>1, <2>2, <2>3, <2>5
  <2>7. ASSUME NEW x PROVE x \in {v[j].frame : j \in Packets(v)} <=> x \in f + 1..l
    <3>1. ASSUME NEW j \in Packets(v), x = v[j].frame PROVE x \in f + 1..l
      <4>1. j + 1 \in Packets(m) /\ x = m[j + 1].frame /\ j + 1 # 1
        BY <1>2, <3>1 DEF Packets
      <4>2. x \in f..l /\ f < x
        BY <2>2, <2>3, <2>6, <4>1
      <4> QED
        BY <4>2
    <3>2. ASSUME x \in f + 1..l PROVE \E j \in Packets(v) : x = v[j].frame
      <4>1. x \in f..l /\ x # f
        BY <3>2
      <4>2. PICK j \in Packets(m) : m[j].frame = x
        BY <4>1 DEF InARow
      <4> QED
        BY <1>3, <2>6, <4>1, <4>2
    <3> QED
      BY <3>1, <3>2
  <2>8. {v[j].frame : j \in Packets(v)} = f + 1..l
    BY <2>7
  <2> QED
    BY <1>1, <1>4, <1>6, <2>4, <2>6, <2>8 DEF InARow, v
<1> QED
  BY <1>1, <1>5, <1>6

\* What a broadcast has done is a number.
LEMMA LastSentNat ==
    ASSUME SessionInv, NEW r PROVE LastSent(r) \in Nat /\ frames \in Nat
BY DEF SessionInv, TypeOK, ListsAgree, LastSent, Awaits

\* Steps that leave the messages and the broadcast alone.
LEMMA FramesStay ==
    ASSUME FramesInv, SessionInv', UNCHANGED <<srclients, toRouter, seen, frames>>,
           online' \subseteq online,
           \/ UNCHANGED <<pox, at>> \/ (pox # "broadcast" /\ pox' # "broadcast"),
           \A r \in Routers : phase'[r] \in {"off", "auth request", "auth status"} =>
               phase[r] \in {"off", "auth request", "auth status"}
    PROVE  FramesInv'
<1>1. \A r : LastSent(r)' = LastSent(r)
  BY DEF LastSent, Awaits
<1>2. \A r \in online' : NoGap(r)'
  BY <1>1 DEF FramesInv, NoGap
<1>3. OnListOnce' /\ \A r \in Routers : Untouched(r)'
  BY DEF FramesInv, OnListOnce, Untouched
<1> QED
  BY <1>2, <1>3 DEF FramesInv

\* Messages of another type sent to r, a client.
LEMMA OtherSent ==
    ASSUME FramesInv, SessionInv', NEW r \in online, NEW msg \in FromServer, msg.type # "packet",
           toRouter' = [toRouter EXCEPT ![r] = Append(@, msg)],
           UNCHANGED <<srclients, online, seen, frames, pox, at, phase>>
    PROVE  FramesInv'
<1>0. r \in Routers /\ toRouter \in [Routers -> Seq(FromServer)] /\ r \in ToSet(srclients)
  BY ClientsAreRouters DEF FramesInv, SessionInv, TypeOK
<1>1. \A s : LastSent(s)' = LastSent(s)
  BY DEF LastSent, Awaits
<1>2. ASSUME NEW s \in online' PROVE NoGap(s)'
  <2>1. PICK first \in 1..LastSent(s) + 1 : /\ InARow(toRouter[s], first, LastSent(s))
                                            /\ seen[s] # 0 => first = seen[s] + 1
    BY DEF FramesInv, NoGap
  <2>2. InARow(toRouter'[s], first, LastSent(s))
    <3>1. CASE s = r
      <4>1. toRouter'[s] = Append(toRouter[s], msg) /\ toRouter[s] \in Seq(FromServer)
        BY <1>0, <3>1
      <4>2. LastSent(s) \in Nat
        BY LastSentNat DEF FramesInv
      <4> QED
        BY <2>1, <4>1, <4>2, RunAppend
    <3>2. CASE s # r
      <4>1. toRouter'[s] = toRouter[s]
        BY <1>0, <3>2, ClientsAreRouters DEF FramesInv, SessionInv
      <4> QED
        BY <2>1, <4>1
    <3> QED
      BY <3>1, <3>2
  <2> QED
    BY <1>1, <2>1, <2>2 DEF NoGap
<1>3. OnListOnce' /\ \A s \in Routers : Untouched(s)'
  BY <1>0 DEF FramesInv, OnListOnce, Untouched
<1> QED
  BY <1>2, <1>3 DEF FramesInv

\* A broadcast begins: nobody has been sent the new frame.
LEMMA PacketInFrames ==
    ASSUME FramesInv, SessionInv', NEW i \in Interfaces, PacketIn(i) PROVE FramesInv'
<1>1. /\ UNCHANGED <<srclients, online, toRouter, seen, phase>>
      /\ pox = "idle" /\ pox' = "broadcast" /\ at' = 1 /\ frames' = frames + 1
  BY DEF PacketIn, clientVars, routerVars
<1>2. ASSUME NEW r \in online PROVE LastSent(r)' = LastSent(r)
  <2>1. LastSent(r) = frames /\ frames \in Nat
    BY <1>1, LastSentNat DEF LastSent, Awaits, FramesInv
  <2>2. r \in ToSet(srclients) /\ DOMAIN srclients = 1..Len(srclients)
    BY DEF FramesInv, SessionInv, TypeOK
  <2>3. \E k \in 1..Len(srclients) : srclients[k] = r
    BY <2>2 DEF ToSet
  <2>4. Awaits(r)'
    BY <1>1, <2>3 DEF Awaits
  <2> QED
    BY <1>1, <2>1, <2>4 DEF LastSent
<1>3. \A r \in online' : NoGap(r)'
  BY <1>1, <1>2 DEF FramesInv, NoGap
<1>4. OnListOnce' /\ \A r \in Routers : Untouched(r)'
  BY <1>1 DEF FramesInv, OnListOnce, Untouched
<1> QED
  BY <1>3, <1>4 DEF FramesInv

\* A broadcast ends when the loop has reached everybody.
LEMMA BroadcastDoneFrames ==
    ASSUME FramesInv, SessionInv', BroadcastDone PROVE FramesInv'
<1>1. /\ UNCHANGED <<srclients, online, toRouter, seen, phase, frames>>
      /\ at > Len(srclients) /\ pox' = "idle"
  BY DEF BroadcastDone, clientVars, routerVars
<1>2. Len(srclients) \in Nat /\ at \in Nat
  BY LenProperties DEF FramesInv, SessionInv, TypeOK
<1>3. \A r : LastSent(r)' = LastSent(r)
  BY <1>1, <1>2 DEF LastSent, Awaits
<1>4. \A r \in online' : NoGap(r)'
  BY <1>1, <1>3 DEF FramesInv, NoGap
<1>5. OnListOnce' /\ \A r \in Routers : Untouched(r)'
  BY <1>1 DEF FramesInv, OnListOnce, Untouched
<1> QED
  BY <1>4, <1>5 DEF FramesInv

\* One turn of the broadcast: the client has the last frame too.
LEMMA BroadcastFrames ==
    ASSUME FramesInv, SessionInv', broadcast PROVE FramesInv'
<1>0. PICK r : r = srclients[at]
  OBVIOUS
<1>1. /\ UNCHANGED <<srclients, online, seen, phase, frames, pox>>
      /\ pox = "broadcast" /\ at <= Len(srclients) /\ at' = at + 1
      /\ r \in online => \E i \in arriving :
             toRouter' = [toRouter EXCEPT ![r] = Append(@, Packet(i, frames))]
      /\ r \notin online => toRouter' = toRouter
  BY <1>0 DEF broadcast, clientVars, routerVars
<1>2. /\ Len(srclients) \in Nat /\ at \in 1..Len(srclients) /\ r \in Routers /\ r \in ToSet(srclients)
      /\ toRouter \in [Routers -> Seq(FromServer)] /\ frames \in 1..MaxFrames
      /\ arriving \subseteq Interfaces /\ online \subseteq Routers
  <2>1. /\ srclients \in Seq(Routers) /\ at \in 1..Len(srclients) + 1
        /\ toRouter \in [Routers -> Seq(FromServer)]
        /\ arriving \subseteq Interfaces /\ online \subseteq Routers
    BY ClientsAreRouters DEF FramesInv, SessionInv, TypeOK
  <2>2. frames \in 1..MaxFrames
    <3>1. frames \in 0..MaxFrames /\ frames # 0
      BY <1>1 DEF FramesInv, SessionInv, TypeOK, ListsAgree
    <3> QED
      BY <3>1, SessionAssumption
  <2>3. Len(srclients) \in Nat /\ DOMAIN srclients = 1..Len(srclients)
    BY <2>1, LenProperties
  <2>4. at \in 1..Len(srclients)
    BY <1>1, <2>1, <2>3
  <2>5. r \in Routers /\ r \in ToSet(srclients)
    BY <1>0, <2>1, <2>3, <2>4, ElementOfSeq DEF ToSet
  <2> QED
    BY <2>1, <2>2, <2>3, <2>4, <2>5
<1>3. Awaits(r) /\ ~Awaits(r)'
  <2>1. Awaits(r)
    BY <1>0, <1>1, <1>2 DEF Awaits
  <2>2. ASSUME NEW k \in at + 1..Len(srclients) PROVE srclients[k] # r
    <3>1. k \in 1..Len(srclients) /\ k # at
      BY <1>2
    <3> QED
      BY <1>0, <1>2, <3>1 DEF FramesInv, OnListOnce
  <2> QED
    BY <1>1, <2>1, <2>2 DEF Awaits
<1>4. \A s \in Routers : s # r => (Awaits(s)' <=> Awaits(s))
  <2> TAKE s \in Routers
  <2> HAVE s # r
  <2>1. \A k \in at..Len(srclients) : k = at \/ k \in at + 1..Len(srclients)
    BY <1>2
  <2>2. \A k \in at + 1..Len(srclients) : k \in at..Len(srclients)
    BY <1>2
  <2> QED
    BY <1>0, <1>1, <2>1, <2>2 DEF Awaits
<1>5. ASSUME NEW s \in online' PROVE NoGap(s)'
  <2>1. PICK first \in 1..LastSent(s) + 1 : /\ InARow(toRouter[s], first, LastSent(s))
                                            /\ seen[s] # 0 => first = seen[s] + 1
    BY <1>1 DEF FramesInv, NoGap
  <2>2. CASE s = r
    <3>1. LastSent(s) = frames - 1 /\ LastSent(s)' = frames /\ frames - 1 \in Nat
      BY <1>1, <1>2, <1>3, <2>2 DEF LastSent
    <3>2. PICK i \in Interfaces : toRouter'[s] = Append(toRouter[s], Packet(i, frames))
      BY <1>1, <1>2, <2>2
    <3>3. /\ Packet(i, frames) \in FromServer /\ Packet(i, frames).type = "packet"
          /\ Packet(i, frames).frame = frames
      <4>1. Packet(i, frames) \in Downs
        BY <1>2 DEF Downs
      <4>2. Packet(i, frames).type = "packet" /\ Packet(i, frames).frame = frames
        BY DEF Packet
      <4> QED
        BY <4>1, <4>2 DEF FromServer
    <3>4. toRouter[s] \in Seq(FromServer)
      BY <1>2, <2>2
    <3>5. (frames - 1) + 1 = frames /\ first \in 1..(frames - 1) + 1
      BY <1>2, <2>1, <3>1
    <3>6. InARow(toRouter[s], first, frames - 1)
      BY <2>1, <3>1
    <3>7. InARow(toRouter'[s], first, (frames - 1) + 1)
      BY <3>1, <3>2, <3>3, <3>4, <3>5, <3>6, RunAppend
    <3>8. first \in 1..frames + 1 /\ InARow(toRouter'[s], first, frames)
      BY <1>2, <3>5, <3>7
    <3> QED
      BY <1>1, <2>1, <3>1, <3>8 DEF NoGap
  <2>3. CASE s # r
    <3>1. s \in Routers /\ toRouter'[s] = toRouter[s]
      BY <1>1, <1>2, <2>3
    <3>2. LastSent(s)' = LastSent(s)
      BY <1>1, <1>4, <2>3, <3>1 DEF LastSent
    <3> QED
      BY <1>1, <2>1, <3>1, <3>2 DEF NoGap
  <2> QED
    BY <2>2, <2>3
<1>6. OnListOnce' /\ \A s \in Routers : Untouched(s)'
  <2>1. \A s \in Routers : s \notin ToSet(srclients) => toRouter'[s] = toRouter[s]
    BY <1>1, <1>2
  <2> QED
    BY <1>1, <2>1 DEF FramesInv, OnListOnce, Untouched
<1> QED
  BY <1>5, <1>6 DEF FramesInv

\* A client joins at the end of the list, perhaps while a frame is broadcast.
LEMMA NewClientFrames ==
    ASSUME FramesInv, SessionInv', NEW r \in Routers, _handle_new_client(r) PROVE FramesInv'
<1>1. /\ UNCHANGED <<pox, at, frames, toRouter, seen, phase>>
      /\ r \notin ToSet(srclients) /\ srclients' = Append(srclients, r) /\ online' = online \cup {r}
  BY DEF _handle_new_client, poxVars, routerVars
<1> DEFINE n == Len(srclients) + 1
<1>2. /\ srclients \in Seq(Routers) /\ Len(srclients) \in Nat /\ at \in 1..n
      /\ Len(srclients') = n /\ srclients'[n] = r
      /\ \A k \in 1..Len(srclients) : srclients'[k] = srclients[k]
      /\ ToSet(srclients') = ToSet(srclients) \cup {r}
  BY <1>1, AppendFacts, LenProperties DEF FramesInv, SessionInv, TypeOK
<1>3. \A k \in 1..Len(srclients) : srclients[k] # r
  <2>1. DOMAIN srclients = 1..Len(srclients)
    BY <1>2
  <2> QED
    BY <1>1, <2>1 DEF ToSet
<1> HIDE DEF n
<1>4. 1..n = 1..Len(srclients) \cup {n} /\ n \in at..n /\ \A k \in at..n : k = n \/ k \in 1..Len(srclients)
  BY <1>2 DEF n
<1>5. \A s : s # r => (Awaits(s)' <=> Awaits(s))
  <2> TAKE s
  <2> HAVE s # r
  <2>1. at..n = at..Len(srclients) \cup {n} /\ at..Len(srclients) \subseteq 1..Len(srclients)
    BY <1>2 DEF n
  <2> QED
    BY <1>1, <1>2, <2>1 DEF Awaits
<1>6. ASSUME NEW s \in online' PROVE NoGap(s)'
  <2>1. CASE s = r
    <3>1. toRouter'[s] = <<>> /\ seen'[s] = 0
      BY <1>1, <2>1 DEF FramesInv, Untouched
    <3>2. LastSent(s)' \in Nat
      BY LastSentNat, <1>1, <1>2 DEF LastSent, Awaits, FramesInv, SessionInv, ListsAgree, TypeOK
    <3>3. InARow(toRouter'[s], LastSent(s)' + 1, LastSent(s)')
      BY <3>1, <3>2, RunEmpty
    <3> QED
      BY <3>1, <3>2, <3>3 DEF NoGap
  <2>2. CASE s # r
    <3>1. LastSent(s)' = LastSent(s)
      BY <1>1, <1>5, <2>2 DEF LastSent
    <3> QED
      BY <1>1, <2>2, <3>1 DEF FramesInv, NoGap
  <2> QED
    BY <2>1, <2>2
<1>7. OnListOnce'
  BY <1>2, <1>3, <1>4 DEF FramesInv, OnListOnce
<1>8. \A s \in Routers : Untouched(s)'
  BY <1>1, <1>2 DEF FramesInv, Untouched
<1> QED
  BY <1>6, <1>7, <1>8 DEF FramesInv

\* A client is gone: the others are where they were.
LEMMA DisconnectedFrames ==
    ASSUME FramesInv, SessionInv', NEW r \in Routers, _handle_client_disconnected(r)
    PROVE  FramesInv'
<1>1. /\ UNCHANGED <<pox, at, frames, srclients, seen, phase>>
      /\ r \in online /\ online' = online \ {r} /\ toRouter' = [toRouter EXCEPT ![r] = <<>>]
  BY DEF _handle_client_disconnected, Clients, poxVars, routerVars
<1>2. toRouter \in [Routers -> Seq(FromServer)] /\ r \in ToSet(srclients) /\ online \subseteq Routers
  BY <1>1, ClientsAreRouters DEF FramesInv, SessionInv, TypeOK
<1>3. ASSUME NEW s \in online' PROVE NoGap(s)'
  <2>1. s \in online /\ toRouter'[s] = toRouter[s]
    BY <1>1, <1>2
  <2>2. LastSent(s)' = LastSent(s)
    BY <1>1 DEF LastSent, Awaits
  <2> QED
    BY <1>1, <2>1, <2>2 DEF FramesInv, NoGap
<1>4. OnListOnce' /\ \A s \in Routers : Untouched(s)'
  BY <1>1, <1>2 DEF FramesInv, OnListOnce, Untouched
<1> QED
  BY <1>3, <1>4 DEF FramesInv

\* A router reads a message: a frame that it is handed is the next one.
LEMMA ReadFrames ==
    ASSUME FramesInv, SessionInv', NEW r \in Routers, Router(r) PROVE FramesInv'
<1>1. /\ UNCHANGED <<srclients, online, frames, pox, at>>
      /\ toRouter[r] # <<>> /\ toRouter' = [toRouter EXCEPT ![r] = Tail(@)]
  BY DEF Router, Negotiate, sr_handle_hwinfo, HandlePacket, Reads, poxVars, clientVars
<1>2. /\ \A s \in Routers \ {r} : seen'[s] = seen[s] /\ phase'[s] = phase[s]
      /\ \/ /\ phase[r] = "loop" /\ Head(toRouter[r]).type = "packet"
            /\ seen'[r] = Head(toRouter[r]).frame
            /\ phase'[r] \notin {"off", "auth request", "auth status"}
         \/ /\ phase[r] = "loop" /\ Head(toRouter[r]).type # "packet" /\ seen' = seen
            /\ phase'[r] \notin {"off", "auth request", "auth status"}
         \/ seen[r] = 0 /\ seen' = seen
  <2>1. phase \in [Routers -> Phases] /\ seen \in [Routers -> 0..MaxFrames]
    BY DEF FramesInv, SessionInv, TypeOK
  <2>2. CASE Negotiate(r)
    BY <2>1, <2>2 DEF Negotiate, FramesInv, Untouched
  <2>3. CASE sr_handle_hwinfo(r)
    BY <2>1, <2>3 DEF sr_handle_hwinfo
  <2>4. CASE HandlePacket(r)
    BY <2>1, <2>4 DEF HandlePacket
  <2> QED
    BY <2>2, <2>3, <2>4 DEF Router
<1>3. /\ toRouter \in [Routers -> Seq(FromServer)] /\ online \subseteq Routers
      /\ \A s \in Routers \ {r} : toRouter'[s] = toRouter[s]
      /\ toRouter'[r] = Tail(toRouter[r])
  BY <1>1, ClientsAreRouters DEF FramesInv, SessionInv, TypeOK
<1>4. \A s : LastSent(s)' = LastSent(s)
  BY <1>1 DEF LastSent, Awaits
<1>5. r \in ToSet(srclients)
  BY <1>1 DEF FramesInv, Untouched
<1>6. ASSUME NEW s \in online' PROVE NoGap(s)'
  <2>1. PICK first \in 1..LastSent(s) + 1 : /\ InARow(toRouter[s], first, LastSent(s))
                                            /\ seen[s] # 0 => first = seen[s] + 1
    BY <1>1 DEF FramesInv, NoGap
  <2>2. LastSent(s) \in Nat
    BY LastSentNat DEF FramesInv
  <2>3. CASE s # r
    BY <1>1, <1>2, <1>3, <1>4, <2>1, <2>3 DEF NoGap
  <2>4. CASE s = r /\ Head(toRouter[r]).type # "packet"
    <3>1. InARow(toRouter'[s], first, LastSent(s))
      BY <1>1, <1>3, <2>1, <2>2, <2>4, RunTail
    <3>2. seen'[s] = seen[s]
      BY <1>2, <2>4
    <3> QED
      BY <1>4, <2>1, <3>1, <3>2 DEF NoGap
  <2>5. CASE s = r /\ Head(toRouter[r]).type = "packet"
    <3>1. Head(toRouter[r]).frame = first /\ first <= LastSent(s) /\ InARow(toRouter'[s], first + 1, LastSent(s))
      BY <1>1, <1>3, <2>1, <2>2, <2>5, RunTail
    <3>2. seen'[s] = 0 \/ seen'[s] = first
      BY <1>2, <2>5, <3>1
    <3>3. first + 1 \in 1..LastSent(s) + 1
      BY <2>1, <2>2, <3>1
    <3> QED
      BY <1>4, <3>1, <3>2, <3>3 DEF NoGap
  <2> QED
    BY <2>3, <2>4, <2>5
<1>7. \A s \in Routers : Untouched(s)'
  <2>1. Untouched(r)'
    BY <1>1, <1>2, <1>5 DEF Untouched
  <2>2. \A s \in Routers \ {r} : Untouched(s)'
    BY <1>1, <1>2, <1>3 DEF FramesInv, Untouched
  <2> QED
    BY <2>1, <2>2
<1> QED
  BY <1>1, <1>6, <1>7 DEF FramesInv, OnListOnce

LEMMA FramesStep == FramesInv /\ SessionInv' /\ [Next]_vars => FramesInv'
<1> SUFFICES ASSUME FramesInv, SessionInv', [Next]_vars PROVE FramesInv'
  OBVIOUS
<1> USE DEF poxVars, clientVars, routerVars
<1>1. CASE ConnectionUp \/ StoreInterfaces \/ (\E i \in Interfaces : LearnPort(i)) \/ UNCHANGED vars
  BY <1>1, FramesStay DEF ConnectionUp, StoreInterfaces, PublishAll, LearnPort, vars
<1>2. CASE broadcast \/ BroadcastDone \/ \E i \in Interfaces : PacketIn(i)
  BY <1>2, BroadcastFrames, BroadcastDoneFrames, PacketInFrames
<1>3. ASSUME NEW r \in Routers, SendAuthRequest(r) \/ _handle_auth_reply(r) \/ _handle_open_msg(r)
      PROVE  FramesInv'
  <2>1. r \in online
    BY <1>3 DEF SendAuthRequest, _handle_auth_reply, _handle_open_msg, Takes, FramesInv, SessionInv, TypeOK
  <2>2. CASE \E msg \in {Plain("auth request"), Plain("auth status"), Hwinfo(interfaces)} :
                 toRouter' = [toRouter EXCEPT ![r] = Append(@, msg)]
    <3>1. PICK msg \in {Plain("auth request"), Plain("auth status"), Hwinfo(interfaces)} :
              toRouter' = [toRouter EXCEPT ![r] = Append(@, msg)]
      BY <2>2
    <3>2. msg \in FromServer /\ msg.type # "packet"
      <4>1. CASE msg \in {Plain("auth request"), Plain("auth status")}
        <5>1. msg \in FromServer
          BY <4>1 DEF FromServer
        <5>2. msg.type = "auth request" \/ msg.type = "auth status"
          <6>1. Plain("auth request").type = "auth request" /\ Plain("auth status").type = "auth status"
            BY DEF Plain
          <6>2. msg = Plain("auth request") \/ msg = Plain("auth status")
            BY <4>1
          <6> QED
            BY <6>1, <6>2
        <5> QED
          BY <5>1, <5>2
      <4>2. CASE msg = Hwinfo(interfaces)
        <5>1. interfaces \in SUBSET Interfaces
          BY DEF FramesInv, SessionInv, TypeOK
        <5>2. msg \in FromServer
          BY <4>2, <5>1 DEF FromServer
        <5>3. msg.type = "hwinfo"
          BY <4>2 DEF Hwinfo
        <5> QED
          BY <5>2, <5>3
      <4> QED
        BY <3>1, <4>1, <4>2
    <3>3. UNCHANGED <<srclients, online, seen, frames, pox, at, phase>>
      BY <1>3 DEF SendAuthRequest, _handle_auth_reply, _handle_open_msg
    <3> QED
      BY <2>1, <3>1, <3>2, <3>3, OtherSent
  <2>3. CASE toRouter' = toRouter
    BY <1>3, <2>3, FramesStay DEF SendAuthRequest, _handle_auth_reply, _handle_open_msg
  <2> QED
    BY <1>3, <2>2, <2>3 DEF SendAuthRequest, _handle_auth_reply, _handle_open_msg
<1>4. ASSUME NEW r \in Routers,
             _handle_packet_msg(r) \/ SendPacket(r) \/ Connect(r) \/ Interrupt(r)
      PROVE  FramesInv'
  <2>1. phase \in [Routers -> Phases]
    BY DEF FramesInv, SessionInv, TypeOK
  <2> QED
    BY <1>4, <2>1, FramesStay DEF _handle_packet_msg, SendPacket, Connect, Interrupt
<1> QED
  BY <1>1, <1>2, <1>3, <1>4, NewClientFrames, DisconnectedFrames, ReadFrames DEF Next, Pox, Reactor

LEMMA FramesHold == Spec => []FramesInv
<1>1. Init => FramesInv
  <2> SUFFICES ASSUME Init PROVE FramesInv
    OBVIOUS
  <2>1. Len(srclients) = 0
    BY EmptySeq DEF Init
  <2> QED
    BY <2>1, SessionInit DEF Init, FramesInv, OnListOnce, Untouched
<1> QED
  BY <1>1, FramesStep, SessionHolds, PTL DEF Spec

\* Clients that come and go while frames are broadcast make no other client
\* miss a frame or get one twice, for any number of routers and frames.
THEOREM FramesSafe == Spec => []NoFrameSkipped
<1>1. FramesInv => NoFrameSkipped
  <2> SUFFICES ASSUME FramesInv, NEW r \in online
               PROVE  \E first \in 1..frames + 1, last \in 0..frames :
                          /\ InARow(toRouter[r], first, last) /\ first <= last + 1
                          /\ seen[r] # 0 => first = seen[r] + 1
                          /\ last = frames \/ (pox = "broadcast" /\ last + 1 = frames)
    BY DEF NoFrameSkipped
  <2>1. PICK first \in 1..LastSent(r) + 1 : /\ InARow(toRouter[r], first, LastSent(r))
                                            /\ seen[r] # 0 => first = seen[r] + 1
    BY DEF FramesInv, NoGap
  <2>2. LastSent(r) \in Nat /\ frames \in Nat
    BY LastSentNat DEF FramesInv
  <2>3. /\ LastSent(r) <= frames
        /\ LastSent(r) = frames \/ (pox = "broadcast" /\ LastSent(r) + 1 = frames)
    BY <2>2 DEF LastSent, Awaits
  <2>4. LastSent(r) \in 0..frames /\ first \in 1..frames + 1 /\ first <= LastSent(r) + 1
    BY <2>1, <2>2, <2>3
  <2> QED
    BY <2>1, <2>3, <2>4
<1> QED
  BY <1>1, FramesHold, PTL
=============================================================================
