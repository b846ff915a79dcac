------------------------------ MODULE CtcpList ------------------------------
(***************************************************************************)
(* What the connection list of a cTCP server amounts to, whatever its      *)
(* pointers: a set, and its newest member.  Members leave one at a time,   *)
(* and with the newest all of them.                                        *)
(***************************************************************************)
CONSTANTS Conns, Null

VARIABLES listed, newest

Init == listed = {} /\ newest = Null

Add(c) == c \notin listed /\ listed' = listed \cup {c} /\ newest' = c

Remove(c) == c \in listed \ {newest} /\ listed' = listed \ {c} /\ UNCHANGED newest

\* conn_free of the newest: config->connections becomes NULL.
RemoveNewest == newest \in listed /\ listed' = {} /\ newest' = Null

Next == (\E c \in Conns : Add(c) \/ Remove(c)) \/ RemoveNewest

Spec == Init /\ [][Next]_<<listed, newest>>
=============================================================================
