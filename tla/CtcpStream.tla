----------------------------- MODULE CtcpStream -----------------------------
(***************************************************************************)
(* What one direction of a cTCP connection promises: the bytes typed at    *)
(* one end are written at the other, each once and in order, and the end   *)
(* of the stream is signalled after the last of them.                      *)
(***************************************************************************)
EXTENDS Naturals, Sequences

CONSTANT Bytes     \* how many are typed

VARIABLES
    typed, closing,    \* the sender's input: bytes so far, end signalled
    written, closed    \* the receiver's output

Init == typed = 0 /\ ~closing /\ written = <<>> /\ ~closed

Type == /\ ~closing /\ \E n \in 1..Bytes - typed : typed' = typed + n
        /\ UNCHANGED <<closing, written, closed>>

Close == ~closing /\ closing' = TRUE /\ UNCHANGED <<typed, written, closed>>

Write == /\ ~closed
         /\ \E n \in Len(written) + 1..typed :
               written' = [k \in 1..n |-> k]
         /\ UNCHANGED <<typed, closing, closed>>

End == /\ closing /\ Len(written) = typed /\ closed' = TRUE
       /\ UNCHANGED <<typed, closing, written>>

Next == Type \/ Close \/ Write \/ End
Spec == Init /\ [][Next]_<<typed, closing, written, closed>>
=============================================================================
