------------------------------ MODULE MCCtcp ------------------------------
\* Instances of Ctcp for TLC.
EXTENDS Ctcp

\* Bytes typed at each end.
MCTwo    == [e \in Ends |-> IF e = "client" THEN 2 ELSE 0]
MCThree  == [e \in Ends |-> IF e = "client" THEN 3 ELSE 0]
MCFourOne == [e \in Ends |-> IF e = "client" THEN 4 ELSE 1]
MCTwoOne == [e \in Ends |-> IF e = "client" THEN 2 ELSE 1]
===========================================================================
