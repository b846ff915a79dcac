---------------------------- MODULE MCCtcpServer ----------------------------
\* Instances of CtcpServer for TLC.
EXTENDS CtcpServer, TLC

Symmetry == Permutations(Clients) \cup Permutations(Conns)
=============================================================================
