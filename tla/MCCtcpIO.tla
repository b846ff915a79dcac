------------------------------ MODULE MCCtcpIO ------------------------------
\* Instances of CtcpIO for TLC.
EXTENDS CtcpIO
=============================================================================
