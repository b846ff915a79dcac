--------------------------- MODULE MCCtcpConnect ---------------------------
\* The instance of CtcpConnect for TLC.
EXTENDS CtcpConnect
=============================================================================
