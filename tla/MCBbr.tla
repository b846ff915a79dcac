------------------------------- MODULE MCBbr -------------------------------
\* The instance of Bbr for TLC.
EXTENDS Bbr
=============================================================================
