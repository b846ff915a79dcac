---------------------------- MODULE MCVnsSession ----------------------------
\* Instances of VnsSession for TLC.
EXTENDS VnsSession

CONSTANTS eth1, eth2, eth9

\* One table names an interface the switch does not have.
MCRtables == {{eth1, eth2}, {eth1, eth9}}
=============================================================================
