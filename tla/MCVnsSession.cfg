SPECIFICATION FairSpec
CONSTANTS
    eth1 = eth1
    eth2 = eth2
    eth9 = eth9
    Routers = {r1, r2}
    Interfaces = {eth1, eth2}
    Rtables <- MCRtables
    MaxFrames = 2
INVARIANTS
    TypeOK
    HwinfoComplete
    NoFrameSkipped
    EarlyFramesEnd
PROPERTY SessionOpens
