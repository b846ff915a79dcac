SPECIFICATION FairSpec
CONSTANTS
    Len = 6
    Rtts = {0, 1, 2, 7}
    InitialRtt = 2
    InitialWindow = 14
    InitialBandwidth = 6
    CheckWindow = 3
    Intervals = {1, 2}
    Lost = {4, 8}
    StartupRtts = 2
    BandwidthRtts = 2
    DrainRtts = 3
    ProbeRtts = 2
    LastPhase = 8
    PhaseScale = 4
    MaxData = 12
    RttWrap = 2
    Wrap16 = 16
INVARIANTS
    TypeOK
    EstimatesOrdered
PROPERTIES
    ModeOrder
    ModesLeft
CHECK_DEADLOCK FALSE
