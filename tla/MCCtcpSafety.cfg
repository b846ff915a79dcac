SPECIFICATION Spec
CONSTANTS
    Input <- MCTwoOne
    Closes = {"server"}
    Chunks = {1, 2}
    Header = 1
    Window = 1
    Cwnds = {0, 4}
    Bdps = {0, 2}
    Wrap16 = 5
    Wrap32 = 32
    MaxTries = 2
    Room = 1
    Faults = {"lose", "duplicate", "delay", "late"}
    MaxFaults = 1
    MaxFins = 1
INVARIANTS
    TypeOK
    StreamWhole
    OutputOnce
    WindowAccounting
CHECK_DEADLOCK FALSE
