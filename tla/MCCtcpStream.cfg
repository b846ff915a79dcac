SPECIFICATION FairSpec
CONSTANTS
    Input <- MCThree
    Closes = {"client"}
    Chunks = {1, 2}
    Header = 1
    Window = 2
    Cwnds = {2, 3, 5}
    Bdps = {0, 2}
    Wrap16 = 16
    Wrap32 = 32
    MaxTries = 2
    Room = 4
    Faults = {"slow"}
    MaxFaults = 0
    MaxFins = 2
PROPERTIES
    ImplementsStream
    EverythingArrives
CHECK_DEADLOCK FALSE
