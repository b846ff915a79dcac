SPECIFICATION Spec
CONSTANTS
    Input <- MCFourOne
    Closes = {}
    Chunks = {1}
    Header = 1
    Window = 2
    Cwnds = {6}
    Bdps = {0}
    Wrap16 = 16
    Wrap32 = 32
    MaxTries = 5
    Room = 4
    Faults = {}
    MaxFaults = 0
    MaxFins = 0
INVARIANT OutputIsInput
CHECK_DEADLOCK FALSE
