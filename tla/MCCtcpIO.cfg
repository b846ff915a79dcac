SPECIFICATION FairSpec
CONSTANTS
    Conns = {1, 2}
    ProgramConns = {1, 2}
    Terminal = Terminal
    MAX_BUF_SPACE = 2
    MaxLen = 2
    Capacity = 1
    PipeCapacity = 2
    MaxReceived = 4
    MaxForPrograms = 3
INVARIANTS
    TypeOK
    OutputAccounted
CHECK_DEADLOCK FALSE
PROPERTIES
    NothingWaits
