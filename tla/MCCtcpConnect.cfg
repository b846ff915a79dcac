SPECIFICATION Spec
CONSTANTS
    Clients = {a, b}
    Ports = {1, 2}
    ServerPort = 9
    MaxClients = 2
    InitNumbers = {0, 2}
    MaxNumber = 2
    MaxPackets = 1
    MaxSegments = 2
    Wrap32 = 8
INVARIANTS
    TypeOK
    ClientHearsItsServer
    ServerHearsItsClient
CHECK_DEADLOCK FALSE
