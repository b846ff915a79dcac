SPECIFICATION FairSpec
CONSTANTS
    alice = alice
    bob = bob
    r1 = r1
    r2 = r2
    ca = ca
    c11 = c11
    c12 = c12
    c22 = c22
    c23 = c23
    cb = cb
    Routers = {r1, r2}
    Hosts = {alice, bob}
    Cards <- MCCards
    Node <- MCNode
    Lan <- MCLan
    Ip <- MCIp
    Gateway <- MCGateway
    Width = 4
    Octet = 2
    Tables <- MCTables
    InitTtl = 3
    Ids = {1, 2}
    Traffic <- MCTraffic
    Broadcast = Broadcast
    NoRoute = NoRoute
INVARIANTS
    TypeOK
    LongestPrefix
    OneCarrier
    TruthfulSource
PROPERTIES
    NothingLost
    NetworkDrains
CHECK_DEADLOCK FALSE
