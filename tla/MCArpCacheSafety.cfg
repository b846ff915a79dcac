SPECIFICATION Spec
CONSTANTS
    i1 = i1  i2 = i2
    p1 = p1  p2 = p2  p3 = p3
    IPs = {i1, i2}
    MACs = {m1}
    Pkts = {p1, p2, p3}
    Hop <- MCHop
    Ours <- MCOurs
    Reqs = {r1, r2}
    Size = 1
    Timeout = 0
    MaxSent = 2
    NoReq = NoReq  NoPkt = NoPkt  NoEntry = NoEntry  NoMac = NoMac
SYMMETRY Symmetry
INVARIANTS
    TypeOK
    OneRequestPerNextHop
    LinkedRequestsUsable
    NoWaitingBehindAMapping
    OneFate
    CounterFollowsWire
    UnreachableAfterAllTries
