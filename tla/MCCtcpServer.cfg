SPECIFICATION Spec
CONSTANTS
    Clients = {p1, p2, p3, p4}
    Conns = {c1, c2, c3}
    MaxClients = 3
    MaxArrived = 2
    Null = Null
    Stack = Stack
SYMMETRY Symmetry
INVARIANTS
    TypeOK
    LinksAgree
    TurnStartsClean
    OnlyAcksDiscarded
CHECK_DEADLOCK FALSE
