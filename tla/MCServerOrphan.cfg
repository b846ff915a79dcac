SPECIFICATION Spec
CONSTANTS
    Clients = {p1, p2}
    Conns = {c1, c2}
    MaxClients = 2
    MaxArrived = 2
    Null = Null
    Stack = Stack
SYMMETRY Symmetry
INVARIANT ConnectedAreListed
CHECK_DEADLOCK FALSE
