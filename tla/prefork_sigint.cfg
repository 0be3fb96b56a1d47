CONSTANTS
    c1 = c1
    c2 = c2
    c3 = c3
    MaxChilds = 2
    Clients <- MCClients
    Blocks = 2
    Idle <- OneIdle
SPECIFICATION Spec
CHECK_DEADLOCK FALSE
INVARIANT ParentWaits
