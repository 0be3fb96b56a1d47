CONSTANTS
    p1 = p1
    p2 = p2
    p3 = p3
    p4 = p4
    Pids <- MCPids
    Patient <- NoPids
    MaxChildren = 3
    ListenQ = 2
SPECIFICATION Spec
SYMMETRY Symmetry
INVARIANT AcceptSeesItsErrno
