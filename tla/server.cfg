CONSTANTS
    p1 = p1
    p2 = p2
    p3 = p3
    p4 = p4
    Pids <- MCPids
    Patient <- TwoPatient
    MaxChildren = 3
    ListenQ = 2
SPECIFICATION Spec
INVARIANTS TypeOK CountCovers ChildrenBounded LoopInv CountExact WaitAccounted ZombieIsSignalled
PROPERTIES ZombiesReaped Served BoundedSessions
