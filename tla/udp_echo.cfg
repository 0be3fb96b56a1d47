CONSTANTS
    u1 = u1
    u2 = u2
    Clients <- MCClients
    Ports <- MCPorts
    HostOf <- MCHost
    MaxDup = 1
    MaxChilds = 2
    MaxToken = 1
    MaxClients = 1
    MaxCount = 2
    Stale = Stale
    Tries = 2
SPECIFICATION Spec
CHECK_DEADLOCK FALSE
INVARIANTS TypeOK EchoOfOwnAddress NoAmplification LimitPerProcess
PROPERTIES ClientEnds RequestsTaken
