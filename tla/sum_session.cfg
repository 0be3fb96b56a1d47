CONSTANTS
    c1 = c1
    c2 = c2
    Clients <- MCClients
    Width = 4
    Typed <- MCTyped
    MaxSums = 2
SPECIFICATION Spec
INVARIANTS TypeOK SumsRight
PROPERTIES EveryoneServed SumAnswered
