SPECIFICATION CosimSpec
CONSTANTS
    a1 = a1
    a2 = a2
    b1 = b1
    b2 = b2
    c1 = c1
    c2 = c2
    c3 = c3
    NoFlit = NoFlit
    Flits <- MCFlits
    PrioOf <- MCPrioOf
    Depth = 4
    NumPrio = 3
INVARIANTS
    TypeOK
    SlotsConsistent
    QueuesAgree
    BlockedOnlyByPeers
PROPERTIES
    ImplementsBuffer
    NoInversion
