SPECIFICATION CosimSpec
CONSTANTS
    Last = 3
    Responses <- MCResponses
    Clusters = {0, 1, 2, 3}
    Src <- MCSrc
    Dst <- MCDst
    Zone <- MCZone
    PU <- MCPU
    None = None
INVARIANTS
    TypeOK
    RingsAgree
PROPERTIES
    ImplementsService
    Delivered
