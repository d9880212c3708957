SPECIFICATION CosimSpec
CONSTANTS
    a = a
    x = x
    y = y
    None = None
    Inflight = 3
    BcstBound = 2
    BulkDepth = 1
    NumPorts = 2
    Requests = {a, x, y}
    Scalars = {a}
    Scatters = {x}
    Lines <- MCLines
    Port <- MCPort
    Prio <- MCPrio
INVARIANTS
    TypeOK
    AnswersMatch
    MemIfsAgree
PROPERTIES
    ImplementsService
    ScalarsServed
