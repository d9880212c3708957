SPECIFICATION Spec
CONSTANTS
    load = load
    byte = byte
    whole = whole
    bulk = bulk
    scatter = scatter
    on = on
    off = off
    result = result
    rng = rng
    config = config
    boot = boot
    register = register
    never = never
    drop = drop
    NoFlit = NoFlit
    Packet <- MCPacket
    PrioOf <- MCPrioOf
    BeatPUs <- MCBeatPUs
    Bootrom <- MCBootrom
    RandomWord <- MCRandomWord
    ConfigOf <- MCConfigOf
    Interface <- MCInterface
    Domain <- MCDomain
    CommandLines <- MCCommandLines
    MshrCount = 3
    BroadcastBound = 2
    BulkDepth = 1
    ClusterSize = 2
    LineWidth = 2
    MaxIdle = 3
    PeriphInflight = 2
    RespDepth = 2
    ReleaseResetAfter = 1
    Seed = 1
    CycleCap = 2
INVARIANTS
    AnswersOwed
    WindowsAgree
PROPERTIES
    ImplementsMemory
    ImplementsNotifier
    Served
    Notified
CHECK_DEADLOCK FALSE
