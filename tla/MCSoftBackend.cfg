SPECIFICATION Spec
CONSTANTS
    f1 = f1
    f2 = f2
    n1 = n1
    NoFlit = NoFlit
    Configurations <- MCConfigurations
    Flits <- MCFlits
    PrioOf <- MCPrioOf
    SrcOf <- MCSrcOf
    DstOf <- MCDstOf
    NumPU = 4
    NumMC = 1
    ClusterSize = 4
    NumThreads = 2
    QDepth = 2
    ReleaseResetAfter = 1
INVARIANTS
    NoDataRace
    InStep
    StatsExact
    TopologySound
PROPERTIES
    ImplementsMesh
