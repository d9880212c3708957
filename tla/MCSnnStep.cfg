SPECIFICATION FairSpec
CONSTANTS
    NumPU = 4
    NumMC = 2
    Neurons <- FourNeurons
    Synapses <- FourSynapses
    MayFire <- FourMayFire
    Steps = 2
    Drains = {"reverse", "tree"}
CONSTRAINT
    NoneOvertaken
INVARIANTS
    TypeOK
    PreparedWhenOpen
    Timely
PROPERTIES
    FiringsReported
    Terminates
CHECK_DEADLOCK FALSE
