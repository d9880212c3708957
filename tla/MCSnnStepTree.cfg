SPECIFICATION FairSpec
CONSTANTS
    NumPU = 2
    NumMC = 2
    Neurons <- OneNeuron
    Synapses = {}
    MayFire = {}
    Steps = 2
    Drains = {"tree"}
INVARIANTS
    PreparedWhenOpen
CHECK_DEADLOCK FALSE
