SPECIFICATION FairSpec
CONSTANTS
    NumPU = 2
    NumMC = 1
    Neurons <- OneNeuron
    Synapses = {}
    MayFire = {}
    Steps = 2
    Drains = {"reverse"}
INVARIANTS
    PreparedAlways
CHECK_DEADLOCK FALSE
