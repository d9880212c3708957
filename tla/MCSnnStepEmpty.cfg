SPECIFICATION FairSpec
CONSTANTS
    NumPU = 2
    NumMC = 1
    Neurons <- EmptyNeurons
    Synapses = {}
    MayFire = {}
    Steps = 2
    Drains = {"reverse"}
PROPERTIES
    Terminates
CHECK_DEADLOCK FALSE
