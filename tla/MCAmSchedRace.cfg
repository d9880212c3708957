SPECIFICATION Spec
CONSTANTS
    Handlers = {0, 1}
    Depth = 3
    EvDepth = 1
    NumPrio = 2
    Quota <- PairQuota
    Margin <- PairMargin
    Masks <- Single
    Outside = {0, 1}
    Inside = {0, 1}
    YieldBits = {FALSE, TRUE}
    NbBits = {FALSE}
INVARIANTS
    LiveSumFits
