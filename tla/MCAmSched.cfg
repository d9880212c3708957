SPECIFICATION FairSpec
CONSTANTS
    Handlers = {0, 1}
    Depth = 3
    EvDepth = 1
    NumPrio = 2
    Quota <- SinkQuota
    Margin <- SinkMargin
    Masks <- Uniform
    Outside = {0, 1}
    Inside = {0, 1}
    YieldBits = {FALSE, TRUE}
    NbBits = {FALSE}
INVARIANTS
    TypeOK
    ActiveThread
    QuotaCovered
    UrgentSendFits
PROPERTIES
    SinkDrains
    ExecuteMoves
