SPECIFICATION CosimSpec
CONSTANTS
    k1 = k1
    k2 = k2
    c1 = c1
    c2 = c2
    c3 = c3
    l1 = l1
    l2 = l2
    l3 = l3
    l4 = l4
    None = None
    Lines = {l1, l2, l3, l4}
    Beats = 2
    Clusters = {k1, k2}
    Cores = {c1, c2, c3}
    Home <- MCHome
    PU <- MCPU
    Addressee <- MCAddressee
    BiuDepth = 1
INVARIANTS
    DistributorsAgree
PROPERTIES
    ImplementsService
    LinesLeave
