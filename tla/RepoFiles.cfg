SPECIFICATION Spec
CONSTANTS
    c1 = c1
    c2 = c2
    Cids = {c1, c2}
    MaxSeeds = 2
    MaxUnsettled = 1
SYMMETRY CidSymmetry
INVARIANT ReturnedIsOnFile
INVARIANT IdentityKept
PROPERTY ImplementsPinTable
CHECK_DEADLOCK FALSE
