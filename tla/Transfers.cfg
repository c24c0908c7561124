CONSTANTS
    t1 = t1
    t2 = t2
    d = d
    f = f
    g = g
    n = n
    x = x
    y = y
    NoBlock = NoBlock
    NoCar = NoCar
    Tasks = {t1, t2}
    Cids = {d, f, g, n, x, y}
    LinksOf <- DagLinks
    Kind <- DagKind
    Unwalkable = {n}
    Size <- DagSize
    MaxSize = 3
    Roots = {d}
    Files = {d, g}
    Requests <- BatchRequests
    Shared = {f, x}
    ForeignCars <- Cars
SPECIFICATION TransfersSpec
SYMMETRY Symmetry
INVARIANT ExportedIsWhole
INVARIANT ImportsAreSound
INVARIANT CompleteIsAccepted
INVARIANT DeliveredInOrder
INVARIANT BuffersBounded
CHECK_DEADLOCK FALSE
