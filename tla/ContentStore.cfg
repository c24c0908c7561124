SPECIFICATION FairSpec
CONSTANTS
    top = top
    mid = mid
    leaf = leaf
    Blocks <- MCBlocks
    Links <- MCLinks
    Adders = {t1, t2}
    Collector = gc
    Unreadable = {top, mid}
    Removable = {mid, leaf}
    Pinnable = {top, leaf}
INVARIANTS
    SparesPinned
    MarksOnlyPinned
PROPERTIES
    StoreGrowsDuringAdd
    GcEnds
