SPECIFICATION InboxSpec
CONSTANTS
    r1 = r1
    r2 = r2
    Requests = {r1, r2}
    Counts = {0, 2}
    MaxMessages = 3
    BufferMax = 2
SYMMETRY RequestSymmetry
INVARIANT OnceInOrder
INVARIANT NothingVanishes
INVARIANT RegisteredIsRead
CHECK_DEADLOCK FALSE
