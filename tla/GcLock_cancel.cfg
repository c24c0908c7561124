SPECIFICATION CancelSpec
CONSTANTS
    Readers = {r1, r2, r3}
    Writers = {w1, w2}
    Cancellable = {r1, r2, r3, w1, w2}
    NoTask = NoTask
INVARIANTS
    OneWriter
CHECK_DEADLOCK FALSE
