SPECIFICATION FairSpec
CONSTANTS
    Readers = {r1, r2, r3}
    Writers = {w1, w2}
    Cancellable = {}
    NoTask = NoTask
PROPERTIES
    ImplementsReadersWriters
    EveryoneGetsIn
