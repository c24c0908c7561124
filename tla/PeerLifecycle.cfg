\* The owner may be cancelled and a service may fail; two starts.
SPECIFICATION FairSpec
CONSTANTS
    Early = {reprovider}
    Late = {keepAlive, warmUp, pubsub}
    Endless = {reprovider, keepAlive, pubsub}
    Fragile = {pubsub}
    Requests = {r1, r2}
    Cancellable = TRUE
    MaxStarts = 2
INVARIANTS StoppedIsQuiet RunningIsComplete
PROPERTIES CancelledCloseEnds
\* The starts and the requests are used up, and close() may wait for ever.
CHECK_DEADLOCK FALSE
