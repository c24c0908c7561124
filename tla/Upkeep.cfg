CONSTANTS
    Peers = {p1, p2, p3}
    Sweep = 2
    Permits = 1
    Streams = {s1, s2}
    Interval = 2
    Threshold = 3
    Cids = {c1, c2}
    Tier <- MCTier
    Providers = {v1, v2, v3}
    Junk = Junk
    Broken = Broken
    Count = 2
    MaxLines = 3
    Guard = 3
    Stored = {me, a, b, c}
    Me = me
    MaxPeers = 2
SPECIFICATION UpkeepFairSpec
INVARIANT InflightIsTask
INVARIANT PingedInTime
INVARIANT ZombiesGo
INVARIANT CallsAreComplete
INVARIANT WarmUpIsComplete
PROPERTY EveryCidTried
PROPERTY BootstrapReturns
