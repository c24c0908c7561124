SPECIFICATION Spec
CONSTANTS
    Topics = {a, own}
    Protected = {own}
    Users = {u}
    JoinConfirmations = 2
    LeaveMisses = 3
    MaxExtra = 0
INVARIANT CapRespected
INVARIANT JoinedStaleTopicsLeft
PROPERTY NoFlapping
