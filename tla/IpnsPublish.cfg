SPECIFICATION Spec
CONSTANTS
    p1 = p1
    p2 = p2
    p3 = p3
    Publishes = {p1, p2, p3}
    NRouters = 2
    Delegated <- FirstRouter
    HasDatastore = TRUE
    Lifetime = 1
    MaxTime = 2
    MaxSequence = 3
    Altered = {0, 3}
    MaxAtOnce = 2
SYMMETRY PublishSymmetry
INVARIANT FoundIsSuperseded
PROPERTY SequencesIncrease
INVARIANT AnswersAreHeld
CHECK_DEADLOCK FALSE
