SPECIFICATION FairSpec
CONSTANTS
    NDays = 2
    Nodes = {1, 2}
    First <- TwoDaysFirst
    Last <- TwoDaysLast
    Kids <- Leaves
    Builders = {b1}
    Readers = {r1}
    PerPass = 1
    EventLimit = 2
    DayBudget = 1
    GenBound = 1
    MaxMutations = 2
    MaxRebuilds = 0
    Ceases = TRUE
    NoNonce = NoNonce
INVARIANTS ReadyIsCurrent ServedWasCurrent
PROPERTY EventuallySettled
