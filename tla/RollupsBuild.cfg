SPECIFICATION Spec
CONSTANTS
    NDays = 1
    Nodes = {1, 2}
    First <- OneDay
    Last <- OneDay
    Kids <- OneDayKids
    Builders = {b1, b2}
    Readers = {}
    PerPass = 1
    EventLimit = 2
    DayBudget = 1
    GenBound = 1
    MaxMutations = 2
    MaxRebuilds = 1
    Ceases = FALSE
    NoNonce = NoNonce
SYMMETRY SomeBuilder
INVARIANTS TypeOK ReadyIsCurrent NothingForgotten
