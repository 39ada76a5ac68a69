\* One document that is rewritten once; faults cease at some point.
CONSTANTS
    Docs = {d1}
    Workers = {w1, w2}
    Profiles = {p1}
    None = None
    Earlier = Earlier
    RecoverLimit = 1
    MaxTexts = 1
    MaxSwitches = 0
    MaxSends = 2
    Starts <- Fresh
    FaultsCease = TRUE
SPECIFICATION FairSpec
PROPERTY EveryDocSettles
