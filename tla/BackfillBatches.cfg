\* Two runs on two documents, or on one document while the profile is changed
\* and changed back.
CONSTANTS
    Docs = {d1, d2}
    Workers = {w1, w2}
    Profiles = {p1, p2}
    None = None
    Earlier = Earlier
    RecoverLimit = 1
    MaxTexts = 0
    MaxSwitches = 2
    MaxSends = 2
    Starts <- BatchesOrProfiles
    FaultsCease = FALSE
SPECIFICATION Spec
SYMMETRY Symmetric
INVARIANTS TypeOK NoSilentRebill
