SPECIFICATION Spec
CONSTANTS
    Convs = {c1, c2}
    Sessions = {s1, s2}
    Fingerprints = {r1, r2}
    MaxRows = 2
    MaxVersion = 1
    FreshTail = 1
    PerConversation = 1
    PerProcess = 1
    MaxChanges = 1
SYMMETRY Interchangeable
INVARIANTS TypeOK NothingSurvivesDiscard CacheBounded
PROPERTY PublishesCommitted
