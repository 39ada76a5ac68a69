\* One engine condenses and repairs while nodes are deleted and moved.
CONSTANTS
    e1 = e1
    s1 = s1
    s2 = s2
    Engines = {e1}
    Sessions = {s1, s2}
    Bound <- OneEngine
    Fanin = 2
    MaxNodes = 4
    MaxDeletes = 1
SPECIFICATION Spec
INVARIANTS TypeOK MadeOfAllSources FollowsSources
CHECK_DEADLOCK FALSE
