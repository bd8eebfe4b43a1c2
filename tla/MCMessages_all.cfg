\* Two bookers write to one host; two requests, two messages.
SPECIFICATION Spec
CONSTANTS
    Bookers = {a, b}
    Host = Host
    Conversations = {1, 2}
    Ids = {1, 2}
    Keys = {k1, k2}
    Requests = {r1, r2}
    Nobody = Nobody
    MaxTime = 4
    PageSize = 1
    Settings <- MCSettings
SYMMETRY Symmetry
INVARIANTS LastIsNewest SentIsTold WalkIsExact
PROPERTIES UnreadIsExact KeepsThread
CHECK_DEADLOCK FALSE
