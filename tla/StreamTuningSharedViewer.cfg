CONSTANTS
    Streams = {s1, s2}
    Players = {p1, p2}
    Requests = {r1, r2, r3}
    Pool <- OnePool
    PrewarmChannels = 1
    Scenarios <- ReleaseScenarios
    Zapping = TRUE
    None = None
SPECIFICATION Spec
CHECK_DEADLOCK FALSE
SYMMETRY Symmetry
PROPERTY SharedViewersSpared
