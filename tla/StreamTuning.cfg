CONSTANTS
    Streams = {s1, s2}
    Players = {p1}
    Requests = {r1, r2, r3}
    Pool <- OnePool
    PrewarmChannels = 1
    Scenarios <- SafetyScenarios
    Zapping = FALSE
    None = None
SPECIFICATION Spec
CHECK_DEADLOCK FALSE
SYMMETRY Symmetry
INVARIANT OneTransport
 
