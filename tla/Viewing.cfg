CONSTANTS
    Subs = {v1}
    Settings <- VideoMixedAndRadio
    MaxSource = 2
    u1 = u1
    u2 = u2
    c1 = c1
    q1 = q1
    Users = {u1, u2}
    Creds = {c1}
    Challenges = {}
    Requests = {q1}
    Streams = {s1}
    MaxVersion = 3
    MaxCode = 2
    MaxFailures = 1
    Scenarios <- Watched
    GuideNames = {a}
    Showing = a
    Labels = {t1, t2}
    Zones = {0, 1}
    Horizon = 3
    History = 1
    Future = 2
    SlotLength = 2
    GuideJobs = {j1, j2}
    GuideWorkers = 2
    MaxGuideEdits = 1
    MaxRuns = 2
SPECIFICATION ViewingSpec
CHECK_DEADLOCK FALSE
INVARIANTS StreamDecodable GuideFilled
PROPERTIES  GuideImported 
