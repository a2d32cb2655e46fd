SPECIFICATION AccessSpec
CONSTANTS
    u1 = u1
    u2 = u2
    h1 = h1
    Users = {u1, u2}
    Creds = {c1, c2}
    Challenges = {h1, h2}
    Requests = {q1, q2}
    Streams = {s1}
    MaxVersion = 3
    MaxCode = 2
    MaxFailures = 1
    Scenarios <- AllScenarios
    p1 = p1
    p2 = p2
    b1 = b1
    b2 = b2
    k1 = k1
    k2 = k2
    Approvers = {u1, u2}
    Pairings = {p1, p2}
    Devices = {d1, d2}
    Browsers = {b1, b2}
    Calls = {k1, k2}
    MaxAccountVersion = 2
    MaxDevices = 1
    NoOne = NoOne
    TvScenarios <- AllHouseholds
    Sessions = {s1, s2}
    Refreshes = {r1, r2}
    MaxGeneration = 2
    MaxChanges = 3
    Nil = Nil
INVARIANTS AdminRemains SignInsCurrent  PairingEnrolsOnce RevokedIsGenuine ExchangedOnce
 
CHECK_DEADLOCK FALSE
