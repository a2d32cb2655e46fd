CONSTANTS
    a = a
    b = b
    SourceLists <- ChangingSources
    Producers = {p1, p2}
    OtherLeases = {o1}
    Limit = 2
    RetryLimit = 1
    Clients = {c1}
    HlsClients = {c1}
    Scenarios <- SafetyScenarios
    NoProducer = NoProducer
SPECIFICATION Spec
CHECK_DEADLOCK FALSE
SYMMETRY Symmetry
INVARIANTS  OneFeed
PROPERTY MakeBeforeBreak
