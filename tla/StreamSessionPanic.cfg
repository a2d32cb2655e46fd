CONSTANTS
    a = a
    b = b
    SourceLists <- ChangingSources
    Producers = {p1, p2}
    OtherLeases = {}
    Limit = 2
    RetryLimit = 1
    Clients = {}
    HlsClients = {}
    Scenarios <- PanicScenarios
    NoProducer = NoProducer
SPECIFICATION Spec
CHECK_DEADLOCK FALSE
INVARIANT NeverPanics
