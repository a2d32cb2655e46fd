CONSTANTS
    a = a
    b = b
    SourceLists <- TwoSources
    Producers = {p1}
    OtherLeases = {o1}
    Limit = 1
    RetryLimit = 1
    Clients = {}
    HlsClients = {}
    Scenarios <- StopScenarios
    NoProducer = NoProducer
SPECIFICATION FairSpec
CHECK_DEADLOCK FALSE
PROPERTIES ReadyAnswered StopCompletes LeasesReturn LimiterSpec
