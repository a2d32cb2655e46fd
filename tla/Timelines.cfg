SPECIFICATION TimelinesSpec
CONSTANTS
    q1 = q1
    q2 = q2
    Polls = {q1, q2}
    Length = 3
    MaxGeneration = 2
    MaxSegments = 3
    MaxSequence = 2
    HistoryClients = {v1}
    QueueSize = 2
    MaxRecords = 4
SYMMETRY Symmetry
INVARIANTS TimelineTrueUnlessOverlapped HistoryTellsWhoWatches
PROPERTY SequenceNumbersFixed
CHECK_DEADLOCK FALSE
