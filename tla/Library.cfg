SPECIFICATION LibrarySpec
CONSTANTS
    Sources = {s1, s2}
    Tvgs = {x}
    StudioGroups = {g1, g2}
    Syncs = {j1, j2}
    MaxRow = 3
    MaxChannel = 3
    MaxChanges = 2
    MaxSelected = 1
    Nothing = Nothing
    Lists = {a, b}
    LongLists = {a}
    Keys = {k1, k2}
    Guided = {k1, k2}
    GroupNames = {n1, n2}
    ImportJobs = {i1, i2}
    Workers = 2
    BatchSize = 2
    MaxRefreshes = 2
    MaxEdits = 1
 
PROPERTIES SyncFollowsSource RefreshMirrorsFeed
SYMMETRY Interchangeable
CHECK_DEADLOCK FALSE
