SPECIFICATION FairSpec
CONSTANTS
    a = a
    b = b
    c = c
    d = d
    e = e
    NoRoot = NoRoot
    Packages <- Five
    DepFiles <- AllGraphs
    NameInside <- FiveInside
    Requests <- FiveRequests
    MaxRuns = 2
    MaxCrashes = 1
CHECK_DEADLOCK FALSE
INVARIANTS NoDuplicates BuildOrder TreesComplete
PROPERTY RunEnds
