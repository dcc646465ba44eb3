SPECIFICATION Spec
CONSTANTS
    a = a
    b = b
    c = c
    d = d
    e = e
    NoRoot = NoRoot
    Packages <- Three
    DepFiles <- PassOneGraphs
    NameInside <- PassOneInside
    Requests <- ThreeInOrder
    MaxRuns = 2
    MaxCrashes = 0
CHECK_DEADLOCK FALSE
INVARIANT DependenciesResolved
