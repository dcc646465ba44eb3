SPECIFICATION Spec
CONSTANTS
    p1 = p1
    p2 = p2
    q = q
    pq = pq
    k1 = k1
    k2 = k2
    A = A
    B = B
    Packages <- Archives
    NameOf <- Names
    NameInside <- Inside
    Kernels = {k1, k2}
    SortUnique <- SortedSets
    ListNames = {A, B}
    RepoFiles <- Repository
    RepoRequests <- FromRepository
    InstRequests <- FromInstalled
    MaxOps = 2
    MaxFaults = 0
CHECK_DEADLOCK FALSE
INVARIANT UpgradeInstallsLists
