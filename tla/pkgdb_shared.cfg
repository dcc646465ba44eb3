SPECIFICATION Spec
CONSTANTS
    usr = usr
    bin = bin
    f = f
    g = g
    h = h
    etc = etc
    pw = pw
    pwNew = pwNew
    boot = boot
    img = img
    sys = sys
    a1 = a1
    a2 = a2
    b1 = b1
    v1 = v1
    v2 = v2
    k1 = k1
    k2 = k2
    d1 = d1
    Root = Root
    None = None
    Edited = Edited
    Packages <- BothPackages
    NameOf <- BothNames
    Paths <- BothPaths
    Parent <- BothParent
    Listing <- BothListing
    PatternHits <- BothHits
    DotNew <- BothDotNew
    Selections <- BothSelections
    StagedFiles <- VolatileStaged
    StagedDirs <- VolatileStagedDirs
    Kernels <- VolatileKernels
    MaxOps = 4
    MaxFaults = 2
INVARIANTS RecordedIntact NoOrphans SuccessMeansDone
PROPERTIES UpgradeKeeps ImplementsStore
ACTION_CONSTRAINT OneFamily
CHECK_DEADLOCK FALSE
