SPECIFICATION Spec
CONSTANTS
    usr = usr
    bin = bin
    f = f
    g = g
    h = h
    etc = etc
    pw = pw
    pwNew = pwNew
    boot = boot
    img = img
    sys = sys
    a1 = a1
    a2 = a2
    b1 = b1
    v1 = v1
    v2 = v2
    k1 = k1
    k2 = k2
    d1 = d1
    Root = Root
    None = None
    Edited = Edited
    Packages <- SharedPackages
    NameOf <- SharedNames
    Paths <- SharedPaths
    Parent <- SharedParent
    Listing <- SharedListing
    PatternHits <- SharedHits
    DotNew <- SharedDotNew
    Selections <- SharedSelections
    StagedFiles = {}
    StagedDirs = {}
    Kernels = {}
    MaxOps = 3
    MaxFaults = 1
INVARIANT UpgradeInstallsNew
CHECK_DEADLOCK FALSE
