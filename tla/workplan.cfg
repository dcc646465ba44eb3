SPECIFICATION Spec
CONSTANTS
    a = a
    b = b
    c = c
    d = d
    bpass1 = bpass1
    e = e
    n = n
    v = v
    u = u
    x = x
    y = y
    z = z
    Packages = {1, 2, 3, 4, 5, 6, 7, 8, 9, a, b, c, d, bpass1, e, n, v, u}
    Builds = {11, 12, 13, 14, 15, 16, 17, 18, 19, 20, x, y, z}
    Trees <- SmallTrees
    Actions = {"BUILDBLFS", "BUILDCUSTOM", "BUILDPATCH"}
    Requests <- SmallRequests
    BuildLists <- SmallBuilds
    UpToDate = {e}
    Versionless = {v}
    NoScript = {n}
    Installed = {z}
    Executable = {11, 12, 13, 14, 15, 16, 17, 18, 19, 20, x, y}
    Alphabet <- SmallAlphabet
    MaxSetups = 2
    MaxKills = 1
INVARIANTS MergedInOrder BuildsInOrder NeedsBuilt SuccessMeansBuilt
PROPERTY BuiltIsKept
