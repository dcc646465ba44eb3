SPECIFICATION Spec
CONSTANTS
    pass1 = pass1
    p = p
    q = q
    r = r
    w = w
    f = f
    g = g
    h = h
    log = log
    link = link
    blanks = blanks
    Scripts = {pass1, p, q, r, w}
    Files = {f, g, h, log, link, blanks}
    Plans <- SmallPlans
    Installs <- SmallInstalls
    Removes <- SmallRemoves
    KeepsTime = {g}
    Present <- ThereBefore
    Filtered = {log}
    Dangling = {link}
    Mangled = {blanks}
    WholeOf <- Whole
    InLfsBook = {q}
    LfsLists = {TRUE, FALSE}
    Alphabet <- ByName
    MaxKills = 2
    MaxFaults = 1
    MaxStarts = 2
CHECK_DEADLOCK FALSE
INVARIANTS ArchivesExact NamedAfterBook
