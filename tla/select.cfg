SPECIFICATION FairSpec
CONSTANTS
    m1 = m1
    m2 = m2
    kde = kde
    mykde = mykde
    gone = gone
    b1 = b1
    Metas = {m1, m2}
    Groups = {kde, mykde, gone}
    Builds = {b1}
    Absent = {gone}
    MetaFiles <- SmallMetaFiles
    Selections <- AllSelections
    WordsWith <- OneInside
CHECK_DEADLOCK FALSE
INVARIANTS SelectionExpanded
PROPERTY ExpansionEnds
