\* One process at a time, restarted with any configuration and min_tokens, on
\* a directory that holds anything.
SPECIFICATION Spec
CONSTANTS
    Procs = {p1}
    Texts <- ThreeTexts
    PrefixOf <- ThreePrefixes
    Bytes <- ThreeSizes
    Trailers = {0, 3}
    Lengths = {1, 2}
    Configs <- All
    Mins = {1, 2}
    RejectQuant = TRUE
    Budget = 8
    UnlinkMayFail = FALSE
    None = None
    t1 = t1
    t2 = t2
    t3 = t3
    m1 = m1
    m2 = m2
INVARIANTS
    TypeOK
    CheckpointsWithinBudget
    StoredIsUsable
