\* Two processes of any model and context, one directory; unlink may fail.
SPECIFICATION Spec
CONSTANTS
    Procs = {p1, p2}
    Texts <- TwoTexts
    PrefixOf <- TwoPrefixes
    Bytes <- TwoSizes
    Trailers = {0}
    Lengths = {1}
    Configs <- Models
    Mins = {1}
    RejectQuant = FALSE
    Budget = 7
    UnlinkMayFail = TRUE
    None = None
    t1 = t1
    t2 = t2
    t3 = t3
    m1 = m1
    m2 = m2
INVARIANTS
    LoadedMatches
    NoPartialFiles
