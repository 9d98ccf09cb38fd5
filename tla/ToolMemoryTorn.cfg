\* The same where trailers cross the end of a stdio buffer.
SPECIFICATION Spec
SYMMETRY Symmetry
CONSTANTS
    None = None
    ls = ls
    cat = cat
    rm = rm
    f1 = f1
    Workers = {w1}
    Clients = {c1}
    Ids = {i1, i2}
    Texts <- MCTexts
    Files = {f1}
    Content <- MCContent
    EntryBytes = 1
    BlockBytes <- MCBlockBytes
    MaxEntries = 2
    MaxBytes = 6
    MaxCalls = 2
    Crosses = {TRUE}
INVARIANTS ReplayExact

