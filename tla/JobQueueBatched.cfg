\* Four clients on two slots, one of which may hang up: a job can wait behind two
\* others, and for the slot of its binding while others come and go.
CONSTANTS
    Jobs = {j1, j2, j3, j4}
    Slots = {s1, s2}
    Flaky = {j1}
    Modes = {TRUE}
    None = None
SPECIFICATION Spec
SYMMETRY Symmetry
INVARIANTS
    TypeOK
    JobOutlivesUse
    OneOwner
    IdleSlotUntouched
    NoIdleSlotWhileWaiting
    ContinuationOnItsSlot
    WorkersOutliveWork
    CloseIsLast
PROPERTIES
    OvertakenOnlyWhenBound
