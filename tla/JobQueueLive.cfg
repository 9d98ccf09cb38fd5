\* Liveness of the queue, batched and not: two slots and two clients that may
\* hang up.  The list is not empty when a continuation waits for the slot it is
\* bound to, or when the server is not batched.
CONSTANTS
    Jobs = {j1, j2}
    Slots = {s1, s2}
    Flaky = {j1, j2}
    Modes = {TRUE, FALSE}
    None = None
SPECIFICATION FairSpec
PROPERTIES
    EveryJobAnswered
    ShutdownCompletes
