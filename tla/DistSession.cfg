\* A route of a head and a tail, a failure anywhere, calls span by span and
\* pipelined.  The calls are bounded, so the system stops.
SPECIFICATION FairSpec
CONSTANTS
    Heads = {h}
    Tails = {t}
    Prompts <- TwoPrompts
    Payloads <- OnePayload
    Tokens = {a, b}
    Samples = {a}
    Rewinds = TRUE
    Pipelines = {TRUE, FALSE}
    Window = 2
    Depth = 1
    MaxLen = 3
    MaxCalls = 2
    MaxFaults = 1
    None = None
    a = a
    b = b
INVARIANTS
    TypeOK
    HashIsTimeline
    QuietBetweenCalls
    SyncDelivers
PROPERTIES
    LogitsOfTimeline
    CallReturns
CHECK_DEADLOCK FALSE
