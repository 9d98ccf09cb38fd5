\* A token whose evaluation fails after the coordinator's own layers.
SPECIFICATION Spec
CONSTANTS
    Heads = {h}
    Tails = {}
    Prompts <- TwoPrompts
    Payloads = {}
    Tokens = {a, b}
    Samples = {a}
    Rewinds = TRUE
    Pipelines = {TRUE, FALSE}
    Window = 2
    Depth = 1
    MaxLen = 3
    MaxCalls = 2
    MaxFaults = 1
    None = None
    a = a
    b = b
INVARIANTS
    EvalDelivers
CHECK_DEADLOCK FALSE
