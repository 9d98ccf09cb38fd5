\* A batched server with its defaults is stopped during a prefill.
SPECIFICATION Spec
CONSTANTS
    None = None
    Tokens <- MCTokens
    Hidden <- MCHidden
    Texts <- MCTexts
    Suffix <- MCSuffix
    Calls <- MCCalls
    Rendered <- MCRendered
    Answers <- MCAnswers
    Ctx = 5
    Rewinds = FALSE
    KeepsSlices = FALSE
    Batched = TRUE
    Replays = {TRUE}
    MaxFiles = 1
INVARIANTS CheckpointAsNamed
