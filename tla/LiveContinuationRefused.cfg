\* Calls are rewritten, and a checkpoint with enough reasoning makes one too long.
SPECIFICATION Spec
CONSTANTS
    None = None
    Tokens <- MCTokens
    Hidden <- MCHidden
    Texts <- MCTexts
    Suffix <- MCSuffix
    Calls <- MCCalls
    Rendered <- MCRendered
    Answers <- LongAnswers
    Ctx = 7
    Rewinds = FALSE
    KeepsSlices = FALSE
    Batched = FALSE
    Replays = {FALSE}
    MaxFiles = 1
INVARIANTS BindingAsTrusted
