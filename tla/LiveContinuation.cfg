\* A batched server on a backend that invalidates what fails, stopped and started again.
SPECIFICATION Spec
CONSTANTS
    None = None
    Tokens <- MCTokens
    Hidden <- MCHidden
    Texts <- MCTexts
    Suffix <- MCSuffix
    Calls <- MCCalls
    Rendered <- MCRendered
    Answers <- MCAnswers
    Ctx = 5
    Rewinds = TRUE
    KeepsSlices = FALSE
    Batched = TRUE
    Replays = {TRUE, FALSE}
    MaxFiles = 1
INVARIANTS TypeOK PromptFaithful DiskFaithful TrustedBindingIsCurrent
