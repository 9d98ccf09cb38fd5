CONSTANTS
    N = 2
    Flaky = {0}
    MaxQuanta = 1
    MaxTokens = 1
SPECIFICATION FairSpec
INVARIANTS
    TypeOK
    ModelExclusive
    CountersCorrect
    InFlightHeld
    SessionMatchesLoop
    DecoderOutlivesRequests
PROPERTIES
    DecodersFirst
    PrefillBypassedOnce
    EveryRequestEnds
    DecoderStops
