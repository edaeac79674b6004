SPECIFICATION Spec
CONSTANTS
    SamplerConfigs <- MCConfigs
    Prompts <- SamplePrompts
    Logits <- MCLogits
    Stop = {3}
    Steps = 2
    Draws = 3
INVARIANTS
    TurnKept
    ToolLoopExtends
    ReplyStable
    PromptWellFormed
    ReplayAgrees
    EncodeIsReference
    RoundTrip
    NfcCanonical
    JsonRoundTrip
    CacheExact
    GreedyAgrees
    BatchIndependent
    NoRepeatedNgram
    FiltersExact
    DrawFair
CHECK_DEADLOCK FALSE
