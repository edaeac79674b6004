SPECIFICATION Spec
CONSTANTS
    SamplerConfigs <- MCConfigs
    Prompts <- SamplePrompts
    Logits <- MCLogits
    Stop = {3}
    Steps = 2
    Draws = 3
INVARIANTS
    JsonIdentity
CHECK_DEADLOCK FALSE
