SPECIFICATION FilesSpec
CONSTANTS
    RankAlignment = 4
    FirstTensorAlignment = 2
    Inputs <- MCInputs
    Page = 2
    WindowBytes = 8
    MaxPages = 16
    MaxWindows = 4
    Thresholds = {0, 80, 150}
    Checkpoints <- MCCheckpoints
    Word = 4096
    Directories <- MCDirectories
    Rewrites <- MCRewrites
    Configs <- MCConfigs
    Bundles <- MCBundles
    MaxWord = 63
    LengthBytes = 1
    MaxHeaderBytes = 20
    Block = 4
    Shards <- MCShards
    Jobs <- MCJobs
INVARIANTS
    EveryChunkInBounds
CHECK_DEADLOCK FALSE
