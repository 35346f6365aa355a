\* Both block sources, native and wasm: 4 blocks over 5 heights, 2 heights a
\* round, 2 of 3 chunks at a time, 1 retry.
CONSTANTS
    k1 = k1
    k2 = k2
    k3 = k3
    Chain <- MCChain
    Chunks <- MCChunks
    MaxCatchup = 2
    Concurrency = 2
    MaxRetries = 1
    Confs <- MCConfs
SPECIFICATION FeedSpec
CHECK_DEADLOCK FALSE
INVARIANTS
    SentAscending
    GapsHadFailures
PROPERTIES
    CatchesUp
    AnnouncedIsTold
