\* The chunks of a block on a native build: 3 chunks, 2 at a time.
CONSTANTS
    k1 = k1
    k2 = k2
    k3 = k3
    Chain <- MCChain
    Chunks <- MCChunks
    MaxCatchup = 2
    Concurrency = 2
    MaxRetries = 1
    Confs <- MCNative
SPECIFICATION FeedSpec
CHECK_DEADLOCK FALSE
PROPERTIES
    NoChunkLost
