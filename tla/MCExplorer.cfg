\* The explorer: four blocks, a window and a cache of three, two user inputs.
CONSTANTS
    None = None
    Chain <- MCChain
    KeepBlocks = 3
    FrontWindow = 2
    BackTarget = 2
    CacheContext = 1
    ArchivalContext = 1
    MaxCached = 3
    PageRows = 2
    Txs <- MCTxs
    FilterQuery <- MCFilterQuery
    Bare = Bare
    Within <- MCWithin
    Looks <- MCLooks
    Joined <- MCJoined
    Stubs = TRUE
    Browser = TRUE
    Routes = {1, 2}
    MaxInputs = 2
    MaxRequests = 3
SPECIFICATION Spec
INVARIANTS
    WindowOrdered
    CacheMatchesOrder
    FollowsOrLocked
    BackChainUnbroken
PROPERTIES
    SelectionSurvives
