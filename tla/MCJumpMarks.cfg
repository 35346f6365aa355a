\* Marks and the history worker: 2 labels, 2 contexts, 1 block, 5 inputs,
\* one restart.
CONSTANTS
    x = x
    y = y
    z = z
    Null = Null
    LikeText <- MCLikeText
    HitLimit = 2
    LABELS <- MCLabels
    Contexts <- MCContexts
    Blocks <- MCBlocks
    Queries <- MCQueries
    MaxClock = 1
    MaxInputs = 5
    MaxQueue = 1
    MaxStarts = 2
SPECIFICATION Spec
CHECK_DEADLOCK FALSE
INVARIANTS
    TypeOK
    MarksMirrored
    OverlayCurrent
PROPERTIES
    KeyAnswered
    SearchIsCurrent
