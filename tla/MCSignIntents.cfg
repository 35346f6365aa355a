\* The sign intents: 2 connections, 2 intents that live 1 tick, clock 0..1.
CONSTANTS
    c1 = c1
    c2 = c2
    i1 = i1
    i2 = i2
    Conns <- MCConns
    Ids <- MCIds
    RequestedTtls = {9}
    NoConn = NoConn
    NoIntent = NoIntent
    MinTtl = 1
    MaxTtl = 1
    MaxTime = 1
SPECIFICATION Spec
INVARIANTS
    TypeOK
    AtMostOnce
    ReleasedWasAuthorised
    PromptedIntentStays
PROPERTIES
    ReleasedFresh
    ImplementsLifecycle
    WaitsOnlyForPrompts
