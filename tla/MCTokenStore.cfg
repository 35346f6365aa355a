\* The token, in every backend: 2 connections, 2 tokens, nothing in the environment.
CONSTANTS
    c1 = c1
    c2 = c2
    t1 = t1
    t2 = t2
    Conns <- MCConns
    Tokens <- MCTokens
    NoToken = NoToken
    NoFile = NoFile
    Empty = Empty
    Mixed = Mixed
    EnvToken = NoToken
    Backends = {"file", "keychain", "auto"}
    NoRequest = NoRequest
SPECIFICATION TokenSpec
SYMMETRY MCSymmetry
PROPERTIES
    StoredIsPersisted
    ClearedIsGone
