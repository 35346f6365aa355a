\* Two links reach the app; one nearxd starts or stops once.
CONSTANTS
    U = U
    N = N
    NoRoute = NoRoute
    Undecodable <- U
    None <- N
    Raw <- MCRaw
    Text <- MCTexts
    Decode <- MCDecode
    Encode <- MCEncode
    Lower <- MCLower
    BlockRef <- MCBlockRef
    TxHashes <- MCHashes
    Accounts <- MCAccounts
    PublicKeys <- MCKeys
    Methods <- MCMethods
    OtherVersions <- MCVersions
    JsThrows <- MCJsThrows
    Links <- MCLinks
    HostLinks <- MCHostLinks
    SessionLink <- MCSession
    UserPages <- MCUserPages
    MaxOpens = 2
    MaxFlips = 1
SPECIFICATION Spec
INVARIANTS TypeOK OpenedAsAsked AnswerIsTrue
PROPERTIES ShownIsAsked WaitingIsRead
CHECK_DEADLOCK FALSE
