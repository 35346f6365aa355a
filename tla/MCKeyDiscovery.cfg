\* Listing and signing: 2 accounts, 4 keys, 2 networks, 1 change by others or failed reading.
CONSTANTS
    main = main
    test = test
    a1 = a1
    a2 = a2
    k1 = k1
    k2 = k2
    Networks <- MCNetworks
    Accounts <- MCAccounts
    Keys <- MCKeys
    Items <- MCItems
    FullAccess <- MCFull
    Signers <- MCSigners
    CliItems <- MCCli
    FileItems <- MCFiles
    Older <- MCOlder
    PrefetchOver = 1
    MaxChanges = 1
    NoRecord = NoRecord
    NoRow = NoRow
SPECIFICATION Spec
INVARIANTS
    SourcesAreTrue
    NoKeyMissing
    SignsAsListed
CHECK_DEADLOCK FALSE
