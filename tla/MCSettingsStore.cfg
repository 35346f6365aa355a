\* The settings: 2 connections, set_signing_settings alone or beside others.
CONSTANTS
    c1 = c1
    c2 = c2
    k1 = k1
    l1 = l1
    a1 = a1
    p1 = p1
    Conns <- MCConns
    Keys <- MCKeys
    Labels <- MCLabels
    Accounts <- MCWatch
    Prefs <- MCPrefs
    RawDocs <- MCRawDocs
    Requests <- MCRequests
    Beside <- MCBeside
    NoLabel = NoLabel
    Absent = Absent
    NoPrefs = NoPrefs
    Scalar = Scalar
    NoConn = NoConn
    NoFile = NoFile
    Empty = Empty
    Torn = Torn
    NoRequest = NoRequest
    NoDoc = NoDoc
    MaxYear = 2
SPECIFICATION Spec
INVARIANTS
    WholeFile
    OneLockedWriter
PROPERTIES
    ImplementsAtomic
    WaitsOnlyForLock
