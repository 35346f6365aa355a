\* Is a document answered "stored" the one in the file?
CONSTANTS
    c1 = c1
    c2 = c2
    k1 = k1
    l1 = l1
    a1 = a1
    p1 = p1
    Conns <- MCConns
    Keys <- MCKeys
    Labels <- MCLabels
    Accounts <- MCWatch
    Prefs <- MCPrefs
    RawDocs <- MCRawDocs
    Requests <- MCBeside
    Beside <- MCBeside
    NoLabel = NoLabel
    Absent = Absent
    NoPrefs = NoPrefs
    Scalar = Scalar
    NoConn = NoConn
    NoFile = NoFile
    Empty = Empty
    Torn = Torn
    NoRequest = NoRequest
    NoDoc = NoDoc
    MaxYear = 1
SPECIFICATION Spec
PROPERTIES
    StoredAsAnswered
