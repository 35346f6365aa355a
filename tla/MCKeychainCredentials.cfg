\* Keychain items and their index: 2 connections.
CONSTANTS
    c1 = c1
    c2 = c2
    Conns <- MCConns
    Places = {"legacy_file", "legacy_item"}
    Requests <- MCRequests
    NoRecord = NoRecord
    NoRequest = NoRequest
SPECIFICATION Spec
SYMMETRY MCSymmetry
INVARIANTS
    BiometryWasVerified
    ItemComesBack
