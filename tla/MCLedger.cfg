\* Four requests on two threads; nearxd crashes, or the device changes, twice in all.
CONSTANTS
    d1 = d1
    d2 = d2
    p1 = p1
    p2 = p2
    short = short
    long = long
    alice = alice
    Threads = {t1, t2}
    Seeds = {d1, d2}
    Paths = {p1, p2}
    Txs = {short, long}
    KeyOf <- MCKeyOf
    Accounts <- MCAccounts
    OnChain <- MCOnChain
    Size <- MCSize
    Exclusive = TRUE
    MaxRequests = 4
    MaxEvents = 2
SPECIFICATION Spec
INVARIANTS PayloadWellFormed RecordIsOwned SignatureVerifies
CHECK_DEADLOCK FALSE
