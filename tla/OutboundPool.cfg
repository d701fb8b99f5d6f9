SPECIFICATION Spec
CONSTANTS
    f = f
    w = w
    a = a
    Absent = Absent
    NoPeer = NoPeer
    Ids <- MCIds
    Forms <- MCForms
    IdOf <- MCIdOf
    AddrOf <- MCAddrOf
    HostOf <- MCAddrOf
    NewBuckets <- MCBuckets
    TriedBuckets <- MCBuckets
    NewBucketOf <- MCBucketOf
    TriedBucketOf <- MCBucketOf
    NewBucketSize = 1
    TriedBucketSize = 1
    MaxReconnectTries = 2
    Seeds = {a}
    Previous = {}
    Whitelisted = {w}
    Fixed = {f}
    MaxOutbound = 1
    MaxLoose = 1
INVARIANTS TypeOK OutboundLimit NoZombie
PROPERTIES WhitelistedKept FixedStays RemovalCloses ClosedLeaves FixedRedialled
