SPECIFICATION Spec
CONSTANTS
    node = node
    trusty = trusty
    ann = ann
    bob = bob
    pat = pat
    Absent = Absent
    NoSocket = NoSocket
    Ids <- MCIds
    Forms <- MCForms
    IdOf <- MCIdOf
    AddrOf <- MCAddrOf
    NewBuckets <- MCBuckets
    TriedBuckets <- MCBuckets
    NewBucketOf <- MCBucketOf
    TriedBucketOf <- MCBucketOf
    NewBucketSize = 1
    TriedBucketSize = 1
    MaxReconnectTries = 3
    Self = node
    Passive = {pat}
    Whitelisted = {trusty}
    MaxInbound = 2
    Latency = 68
    Usefulness = 68
    Longevity = 500
    MaxQueue = 1
PROPERTIES ClosedLeaves SelfForgotten
