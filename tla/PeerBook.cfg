SPECIFICATION Spec
CONSTANTS
    p1 = p1
    p2 = p2
    p3 = p3
    Absent = Absent
    V4Hosts <- MCV4Hosts
    V6Hosts <- MCV6Hosts
    LocalHosts = {}
    PrivateHosts = {p3}
    FirstByte <- MCFirstByte
    Names = {}
    Forms <- MCForms
    Ids <- MCIds
    IdOf <- MCIdOf
    NewBuckets <- MCNewBuckets
    TriedBuckets <- MCTriedBuckets
    NewBucketOf <- MCNewBucketOf
    TriedBucketOf <- MCTriedBucketOf
    NewBucketSize = 2
    TriedBucketSize = 1
    MaxReconnectTries = 3
INVARIANTS TypeOK BucketBounds Findable OnePerPeer
PROPERTIES DemotionEarned StaleFirst ImplementsStatus
