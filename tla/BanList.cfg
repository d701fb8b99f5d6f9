SPECIFICATION Spec
CONSTANTS
    p1 = p1
    p2 = p2
    h = h
    Gone = Gone
    Idle = Idle
    Ids = {p1, p2}
    Hosts = {h}
    HostOf <- MCHostOf
    Reputation = 2
    Penalties = {1, 2}
    BanTime = 2
    TimerIds = {1, 2}
INVARIANTS TypeOK BanHasTimer
PROPERTIES Unbanned
