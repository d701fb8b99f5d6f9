SPECIFICATION Spec
CONSTANTS
    s1 = s1
    s2 = s2
    peerA = peerA
    peerB = peerB
    Starts = {1, 2, 3}
    Peers = {peerA}
    Sockets = {s1}
    PeerOf <- SamePeer
INVARIANTS TypeOK Quiet
PROPERTIES FirstStartDials
CHECK_DEADLOCK FALSE
