SPECIFICATION Spec
CONSTANTS
    s1 = s1
    s2 = s2
    peerA = peerA
    peerB = peerB
    Starts = {1, 2}
    Peers = {peerA}
    Sockets = {s1, s2}
    PeerOf <- TwoPeers
INVARIANTS DuplicatesAreReal
CHECK_DEADLOCK FALSE
