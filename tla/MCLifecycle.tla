----------------------------- MODULE MCLifecycle -----------------------------
(***************************************************************************)
(* Three calls of start(); a peer to dial; two sockets, which one peer     *)
(* made or two.                                                            *)
(***************************************************************************)
EXTENDS Lifecycle

CONSTANTS s1, s2, peerA, peerB

SamePeer == [x \in {s1, s2} |-> peerA]
TwoPeers == [x \in {s1, s2} |-> IF x = s1 THEN peerA ELSE peerB]
=============================================================================
