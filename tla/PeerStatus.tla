------------------------------ MODULE PeerStatus ------------------------------
(***************************************************************************)
(* What the peer book promises its users, without buckets or addresses:    *)
(* every peer is unknown, new or tried; a call moves one peer, and a peer  *)
(* that enters a list may push one other peer of that list out of the book.*)
(***************************************************************************)
EXTENDS Naturals

CONSTANT Ids

VARIABLE status

Statuses == {"unknown", "new", "tried"}

Init == status = [i \in Ids |-> "unknown"]

\* The moves a call makes: addPeer; upgradePeer; the demotion of downgradePeer;
\* removePeer, or downgradePeer of a new peer.
Moves == {<<"unknown", "new">>, <<"new", "tried">>, <<"tried", "new">>,
          <<"new", "unknown">>, <<"tried", "unknown">>}

Move(i, from, to) ==
    /\ status[i] = from
    /\ status' = [status EXCEPT ![i] = to]

\* i enters list "to", which evicts v from it.
MoveEvicting(i, v, from, to) ==
    /\ to \in {"new", "tried"}
    /\ v # i
    /\ status[i] = from
    /\ status[v] = to
    /\ status' = [status EXCEPT ![i] = to, ![v] = "unknown"]

Next ==
    \E i \in Ids : \E m \in Moves :
        \/ Move(i, m[1], m[2])
        \/ \E v \in Ids : MoveEvicting(i, v, m[1], m[2])

Spec == Init /\ [][Next]_status
=============================================================================
