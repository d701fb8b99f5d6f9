------------------------------- MODULE PeerBook -------------------------------
(***************************************************************************)
(* The peer book as a state machine: any sequence of calls of the public   *)
(* operations of PeerBook (src/src/peer_book/peer_book.js), with any peer  *)
(* info, while time passes.                                                *)
(***************************************************************************)
EXTENDS PeerLists

VARIABLES
    book,       \* the two lists
    reported    \* history: failed connections reported for a peer since it
                \* last entered the tried list

vars == <<book, reported>>

InTriedList(bk, i) == \E b \in TriedBuckets : bk.tried[b][i] # Absent
InNewList(bk, i)   == \E b \in NewBuckets   : bk.new[b][i] # Absent

\* The history after a call that was (failed = the peer's id) or was not
\* (failed = Absent) a failure report.
Reported(failed) ==
    [i \in Ids |-> IF ~InTriedList(book', i) THEN 0
                   ELSE IF i = failed THEN reported[i] + 1
                   ELSE reported[i]]

Init ==
    /\ book = EmptyBook
    /\ reported = [i \in Ids |-> 0]

Add(p) ==
    /\ book' \in AddPeer(book, p)
    /\ reported' = Reported(Absent)

Update(p) ==
    /\ book' = UpdatePeer(book, p)
    /\ reported' = Reported(Absent)

Remove(p) ==
    /\ book' = RemovePeer(book, p)
    /\ reported' = Reported(Absent)

Upgrade(p) ==
    /\ book' \in UpgradePeer(book, p)
    /\ reported' = Reported(Absent)

Downgrade(p) ==
    /\ book' \in DowngradePeer(book, p)
    /\ reported' = Reported(IdOf[p.addr])

\* The eviction threshold passes for one entry of the new list (the wall clock
\* may be stepped, so the entries of a bucket need not age in insertion order).
Age(b, i) ==
    /\ book.new[b][i] # Absent
    /\ ~book.new[b][i].aged
    /\ book' = [book EXCEPT !.new[b][i].aged = TRUE]
    /\ UNCHANGED reported

Next ==
    \/ \E p \in PeerInfo : \/ Add(p)
                           \/ Update(p)
                           \/ Remove(p)
                           \/ Upgrade(p)
                           \/ Downgrade(p)
    \/ \E b \in NewBuckets, i \in Ids : Age(b, i)

Spec == Init /\ [][Next]_vars

-----------------------------------------------------------------------------
\* Every variable has its type.
TypeOK ==
    /\ book \in Book
    /\ reported \in [Ids -> Nat]

\* No bucket ever holds more peers than the configured size, whatever the calls
\* and whoever is evicted (peer_list.js addPeer; the unit test "should not allow
\* newPeer list to grow beyond 4096 peers").
BucketBounds == Bounded(book)

\* Every peer info the book hands out leads back to its own entry: it lies in the
\* bucket and under the key its own address selects.  The handlers of p2p.js
\* replace an info's address by the stored one before they call the book again,
\* so a stored info filed elsewhere could never be updated or removed.
Findable == Filed(book)

\* When addresses are normalized, a peer has at most one entry in the whole book:
\* never both new and tried, never twice in one list (getAllPeers would list it
\* twice and the populator would count it twice).
OnePerPeer == Canonical => Disjoint(book) /\ Single(book)

\* A tried peer is sent back to the new list only by the MaxReconnectTries-th
\* failed connection since it was last added to the tried list; no call made in
\* between (update, a repeated upgrade, another peer's eviction) adds to or takes
\* from the count.
DemotionEarned ==
    [][\A i \in Ids :
         InTriedList(book, i) /\ InNewList(book', i) /\ ~InTriedList(book', i)
            => reported[i] + 1 = MaxReconnectTries]_vars

\* A peer pushed out of a full new bucket had outstayed the threshold time, or
\* nobody in that bucket had; and only a full bucket pushes anyone out.
StaleFirst ==
    [][\A b \in NewBuckets : LET old == book.new[b] new == book'.new[b] IN
         Occupants(new) \ Occupants(old) # {} =>
            \A v \in Occupants(old) \ Occupants(new) :
                /\ Cardinality(Occupants(old)) = NewBucketSize
                /\ old[v].aged \/ \A i \in Occupants(old) : ~old[i].aged]_vars

\* The book implements the abstract three-status life of a peer.
StatusIn(bk) == [i \in Ids |-> IF InTriedList(bk, i) THEN "tried"
                               ELSE IF InNewList(bk, i) THEN "new" ELSE "unknown"]
Status == StatusIn(book)

Abstract == INSTANCE PeerStatus WITH status <- Status

\* Every call moves one peer along a legal edge and loses at most one other peer,
\* of the list the first one enters.
ImplementsStatus == Abstract!Spec
=============================================================================
