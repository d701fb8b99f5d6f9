------------------------------ MODULE PeerLists ------------------------------
(***************************************************************************)
(* The two bucketed peer lists of lp2p (src/src/peer_book) and the         *)
(* operations the peer book performs on them, as operators over a value.   *)
(*                                                                         *)
(* A book is a record with the new list and the tried list.  A list maps   *)
(* every bucket to the entries it holds, keyed by peer id.  Eviction from  *)
(* a full bucket is random in the code, so the operations that may evict   *)
(* return the SET of books that may result.  Callers choose with \E.       *)
(***************************************************************************)
EXTENDS Naturals, FiniteSets

CONSTANTS
    Forms,            \* ways to write a peer's address (ipAddress and wsPort)
    Ids,              \* peer ids, "<normalized address>:<port>"
    IdOf,             \* the id of an address form        (utils.js)
    NewBuckets,       \* bucket ids of the new list
    TriedBuckets,     \* bucket ids of the tried list
    NewBucketOf,      \* getBucketId for PEER_TYPE.NEW_PEER: hash of the raw form
    TriedBucketOf,    \* getBucketId for PEER_TYPE.TRIED_PEER
    NewBucketSize,
    TriedBucketSize,
    MaxReconnectTries,
    Absent            \* an id with no entry in a bucket

ASSUME BookAssumption ==
    /\ IdOf \in [Forms -> Ids]
    /\ NewBucketOf \in [Forms -> NewBuckets]
    /\ TriedBucketOf \in [Forms -> TriedBuckets]
    /\ NewBucketSize \in Nat \ {0}
    /\ TriedBucketSize \in Nat \ {0}
    /\ MaxReconnectTries \in Nat \ {0}
    /\ IsFiniteSet(Ids)

(***************************************************************************)
(* "detailed" stands for the protocol fields of a peer info (version,      *)
(* height, ...): an info that came with a status, a handshake or a list    *)
(* has them, one that only names an address has not.                       *)
(***************************************************************************)
PeerInfo   == [addr : Forms, detailed : BOOLEAN]
NewEntry   == [peerInfo : PeerInfo, aged : BOOLEAN]
TriedEntry == [peerInfo : PeerInfo, failures : 0 .. MaxReconnectTries - 1]

ASSUME AbsentAssumption == Absent \notin NewEntry \cup TriedEntry \cup Ids

NewBucket   == [Ids -> NewEntry \cup {Absent}]
TriedBucket == [Ids -> TriedEntry \cup {Absent}]
Book        == [new : [NewBuckets -> NewBucket], tried : [TriedBuckets -> TriedBucket]]

EmptyBook == [new   |-> [b \in NewBuckets   |-> [i \in Ids |-> Absent]],
              tried |-> [b \in TriedBuckets |-> [i \in Ids |-> Absent]]]

\* Two forms of one peer fall in the same buckets.  Holds of the addresses the
\* node itself writes (normalized); the lists other nodes send are not normalized.
Canonical == \A f, g \in Forms : IdOf[f] = IdOf[g] =>
                /\ NewBucketOf[f] = NewBucketOf[g]
                /\ TriedBucketOf[f] = TriedBucketOf[g]

Occupants(bucket) == {i \in Ids : bucket[i] # Absent}

-----------------------------------------------------------------------------
\* Lookups (getPeer): the bucket is chosen by the raw form, the key is the id.

NewSlot(book, p)   == book.new[NewBucketOf[p.addr]][IdOf[p.addr]]
TriedSlot(book, p) == book.tried[TriedBucketOf[p.addr]][IdOf[p.addr]]
InNew(book, p)     == NewSlot(book, p) # Absent
InTried(book, p)   == TriedSlot(book, p) # Absent
Known(book, p)     == InTried(book, p) \/ InNew(book, p)

SetNew(book, p, e) ==
    [book EXCEPT !.new[NewBucketOf[p.addr]][IdOf[p.addr]] = e]
SetTried(book, p, e) ==
    [book EXCEPT !.tried[TriedBucketOf[p.addr]][IdOf[p.addr]] = e]

\* { ...foundPeer.peerInfo, ...peerInfo }: the caller's form, no field lost.
Merge(old, p) == [addr |-> p.addr, detailed |-> old.detailed \/ p.detailed]

-----------------------------------------------------------------------------
\* Insertion with eviction.

\* Mutant: the newcomer is stored under the key of the peer it replaces.
MutantPlace(bucket, victim, i, e) == [bucket EXCEPT ![victim] = e]

Place(bucket, victim, i, e) == [bucket EXCEPT ![victim] = Absent, ![i] = e]

\* Mutant: the threshold time is ignored.
MutantNewVictims(bucket) == Occupants(bucket)

\* A full new bucket loses a peer that has been in it for the threshold time,
\* any peer when none has; a full tried bucket loses any peer.
NewVictims(bucket) ==
    LET aged == {i \in Occupants(bucket) : bucket[i].aged}
    IN  IF aged # {} THEN aged ELSE Occupants(bucket)
TriedVictims(bucket) == Occupants(bucket)

\* Mutant: a bucket takes one peer more than its size.
MutantNewListAdd(book, p) ==
    LET b == book.new[NewBucketOf[p.addr]]
        e == [peerInfo |-> p, aged |-> FALSE]
    IN  IF InNew(book, p) THEN {book}
        ELSE IF Cardinality(Occupants(b)) <= NewBucketSize THEN {SetNew(book, p, e)}
        ELSE {[book EXCEPT !.new[NewBucketOf[p.addr]] = Place(b, v, IdOf[p.addr], e)]
                : v \in NewVictims(b)}

NewListAdd(book, p) ==
    LET b == book.new[NewBucketOf[p.addr]]
        e == [peerInfo |-> p, aged |-> FALSE]
    IN  IF InNew(book, p) THEN {book}
        ELSE IF Cardinality(Occupants(b)) < NewBucketSize THEN {SetNew(book, p, e)}
        ELSE {[book EXCEPT !.new[NewBucketOf[p.addr]] = Place(b, v, IdOf[p.addr], e)]
                : v \in NewVictims(b)}

TriedListAdd(book, p) ==
    LET b == book.tried[TriedBucketOf[p.addr]]
        e == [peerInfo |-> p, failures |-> 0]
    IN  IF InTried(book, p) THEN {book}
        ELSE IF Cardinality(Occupants(b)) < TriedBucketSize THEN {SetTried(book, p, e)}
        ELSE {[book EXCEPT !.tried[TriedBucketOf[p.addr]] = Place(b, v, IdOf[p.addr], e)]
                : v \in TriedVictims(b)}

-----------------------------------------------------------------------------
\* The peer book's operations.

\* Mutant: the tried list is not asked.
MutantAddPeer(book, p) == NewListAdd(book, p)

AddPeer(book, p) == IF Known(book, p) THEN {book} ELSE NewListAdd(book, p)

UpdatePeer(book, p) ==
    IF InTried(book, p) THEN
        SetTried(book, p, [TriedSlot(book, p) EXCEPT !.peerInfo = Merge(@, p)])
    ELSE IF InNew(book, p) THEN
        SetNew(book, p, [NewSlot(book, p) EXCEPT !.peerInfo = Merge(@, p)])
    ELSE book

RemovePeer(book, p) ==
    IF InTried(book, p) THEN SetTried(book, p, Absent)
    ELSE IF InNew(book, p) THEN SetNew(book, p, Absent)
    ELSE book

\* Mutant: a peer the new list does not know is upgraded too.
MutantUpgradePeer(book, p) ==
    IF InTried(book, p) THEN {book} ELSE TriedListAdd(SetNew(book, p, Absent), p)

UpgradePeer(book, p) ==
    IF InTried(book, p) \/ ~InNew(book, p) THEN {book}
    ELSE TriedListAdd(SetNew(book, p, Absent), p)

\* Mutants: the peer is dropped one failure early, or one late.
MutantFailEarly(book, p) ==
    IF TriedSlot(book, p).failures + 2 >= MaxReconnectTries
    THEN AddPeer(SetTried(book, p, Absent), p)
    ELSE {SetTried(book, p, [TriedSlot(book, p) EXCEPT !.failures = @ + 1])}
MutantFailLate(book, p) ==
    IF TriedSlot(book, p).failures >= MaxReconnectTries
    THEN AddPeer(SetTried(book, p, Absent), p)
    ELSE {SetTried(book, p, [TriedSlot(book, p) EXCEPT !.failures = @ + 1])}

\* TriedList.failedConnectionAction, then addPeer when the peer was dropped.
FailTried(book, p) ==
    IF TriedSlot(book, p).failures + 1 >= MaxReconnectTries
    THEN AddPeer(SetTried(book, p, Absent), p)
    ELSE {SetTried(book, p, [TriedSlot(book, p) EXCEPT !.failures = @ + 1])}

DowngradePeer(book, p) ==
    IF InNew(book, p) THEN {SetNew(book, p, Absent)}
    ELSE IF InTried(book, p) THEN FailTried(book, p)
    ELSE {book}

\* What getAllPeers returns: the infos of both lists.
Listed(list)   == {x \in (DOMAIN list) \X Ids : list[x[1]][x[2]] # Absent}
AllPeers(book) == {book.new[x[1]][x[2]].peerInfo : x \in Listed(book.new)}
                  \cup {book.tried[x[1]][x[2]].peerInfo : x \in Listed(book.tried)}

-----------------------------------------------------------------------------
\* What makes a book value sound.

\* No bucket holds more entries than its list allows.
Bounded(bk) ==
    /\ \A b \in NewBuckets   : Cardinality(Occupants(bk.new[b])) <= NewBucketSize
    /\ \A b \in TriedBuckets : Cardinality(Occupants(bk.tried[b])) <= TriedBucketSize

\* Every entry lies in the bucket and under the id its own address selects.
Filed(bk) ==
    /\ \A b \in NewBuckets, i \in Ids : bk.new[b][i] # Absent =>
         /\ NewBucketOf[bk.new[b][i].peerInfo.addr] = b
         /\ IdOf[bk.new[b][i].peerInfo.addr] = i
    /\ \A b \in TriedBuckets, i \in Ids : bk.tried[b][i] # Absent =>
         /\ TriedBucketOf[bk.tried[b][i].peerInfo.addr] = b
         /\ IdOf[bk.tried[b][i].peerInfo.addr] = i

\* A peer has no entry in both lists.
Disjoint(bk) ==
    \A b \in NewBuckets, c \in TriedBuckets, i \in Ids :
        bk.new[b][i] = Absent \/ bk.tried[c][i] = Absent

\* A peer has no two entries in one list.
Single(bk) ==
    /\ \A b, c \in NewBuckets, i \in Ids :
         bk.new[b][i] # Absent /\ bk.new[c][i] # Absent => b = c
    /\ \A b, c \in TriedBuckets, i \in Ids :
         bk.tried[b][i] # Absent /\ bk.tried[c][i] # Absent => b = c
=============================================================================
