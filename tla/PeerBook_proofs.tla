---------------------------- MODULE PeerBook_proofs ----------------------------
(***************************************************************************)
(* The peer book's invariants, its eviction order, its demotions and its   *)
(* refinement of PeerStatus, for every set of peers and addresses and      *)
(* every size and number of buckets.                                       *)
(***************************************************************************)
EXTENDS PeerBook, Addresses, PeerLists_proofs

\* The inductive invariant.
BookInv ==
    /\ Sound(book)
    /\ reported \in [Ids -> Nat]

-----------------------------------------------------------------------------
\* Ageing an entry changes nothing but its age.
LEMMA AgeWrites ==
    ASSUME book \in Book, NEW b \in NewBuckets, NEW i \in Ids, Age(b, i)
    PROVE  /\ book' \in Book
           /\ book'.tried = book.tried
           /\ \A c \in NewBuckets, j \in Ids :
                /\ book'.new[c][j] = Absent <=> book.new[c][j] = Absent
                /\ book.new[c][j] # Absent => book'.new[c][j].peerInfo = book.new[c][j].peerInfo
<1> DEFINE e == [book.new[b][i] EXCEPT !.aged = TRUE]
<1>1. book.new \in [NewBuckets -> NewBucket] /\ book.tried \in [TriedBuckets -> TriedBucket]
  BY DEF Book
<1>2. book.new[b][i] \in NewEntry
  BY <1>1 DEF Age, NewBucket
<1>3. e \in NewEntry /\ e # Absent /\ e.peerInfo = book.new[b][i].peerInfo
  BY <1>2, AbsentAssumption DEF NewEntry, AbsentAssumption
<1>4. book' = [new |-> [book.new EXCEPT ![b][i] = e], tried |-> book.tried]
  BY DEF Age, Book
<1> HIDE DEF e
<1>5. [book.new EXCEPT ![b][i] = e] \in [NewBuckets -> NewBucket]
  BY <1>1, <1>3 DEF NewBucket
<1>6. \A c \in NewBuckets, j \in Ids :
        book'.new[c][j] = IF c = b /\ j = i THEN e ELSE book.new[c][j]
  BY <1>1, <1>4 DEF NewBucket
<1>7. book' \in Book /\ book'.tried = book.tried
  BY <1>1, <1>4, <1>5 DEF Book
<1>8. QED
  BY ZenonT(30), <1>3, <1>6, <1>7 DEF Age

\* An entry of the new list passing the threshold time keeps the book sound.
LEMMA AgeSound ==
    ASSUME Sound(book), NEW b \in NewBuckets, NEW i \in Ids, Age(b, i)
    PROVE  Sound(book')
<1>1. book \in Book
  BY DEF Sound
<1>2. Filed(book') /\ (Canonical => Disjoint(book'))
  BY <1>1, AgeWrites DEF Sound, Filed, Disjoint
<1>3. \A c \in NewBuckets : Occupants(book'.new[c]) = Occupants(book.new[c])
  BY <1>1, AgeWrites DEF Occupants
<1>4. Bounded(book')
  <2>1. \A c \in TriedBuckets : Occupants(book'.tried[c]) = Occupants(book.tried[c])
    BY <1>1, AgeWrites
  <2>2. QED
    BY <1>3, <2>1 DEF Sound, Bounded
<1>5. QED
  BY <1>1, <1>2, <1>4, AgeWrites DEF Sound

\* Every step keeps the book sound and the history typed.
LEMMA SoundStep ==
    ASSUME Sound(book), reported \in [Ids -> Nat], [Next]_vars
    PROVE  Sound(book') /\ reported' \in [Ids -> Nat]
<1>1. ASSUME NEW p \in PeerInfo, Add(p)
      PROVE  Sound(book') /\ reported' \in [Ids -> Nat]
  BY <1>1, AddPeerSound DEF Add, Reported
<1>2. ASSUME NEW p \in PeerInfo, Update(p)
      PROVE  Sound(book') /\ reported' \in [Ids -> Nat]
  BY <1>2, UpdatePeerSound DEF Update, Reported
<1>3. ASSUME NEW p \in PeerInfo, Remove(p)
      PROVE  Sound(book') /\ reported' \in [Ids -> Nat]
  BY <1>3, RemovePeerSound DEF Remove, Reported
<1>4. ASSUME NEW p \in PeerInfo, Upgrade(p)
      PROVE  Sound(book') /\ reported' \in [Ids -> Nat]
  BY <1>4, UpgradePeerSound DEF Upgrade, Reported
<1>5. ASSUME NEW p \in PeerInfo, Downgrade(p)
      PROVE  Sound(book') /\ reported' \in [Ids -> Nat]
  BY <1>5, DowngradePeerSound DEF Downgrade, Reported
<1>6. ASSUME NEW b \in NewBuckets, NEW i \in Ids, Age(b, i)
      PROVE  Sound(book') /\ reported' \in [Ids -> Nat]
  BY <1>6, AgeSound DEF Age
<1>7. CASE UNCHANGED vars
  BY <1>7 DEF vars
<1>8. QED
  BY <1>1, <1>2, <1>3, <1>4, <1>5, <1>6, <1>7 DEF Next

\* The book is sound in every reachable state.
THEOREM BookSound == Spec => []BookInv
<1>1. Init => BookInv
  BY EmptyBookSound DEF Init, BookInv
<1>2. BookInv /\ [Next]_vars => BookInv'
  BY SoundStep DEF BookInv
<1>3. QED
  BY <1>1, <1>2, PTL DEF Spec

\* Every variable keeps its type.
THEOREM BookTypeCorrect == Spec => []TypeOK
<1>1. BookInv => TypeOK
  BY DEF BookInv, Sound, TypeOK
<1>2. QED
  BY <1>1, BookSound, PTL

\* No bucket ever exceeds its size, whoever is added, upgraded or demoted.
THEOREM BookBounded == Spec => []BucketBounds
<1>1. BookInv => BucketBounds
  BY DEF BookInv, Sound, BucketBounds
<1>2. QED
  BY <1>1, BookSound, PTL

\* A stored info always leads back to its own entry, with or without normalized
\* addresses.
THEOREM BookFindable == Spec => []Findable
<1>1. BookInv => Findable
  BY DEF BookInv, Sound, Findable
<1>2. QED
  BY <1>1, BookSound, PTL

\* With normalized addresses a peer has at most one entry in the book.
THEOREM BookOnePerPeer == Spec => []OnePerPeer
<1>1. BookInv => OnePerPeer
  BY FiledIsSingle DEF BookInv, Sound, OnePerPeer
<1>2. QED
  BY <1>1, BookSound, PTL

-----------------------------------------------------------------------------
(***************************************************************************)
(* The refinement.  With normalized addresses, a write moves one peer in   *)
(* or out of a list and takes at most one victim, so each call is a move   *)
(* of PeerStatus (or two writes that make one move).                       *)
(***************************************************************************)

\* v is p itself or an occupant of the bucket p is written to.
NewVictim(bk, p, v)   == v = IdOf[p.addr] \/ v \in Occupants(bk.new[NewBucketOf[p.addr]])
TriedVictim(bk, p, v) == v = IdOf[p.addr] \/ v \in Occupants(bk.tried[TriedBucketOf[p.addr]])

\* The lists seen as sets of peers, after a write that fills p's slot.
LEMMA NewWriteView ==
    ASSUME NEW bk, Sound(bk), Canonical, NEW nb, NEW p \in PeerInfo, NEW e, NEW v \in Ids,
           NewWrite(bk, nb, p, e, v),
           NewVictim(bk, p, v),
           NEW j \in Ids
    PROVE  /\ InTriedList(nb, j) <=> InTriedList(bk, j)
           /\ InNewList(nb, j) <=> IF j = IdOf[p.addr] THEN e # Absent
                                   ELSE j # v /\ InNewList(bk, j)
<1> DEFINE B == NewBucketOf[p.addr]
           I == IdOf[p.addr]
<1>1. bk \in Book /\ Filed(bk) /\ Single(bk) /\ B \in NewBuckets /\ I \in Ids
  BY FiledIsSingle, AddressTypes DEF Sound
<1>2. InTriedList(nb, j) <=> InTriedList(bk, j)
  BY DEF NewWrite, InTriedList
<1>3. CASE j = I
  <2>1. \A b \in NewBuckets : b # B => bk.new[b][I] = Absent
    <3>1. CASE bk.new[B][I] # Absent
      BY <1>1, <3>1 DEF Single
    <3>2. CASE bk.new[B][I] = Absent
      BY <1>1, <3>2, LookupIsComplete DEF InNew, NewSlot
    <3>3. QED
      BY <3>1, <3>2
  <2>2. QED
    BY <1>1, <1>2, <1>3, <2>1 DEF NewWrite, InNewList
<1>4. CASE j # I /\ j = v
  <2>1. bk.new[B][j] # Absent
    BY <1>4 DEF Occupants, NewVictim
  <2>2. \A b \in NewBuckets : b # B => bk.new[b][j] = Absent
    BY <1>1, <2>1 DEF Single
  <2>3. QED
    BY <1>1, <1>2, <1>4, <2>2 DEF NewWrite, InNewList
<1>5. CASE j # I /\ j # v
  <2>1. \A b \in NewBuckets : nb.new[b][j] = bk.new[b][j]
    BY <1>5 DEF NewWrite
  <2>2. QED
    BY <1>2, <1>5, <2>1 DEF InNewList
<1>6. QED
  BY <1>3, <1>4, <1>5

\* What a write of the tried list does to the statuses of the peers.
LEMMA TriedWriteView ==
    ASSUME NEW bk, Sound(bk), Canonical, NEW nb, NEW p \in PeerInfo, NEW e, NEW v \in Ids,
           TriedWrite(bk, nb, p, e, v),
           TriedVictim(bk, p, v),
           NEW j \in Ids
    PROVE  /\ InNewList(nb, j) <=> InNewList(bk, j)
           /\ InTriedList(nb, j) <=> IF j = IdOf[p.addr] THEN e # Absent
                                     ELSE j # v /\ InTriedList(bk, j)
<1> DEFINE B == TriedBucketOf[p.addr]
           I == IdOf[p.addr]
<1>1. bk \in Book /\ Filed(bk) /\ Single(bk) /\ B \in TriedBuckets /\ I \in Ids
  BY FiledIsSingle, AddressTypes DEF Sound
<1>2. InNewList(nb, j) <=> InNewList(bk, j)
  BY DEF TriedWrite, InNewList
<1>3. CASE j = I
  <2>1. \A b \in TriedBuckets : b # B => bk.tried[b][I] = Absent
    <3>1. CASE bk.tried[B][I] # Absent
      BY <1>1, <3>1 DEF Single
    <3>2. CASE bk.tried[B][I] = Absent
      BY <1>1, <3>2, LookupIsComplete DEF InTried, TriedSlot
    <3>3. QED
      BY <3>1, <3>2
  <2>2. QED
    BY <1>1, <1>2, <1>3, <2>1 DEF TriedWrite, InTriedList
<1>4. CASE j # I /\ j = v
  <2>1. bk.tried[B][j] # Absent
    BY <1>4 DEF Occupants, TriedVictim
  <2>2. \A b \in TriedBuckets : b # B => bk.tried[b][j] = Absent
    BY <1>1, <2>1 DEF Single
  <2>3. QED
    BY <1>1, <1>2, <1>4, <2>2 DEF TriedWrite, InTriedList
<1>5. CASE j # I /\ j # v
  <2>1. \A b \in TriedBuckets : nb.tried[b][j] = bk.tried[b][j]
    BY <1>5 DEF TriedWrite
  <2>2. QED
    BY <1>2, <1>5, <2>1 DEF InTriedList
<1>6. QED
  BY <1>3, <1>4, <1>5

\* With normalized addresses a lookup says whether a peer is in a list.
LEMMA LookupView ==
    ASSUME NEW bk, Sound(bk), Canonical, NEW p \in PeerInfo
    PROVE  /\ InNew(bk, p)   <=> InNewList(bk, IdOf[p.addr])
           /\ InTried(bk, p) <=> InTriedList(bk, IdOf[p.addr])
           /\ \A j \in Ids : ~(InNewList(bk, j) /\ InTriedList(bk, j))
BY LookupIsComplete, AddressTypes
DEF Sound, InNew, InTried, NewSlot, TriedSlot, InNewList, InTriedList, Disjoint

\* What addPeer does to the lists: nothing, or p enters the new list, which may
\* lose one other peer.
LEMMA AddPeerView ==
    ASSUME NEW bk, Sound(bk), Canonical, NEW p \in PeerInfo, NEW nb \in AddPeer(bk, p)
    PROVE  \/ nb = bk
           \/ /\ ~InNewList(bk, IdOf[p.addr]) /\ ~InTriedList(bk, IdOf[p.addr])
              /\ \E v \in Ids :
                   /\ v # IdOf[p.addr] => InNewList(bk, v)
                   /\ \A j \in Ids :
                        /\ InTriedList(nb, j) <=> InTriedList(bk, j)
                        /\ InNewList(nb, j) <=> \/ j = IdOf[p.addr]
                                                \/ j # v /\ InNewList(bk, j)
<1> DEFINE e == [peerInfo |-> p, aged |-> FALSE]
<1>1. CASE Known(bk, p)
  BY <1>1 DEF AddPeer
<1>2. CASE ~Known(bk, p)
  <2>1. /\ nb \in NewListAdd(bk, p) /\ bk \in Book /\ ~InNew(bk, p) /\ ~InTried(bk, p)
        /\ NewBucketOf[p.addr] \in NewBuckets
    BY <1>2, AddressTypes DEF AddPeer, Known, Sound
  <2>2. PICK v \in Ids :
          /\ NewWrite(bk, nb, p, e, v)
          /\ NewVictim(bk, p, v)
    BY <2>1, NewListAddWrites DEF NewVictim
  <2>3. e # Absent
    <3>1. e \in NewEntry
      BY DEF NewEntry
    <3>2. QED
      BY <3>1, AbsentAssumption DEF AbsentAssumption
  <2> HIDE DEF e
  <2>4. \A j \in Ids :
          /\ InTriedList(nb, j) <=> InTriedList(bk, j)
          /\ InNewList(nb, j) <=> IF j = IdOf[p.addr] THEN e # Absent
                                  ELSE j # v /\ InNewList(bk, j)
    BY <2>2, NewWriteView
  <2>5. v # IdOf[p.addr] => InNewList(bk, v)
    BY <2>1, <2>2 DEF Occupants, InNewList, NewVictim
  <2>6. ~InNewList(bk, IdOf[p.addr]) /\ ~InTriedList(bk, IdOf[p.addr])
    BY <2>1, LookupView
  <2>7. QED
    BY <2>3, <2>4, <2>5, <2>6
<1>3. QED
  BY <1>1, <1>2

\* What dropping a peer from a list does to the lists.
LEMMA DropView ==
    ASSUME NEW bk, Sound(bk), Canonical, NEW p \in PeerInfo, NEW j \in Ids
    PROVE  /\ InTriedList(SetNew(bk, p, Absent), j) <=> InTriedList(bk, j)
           /\ InNewList(SetNew(bk, p, Absent), j) <=> j # IdOf[p.addr] /\ InNewList(bk, j)
           /\ InNewList(SetTried(bk, p, Absent), j) <=> InNewList(bk, j)
           /\ InTriedList(SetTried(bk, p, Absent), j) <=> j # IdOf[p.addr] /\ InTriedList(bk, j)
<1>1. bk \in Book /\ IdOf[p.addr] \in Ids
  BY AddressTypes DEF Sound
<1>2. NewWrite(bk, SetNew(bk, p, Absent), p, Absent, IdOf[p.addr])
  BY <1>1, SetNewWrites
<1>3. TriedWrite(bk, SetTried(bk, p, Absent), p, Absent, IdOf[p.addr])
  BY <1>1, SetTriedWrites
<1>4. NewVictim(bk, p, IdOf[p.addr]) /\ TriedVictim(bk, p, IdOf[p.addr])
  BY DEF NewVictim, TriedVictim
<1>5. /\ InTriedList(SetNew(bk, p, Absent), j) <=> InTriedList(bk, j)
      /\ InNewList(SetNew(bk, p, Absent), j) <=> IF j = IdOf[p.addr] THEN Absent # Absent
                                                 ELSE j # IdOf[p.addr] /\ InNewList(bk, j)
  BY <1>1, <1>2, <1>4, NewWriteView
<1>6. /\ InNewList(SetTried(bk, p, Absent), j) <=> InNewList(bk, j)
      /\ InTriedList(SetTried(bk, p, Absent), j) <=>
           IF j = IdOf[p.addr] THEN Absent # Absent
           ELSE j # IdOf[p.addr] /\ InTriedList(bk, j)
  BY <1>1, <1>3, <1>4, TriedWriteView
<1>7. QED
  BY <1>5, <1>6

\* What upgradePeer does to the lists: nothing, or p leaves the new list for the
\* tried list, which may lose one other peer.
LEMMA UpgradePeerView ==
    ASSUME NEW bk, Sound(bk), Canonical, NEW p \in PeerInfo, NEW nb \in UpgradePeer(bk, p)
    PROVE  \/ nb = bk
           \/ /\ InNewList(bk, IdOf[p.addr]) /\ ~InTriedList(bk, IdOf[p.addr])
              /\ \E v \in Ids :
                   /\ v # IdOf[p.addr] => InTriedList(bk, v)
                   /\ \A j \in Ids :
                        /\ InNewList(nb, j) <=> j # IdOf[p.addr] /\ InNewList(bk, j)
                        /\ InTriedList(nb, j) <=> \/ j = IdOf[p.addr]
                                                  \/ j # v /\ InTriedList(bk, j)
<1> DEFINE mid == SetNew(bk, p, Absent)
           e == [peerInfo |-> p, failures |-> 0]
<1>1. CASE InTried(bk, p) \/ ~InNew(bk, p)
  BY <1>1 DEF UpgradePeer
<1>2. CASE ~InTried(bk, p) /\ InNew(bk, p)
  <2>1. Sound(mid) /\ mid \in Book /\ IdOf[p.addr] \in Ids
        /\ TriedBucketOf[p.addr] \in TriedBuckets
    BY DropSound, AddressTypes DEF Sound
  <2>2. \A j \in Ids : /\ InTriedList(mid, j) <=> InTriedList(bk, j)
                       /\ InNewList(mid, j) <=> j # IdOf[p.addr] /\ InNewList(bk, j)
    BY DropView
  <2>3. InNewList(bk, IdOf[p.addr]) /\ ~InTriedList(bk, IdOf[p.addr])
    BY <1>2, LookupView
  <2>4. nb \in TriedListAdd(mid, p)
    BY <1>2 DEF UpgradePeer
  <2> HIDE DEF mid
  <2>5. ~InTried(mid, p)
    BY <2>1, <2>2, <2>3, LookupView
  <2>6. PICK v \in Ids :
          /\ TriedWrite(mid, nb, p, e, v)
          /\ TriedVictim(mid, p, v)
    BY <2>1, <2>4, <2>5, TriedListAddWrites DEF TriedVictim
  <2>7. e # Absent
    <3>1. e \in TriedEntry
      BY BookAssumption DEF BookAssumption, TriedEntry
    <3>2. QED
      BY <3>1, AbsentAssumption DEF AbsentAssumption
  <2> HIDE DEF e
  <2>8. \A j \in Ids :
          /\ InNewList(nb, j) <=> InNewList(mid, j)
          /\ InTriedList(nb, j) <=> IF j = IdOf[p.addr] THEN e # Absent
                                    ELSE j # v /\ InTriedList(mid, j)
    BY <2>1, <2>6, TriedWriteView
  <2>9. v # IdOf[p.addr] => InTriedList(mid, v)
    BY <2>1, <2>6 DEF Occupants, InTriedList, TriedVictim
  <2>10. QED
    BY <2>2, <2>3, <2>7, <2>8, <2>9
<1>3. QED
  BY <1>1, <1>2

\* What updatePeer and a counted failure do to the lists: nothing.
LEMMA RewriteView ==
    ASSUME NEW bk, Sound(bk), Canonical, NEW p \in PeerInfo, NEW j \in Ids
    PROVE  /\ InNewList(UpdatePeer(bk, p), j) <=> InNewList(bk, j)
           /\ InTriedList(UpdatePeer(bk, p), j) <=> InTriedList(bk, j)
<1>1. bk \in Book /\ IdOf[p.addr] \in Ids
  BY AddressTypes DEF Sound
<1>2. CASE InTried(bk, p)
  <2> DEFINE e == [TriedSlot(bk, p) EXCEPT !.peerInfo = Merge(@, p)]
  <2>1. e \in TriedEntry
    BY <1>1, <1>2, EntryTypes DEF TriedEntry, PeerInfo, Merge
  <2>2. e # Absent
    BY <2>1, AbsentAssumption DEF AbsentAssumption
  <2>3. UpdatePeer(bk, p) = SetTried(bk, p, e)
    BY <1>2 DEF UpdatePeer
  <2> HIDE DEF e
  <2>4. TriedWrite(bk, UpdatePeer(bk, p), p, e, IdOf[p.addr])
    BY <1>1, <2>1, <2>3, SetTriedWrites
  <2>5. /\ InNewList(UpdatePeer(bk, p), j) <=> InNewList(bk, j)
        /\ InTriedList(UpdatePeer(bk, p), j) <=> IF j = IdOf[p.addr] THEN e # Absent
                                                 ELSE j # IdOf[p.addr] /\ InTriedList(bk, j)
    BY <1>1, <2>4, TriedWriteView DEF TriedVictim
  <2>6. QED
    BY <1>2, <2>2, <2>5, LookupView
<1>3. CASE ~InTried(bk, p) /\ InNew(bk, p)
  <2> DEFINE e == [NewSlot(bk, p) EXCEPT !.peerInfo = Merge(@, p)]
  <2>1. e \in NewEntry
    BY <1>1, <1>3, EntryTypes DEF NewEntry, PeerInfo, Merge
  <2>2. e # Absent
    BY <2>1, AbsentAssumption DEF AbsentAssumption
  <2>3. UpdatePeer(bk, p) = SetNew(bk, p, e)
    BY <1>3 DEF UpdatePeer
  <2> HIDE DEF e
  <2>4. NewWrite(bk, UpdatePeer(bk, p), p, e, IdOf[p.addr])
    BY <1>1, <2>1, <2>3, SetNewWrites
  <2>5. /\ InTriedList(UpdatePeer(bk, p), j) <=> InTriedList(bk, j)
        /\ InNewList(UpdatePeer(bk, p), j) <=> IF j = IdOf[p.addr] THEN e # Absent
                                               ELSE j # IdOf[p.addr] /\ InNewList(bk, j)
    BY SMTT(30), <1>1, <2>4, NewWriteView DEF NewVictim
  <2>6. QED
    BY <1>3, <2>2, <2>5, LookupView
<1>4. CASE ~InTried(bk, p) /\ ~InNew(bk, p)
  BY <1>4 DEF UpdatePeer
<1>5. QED
  BY <1>2, <1>3, <1>4

\* A counted failure that is not the last one changes no status.
LEMMA CountedFailureView ==
    ASSUME NEW bk, Sound(bk), Canonical, NEW p \in PeerInfo, InTried(bk, p),
           ~(TriedSlot(bk, p).failures + 1 >= MaxReconnectTries),
           NEW nb \in FailTried(bk, p), NEW j \in Ids
    PROVE  /\ InNewList(nb, j) <=> InNewList(bk, j)
           /\ InTriedList(nb, j) <=> InTriedList(bk, j)
<1> DEFINE e == [TriedSlot(bk, p) EXCEPT !.failures = @ + 1]
<1>1. bk \in Book /\ IdOf[p.addr] \in Ids
  BY AddressTypes DEF Sound
<1>2. e \in TriedEntry
  BY <1>1, EntryTypes, BookAssumption DEF TriedEntry, BookAssumption
<1>3. e # Absent
  BY <1>2, AbsentAssumption DEF AbsentAssumption
<1>4. nb = SetTried(bk, p, e)
  BY DEF FailTried
<1> HIDE DEF e
<1>5. TriedWrite(bk, nb, p, e, IdOf[p.addr])
  BY <1>1, <1>2, <1>4, SetTriedWrites
<1>6. /\ InNewList(nb, j) <=> InNewList(bk, j)
      /\ InTriedList(nb, j) <=> IF j = IdOf[p.addr] THEN e # Absent
                                ELSE j # IdOf[p.addr] /\ InTriedList(bk, j)
  BY SMTT(30), <1>1, <1>5, TriedWriteView DEF TriedVictim
<1>7. QED
  BY <1>3, <1>6, LookupView

-----------------------------------------------------------------------------
\* From views of the lists to moves of PeerStatus.

AbstractStep(s, t) ==
    \E i \in Ids : \E m \in Abstract!Moves :
        \/ s[i] = m[1] /\ t = [s EXCEPT ![i] = m[2]]
        \/ \E v \in Ids :
             /\ m[2] \in {"new", "tried"}
             /\ v # i
             /\ s[i] = m[1]
             /\ s[v] = m[2]
             /\ t = [s EXCEPT ![i] = m[2], ![v] = "unknown"]

\* m moves i, and v (if another peer) loses its place in the list i enters.
LEMMA StatusMove ==
    ASSUME NEW bk, NEW nb, NEW i \in Ids, NEW m \in Abstract!Moves, NEW v \in Ids,
           StatusIn(bk)[i] = m[1], StatusIn(nb)[i] = m[2],
           v # i => /\ StatusIn(bk)[v] = m[2]
                    /\ StatusIn(nb)[v] = "unknown"
                    /\ m[2] \in {"new", "tried"},
           \A j \in Ids \ {i, v} : StatusIn(nb)[j] = StatusIn(bk)[j]
    PROVE  AbstractStep(StatusIn(bk), StatusIn(nb))
<1>1. CASE v = i
  <2>1. StatusIn(nb) = [StatusIn(bk) EXCEPT ![i] = m[2]]
    BY <1>1 DEF StatusIn
  <2>2. QED
    BY <2>1 DEF AbstractStep
<1>2. CASE v # i
  <2>1. StatusIn(nb) = [StatusIn(bk) EXCEPT ![i] = m[2], ![v] = "unknown"]
    BY <1>2 DEF StatusIn
  <2> DEFINE s == StatusIn(bk)
             t == StatusIn(nb)
  <2>2. /\ m[2] \in {"new", "tried"} /\ s[i] = m[1] /\ s[v] = m[2]
        /\ t = [s EXCEPT ![i] = m[2], ![v] = "unknown"]
    BY <1>2, <2>1
  <2> HIDE DEF s, t
  <2>3. \E w \in Ids : /\ m[2] \in {"new", "tried"} /\ w # i
                       /\ s[i] = m[1] /\ s[w] = m[2]
                       /\ t = [s EXCEPT ![i] = m[2], ![w] = "unknown"]
    BY <1>2, <2>2
  <2>4. AbstractStep(s, t)
    BY <2>3 DEF AbstractStep
  <2>5. QED
    BY <2>4 DEF s, t
<1>3. QED
  BY <1>1, <1>2

\* m moves i and nobody else.
LEMMA StatusMoveAlone ==
    ASSUME NEW bk, NEW nb, NEW i \in Ids, NEW m \in Abstract!Moves,
           StatusIn(bk)[i] = m[1], StatusIn(nb)[i] = m[2],
           \A j \in Ids \ {i} : StatusIn(nb)[j] = StatusIn(bk)[j]
    PROVE  AbstractStep(StatusIn(bk), StatusIn(nb))
<1>1. \A j \in Ids \ {i, i} : StatusIn(nb)[j] = StatusIn(bk)[j]
  OBVIOUS
<1>2. QED
  BY SMTT(30), <1>1, StatusMove

\* A call that leaves both lists' members alone leaves the status map alone.
LEMMA SameLists ==
    ASSUME NEW bk, NEW nb,
           \A j \in Ids : /\ InNewList(nb, j) <=> InNewList(bk, j)
                          /\ InTriedList(nb, j) <=> InTriedList(bk, j)
    PROVE  StatusIn(nb) = StatusIn(bk)
BY DEF StatusIn

\* Dropping a peer from the book is a move of the abstract life, or nothing.
LEMMA DropStep ==
    ASSUME NEW bk, Sound(bk), Canonical, NEW p \in PeerInfo,
           NEW nb, \/ nb = SetNew(bk, p, Absent) /\ InNew(bk, p)
                   \/ nb = SetTried(bk, p, Absent) /\ InTried(bk, p)
    PROVE  AbstractStep(StatusIn(bk), StatusIn(nb))
<1> DEFINE i == IdOf[p.addr]
<1>1. i \in Ids
  BY AddressTypes
<1>2. CASE nb = SetNew(bk, p, Absent) /\ InNew(bk, p)
  <2> DEFINE m == <<"new", "unknown">>
  <2>1. m \in Abstract!Moves /\ m[1] = "new" /\ m[2] = "unknown"
    BY DEF Abstract!Moves
  <2>2. \A j \in Ids : /\ InTriedList(nb, j) <=> InTriedList(bk, j)
                       /\ InNewList(nb, j) <=> j # i /\ InNewList(bk, j)
    BY <1>2, DropView
  <2>3. InNewList(bk, i) /\ ~InTriedList(bk, i)
    BY <1>1, <1>2, LookupView
  <2>4. /\ StatusIn(bk)[i] = m[1] /\ StatusIn(nb)[i] = m[2]
        /\ \A j \in Ids \ {i} : StatusIn(nb)[j] = StatusIn(bk)[j]
    BY <1>1, <2>1, <2>2, <2>3 DEF StatusIn
  <2> HIDE DEF m, i
  <2>5. QED
    BY <1>1, <2>1, <2>4, StatusMoveAlone
<1>3. CASE nb = SetTried(bk, p, Absent) /\ InTried(bk, p)
  <2> DEFINE m == <<"tried", "unknown">>
  <2>1. m \in Abstract!Moves /\ m[1] = "tried" /\ m[2] = "unknown"
    BY DEF Abstract!Moves
  <2>2. \A j \in Ids : /\ InNewList(nb, j) <=> InNewList(bk, j)
                       /\ InTriedList(nb, j) <=> j # i /\ InTriedList(bk, j)
    BY <1>3, DropView
  <2>3. InTriedList(bk, i) /\ ~InNewList(bk, i)
    BY <1>1, <1>3, LookupView
  <2>4. /\ StatusIn(bk)[i] = m[1] /\ StatusIn(nb)[i] = m[2]
        /\ \A j \in Ids \ {i} : StatusIn(nb)[j] = StatusIn(bk)[j]
    BY <1>1, <2>1, <2>2, <2>3 DEF StatusIn
  <2> HIDE DEF m, i
  <2>5. QED
    BY <1>1, <2>1, <2>4, StatusMoveAlone
<1>4. QED
  BY <1>2, <1>3

\* addPeer, also as the second half of a demotion: mid is the book addPeer is
\* called on, bk the book before the call, where p was "from".
LEMMA EnterNewStep ==
    ASSUME NEW bk, NEW mid, Sound(mid), Canonical, NEW p \in PeerInfo,
           ~InNewList(mid, IdOf[p.addr]), ~InTriedList(mid, IdOf[p.addr]),
           NEW nb \in AddPeer(mid, p),
           NEW from \in {"unknown", "tried"},
           StatusIn(bk)[IdOf[p.addr]] = from,
           \A j \in Ids \ {IdOf[p.addr]} : StatusIn(bk)[j] = StatusIn(mid)[j]
    PROVE  nb = mid \/ AbstractStep(StatusIn(bk), StatusIn(nb))
<1> DEFINE i == IdOf[p.addr]
           m == <<from, "new">>
<1>1. i \in Ids
  BY AddressTypes
<1>2. m \in Abstract!Moves /\ m[1] = from /\ m[2] = "new"
  BY DEF Abstract!Moves
<1>3. SUFFICES ASSUME nb # mid
               PROVE  AbstractStep(StatusIn(bk), StatusIn(nb))
  OBVIOUS
<1>4. PICK v \in Ids :
        /\ v # i => InNewList(mid, v)
        /\ \A j \in Ids : /\ InTriedList(nb, j) <=> InTriedList(mid, j)
                          /\ InNewList(nb, j) <=> j = i \/ (j # v /\ InNewList(mid, j))
  BY <1>3, AddPeerView
<1>5. v # i => /\ StatusIn(bk)[v] = "new" /\ StatusIn(nb)[v] = "unknown"
  <2>1. SUFFICES ASSUME v # i
                 PROVE  StatusIn(bk)[v] = "new" /\ StatusIn(nb)[v] = "unknown"
    OBVIOUS
  <2>2. InNewList(mid, v) /\ ~InTriedList(mid, v)
    BY <1>4, <2>1, LookupView
  <2>3. QED
    BY <1>4, <2>1, <2>2 DEF StatusIn
<1>6. StatusIn(nb)[i] = "new"
  BY <1>1, <1>4 DEF StatusIn
<1>7. \A j \in Ids \ {i, v} : StatusIn(nb)[j] = StatusIn(bk)[j]
  BY <1>4 DEF StatusIn
<1> HIDE DEF i, m
<1>8. QED
  <2>1. StatusIn(bk)[i] = m[1] /\ StatusIn(nb)[i] = m[2]
    BY <1>2, <1>6 DEF i
  <2>2. v # i => /\ StatusIn(bk)[v] = m[2] /\ StatusIn(nb)[v] = "unknown"
                 /\ m[2] \in {"new", "tried"}
    BY <1>2, <1>5
  <2>3. QED
    BY <1>1, <1>2, <1>7, <2>1, <2>2, StatusMove

\* upgradePeer is a step of the abstract life, or nothing.
LEMMA UpgradeStep ==
    ASSUME NEW bk, Sound(bk), Canonical, NEW p \in PeerInfo, NEW nb \in UpgradePeer(bk, p),
           nb # bk
    PROVE  AbstractStep(StatusIn(bk), StatusIn(nb))
<1> DEFINE i == IdOf[p.addr]
           m == <<"new", "tried">>
<1>1. i \in Ids
  BY AddressTypes
<1>2. m \in Abstract!Moves /\ m[1] = "new" /\ m[2] = "tried"
  BY DEF Abstract!Moves
<1>3. PICK v \in Ids :
        /\ InNewList(bk, i) /\ ~InTriedList(bk, i)
        /\ v # i => InTriedList(bk, v)
        /\ \A j \in Ids : /\ InNewList(nb, j) <=> j # i /\ InNewList(bk, j)
                          /\ InTriedList(nb, j) <=> j = i \/ (j # v /\ InTriedList(bk, j))
  BY UpgradePeerView
<1>4. v # i => ~InNewList(bk, v)
  BY <1>3, LookupView
<1>5. /\ StatusIn(bk)[i] = m[1] /\ StatusIn(nb)[i] = m[2]
      /\ v # i => /\ StatusIn(bk)[v] = m[2] /\ StatusIn(nb)[v] = "unknown"
                  /\ m[2] \in {"new", "tried"}
      /\ \A j \in Ids \ {i, v} : StatusIn(nb)[j] = StatusIn(bk)[j]
  BY <1>1, <1>2, <1>3, <1>4 DEF StatusIn
<1> HIDE DEF i, m
<1>6. QED
  BY ZenonT(30), <1>1, <1>2, <1>5, StatusMove

\* downgradePeer is a step of the abstract life, or nothing.
LEMMA DowngradeStep ==
    ASSUME NEW bk, Sound(bk), Canonical, NEW p \in PeerInfo, NEW nb \in DowngradePeer(bk, p)
    PROVE  StatusIn(nb) = StatusIn(bk) \/ AbstractStep(StatusIn(bk), StatusIn(nb))
<1>1. CASE InNew(bk, p)
  BY <1>1, DropStep DEF DowngradePeer
<1>2. CASE ~InNew(bk, p) /\ InTried(bk, p)
  <2>1. nb \in FailTried(bk, p)
    BY <1>2 DEF DowngradePeer
  <2>2. CASE TriedSlot(bk, p).failures + 1 >= MaxReconnectTries
    <3> DEFINE mid == SetTried(bk, p, Absent)
    <3>1. nb \in AddPeer(mid, p)
      BY <2>1, <2>2 DEF FailTried
    <3>2. Sound(mid)
      BY DropSound
    <3>3. \A j \in Ids : /\ InNewList(mid, j) <=> InNewList(bk, j)
                         /\ InTriedList(mid, j) <=> j # IdOf[p.addr] /\ InTriedList(bk, j)
      BY DropView
    <3>4. InTriedList(bk, IdOf[p.addr]) /\ ~InNewList(bk, IdOf[p.addr]) /\ IdOf[p.addr] \in Ids
      BY <1>2, LookupView, AddressTypes
    <3>5. /\ ~InNewList(mid, IdOf[p.addr]) /\ ~InTriedList(mid, IdOf[p.addr])
          /\ StatusIn(bk)[IdOf[p.addr]] = "tried"
          /\ \A j \in Ids \ {IdOf[p.addr]} : StatusIn(bk)[j] = StatusIn(mid)[j]
      BY <3>3, <3>4 DEF StatusIn
    <3>6. CASE nb = mid
      BY <1>2, <3>6, DropStep
    <3> HIDE DEF mid
    <3>7. CASE nb # mid
      BY <3>1, <3>2, <3>5, <3>7, EnterNewStep
    <3>8. QED
      BY <3>6, <3>7
  <2>3. CASE ~(TriedSlot(bk, p).failures + 1 >= MaxReconnectTries)
    <3>1. \A j \in Ids : /\ InNewList(nb, j) <=> InNewList(bk, j)
                         /\ InTriedList(nb, j) <=> InTriedList(bk, j)
      BY <1>2, <2>1, <2>3, CountedFailureView
    <3>2. QED
      BY <3>1, SameLists
  <2>4. QED
    BY <2>2, <2>3
<1>3. CASE ~InNew(bk, p) /\ ~InTried(bk, p)
  BY <1>3 DEF DowngradePeer
<1>4. QED
  BY <1>1, <1>2, <1>3

\* Every step of the book is a move of PeerStatus or leaves the status map alone.
LEMMA RefinementStep ==
    ASSUME BookInv, Canonical, [Next]_vars
    PROVE  Status' = Status \/ AbstractStep(Status, Status')
<1>1. Sound(book) /\ Status = StatusIn(book) /\ Status' = StatusIn(book')
  BY DEF BookInv, Status, StatusIn
<1>2. ASSUME NEW p \in PeerInfo, Add(p)
      PROVE  Status' = Status \/ AbstractStep(Status, Status')
  <2>1. book' \in AddPeer(book, p) /\ IdOf[p.addr] \in Ids
    BY <1>2, AddressTypes DEF Add
  <2>2. CASE Known(book, p)
    BY <1>1, <2>1, <2>2 DEF AddPeer
  <2>3. CASE ~Known(book, p)
    <3>1. ~InNewList(book, IdOf[p.addr]) /\ ~InTriedList(book, IdOf[p.addr])
      BY <1>1, <2>3, LookupView DEF Known
    <3>2. StatusIn(book)[IdOf[p.addr]] = "unknown"
      BY <2>1, <3>1 DEF StatusIn
    <3>3. QED
      BY <1>1, <2>1, <3>1, <3>2, EnterNewStep
  <2>4. QED
    BY <2>2, <2>3
<1>3. ASSUME NEW p \in PeerInfo, Update(p)
      PROVE  Status' = Status
  BY <1>1, <1>3, RewriteView, SameLists DEF Update
<1>4. ASSUME NEW p \in PeerInfo, Remove(p)
      PROVE  Status' = Status \/ AbstractStep(Status, Status')
  BY <1>1, <1>4, DropStep DEF Remove, RemovePeer
<1>5. ASSUME NEW p \in PeerInfo, Upgrade(p)
      PROVE  Status' = Status \/ AbstractStep(Status, Status')
  BY <1>1, <1>5, UpgradeStep DEF Upgrade
<1>6. ASSUME NEW p \in PeerInfo, Downgrade(p)
      PROVE  Status' = Status \/ AbstractStep(Status, Status')
  BY <1>1, <1>6, DowngradeStep DEF Downgrade
<1>7. ASSUME NEW b \in NewBuckets, NEW i \in Ids, Age(b, i)
      PROVE  Status' = Status
  <2>1. \A j \in Ids : /\ InNewList(book', j) <=> InNewList(book, j)
                       /\ InTriedList(book', j) <=> InTriedList(book, j)
    BY <1>1, <1>7, AgeWrites DEF InNewList, InTriedList, Sound
  <2>2. QED
    BY <1>1, <2>1, SameLists
<1>8. CASE UNCHANGED vars
  BY <1>1, <1>8 DEF vars
<1>9. QED
  BY <1>2, <1>3, <1>4, <1>5, <1>6, <1>7, <1>8 DEF Next

\* With normalized addresses the bucketed book implements the abstract life of a
\* peer: a call moves one peer along a legal edge and costs at most one other peer,
\* of the list the first one enters.
THEOREM BookImplementsStatus == ASSUME Canonical PROVE Spec => ImplementsStatus
<1>1. Init => Abstract!Init
  BY DEF Init, Abstract!Init, Status, StatusIn, InNewList, InTriedList, EmptyBook
<1>2. BookInv /\ [Next]_vars => [Abstract!Next]_Status
  <2>1. AbstractStep(Status, Status') => Abstract!Next
    BY DEF AbstractStep, Abstract!Next, Abstract!Move, Abstract!MoveEvicting
  <2>2. QED
    BY <2>1, RefinementStep
<1>3. QED
  BY <1>1, <1>2, BookSound, PTL DEF Spec, ImplementsStatus, Abstract!Spec

-----------------------------------------------------------------------------
(***************************************************************************)
(* Who is pushed out.  With any address forms: the argument is about one   *)
(* bucket, not about which bucket a peer belongs in.                       *)
(***************************************************************************)

\* Only an addPeer can bring somebody into a bucket of the new list.
LEMMA StaleStep ==
    ASSUME BookInv, [Next]_vars, NEW b \in NewBuckets
    PROVE  EvictsStale(book.new[b], book'.new[b])
<1> DEFINE Quiet == \A i \in Ids : book.new[b][i] = Absent => book'.new[b][i] = Absent
<1>1. Sound(book) /\ book \in Book /\ Bounded(book)
  BY DEF BookInv, Sound
<1>2. ASSUME NEW p \in PeerInfo, Add(p)
      PROVE  EvictsStale(book.new[b], book'.new[b])
  BY <1>1, <1>2, AddPeerEvicts DEF Add
<1>3. ASSUME NEW p \in PeerInfo, Update(p)
      PROVE  Quiet
  <2>1. book' = UpdatePeer(book, p) /\ NewBucketOf[p.addr] \in NewBuckets /\ IdOf[p.addr] \in Ids
    BY <1>3, AddressTypes DEF Update
  <2> QED
    BY <1>1, <2>1, UpdatePeerWrites DEF NewWrite, TriedWrite, InNew, NewSlot
<1>4. ASSUME NEW p \in PeerInfo, Remove(p)
      PROVE  Quiet
  BY <1>1, <1>4, RemovePeerWrites DEF Remove, NewWrite, TriedWrite
<1>5. ASSUME NEW p \in PeerInfo, Upgrade(p)
      PROVE  Quiet
  <2>1. CASE book' = book
    BY <2>1
  <2>2. CASE book' # book
    <3>1. PICK mid \in Book, v \in Ids :
            /\ NewWrite(book, mid, p, Absent, IdOf[p.addr])
            /\ TriedWrite(mid, book', p, [peerInfo |-> p, failures |-> 0], v)
      BY <1>1, <1>5, <2>2, UpgradePeerWrites DEF Upgrade
    <3>2. book'.new = mid.new
      BY <3>1 DEF TriedWrite
    <3> QED
      BY <3>1, <3>2 DEF NewWrite
  <2> QED
    BY <2>1, <2>2
<1>6. ASSUME NEW p \in PeerInfo, Downgrade(p)
      PROVE  EvictsStale(book.new[b], book'.new[b])
  <2>1. book' \in DowngradePeer(book, p)
    BY <1>6 DEF Downgrade
  <2>2. CASE Dropped(book, book', p)
    <3>1. PICK mid \in Book :
            TriedWrite(book, mid, p, Absent, IdOf[p.addr]) /\ book' \in AddPeer(mid, p)
      BY <2>2 DEF Dropped
    <3>2. Bounded(mid) /\ mid.new = book.new
      BY <1>1, <3>1, TriedWriteBounded, AddressTypes DEF TriedWrite
    <3>3. EvictsStale(mid.new[b], book'.new[b])
      BY <3>1, <3>2, AddPeerEvicts
    <3> QED
      BY <3>2, <3>3
  <2>3. CASE book' = book
    BY <2>3, NobodyEnters
  <2>4. CASE NewWrite(book, book', p, Absent, IdOf[p.addr])
    <3>1. Quiet
      BY <2>4 DEF NewWrite
    <3> QED
      BY <3>1, NobodyEnters
  <2>5. CASE Counted(book, book', p)
    <3>1. Quiet
      BY <2>5 DEF Counted, TriedWrite
    <3> QED
      BY <3>1, NobodyEnters
  <2> QED
    BY <1>1, <2>1, <2>2, <2>3, <2>4, <2>5, DowngradePeerWrites
<1>7. ASSUME NEW c \in NewBuckets, NEW i \in Ids, Age(c, i)
      PROVE  Quiet
  BY <1>1, <1>7, AgeWrites
<1>8. CASE UNCHANGED vars
  BY <1>8, NobodyEnters DEF vars
<1>9. Quiet => EvictsStale(book.new[b], book'.new[b])
  BY NobodyEnters
<1> QED
  BY <1>2, <1>3, <1>4, <1>5, <1>6, <1>7, <1>8, <1>9 DEF Next

\* Who is pushed out of a full new bucket had been there for the threshold time, or
\* nobody in it had (src/src/peer_book/new_list.js, peer_list.js addPeer), whatever
\* forms the addresses of the lists other nodes send have.
THEOREM BookStaleFirst == Spec => StaleFirst
<1> DEFINE A == \A b \in NewBuckets : LET old == book.new[b] new == book'.new[b] IN
                    Occupants(new) \ Occupants(old) # {} =>
                       \A v \in Occupants(old) \ Occupants(new) :
                           /\ Cardinality(Occupants(old)) = NewBucketSize
                           /\ old[v].aged \/ \A i \in Occupants(old) : ~old[i].aged
<1>1. BookInv /\ [Next]_vars => [A]_vars
  BY StaleStep DEF EvictsStale
<1> HIDE DEF A
<1>2. Spec => [][A]_vars
  BY <1>1, BookSound, PTL DEF Spec
<1> QED
  BY <1>2 DEF A, StaleFirst

-----------------------------------------------------------------------------
(***************************************************************************)
(* Earned demotions.  DemotionEarned is about the history, the guard of    *)
(* the code about the counter in the entry; CountsMatch ties the two.      *)
(* Without normalized addresses it is false: a peer may then have two      *)
(* entries, and a failure reported under one form of its address is not    *)
(* counted in the entry of the other.                                      *)
(***************************************************************************)

CountsMatchIn(bk, history) ==
    \A i \in Ids :
        /\ ~InTriedList(bk, i) => history[i] = 0
        /\ \A b \in TriedBuckets : bk.tried[b][i] # Absent => bk.tried[b][i].failures = history[i]

CountsMatch == CountsMatchIn(book, reported)

\* The history is Reported(failed) and no entry has another count than before, except
\* that the one of failed, if there is one, has one more and a new one has none.
CountsKept(failed) ==
    \A i \in Ids, b \in TriedBuckets : book'.tried[b][i] # Absent =>
        IF book.tried[b][i] = Absent
        THEN ~InTriedList(book, i) /\ book'.tried[b][i].failures = 0 /\ i # failed
        ELSE book'.tried[b][i].failures = IF i = failed THEN book.tried[b][i].failures + 1
                                          ELSE book.tried[b][i].failures

LEMMA CountsFollow ==
    ASSUME CountsMatch, reported \in [Ids -> Nat], NEW failed,
           reported' = Reported(failed), CountsKept(failed)
    PROVE  CountsMatch'
<1>1. ASSUME NEW i \in Ids, ~InTriedList(book', i)
      PROVE  reported'[i] = 0
  BY <1>1 DEF Reported
<1>2. ASSUME NEW i \in Ids, NEW b \in TriedBuckets, book'.tried[b][i] # Absent
      PROVE  book'.tried[b][i].failures = reported'[i]
  <2>1. reported'[i] = IF i = failed THEN reported[i] + 1 ELSE reported[i]
    BY <1>2 DEF Reported, InTriedList
  <2>2. CASE book.tried[b][i] = Absent
    BY <1>2, <2>1, <2>2 DEF CountsKept, CountsMatch, CountsMatchIn
  <2>3. CASE book.tried[b][i] # Absent
    BY <1>2, <2>1, <2>3 DEF CountsKept, CountsMatch, CountsMatchIn
  <2> QED
    BY <2>2, <2>3
<1> QED
  BY <1>1, <1>2 DEF CountsMatch, CountsMatchIn

\* A write that keeps the count, or empties the slot, keeps the counts.
LEMMA TriedWriteKeeps ==
    ASSUME book \in Book, NEW p \in PeerInfo, NEW e, NEW v \in Ids,
           TriedWrite(book, book', p, e, v),
           e = Absent \/ (InTried(book, p) /\ e.failures = TriedSlot(book, p).failures)
    PROVE  CountsKept(Absent)
BY AddressTypes, AbsentAssumption
DEF AbsentAssumption, CountsKept, TriedWrite, InTried, TriedSlot

\* So does a step that leaves the tried list alone.
LEMMA SameTriedKeeps ==
    ASSUME book'.tried = book.tried
    PROVE  CountsKept(Absent)
BY AbsentAssumption DEF AbsentAssumption, CountsKept

\* addPeer leaves the tried list alone.
LEMMA AddPeerTried ==
    ASSUME NEW bk \in Book, NEW p \in PeerInfo, NEW nb \in AddPeer(bk, p)
    PROVE  nb.tried = bk.tried
BY NewListAddWrites DEF AddPeer, Known, NewWrite

LEMMA UpgradeKeeps ==
    ASSUME Sound(book), Canonical, NEW p \in PeerInfo, Upgrade(p)
    PROVE  CountsKept(Absent)
<1> DEFINE e == [peerInfo |-> p, failures |-> 0]
<1>1. book \in Book /\ IdOf[p.addr] \in Ids /\ TriedBucketOf[p.addr] \in TriedBuckets
  BY AddressTypes DEF Sound
<1>2. CASE book' = book
  BY <1>2, SameTriedKeeps
<1>3. CASE book' # book
  <2>1. PICK mid \in Book, v \in Ids :
          /\ NewWrite(book, mid, p, Absent, IdOf[p.addr])
          /\ TriedWrite(mid, book', p, e, v)
    BY <1>1, <1>3, UpgradePeerWrites DEF Upgrade
  <2>2. mid.tried = book.tried /\ e.failures = 0
    BY <2>1 DEF NewWrite
  <2>3. ~InTriedList(book, IdOf[p.addr])
    BY <1>1, <1>3, UpgradePeerWrites, LookupView DEF Upgrade
  <2> HIDE DEF e
  <2>4. \A b \in TriedBuckets, i \in Ids :
          book'.tried[b][i] = IF b = TriedBucketOf[p.addr] /\ i = IdOf[p.addr] THEN e
                              ELSE IF b = TriedBucketOf[p.addr] /\ i = v THEN Absent
                              ELSE book.tried[b][i]
    BY <2>1, <2>2 DEF TriedWrite
  <2> QED
    BY <1>1, <2>2, <2>3, <2>4, AbsentAssumption DEF AbsentAssumption, CountsKept, InTriedList
<1> QED
  BY <1>2, <1>3

LEMMA DowngradeKeeps ==
    ASSUME Sound(book), Canonical, NEW p \in PeerInfo, Downgrade(p)
    PROVE  CountsKept(IdOf[p.addr])
<1> DEFINE I == IdOf[p.addr]
<1>1. /\ book \in Book /\ Filed(book) /\ Single(book) /\ I \in Ids
      /\ TriedBucketOf[p.addr] \in TriedBuckets /\ book' \in DowngradePeer(book, p)
  BY FiledIsSingle, AddressTypes DEF Sound, Downgrade
\* The tried list stays and the peer is not in it.
<1>2. ASSUME book'.tried = book.tried, ~InTriedList(book, I)
      PROVE  CountsKept(I)
  BY <1>2 DEF CountsKept, InTriedList
<1>3. CASE book' = book /\ ~InTried(book, p)
  BY <1>2, <1>3, LookupView
<1>4. CASE InNew(book, p) /\ NewWrite(book, book', p, Absent, I)
  <2>1. InNewList(book, I) /\ ~InTriedList(book, I)
    BY <1>1, <1>4, LookupView
  <2> QED
    BY <1>2, <1>4, <2>1 DEF NewWrite
<1>5. CASE InTried(book, p) /\ Counted(book, book', p)
  <2>1. PICK e \in TriedEntry :
          /\ e.failures = TriedSlot(book, p).failures + 1
          /\ TriedWrite(book, book', p, e, I)
    BY <1>5 DEF Counted
  <2>2. \A b \in TriedBuckets : b # TriedBucketOf[p.addr] => book.tried[b][I] = Absent
    BY <1>1, <1>5 DEF Single, InTried, TriedSlot
  <2> QED
    BY <1>1, <1>5, <2>1, <2>2 DEF CountsKept, TriedWrite, InTried, TriedSlot
<1>6. CASE InTried(book, p) /\ Dropped(book, book', p)
  <2>1. PICK mid \in Book :
          TriedWrite(book, mid, p, Absent, I) /\ book' \in AddPeer(mid, p)
    BY <1>6 DEF Dropped
  <2>2. book'.tried = mid.tried
    BY <2>1, AddPeerTried
  <2>3. \A b \in TriedBuckets : b # TriedBucketOf[p.addr] => book.tried[b][I] = Absent
    BY <1>1, <1>6 DEF Single, InTried, TriedSlot
  <2> QED
    BY <1>1, <2>1, <2>2, <2>3 DEF CountsKept, TriedWrite
<1> QED
  BY <1>1, <1>3, <1>4, <1>5, <1>6, DowngradePeerWrites

\* With normalized addresses the count of an entry is the peer's history.
LEMMA CountsStep ==
    ASSUME BookInv, Canonical, CountsMatch, [Next]_vars
    PROVE  CountsMatch'
<1>1. Sound(book) /\ book \in Book /\ reported \in [Ids -> Nat]
  BY DEF BookInv, Sound
<1>2. ASSUME NEW p \in PeerInfo, Add(p)
      PROVE  CountsMatch'
  <2>1. book'.tried = book.tried /\ reported' = Reported(Absent)
    BY <1>1, <1>2, AddPeerTried DEF Add
  <2> QED
    BY <1>1, <2>1, SameTriedKeeps, CountsFollow
<1>3. ASSUME NEW p \in PeerInfo, Update(p)
      PROVE  CountsMatch'
  <2>1. /\ book' = UpdatePeer(book, p) /\ reported' = Reported(Absent) /\ IdOf[p.addr] \in Ids
    BY <1>3, AddressTypes DEF Update
  <2>2. CountsKept(Absent)
    BY <1>1, <2>1, UpdatePeerWrites, TriedWriteKeeps, SameTriedKeeps DEF NewWrite
  <2> QED
    BY <1>1, <2>1, <2>2, CountsFollow
<1>4. ASSUME NEW p \in PeerInfo, Remove(p)
      PROVE  CountsMatch'
  <2>1. /\ book' = RemovePeer(book, p) /\ reported' = Reported(Absent) /\ IdOf[p.addr] \in Ids
    BY <1>4, AddressTypes DEF Remove
  <2>2. \/ book'.tried = book.tried
        \/ TriedWrite(book, book', p, Absent, IdOf[p.addr])
    BY <1>1, <2>1, RemovePeerWrites DEF NewWrite
  <2>3. CountsKept(Absent)
    <3>1. CASE book'.tried = book.tried
      BY <3>1, SameTriedKeeps
    <3>2. CASE TriedWrite(book, book', p, Absent, IdOf[p.addr])
      BY <3>2, AbsentAssumption DEF AbsentAssumption, CountsKept, TriedWrite
    <3> QED
      BY <2>2, <3>1, <3>2
  <2> QED
    BY <1>1, <2>1, <2>3, CountsFollow
<1>5. ASSUME NEW p \in PeerInfo, Upgrade(p)
      PROVE  CountsMatch'
  BY <1>1, <1>5, UpgradeKeeps, CountsFollow DEF Upgrade
<1>6. ASSUME NEW p \in PeerInfo, Downgrade(p)
      PROVE  CountsMatch'
  BY <1>1, <1>6, DowngradeKeeps, CountsFollow DEF Downgrade
<1>7. ASSUME NEW b \in NewBuckets, NEW i \in Ids, Age(b, i)
      PROVE  CountsMatch'
  <2>1. book'.tried = book.tried /\ reported' = reported
    BY <1>1, <1>7, AgeWrites DEF Age
  <2> QED
    BY <2>1 DEF CountsMatch, CountsMatchIn, InTriedList
<1>8. CASE UNCHANGED vars
  BY <1>8 DEF vars, CountsMatch
<1> QED
  BY <1>2, <1>3, <1>4, <1>5, <1>6, <1>7, <1>8 DEF Next

\* Only a failed connection takes a peer from the tried list to the new one, and
\* only when the count is one short of the last.
LEMMA DemotionStep ==
    ASSUME BookInv, Canonical, CountsMatch, Next, NEW i \in Ids,
           InTriedList(book, i), InNewList(book', i), ~InTriedList(book', i)
    PROVE  reported[i] + 1 = MaxReconnectTries
<1>1. Sound(book) /\ book \in Book /\ ~InNewList(book, i)
  BY LookupView DEF BookInv, Sound, Disjoint, InNewList, InTriedList
<1>2. ASSUME NEW p \in PeerInfo, Add(p)
      PROVE  FALSE
  <2>1. book'.tried = book.tried
    BY <1>1, <1>2, AddPeerTried DEF Add
  <2> QED
    BY <2>1 DEF InTriedList
<1>3. ASSUME NEW p \in PeerInfo, Update(p)
      PROVE  FALSE
  BY <1>1, <1>3, RewriteView DEF Update
<1>4. ASSUME NEW p \in PeerInfo, Remove(p)
      PROVE  FALSE
  BY <1>1, <1>4, DropView DEF Remove, RemovePeer
<1>5. ASSUME NEW p \in PeerInfo, Upgrade(p)
      PROVE  FALSE
  BY <1>1, <1>5, UpgradePeerView DEF Upgrade
<1>6. ASSUME NEW p \in PeerInfo, Downgrade(p)
      PROVE  reported[i] + 1 = MaxReconnectTries
  <2> DEFINE I == IdOf[p.addr]
  <2>1. book' \in DowngradePeer(book, p) /\ I \in Ids /\ TriedBucketOf[p.addr] \in TriedBuckets
    BY <1>6, AddressTypes DEF Downgrade
  <2>2. CASE book' = book
    BY <2>2
  <2>3. CASE NewWrite(book, book', p, Absent, I)
    BY <2>3 DEF NewWrite, InTriedList
  <2>4. CASE InTried(book, p) /\ Counted(book, book', p)
    <3>1. PICK e \in TriedEntry : TriedWrite(book, book', p, e, I)
      BY <2>4 DEF Counted
    <3>2. book'.new = book.new
      BY <3>1 DEF TriedWrite
    <3> QED
      BY <1>1, <3>2 DEF InNewList
  <2>5. CASE InTried(book, p) /\ Dropped(book, book', p)
    <3>1. PICK mid \in Book :
            TriedWrite(book, mid, p, Absent, I) /\ book' \in AddPeer(mid, p)
      BY <2>5 DEF Dropped
    <3>2. book'.tried = mid.tried
      BY <3>1, AddPeerTried
    <3>3. i = I
      BY <3>1, <3>2 DEF TriedWrite, InTriedList
    <3>4. TriedSlot(book, p).failures = reported[I] /\ TriedSlot(book, p).failures + 1 = MaxReconnectTries
      BY <2>1, <2>5 DEF CountsMatch, CountsMatchIn, InTried, TriedSlot, Dropped
    <3> QED
      BY <3>3, <3>4
  <2> QED
    BY <1>1, <2>1, <2>2, <2>3, <2>4, <2>5, DowngradePeerWrites
<1>7. ASSUME NEW b \in NewBuckets, NEW j \in Ids, Age(b, j)
      PROVE  FALSE
  BY <1>1, <1>7, AgeWrites DEF InTriedList
<1> QED
  BY <1>2, <1>3, <1>4, <1>5, <1>6, <1>7 DEF Next

\* A peer leaves the tried list for the new one only with the last of the failures
\* that it is allowed since it entered the tried list (src/src/peer_book/tried_list.js failedConnectionAction).
THEOREM BookDemotionEarned == ASSUME Canonical PROVE Spec => DemotionEarned
<1> DEFINE A == \A i \in Ids :
                    InTriedList(book, i) /\ InNewList(book', i) /\ ~InTriedList(book', i)
                       => reported[i] + 1 = MaxReconnectTries
<1>1. Init => CountsMatch
  BY DEF Init, CountsMatch, CountsMatchIn, EmptyBook
<1>2. BookInv /\ CountsMatch /\ [Next]_vars => CountsMatch'
  BY CountsStep
<1>3. BookInv /\ CountsMatch /\ [Next]_vars => [A]_vars
  BY DemotionStep
<1> HIDE DEF A
<1>4. Spec => [][A]_vars
  BY <1>1, <1>2, <1>3, BookSound, PTL DEF Spec
<1> QED
  BY <1>4 DEF A, DemotionEarned
-----------------------------------------------------------------------------
(***************************************************************************)
(* Canonical, the hypothesis of three theorems above, from the way that    *)
(* utils.js reads addresses.                                               *)
(***************************************************************************)

\* What has the bucket of its normalized form: not an IPv4 address nested in an IPv6
\* one, nor a private address in capitals.
Plain == {a \in Address : a.written # "nested" /\ ~(a.written = "capitals" /\ a.host \in PrivateHosts)}

\* Two plain ways of writing one address hash the same.
LEMMA PlainKey ==
    ASSUME NEW a \in Plain, NEW b \in Plain, NormalizeAddress(a) = NormalizeAddress(b)
    PROVE  BucketKey(a) = BucketKey(b)
<1>1. a \in Address /\ b \in Address /\ a.written # "nested" /\ b.written # "nested"
  BY DEF Plain
<1>2. CASE a.host \in V6Hosts
  <2>1. a.written \in {"full", "short", "capitals"}
    BY <1>1, <1>2, HostKinds DEF HostKinds, Address
  <2>2. NormalizeAddress(a) = [a EXCEPT !.written = "full"]
    BY <1>2, <2>1 DEF NormalizeAddress
  <2>3. NormalizeAddress(a).written = "full" /\ NormalizeAddress(a).host = a.host
    BY <1>1, <2>2 DEF Address
  <2>4. b.host \in V6Hosts
    <3>1. CASE b.host \in V6Hosts
      BY <3>1
    <3>2. CASE b.host \notin V6Hosts
      <4>1. b.written \in {"ipv4", "name"}
        BY <1>1, <3>2 DEF Address
      <4>2. NormalizeAddress(b) = b
        BY <1>1, <3>2, <4>1 DEF NormalizeAddress
      <4> QED
        BY <2>3, <4>1, <4>2
    <3> QED
      BY <3>1, <3>2
  <2>5. b.written \in {"full", "short", "capitals"}
    BY <1>1, <2>4, HostKinds DEF HostKinds, Address
  <2>6. b.host = a.host
    <3>1. NormalizeAddress(b) = [b EXCEPT !.written = "full"]
      BY <2>4, <2>5 DEF NormalizeAddress
    <3>2. NormalizeAddress(b).host = b.host
      BY <1>1, <3>1 DEF Address
    <3> QED
      BY <2>3, <3>2
  <2>7. IsLocal(a) <=> IsLocal(b)
    BY <1>1, <2>6 DEF IsLocal
  <2>8. IsPrivate(a) <=> IsPrivate(b)
    BY <2>1, <2>5, <2>6 DEF IsPrivate, Plain
  <2>9. GetNetwork(a) = GetNetwork(b)
    BY <2>1, <2>5, <2>7, <2>8 DEF GetNetwork
  <2>10. IPV6Bytes(a) = IPV6Bytes(b)
    BY <1>1, <2>6 DEF IPV6Bytes
  <2> QED
    BY <2>6, <2>9, <2>10 DEF BucketKey
<1>3. CASE b.host \notin V6Hosts /\ a.host \notin V6Hosts
  <2>1. a.written \in {"ipv4", "name"} /\ b.written \in {"ipv4", "name"}
    BY <1>1, <1>3 DEF Address
  <2>2. NormalizeAddress(a) = a /\ NormalizeAddress(b) = b
    BY <1>1, <1>3, <2>1 DEF NormalizeAddress
  <2> QED
    BY <2>2
<1>4. CASE b.host \in V6Hosts /\ a.host \notin V6Hosts
  <2>1. a.written \in {"ipv4", "name"} /\ b.written \in {"full", "short", "capitals"}
    BY <1>1, <1>4, HostKinds DEF HostKinds, Address
  <2>2. NormalizeAddress(a) = a /\ NormalizeAddress(b) = [b EXCEPT !.written = "full"]
    BY <1>1, <1>4, <2>1 DEF NormalizeAddress
  <2>3. NormalizeAddress(b).written = "full"
    BY <1>1, <2>2 DEF Address
  <2> QED
    BY <2>1, <2>2, <2>3
<1> QED
  BY <1>2, <1>3, <1>4

\* Whatever the hash and the ports, two plain ways of writing a peer's address lead to
\* the same buckets (src/src/utils.js getBucketId, normalizeAddress; peer_list.js
\* getBucketId): OnePerPeer, DemotionEarned and the refinement hold for every book
\* whose addresses are plain, be they normalized or not.
THEOREM PlainIsCanonical ==
    ASSUME NEW AddrOf \in [Forms -> Plain], NEW PortOf,
           \A f \in Forms : IdOf[f] = GetPeerId(AddrOf[f], PortOf[f]),
           \A f, g \in Forms : BucketKey(AddrOf[f]) = BucketKey(AddrOf[g]) =>
                                 /\ NewBucketOf[f] = NewBucketOf[g]
                                 /\ TriedBucketOf[f] = TriedBucketOf[g]
    PROVE  Canonical
<1> SUFFICES ASSUME NEW f \in Forms, NEW g \in Forms, IdOf[f] = IdOf[g]
             PROVE  NewBucketOf[f] = NewBucketOf[g] /\ TriedBucketOf[f] = TriedBucketOf[g]
  BY DEF Canonical
<1>1. NormalizeAddress(AddrOf[f]) = NormalizeAddress(AddrOf[g])
  BY DEF GetPeerId
<1>2. AddrOf[f] \in Plain /\ AddrOf[g] \in Plain
  OBVIOUS
<1>3. BucketKey(AddrOf[f]) = BucketKey(AddrOf[g])
  BY <1>1, <1>2, PlainKey
<1> QED
  BY <1>3
=============================================================================
