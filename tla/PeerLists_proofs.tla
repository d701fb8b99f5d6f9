--------------------------- MODULE PeerLists_proofs ---------------------------
(***************************************************************************)
(* What the operations on the bucketed lists preserve, for every number of *)
(* peers, address forms and buckets and every bucket size.  Each operation *)
(* is first reduced to writes of one bucket (NewWrite, TriedWrite), and    *)
(* the writes are shown to preserve soundness.                             *)
(***************************************************************************)
EXTENDS PeerLists, FiniteSetTheorems, TLAPS

\* The book invariant: typed, bounded, filed, and disjoint when addresses are
\* normalized.
Sound(bk) ==
    /\ bk \in Book
    /\ Bounded(bk)
    /\ Filed(bk)
    /\ Canonical => Disjoint(bk)

\* nb is bk with p's slot of the new list set to e and v gone from that bucket.
NewWrite(bk, nb, p, e, v) ==
    /\ nb \in Book
    /\ nb.tried = bk.tried
    /\ \A b \in NewBuckets, i \in Ids :
         nb.new[b][i] = IF b = NewBucketOf[p.addr] /\ i = IdOf[p.addr] THEN e
                        ELSE IF b = NewBucketOf[p.addr] /\ i = v THEN Absent
                        ELSE bk.new[b][i]

TriedWrite(bk, nb, p, e, v) ==
    /\ nb \in Book
    /\ nb.new = bk.new
    /\ \A b \in TriedBuckets, i \in Ids :
         nb.tried[b][i] = IF b = TriedBucketOf[p.addr] /\ i = IdOf[p.addr] THEN e
                          ELSE IF b = TriedBucketOf[p.addr] /\ i = v THEN Absent
                          ELSE bk.tried[b][i]

-----------------------------------------------------------------------------
\* Where the constants send an address.
LEMMA AddressTypes ==
    ASSUME NEW p \in PeerInfo
    PROVE  /\ p.addr \in Forms
           /\ IdOf[p.addr] \in Ids
           /\ NewBucketOf[p.addr] \in NewBuckets
           /\ TriedBucketOf[p.addr] \in TriedBuckets
BY BookAssumption DEF BookAssumption, PeerInfo

\* The sets of occupied keys are finite.
LEMMA OccupantsFinite ==
    ASSUME NEW bucket
    PROVE  /\ IsFiniteSet(Occupants(bucket))
           /\ Cardinality(Occupants(bucket)) \in Nat
<1>1. IsFiniteSet(Occupants(bucket))
  BY BookAssumption, FS_Subset DEF BookAssumption, Occupants
<1>2. QED
  BY <1>1, FS_CardinalityType

\* Writing one slot of the new list.
LEMMA SetNewWrites ==
    ASSUME NEW bk \in Book, NEW p \in PeerInfo, NEW e \in NewEntry \cup {Absent}
    PROVE  NewWrite(bk, SetNew(bk, p, e), p, e, IdOf[p.addr])
<1> DEFINE B == NewBucketOf[p.addr]
           I == IdOf[p.addr]
<1>1. B \in NewBuckets /\ I \in Ids
  BY AddressTypes
<1>2. bk.new \in [NewBuckets -> NewBucket] /\ bk.tried \in [TriedBuckets -> TriedBucket]
  BY DEF Book
<1>3. SetNew(bk, p, e) = [new |-> [bk.new EXCEPT ![B][I] = e], tried |-> bk.tried]
  BY DEF SetNew, Book
<1>4. [bk.new EXCEPT ![B][I] = e] \in [NewBuckets -> NewBucket]
  BY <1>1, <1>2 DEF NewBucket
<1>5. QED
  BY <1>1, <1>2, <1>3, <1>4 DEF NewWrite, Book, NewBucket

\* Writing one slot of the tried list.
LEMMA SetTriedWrites ==
    ASSUME NEW bk \in Book, NEW p \in PeerInfo, NEW e \in TriedEntry \cup {Absent}
    PROVE  TriedWrite(bk, SetTried(bk, p, e), p, e, IdOf[p.addr])
<1> DEFINE B == TriedBucketOf[p.addr]
           I == IdOf[p.addr]
<1>1. B \in TriedBuckets /\ I \in Ids
  BY AddressTypes
<1>2. bk.new \in [NewBuckets -> NewBucket] /\ bk.tried \in [TriedBuckets -> TriedBucket]
  BY DEF Book
<1>3. SetTried(bk, p, e) = [new |-> bk.new, tried |-> [bk.tried EXCEPT ![B][I] = e]]
  BY DEF SetTried, Book
<1>4. [bk.tried EXCEPT ![B][I] = e] \in [TriedBuckets -> TriedBucket]
  BY <1>1, <1>2 DEF TriedBucket
<1>5. QED
  BY <1>1, <1>2, <1>3, <1>4 DEF TriedWrite, Book, TriedBucket

\* Replacing a victim of p's new bucket by p.
LEMMA PlaceNewWrites ==
    ASSUME NEW bk \in Book, NEW p \in PeerInfo, NEW e \in NewEntry, NEW v \in Ids
    PROVE  NewWrite(bk, [bk EXCEPT !.new[NewBucketOf[p.addr]] =
                            Place(bk.new[NewBucketOf[p.addr]], v, IdOf[p.addr], e)], p, e, v)
<1> DEFINE B == NewBucketOf[p.addr]
           I == IdOf[p.addr]
           nbkt == Place(bk.new[B], v, I, e)
           nb == [bk EXCEPT !.new[B] = nbkt]
<1>1. B \in NewBuckets /\ I \in Ids
  BY AddressTypes
<1>2. bk.new \in [NewBuckets -> NewBucket] /\ bk.tried \in [TriedBuckets -> TriedBucket]
  BY DEF Book
<1>3. nbkt \in NewBucket
      /\ \A i \in Ids : nbkt[i] = IF i = I THEN e ELSE IF i = v THEN Absent ELSE bk.new[B][i]
  BY <1>1, <1>2 DEF NewBucket, Place
<1> HIDE DEF nbkt
<1>4. nb = [new |-> [bk.new EXCEPT ![B] = nbkt], tried |-> bk.tried]
  BY DEF Book
<1>5. [bk.new EXCEPT ![B] = nbkt] \in [NewBuckets -> NewBucket]
  BY <1>1, <1>2, <1>3
<1>6. NewWrite(bk, nb, p, e, v)
  BY <1>1, <1>2, <1>3, <1>4, <1>5 DEF NewWrite, Book
<1>7. QED
  BY <1>6 DEF nbkt

\* Replacing a victim of p's tried bucket by p.
LEMMA PlaceTriedWrites ==
    ASSUME NEW bk \in Book, NEW p \in PeerInfo, NEW e \in TriedEntry, NEW v \in Ids
    PROVE  TriedWrite(bk, [bk EXCEPT !.tried[TriedBucketOf[p.addr]] =
                            Place(bk.tried[TriedBucketOf[p.addr]], v, IdOf[p.addr], e)], p, e, v)
<1> DEFINE B == TriedBucketOf[p.addr]
           I == IdOf[p.addr]
           nbkt == Place(bk.tried[B], v, I, e)
           nb == [bk EXCEPT !.tried[B] = nbkt]
<1>1. B \in TriedBuckets /\ I \in Ids
  BY AddressTypes
<1>2. bk.new \in [NewBuckets -> NewBucket] /\ bk.tried \in [TriedBuckets -> TriedBucket]
  BY DEF Book
<1>3. nbkt \in TriedBucket
      /\ \A i \in Ids : nbkt[i] = IF i = I THEN e ELSE IF i = v THEN Absent ELSE bk.tried[B][i]
  BY <1>1, <1>2 DEF TriedBucket, Place
<1> HIDE DEF nbkt
<1>4. nb = [new |-> bk.new, tried |-> [bk.tried EXCEPT ![B] = nbkt]]
  BY DEF Book
<1>5. [bk.tried EXCEPT ![B] = nbkt] \in [TriedBuckets -> TriedBucket]
  BY <1>1, <1>2, <1>3
<1>6. TriedWrite(bk, nb, p, e, v)
  BY <1>1, <1>2, <1>3, <1>4, <1>5 DEF TriedWrite, Book
<1>7. QED
  BY <1>6 DEF nbkt

-----------------------------------------------------------------------------
\* The book's writes keep every entry in the bucket its address selects.
LEMMA NewWriteFiled ==
    ASSUME NEW bk \in Book, NEW nb, NEW p \in PeerInfo, NEW e, NEW v,
           NewWrite(bk, nb, p, e, v), Filed(bk),
           e # Absent => e.peerInfo.addr = p.addr
    PROVE  Filed(nb)
BY SMTT(30), AddressTypes DEF NewWrite, Filed

\* The same for a write of the tried list.
LEMMA TriedWriteFiled ==
    ASSUME NEW bk \in Book, NEW nb, NEW p \in PeerInfo, NEW e, NEW v,
           TriedWrite(bk, nb, p, e, v), Filed(bk),
           e # Absent => e.peerInfo.addr = p.addr
    PROVE  Filed(nb)
BY SMTT(30), AddressTypes DEF TriedWrite, Filed

\* One more element adds at most one to a cardinality.
LEMMA AddAtMostOne ==
    ASSUME NEW S, IsFiniteSet(S), NEW x
    PROVE  /\ IsFiniteSet(S \cup {x})
           /\ Cardinality(S \cup {x}) \in Nat
           /\ Cardinality(S \cup {x}) <= Cardinality(S) + 1
<1>1. Cardinality(S) \in Nat
  BY FS_CardinalityType
<1>2. CASE x \in S
  <2>1. S \cup {x} = S
    BY <1>2
  <2>2. IsFiniteSet(S \cup {x}) /\ Cardinality(S \cup {x}) = Cardinality(S)
    BY <2>1, Zenon
  <2>3. QED
    BY <1>1, <2>2
<1>3. CASE x \notin S
  <2>1. IsFiniteSet(S \cup {x}) /\ Cardinality(S \cup {x}) = Cardinality(S) + 1
    BY <1>3, FS_AddElement
  <2>2. QED
    BY <1>1, <2>1
<1>4. QED
  BY <1>2, <1>3

\* new is the bucket old after a write of slot i that drops v.
BucketWrite(old, new, i, v) ==
    \A j \in Ids : j # i => new[j] = IF j = v THEN Absent ELSE old[j]

\* The write fills no further slot, or there is room, or an occupied slot is freed.
HasRoom(old, new, i, v, size) ==
    /\ Cardinality(Occupants(old)) <= size
    /\ \/ new[i] = Absent
       \/ old[i] # Absent
       \/ Cardinality(Occupants(old)) < size
       \/ v \in Occupants(old) /\ v # i

\* A bucket stays within its size when a write fills no further slot of it, or
\* fills one while there is room, or fills one and empties an occupied one.
LEMMA BucketStaysBounded ==
    ASSUME NEW old, NEW new, NEW i \in Ids, NEW v \in Ids, NEW size \in Nat,
           BucketWrite(old, new, i, v), HasRoom(old, new, i, v, size)
    PROVE  Cardinality(Occupants(new)) <= size
<1> DEFINE O == Occupants(old)
           N == Occupants(new)
<1>1. IsFiniteSet(O) /\ Cardinality(O) \in Nat /\ IsFiniteSet(N) /\ Cardinality(N) \in Nat
  BY OccupantsFinite
<1>2. CASE new[i] = Absent \/ old[i] # Absent
  <2>1. N \subseteq O
    BY <1>2 DEF Occupants, BucketWrite
  <2>2. QED
    BY <1>1, <2>1, FS_Subset DEF HasRoom
<1>3. CASE Cardinality(O) < size
  <2>1. N \subseteq O \cup {i}
    BY DEF Occupants, BucketWrite
  <2>2. IsFiniteSet(O \cup {i}) /\ Cardinality(O \cup {i}) <= Cardinality(O) + 1
    BY <1>1, AddAtMostOne
  <2>3. Cardinality(N) <= Cardinality(O \cup {i}) /\ Cardinality(O \cup {i}) \in Nat
    BY <2>1, <2>2, FS_Subset, FS_CardinalityType
  <2>4. QED
    BY <1>1, <1>3, <2>2, <2>3
<1>4. CASE v \in O /\ v # i
  <2>1. N \subseteq (O \ {v}) \cup {i}
    BY <1>4 DEF Occupants, BucketWrite
  <2>2. IsFiniteSet(O \ {v}) /\ Cardinality(O \ {v}) = Cardinality(O) - 1
    BY <1>1, <1>4, FS_RemoveElement
  <2>3. IsFiniteSet((O \ {v}) \cup {i})
        /\ Cardinality((O \ {v}) \cup {i}) <= Cardinality(O \ {v}) + 1
    BY <2>2, AddAtMostOne
  <2>4. Cardinality(N) <= Cardinality((O \ {v}) \cup {i})
        /\ Cardinality((O \ {v}) \cup {i}) \in Nat
    BY <2>1, <2>3, FS_Subset, FS_CardinalityType
  <2>5. QED
    BY <1>1, <2>2, <2>3, <2>4 DEF HasRoom
<1>5. QED
  BY <1>2, <1>3, <1>4 DEF HasRoom

\* The two lists' writes keep every bucket within its size.
LEMMA NewWriteBounded ==
    ASSUME NEW bk \in Book, NEW nb, NEW p \in PeerInfo, NEW e, NEW v \in Ids,
           NewWrite(bk, nb, p, e, v), Bounded(bk),
           \/ e = Absent
           \/ InNew(bk, p)
           \/ Cardinality(Occupants(bk.new[NewBucketOf[p.addr]])) < NewBucketSize
           \/ v \in Occupants(bk.new[NewBucketOf[p.addr]]) /\ v # IdOf[p.addr]
    PROVE  Bounded(nb)
<1>1. NewBucketOf[p.addr] \in NewBuckets /\ IdOf[p.addr] \in Ids
  BY AddressTypes
<1>2. ASSUME NEW b \in NewBuckets
      PROVE  Cardinality(Occupants(nb.new[b])) <= NewBucketSize
  <2>1. CASE b = NewBucketOf[p.addr]
    <3> DEFINE i == IdOf[p.addr]
               old == bk.new[b]
               new == nb.new[b]
    <3>1. new[i] = e
      BY <1>1, <2>1 DEF NewWrite
    <3>2. BucketWrite(old, new, i, v)
      BY <2>1 DEF NewWrite, BucketWrite
    <3>3. HasRoom(old, new, i, v, NewBucketSize)
      BY <2>1, <3>1 DEF Bounded, HasRoom, InNew, NewSlot
    <3>4. i \in Ids /\ NewBucketSize \in Nat
      BY <1>1, BookAssumption DEF BookAssumption
    <3> HIDE DEF i, old, new
    <3>5. Cardinality(Occupants(new)) <= NewBucketSize
      BY <3>2, <3>3, <3>4, BucketStaysBounded
    <3>6. QED
      BY <3>5 DEF new
  <2>2. CASE b # NewBucketOf[p.addr]
    <3>1. Occupants(nb.new[b]) = Occupants(bk.new[b])
      BY <2>2 DEF NewWrite, Occupants
    <3>2. QED
      BY <3>1 DEF Bounded
  <2>3. QED
    BY <2>1, <2>2
<1>3. QED
  BY <1>2 DEF Bounded, NewWrite

\* The same for a write of the tried list.
LEMMA TriedWriteBounded ==
    ASSUME NEW bk \in Book, NEW nb, NEW p \in PeerInfo, NEW e, NEW v \in Ids,
           TriedWrite(bk, nb, p, e, v), Bounded(bk),
           \/ e = Absent
           \/ InTried(bk, p)
           \/ Cardinality(Occupants(bk.tried[TriedBucketOf[p.addr]])) < TriedBucketSize
           \/ v \in Occupants(bk.tried[TriedBucketOf[p.addr]]) /\ v # IdOf[p.addr]
    PROVE  Bounded(nb)
<1>1. TriedBucketOf[p.addr] \in TriedBuckets /\ IdOf[p.addr] \in Ids
  BY AddressTypes
<1>2. ASSUME NEW b \in TriedBuckets
      PROVE  Cardinality(Occupants(nb.tried[b])) <= TriedBucketSize
  <2>1. CASE b = TriedBucketOf[p.addr]
    <3> DEFINE i == IdOf[p.addr]
               old == bk.tried[b]
               new == nb.tried[b]
    <3>1. new[i] = e
      BY <1>1, <2>1 DEF TriedWrite
    <3>2. BucketWrite(old, new, i, v)
      BY <2>1 DEF TriedWrite, BucketWrite
    <3>3. HasRoom(old, new, i, v, TriedBucketSize)
      BY <2>1, <3>1 DEF Bounded, HasRoom, InTried, TriedSlot
    <3>4. i \in Ids /\ TriedBucketSize \in Nat
      BY <1>1, BookAssumption DEF BookAssumption
    <3> HIDE DEF i, old, new
    <3>5. Cardinality(Occupants(new)) <= TriedBucketSize
      BY <3>2, <3>3, <3>4, BucketStaysBounded
    <3>6. QED
      BY <3>5 DEF new
  <2>2. CASE b # TriedBucketOf[p.addr]
    <3>1. Occupants(nb.tried[b]) = Occupants(bk.tried[b])
      BY <2>2 DEF TriedWrite, Occupants
    <3>2. QED
      BY <3>1 DEF Bounded
  <2>3. QED
    BY <2>1, <2>2
<1>3. QED
  BY <1>2 DEF Bounded, TriedWrite

\* With normalized addresses, a peer that a lookup does not find in a list has no
\* entry in any bucket of that list.
LEMMA LookupIsComplete ==
    ASSUME NEW bk \in Book, NEW p \in PeerInfo, Filed(bk), Canonical
    PROVE  /\ ~InNew(bk, p) => \A b \in NewBuckets : bk.new[b][IdOf[p.addr]] = Absent
           /\ ~InTried(bk, p) => \A b \in TriedBuckets : bk.tried[b][IdOf[p.addr]] = Absent
<1>1. p.addr \in Forms /\ IdOf[p.addr] \in Ids
  BY AddressTypes
<1>2. ASSUME NEW b \in NewBuckets, bk.new[b][IdOf[p.addr]] # Absent
      PROVE  InNew(bk, p)
  <2> DEFINE f == bk.new[b][IdOf[p.addr]].peerInfo.addr
  <2>1. NewBucketOf[f] = b /\ IdOf[f] = IdOf[p.addr]
    BY SMTT(30), <1>1, <1>2 DEF Filed
  <2>2. f \in Forms
    BY <1>1, <1>2 DEF Book, NewBucket, NewEntry, PeerInfo
  <2>3. NewBucketOf[p.addr] = b
    BY <1>1, <2>1, <2>2 DEF Canonical
  <2>4. QED
    BY <1>2, <2>3 DEF InNew, NewSlot
<1>3. ASSUME NEW b \in TriedBuckets, bk.tried[b][IdOf[p.addr]] # Absent
      PROVE  InTried(bk, p)
  <2> DEFINE f == bk.tried[b][IdOf[p.addr]].peerInfo.addr
  <2>1. TriedBucketOf[f] = b /\ IdOf[f] = IdOf[p.addr]
    BY <1>1, <1>3 DEF Filed
  <2>2. f \in Forms
    BY <1>1, <1>3 DEF Book, TriedBucket, TriedEntry, PeerInfo
  <2>3. TriedBucketOf[p.addr] = b
    BY <1>1, <2>1, <2>2 DEF Canonical
  <2>4. QED
    BY <1>3, <2>3 DEF InTried, TriedSlot
<1>4. QED
  BY <1>2, <1>3

\* With normalized addresses a peer has one bucket, hence one entry, per list.
LEMMA FiledIsSingle ==
    ASSUME NEW bk \in Book, Filed(bk), Canonical
    PROVE  Single(bk)
<1>1. ASSUME NEW b \in NewBuckets, NEW c \in NewBuckets, NEW i \in Ids,
             bk.new[b][i] # Absent, bk.new[c][i] # Absent
      PROVE  b = c
  <2>1. /\ bk.new[b][i].peerInfo.addr \in Forms
        /\ bk.new[c][i].peerInfo.addr \in Forms
    BY <1>1 DEF Book, NewBucket, NewEntry, PeerInfo
  <2>2. QED
    BY <1>1, <2>1 DEF Filed, Canonical
<1>2. ASSUME NEW b \in TriedBuckets, NEW c \in TriedBuckets, NEW i \in Ids,
             bk.tried[b][i] # Absent, bk.tried[c][i] # Absent
      PROVE  b = c
  <2>1. /\ bk.tried[b][i].peerInfo.addr \in Forms
        /\ bk.tried[c][i].peerInfo.addr \in Forms
    BY <1>2 DEF Book, TriedBucket, TriedEntry, PeerInfo
  <2>2. QED
    BY <1>2, <2>1 DEF Filed, Canonical
<1>3. QED
  BY <1>1, <1>2 DEF Single

\* A write of the new list keeps the lists disjoint unless it adds a tried peer.
LEMMA NewWriteDisjoint ==
    ASSUME NEW bk \in Book, NEW nb, NEW p \in PeerInfo, NEW e, NEW v,
           NewWrite(bk, nb, p, e, v), Filed(bk), Canonical, Disjoint(bk),
           e # Absent => ~InTried(bk, p)
    PROVE  Disjoint(nb)
<1>1. e # Absent => \A c \in TriedBuckets : bk.tried[c][IdOf[p.addr]] = Absent
  BY LookupIsComplete
<1>2. QED
  BY <1>1, AddressTypes DEF NewWrite, Disjoint

\* A write of the tried list keeps the lists disjoint unless it adds a new-list peer.
LEMMA TriedWriteDisjoint ==
    ASSUME NEW bk \in Book, NEW nb, NEW p \in PeerInfo, NEW e, NEW v,
           TriedWrite(bk, nb, p, e, v), Filed(bk), Canonical, Disjoint(bk),
           e # Absent => ~InNew(bk, p)
    PROVE  Disjoint(nb)
<1>1. e # Absent => \A c \in NewBuckets : bk.new[c][IdOf[p.addr]] = Absent
  BY LookupIsComplete
<1>2. QED
  BY <1>1, AddressTypes DEF TriedWrite, Disjoint

-----------------------------------------------------------------------------
\* A sound book stays sound under a write that fits.
LEMMA NewWriteSound ==
    ASSUME NEW bk, Sound(bk), NEW nb, NEW p \in PeerInfo, NEW e, NEW v \in Ids,
           NewWrite(bk, nb, p, e, v),
           e # Absent => e.peerInfo.addr = p.addr /\ ~InTried(bk, p),
           \/ e = Absent
           \/ InNew(bk, p)
           \/ Cardinality(Occupants(bk.new[NewBucketOf[p.addr]])) < NewBucketSize
           \/ v \in Occupants(bk.new[NewBucketOf[p.addr]]) /\ v # IdOf[p.addr]
    PROVE  Sound(nb)
<1>1. bk \in Book /\ Bounded(bk) /\ Filed(bk) /\ (Canonical => Disjoint(bk))
  BY DEF Sound
<1>2. nb \in Book
  BY DEF NewWrite
<1>3. Bounded(nb)
  BY <1>1, NewWriteBounded
<1>4. Filed(nb)
  BY <1>1, NewWriteFiled
<1>5. Canonical => Disjoint(nb)
  BY <1>1, NewWriteDisjoint
<1>6. QED
  BY <1>2, <1>3, <1>4, <1>5 DEF Sound

\* The same for a write of the tried list.
LEMMA TriedWriteSound ==
    ASSUME NEW bk, Sound(bk), NEW nb, NEW p \in PeerInfo, NEW e, NEW v \in Ids,
           TriedWrite(bk, nb, p, e, v),
           e # Absent => e.peerInfo.addr = p.addr /\ (~InNew(bk, p) \/ InTried(bk, p)),
           \/ e = Absent
           \/ InTried(bk, p)
           \/ Cardinality(Occupants(bk.tried[TriedBucketOf[p.addr]])) < TriedBucketSize
           \/ v \in Occupants(bk.tried[TriedBucketOf[p.addr]]) /\ v # IdOf[p.addr]
    PROVE  Sound(nb)
<1>1. bk \in Book /\ Bounded(bk) /\ Filed(bk) /\ (Canonical => Disjoint(bk))
  BY DEF Sound
<1>2. nb \in Book
  BY DEF TriedWrite
<1>3. Bounded(nb)
  BY <1>1, TriedWriteBounded
<1>4. Filed(nb)
  BY <1>1, TriedWriteFiled
<1>5. Canonical => Disjoint(nb)
  <2>1. Canonical /\ InTried(bk, p) => ~InNew(bk, p)
    BY <1>1, AddressTypes DEF Disjoint, InNew, InTried, NewSlot, TriedSlot
  <2>2. QED
    BY <1>1, <2>1, TriedWriteDisjoint
<1>6. QED
  BY <1>2, <1>3, <1>4, <1>5 DEF Sound

\* What the new list's addPeer does to a peer it does not hold: one write, into
\* a bucket with room or over an occupant.
LEMMA NewListAddWrites ==
    ASSUME NEW bk \in Book, NEW p \in PeerInfo, NEW nb \in NewListAdd(bk, p), ~InNew(bk, p)
    PROVE  \E v \in Ids :
             /\ NewWrite(bk, nb, p, [peerInfo |-> p, aged |-> FALSE], v)
             /\ \/ /\ v = IdOf[p.addr]
                   /\ Cardinality(Occupants(bk.new[NewBucketOf[p.addr]])) < NewBucketSize
                \/ /\ v \in Occupants(bk.new[NewBucketOf[p.addr]])
                   /\ v # IdOf[p.addr]
<1> DEFINE b == bk.new[NewBucketOf[p.addr]]
           e == [peerInfo |-> p, aged |-> FALSE]
<1>1. e \in NewEntry /\ e \in NewEntry \cup {Absent} /\ IdOf[p.addr] \in Ids
  BY AddressTypes DEF NewEntry
<1>2. CASE Cardinality(Occupants(b)) < NewBucketSize
  <2>1. nb = SetNew(bk, p, e)
    BY <1>2 DEF NewListAdd
  <2>2. NewWrite(bk, nb, p, e, IdOf[p.addr])
    BY <1>1, <2>1, SetNewWrites
  <2>3. QED
    BY <1>1, <1>2, <2>2
<1>3. CASE ~(Cardinality(Occupants(b)) < NewBucketSize)
  <2>1. PICK v \in NewVictims(b) :
           nb = [bk EXCEPT !.new[NewBucketOf[p.addr]] = Place(b, v, IdOf[p.addr], e)]
    BY <1>3 DEF NewListAdd
  <2>2. v \in Occupants(b) /\ v \in Ids
    BY DEF NewVictims, Occupants
  <2>3. v # IdOf[p.addr]
    BY <2>2 DEF InNew, NewSlot, Occupants
  <2>4. NewWrite(bk, nb, p, e, v)
    BY <1>1, <2>1, <2>2, PlaceNewWrites
  <2>5. QED
    BY <2>2, <2>3, <2>4
<1>4. QED
  BY <1>2, <1>3

\* The same for the tried list.
LEMMA TriedListAddWrites ==
    ASSUME NEW bk \in Book, NEW p \in PeerInfo, NEW nb \in TriedListAdd(bk, p), ~InTried(bk, p)
    PROVE  \E v \in Ids :
             /\ TriedWrite(bk, nb, p, [peerInfo |-> p, failures |-> 0], v)
             /\ \/ /\ v = IdOf[p.addr]
                   /\ Cardinality(Occupants(bk.tried[TriedBucketOf[p.addr]])) < TriedBucketSize
                \/ /\ v \in Occupants(bk.tried[TriedBucketOf[p.addr]])
                   /\ v # IdOf[p.addr]
<1> DEFINE b == bk.tried[TriedBucketOf[p.addr]]
           e == [peerInfo |-> p, failures |-> 0]
<1>1. e \in TriedEntry /\ e \in TriedEntry \cup {Absent} /\ IdOf[p.addr] \in Ids
  BY AddressTypes, BookAssumption DEF TriedEntry, BookAssumption
<1>2. CASE Cardinality(Occupants(b)) < TriedBucketSize
  <2>1. nb = SetTried(bk, p, e)
    BY <1>2 DEF TriedListAdd
  <2>2. TriedWrite(bk, nb, p, e, IdOf[p.addr])
    BY <1>1, <2>1, SetTriedWrites
  <2>3. QED
    BY <1>1, <1>2, <2>2
<1>3. CASE ~(Cardinality(Occupants(b)) < TriedBucketSize)
  <2>1. PICK v \in TriedVictims(b) :
           nb = [bk EXCEPT !.tried[TriedBucketOf[p.addr]] = Place(b, v, IdOf[p.addr], e)]
    BY <1>3 DEF TriedListAdd
  <2>2. v \in Occupants(b) /\ v \in Ids
    BY DEF TriedVictims, Occupants
  <2>3. v # IdOf[p.addr]
    BY <2>2 DEF InTried, TriedSlot, Occupants
  <2>4. TriedWrite(bk, nb, p, e, v)
    BY <1>1, <2>1, <2>2, PlaceTriedWrites
  <2>5. QED
    BY <2>2, <2>3, <2>4
<1>4. QED
  BY <1>2, <1>3

-----------------------------------------------------------------------------
\* The book starts sound.
LEMMA EmptyBookSound == Sound(EmptyBook)
<1>1. EmptyBook \in Book
  BY DEF EmptyBook, Book, NewBucket, TriedBucket
<1>2. /\ \A b \in NewBuckets   : Occupants(EmptyBook.new[b]) = {}
      /\ \A b \in TriedBuckets : Occupants(EmptyBook.tried[b]) = {}
  BY DEF EmptyBook, Occupants
<1>3. Bounded(EmptyBook)
  <2>1. Cardinality({}) = 0
    BY FS_EmptySet
  <2>2. /\ \A b \in NewBuckets   : Cardinality(Occupants(EmptyBook.new[b])) = 0
        /\ \A b \in TriedBuckets : Cardinality(Occupants(EmptyBook.tried[b])) = 0
    BY <1>2, <2>1, Zenon
  <2>3. NewBucketSize >= 0 /\ TriedBucketSize >= 0
    BY BookAssumption DEF BookAssumption
  <2>4. QED
    BY <2>2, <2>3 DEF Bounded
<1>4. Filed(EmptyBook) /\ Disjoint(EmptyBook)
  BY DEF EmptyBook, Filed, Disjoint
<1>5. QED
  BY <1>1, <1>3, <1>4 DEF Sound

\* PeerBook.addPeer keeps the book sound.
LEMMA AddPeerSound ==
    ASSUME NEW bk, Sound(bk), NEW p \in PeerInfo, NEW nb \in AddPeer(bk, p)
    PROVE  Sound(nb)
<1>1. CASE Known(bk, p)
  BY <1>1 DEF AddPeer
<1>2. CASE ~Known(bk, p)
  <2> DEFINE e == [peerInfo |-> p, aged |-> FALSE]
  <2>1. nb \in NewListAdd(bk, p) /\ ~InNew(bk, p) /\ ~InTried(bk, p) /\ bk \in Book
    BY <1>2 DEF AddPeer, Known, Sound
  <2>2. PICK v \in Ids :
          /\ NewWrite(bk, nb, p, e, v)
          /\ \/ Cardinality(Occupants(bk.new[NewBucketOf[p.addr]])) < NewBucketSize
             \/ v \in Occupants(bk.new[NewBucketOf[p.addr]]) /\ v # IdOf[p.addr]
    BY <2>1, NewListAddWrites
  <2>3. e.peerInfo.addr = p.addr
    OBVIOUS
  <2> HIDE DEF e
  <2>4. QED
    BY <2>1, <2>2, <2>3, NewWriteSound
<1>3. QED
  BY <1>1, <1>2

\* The entries an update or a failure writes back.
LEMMA EntryTypes ==
    ASSUME NEW bk \in Book, NEW p \in PeerInfo
    PROVE  /\ InNew(bk, p)   => NewSlot(bk, p) \in NewEntry
           /\ InTried(bk, p) => TriedSlot(bk, p) \in TriedEntry
BY AddressTypes DEF Book, NewBucket, TriedBucket, InNew, InTried, NewSlot, TriedSlot

\* PeerBook.updatePeer keeps the book sound.
LEMMA UpdatePeerSound ==
    ASSUME NEW bk, Sound(bk), NEW p \in PeerInfo
    PROVE  Sound(UpdatePeer(bk, p))
<1>1. bk \in Book /\ IdOf[p.addr] \in Ids
  BY AddressTypes DEF Sound
<1>2. CASE InTried(bk, p)
  <2> DEFINE e == [TriedSlot(bk, p) EXCEPT !.peerInfo = Merge(@, p)]
  <2>1. e \in TriedEntry /\ e.peerInfo.addr = p.addr
    BY <1>1, <1>2, EntryTypes DEF TriedEntry, PeerInfo, Merge
  <2>2. UpdatePeer(bk, p) = SetTried(bk, p, e)
    BY <1>2 DEF UpdatePeer
  <2> HIDE DEF e
  <2>3. TriedWrite(bk, UpdatePeer(bk, p), p, e, IdOf[p.addr])
    BY <1>1, <2>1, <2>2, SetTriedWrites
  <2>4. QED
    BY <1>1, <1>2, <2>1, <2>3, TriedWriteSound
<1>3. CASE ~InTried(bk, p) /\ InNew(bk, p)
  <2> DEFINE e == [NewSlot(bk, p) EXCEPT !.peerInfo = Merge(@, p)]
  <2>1. e \in NewEntry /\ e.peerInfo.addr = p.addr
    BY <1>1, <1>3, EntryTypes DEF NewEntry, PeerInfo, Merge
  <2>2. UpdatePeer(bk, p) = SetNew(bk, p, e)
    BY <1>3 DEF UpdatePeer
  <2> HIDE DEF e
  <2>3. NewWrite(bk, UpdatePeer(bk, p), p, e, IdOf[p.addr])
    BY <1>1, <2>1, <2>2, SetNewWrites
  <2>4. QED
    BY <1>1, <1>3, <2>1, <2>3, NewWriteSound
<1>4. CASE ~InTried(bk, p) /\ ~InNew(bk, p)
  BY <1>4 DEF UpdatePeer
<1>5. QED
  BY <1>2, <1>3, <1>4

\* Dropping a peer from either list.
LEMMA DropSound ==
    ASSUME NEW bk, Sound(bk), NEW p \in PeerInfo
    PROVE  Sound(SetNew(bk, p, Absent)) /\ Sound(SetTried(bk, p, Absent))
<1>1. bk \in Book /\ IdOf[p.addr] \in Ids
  BY AddressTypes DEF Sound
<1>2. NewWrite(bk, SetNew(bk, p, Absent), p, Absent, IdOf[p.addr])
  BY <1>1, SetNewWrites
<1>3. TriedWrite(bk, SetTried(bk, p, Absent), p, Absent, IdOf[p.addr])
  BY <1>1, SetTriedWrites
<1>4. QED
  BY <1>1, <1>2, <1>3, NewWriteSound, TriedWriteSound

\* PeerBook.removePeer keeps the book sound.
LEMMA RemovePeerSound ==
    ASSUME NEW bk, Sound(bk), NEW p \in PeerInfo
    PROVE  Sound(RemovePeer(bk, p))
BY DropSound DEF RemovePeer

\* PeerBook.upgradePeer keeps the book sound.
LEMMA UpgradePeerSound ==
    ASSUME NEW bk, Sound(bk), NEW p \in PeerInfo, NEW nb \in UpgradePeer(bk, p)
    PROVE  Sound(nb)
<1>1. CASE InTried(bk, p) \/ ~InNew(bk, p)
  BY <1>1 DEF UpgradePeer
<1>2. CASE ~InTried(bk, p) /\ InNew(bk, p)
  <2> DEFINE mid == SetNew(bk, p, Absent)
             e == [peerInfo |-> p, failures |-> 0]
  <2>1. Sound(mid) /\ mid \in Book
    BY DropSound DEF Sound
  <2>2. NewWrite(bk, mid, p, Absent, IdOf[p.addr])
    BY SetNewWrites DEF Sound
  <2>3. ~InNew(mid, p) /\ ~InTried(mid, p)
    BY <1>2, <2>2, AddressTypes DEF NewWrite, InNew, InTried, NewSlot, TriedSlot
  <2>4. nb \in TriedListAdd(mid, p)
    BY <1>2 DEF UpgradePeer
  <2> HIDE DEF mid
  <2>5. PICK v \in Ids :
          /\ TriedWrite(mid, nb, p, e, v)
          /\ \/ Cardinality(Occupants(mid.tried[TriedBucketOf[p.addr]])) < TriedBucketSize
             \/ v \in Occupants(mid.tried[TriedBucketOf[p.addr]]) /\ v # IdOf[p.addr]
    BY <2>1, <2>3, <2>4, TriedListAddWrites
  <2>6. e.peerInfo.addr = p.addr
    OBVIOUS
  <2> HIDE DEF e
  <2>7. QED
    BY <2>1, <2>3, <2>5, <2>6, TriedWriteSound
<1>3. QED
  BY <1>1, <1>2

\* PeerBook.downgradePeer keeps the book sound.
LEMMA DowngradePeerSound ==
    ASSUME NEW bk, Sound(bk), NEW p \in PeerInfo, NEW nb \in DowngradePeer(bk, p)
    PROVE  Sound(nb)
<1>1. CASE InNew(bk, p)
  BY <1>1, DropSound DEF DowngradePeer
<1>2. CASE ~InNew(bk, p) /\ InTried(bk, p)
  <2>1. nb \in FailTried(bk, p)
    BY <1>2 DEF DowngradePeer
  <2>2. CASE TriedSlot(bk, p).failures + 1 >= MaxReconnectTries
    BY <2>1, <2>2, DropSound, AddPeerSound DEF FailTried
  <2>3. CASE ~(TriedSlot(bk, p).failures + 1 >= MaxReconnectTries)
    <3> DEFINE e == [TriedSlot(bk, p) EXCEPT !.failures = @ + 1]
               q == [addr |-> TriedSlot(bk, p).peerInfo.addr, detailed |-> TRUE]
    <3>1. bk \in Book /\ TriedSlot(bk, p) \in TriedEntry
      BY <1>2, EntryTypes DEF Sound
    <3>2. e \in TriedEntry /\ e.peerInfo = TriedSlot(bk, p).peerInfo
      BY <2>3, <3>1, BookAssumption DEF TriedEntry, BookAssumption
    <3>3. q \in PeerInfo /\ TriedBucketOf[q.addr] = TriedBucketOf[p.addr]
          /\ IdOf[q.addr] = IdOf[p.addr]
      <4>1. TriedSlot(bk, p).peerInfo.addr \in Forms
        BY <3>1 DEF TriedEntry, PeerInfo
      <4>2. TriedBucketOf[p.addr] \in TriedBuckets /\ IdOf[p.addr] \in Ids
        BY AddressTypes
      <4>3. /\ TriedBucketOf[TriedSlot(bk, p).peerInfo.addr] = TriedBucketOf[p.addr]
            /\ IdOf[TriedSlot(bk, p).peerInfo.addr] = IdOf[p.addr]
        BY <1>2, <4>2 DEF Sound, Filed, InTried, TriedSlot
      <4>4. q \in PeerInfo /\ q.addr = TriedSlot(bk, p).peerInfo.addr
        BY <4>1 DEF PeerInfo
      <4>5. QED
        BY <4>3, <4>4
    <3>4. nb = SetTried(bk, p, e)
      BY <2>1, <2>3 DEF FailTried
    <3> HIDE DEF e
    <3>5. TriedWrite(bk, nb, q, e, IdOf[q.addr])
      <4>1. TriedWrite(bk, nb, p, e, IdOf[p.addr])
        BY <3>1, <3>2, <3>4, SetTriedWrites
      <4>2. QED
        BY <3>3, <4>1 DEF TriedWrite
    <3>6. InTried(bk, q) /\ e.peerInfo.addr = q.addr /\ IdOf[q.addr] \in Ids
      BY <1>2, <3>2, <3>3, AddressTypes DEF InTried, TriedSlot
    <3> HIDE DEF q
    <3>7. QED
      BY <3>3, <3>5, <3>6, TriedWriteSound
  <2>4. QED
    BY <2>2, <2>3
<1>3. CASE ~InNew(bk, p) /\ ~InTried(bk, p)
  BY <1>3 DEF DowngradePeer
<1>4. QED
  BY <1>1, <1>2, <1>3

-----------------------------------------------------------------------------
(***************************************************************************)
(* Each operation as writes: which slot it fills, with what, and who has   *)
(* to leave.                                                               *)
(***************************************************************************)

\* updatePeer rewrites the one entry it finds and keeps its age or its count.
LEMMA UpdatePeerWrites ==
    ASSUME NEW bk \in Book, NEW p \in PeerInfo
    PROVE  \/ UpdatePeer(bk, p) = bk
           \/ /\ InTried(bk, p)
              /\ \E e \in TriedEntry :
                   /\ e.failures = TriedSlot(bk, p).failures
                   /\ TriedWrite(bk, UpdatePeer(bk, p), p, e, IdOf[p.addr])
           \/ /\ InNew(bk, p)
              /\ \E e \in NewEntry : NewWrite(bk, UpdatePeer(bk, p), p, e, IdOf[p.addr])
<1>1. CASE InTried(bk, p)
  <2> DEFINE e == [TriedSlot(bk, p) EXCEPT !.peerInfo = Merge(@, p)]
  <2>1. e \in TriedEntry /\ e.failures = TriedSlot(bk, p).failures
    BY <1>1, EntryTypes DEF TriedEntry, PeerInfo, Merge
  <2>2. UpdatePeer(bk, p) = SetTried(bk, p, e)
    BY <1>1 DEF UpdatePeer
  <2> HIDE DEF e
  <2> QED
    BY <1>1, <2>1, <2>2, SetTriedWrites
<1>2. CASE ~InTried(bk, p) /\ InNew(bk, p)
  <2> DEFINE e == [NewSlot(bk, p) EXCEPT !.peerInfo = Merge(@, p)]
  <2>1. e \in NewEntry
    BY <1>2, EntryTypes DEF NewEntry, PeerInfo, Merge
  <2>2. UpdatePeer(bk, p) = SetNew(bk, p, e)
    BY <1>2 DEF UpdatePeer
  <2> HIDE DEF e
  <2> QED
    BY <1>2, <2>1, <2>2, SetNewWrites
<1> QED
  BY <1>1, <1>2 DEF UpdatePeer

\* removePeer empties the one slot it finds.
LEMMA RemovePeerWrites ==
    ASSUME NEW bk \in Book, NEW p \in PeerInfo
    PROVE  \/ RemovePeer(bk, p) = bk
           \/ TriedWrite(bk, RemovePeer(bk, p), p, Absent, IdOf[p.addr])
           \/ NewWrite(bk, RemovePeer(bk, p), p, Absent, IdOf[p.addr])
BY SetNewWrites, SetTriedWrites DEF RemovePeer

\* upgradePeer empties the new slot and fills the tried one with a fresh count.
LEMMA UpgradePeerWrites ==
    ASSUME NEW bk \in Book, NEW p \in PeerInfo, NEW nb \in UpgradePeer(bk, p), nb # bk
    PROVE  /\ InNew(bk, p) /\ ~InTried(bk, p)
           /\ \E mid \in Book, v \in Ids :
                /\ NewWrite(bk, mid, p, Absent, IdOf[p.addr])
                /\ TriedWrite(mid, nb, p, [peerInfo |-> p, failures |-> 0], v)
                /\ v = IdOf[p.addr] \/ v \in Occupants(mid.tried[TriedBucketOf[p.addr]])
<1> DEFINE mid == SetNew(bk, p, Absent)
<1>1. InNew(bk, p) /\ ~InTried(bk, p) /\ nb \in TriedListAdd(mid, p)
  BY DEF UpgradePeer
<1>2. NewWrite(bk, mid, p, Absent, IdOf[p.addr]) /\ mid \in Book
  BY SetNewWrites DEF NewWrite
<1>3. ~InTried(mid, p)
  BY <1>1, <1>2 DEF NewWrite, InTried, TriedSlot
<1> HIDE DEF mid
<1>4. \E v \in Ids :
        /\ TriedWrite(mid, nb, p, [peerInfo |-> p, failures |-> 0], v)
        /\ v = IdOf[p.addr] \/ v \in Occupants(mid.tried[TriedBucketOf[p.addr]])
  BY <1>1, <1>2, <1>3, TriedListAddWrites
<1> QED
  BY <1>1, <1>2, <1>4

\* A failure that does not drop a tried peer adds one to its count.
Counted(bk, nb, p) ==
    /\ TriedSlot(bk, p).failures + 1 < MaxReconnectTries
    /\ \E e \in TriedEntry :
         /\ e.failures = TriedSlot(bk, p).failures + 1
         /\ TriedWrite(bk, nb, p, e, IdOf[p.addr])

\* One that does empties its slot and goes on with addPeer.
Dropped(bk, nb, p) ==
    /\ TriedSlot(bk, p).failures + 1 = MaxReconnectTries
    /\ \E mid \in Book :
         /\ TriedWrite(bk, mid, p, Absent, IdOf[p.addr])
         /\ nb \in AddPeer(mid, p)

\* downgradePeer empties the new slot, or counts a failure in the tried one, or
\* drops the peer there and adds it anew.
LEMMA DowngradePeerWrites ==
    ASSUME NEW bk \in Book, NEW p \in PeerInfo, NEW nb \in DowngradePeer(bk, p)
    PROVE  \/ nb = bk /\ ~InTried(bk, p)
           \/ InNew(bk, p) /\ NewWrite(bk, nb, p, Absent, IdOf[p.addr])
           \/ InTried(bk, p) /\ (Counted(bk, nb, p) \/ Dropped(bk, nb, p))
<1>1. CASE InNew(bk, p)
  BY <1>1, SetNewWrites DEF DowngradePeer
<1>2. CASE ~InNew(bk, p) /\ InTried(bk, p)
  <2>1. nb \in FailTried(bk, p) /\ TriedSlot(bk, p) \in TriedEntry
    BY <1>2, EntryTypes DEF DowngradePeer
  <2>2. /\ TriedSlot(bk, p).failures \in Nat
        /\ TriedSlot(bk, p).failures + 1 <= MaxReconnectTries
        /\ MaxReconnectTries \in Nat
    BY <2>1, BookAssumption DEF TriedEntry, BookAssumption
  <2>3. CASE TriedSlot(bk, p).failures + 1 >= MaxReconnectTries
    <3> DEFINE mid == SetTried(bk, p, Absent)
    <3>1. nb \in AddPeer(mid, p)
      BY <2>1, <2>3 DEF FailTried
    <3>2. TriedWrite(bk, mid, p, Absent, IdOf[p.addr]) /\ mid \in Book
      BY SetTriedWrites DEF TriedWrite
    <3>3. TriedSlot(bk, p).failures + 1 = MaxReconnectTries
      BY <2>2, <2>3
    <3> HIDE DEF mid
    <3> QED
      BY <1>2, <3>1, <3>2, <3>3 DEF Dropped
  <2>4. CASE ~(TriedSlot(bk, p).failures + 1 >= MaxReconnectTries)
    <3> DEFINE e == [TriedSlot(bk, p) EXCEPT !.failures = @ + 1]
    <3>1. e \in TriedEntry /\ e.failures = TriedSlot(bk, p).failures + 1
      BY <2>1, <2>2, <2>4 DEF TriedEntry
    <3>2. nb = SetTried(bk, p, e)
      BY <2>1, <2>4 DEF FailTried
    <3>3. TriedSlot(bk, p).failures + 1 < MaxReconnectTries
      BY <2>2, <2>4
    <3> HIDE DEF e
    <3>4. TriedWrite(bk, nb, p, e, IdOf[p.addr])
      BY <3>1, <3>2, SetTriedWrites
    <3> QED
      BY <1>2, <3>1, <3>3, <3>4 DEF Counted
  <2> QED
    BY <2>3, <2>4
<1>3. CASE ~InNew(bk, p) /\ ~InTried(bk, p)
  BY <1>3 DEF DowngradePeer
<1> QED
  BY <1>1, <1>2, <1>3

-----------------------------------------------------------------------------
\* Who leaves a bucket when somebody enters it: of a full bucket somebody who
\* has been there for the threshold time, if there is anybody.
EvictsStale(old, new) ==
    Occupants(new) \ Occupants(old) # {} =>
        \A v \in Occupants(old) \ Occupants(new) :
            /\ Cardinality(Occupants(old)) = NewBucketSize
            /\ old[v].aged \/ \A i \in Occupants(old) : ~old[i].aged

\* The new list's addPeer chooses its victim so.
LEMMA NewListAddEvicts ==
    ASSUME NEW bk \in Book, Bounded(bk), NEW p \in PeerInfo, ~InNew(bk, p),
           NEW nb \in NewListAdd(bk, p), NEW b \in NewBuckets
    PROVE  EvictsStale(bk.new[b], nb.new[b])
<1> DEFINE B == NewBucketOf[p.addr]
           I == IdOf[p.addr]
           e == [peerInfo |-> p, aged |-> FALSE]
<1>1. B \in NewBuckets /\ I \in Ids
  BY AddressTypes
<1>2. e \in NewEntry /\ e # Absent
  <2>1. e \in NewEntry
    BY DEF NewEntry
  <2> QED
    BY <2>1, AbsentAssumption DEF AbsentAssumption
<1>3. CASE Cardinality(Occupants(bk.new[B])) < NewBucketSize
  <2>1. nb = SetNew(bk, p, e)
    BY <1>3 DEF NewListAdd
  <2> HIDE DEF e
  <2>2. NewWrite(bk, nb, p, e, I)
    BY <1>2, <2>1, SetNewWrites
  <2>3. \A i \in Ids : bk.new[b][i] # Absent => nb.new[b][i] # Absent
    BY <1>2, <2>2 DEF NewWrite
  <2>4. Occupants(bk.new[b]) \ Occupants(nb.new[b]) = {}
    BY <2>3 DEF Occupants
  <2> QED
    BY <2>4 DEF EvictsStale
<1>4. CASE ~(Cardinality(Occupants(bk.new[B])) < NewBucketSize)
  <2>1. PICK v \in NewVictims(bk.new[B]) :
           nb = [bk EXCEPT !.new[B] = Place(bk.new[B], v, I, e)]
    BY <1>4 DEF NewListAdd
  <2>2. /\ v \in Occupants(bk.new[B]) /\ v \in Ids
        /\ bk.new[B][v].aged \/ \A i \in Occupants(bk.new[B]) : ~bk.new[B][i].aged
    BY DEF NewVictims, Occupants
  <2> HIDE DEF e
  <2>3. NewWrite(bk, nb, p, e, v)
    BY <1>2, <2>1, <2>2, PlaceNewWrites
  <2>4. Cardinality(Occupants(bk.new[B])) = NewBucketSize
    <3>1. Cardinality(Occupants(bk.new[B])) <= NewBucketSize
      BY <1>1 DEF Bounded
    <3>2. Cardinality(Occupants(bk.new[B])) \in Nat /\ NewBucketSize \in Nat
      BY OccupantsFinite, BookAssumption DEF BookAssumption
    <3> QED
      BY <1>4, <3>1, <3>2
  <2>5. \A i \in Ids : bk.new[b][i] # Absent /\ nb.new[b][i] = Absent => b = B /\ i = v
    BY <1>2, <2>3 DEF NewWrite
  <2>6. \A i \in Occupants(bk.new[b]) \ Occupants(nb.new[b]) : b = B /\ i = v
    BY <2>5 DEF Occupants
  <2> QED
    BY <2>2, <2>4, <2>6 DEF EvictsStale
<1> QED
  BY <1>3, <1>4

\* Nobody enters where nothing is written but over an entry, or out of the list.
LEMMA NobodyEnters ==
    ASSUME NEW bk, NEW nb, NEW b \in NewBuckets,
           \A i \in Ids : bk.new[b][i] = Absent => nb.new[b][i] = Absent
    PROVE  EvictsStale(bk.new[b], nb.new[b])
BY DEF EvictsStale, Occupants

\* addPeer, also on a book that has lost a tried peer.
LEMMA AddPeerEvicts ==
    ASSUME NEW bk \in Book, Bounded(bk), NEW p \in PeerInfo, NEW nb \in AddPeer(bk, p),
           NEW b \in NewBuckets
    PROVE  EvictsStale(bk.new[b], nb.new[b])
<1>1. CASE Known(bk, p)
  BY <1>1, NobodyEnters DEF AddPeer
<1>2. CASE ~Known(bk, p)
  BY <1>2, NewListAddEvicts DEF AddPeer, Known
<1> QED
  BY <1>1, <1>2
=============================================================================
