-------------------------- MODULE OutboundPool_proofs --------------------------
(***************************************************************************)
(* Safety of the outbound pool for any number of peers, any limit and any  *)
(* host assignment.  The inductive invariant adds to the properties that   *)
(* the book is sound, that a disconnected peer still in the map has a close *)
(* event on its way, and that removed objects keep no event but a connect. *)
(* The last part is about the book: who may cost a whitelisted peer its    *)
(* place there.                                                            *)
(***************************************************************************)
EXTENDS OutboundPool, PeerLists_proofs

\* What is true of the object in the map.
PeerInv(c) ==
    /\ c \in Conn
    /\ c.bound
    /\ (c.sock = "closed" \/ ~c.active) => "close" \in c.pending

\* What is true of an object removed from the map.
DroppedInv(c) ==
    /\ c \in Conn
    /\ ~c.bound /\ ~c.active
    /\ c.pending \subseteq {"connect"}

EntryInv(e) ==
    /\ e \in Entry
    /\ e.peer # NoPeer => PeerInv(e.peer)
    /\ \A c \in e.dropped : DroppedInv(c)

MapInv == pool \in [Ids -> Entry] /\ \A i \in Ids : EntryInv(pool[i])

PoolInv == Sound(book) /\ MapInv /\ OutboundLimit

-----------------------------------------------------------------------------
\* A peer's info is a peer info.
LEMMA InfoType == ASSUME NEW i \in Ids PROVE Info(i) \in PeerInfo
BY PoolAssumption DEF Info, PeerInfo

\* An object is not the mark of an empty slot.
LEMMA ConnNotNone == ASSUME NEW c \in Conn PROVE c # NoPeer
BY PoolAssumption

\* A new object satisfies the invariant of the map's objects.
LEMMA FreshInv == PeerInv(Fresh)
BY DEF PeerInv, Fresh, Conn, Events

\* Objects stay objects, and what each transformation does to the fields.
LEMMA ConnOps ==
    ASSUME NEW c \in Conn
    PROVE  /\ \A es \in SUBSET Events : Announce(c, es) \in Conn
           /\ Closed(c) \in Conn
           /\ Disconnect(c) \in Conn
           /\ Transmit(c) \in Conn
           /\ Unbind(c) \in Conn
           /\ \A ev \in Events : Consumed(c, ev) \in Conn
<1>1. \A es \in SUBSET Events : Announce(c, es) \in Conn
  BY DEF Announce, Conn
<1>2. {"connectAbort", "close"} \in SUBSET Events /\ {"close"} \in SUBSET Events
  BY DEF Events
<1>3. ASSUME NEW d \in Conn PROVE [d EXCEPT !.sock = "closed"] \in Conn
  BY DEF Conn
<1>4. Closed(c) \in Conn
  <2>1. Closed(c) = [Announce(c, IF c.sock = "connecting" THEN {"connectAbort", "close"}
                                 ELSE {"close"}) EXCEPT !.sock = "closed"]
    BY DEF Closed
  <2> QED BY <2>1, <1>1, <1>2, <1>3
<1>5. Disconnect(c) \in Conn
  <2>1. ASSUME NEW d \in Conn PROVE [d EXCEPT !.active = FALSE] \in Conn
    BY DEF Conn
  <2> QED BY <2>1, <1>4 DEF Disconnect
<1>6. Transmit(c) \in Conn
  BY DEF Transmit, Conn
<1>7. Unbind(c) \in Conn
  BY DEF Unbind, Conn
<1>8. \A ev \in Events : Consumed(c, ev) \in Conn
  BY DEF Consumed, Conn
<1> QED BY <1>1, <1>4, <1>5, <1>6, <1>7, <1>8

\* A closed object of the map has announced it.
LEMMA ClosedInv ==
    ASSUME NEW c, PeerInv(c)
    PROVE  PeerInv(Closed(c)) /\ Closed(c).sock = "closed" /\ Closed(c).active = c.active
<1>1. c \in Conn /\ Closed(c) \in Conn
  BY ConnOps DEF PeerInv
<1>2. Closed(c).bound = c.bound /\ Closed(c).active = c.active /\ Closed(c).sock = "closed"
  BY <1>1 DEF Closed, Announce, Conn
<1>3. "close" \in Closed(c).pending
  <2>1. CASE c.active
    BY <1>1, <2>1 DEF Closed, Announce, Conn
  <2>2. CASE ~c.active
    <3>1. Closed(c).pending = c.pending
      BY <1>1, <2>2 DEF Closed, Announce, Conn
    <3> QED BY <3>1, <2>2 DEF PeerInv
  <2> QED BY <2>1, <2>2
<1> QED BY <1>1, <1>2, <1>3 DEF PeerInv

\* A disconnected object is inactive, and its socket is closed unless it was
\* disconnected before.
LEMMA DisconnectCloses ==
    ASSUME NEW c \in Conn
    PROVE  ~Disconnect(c).active /\ (c.active => Disconnect(c).sock = "closed")
<1>1. CASE ~c.active
  BY <1>1 DEF Disconnect
<1>2. CASE c.active
  <2> DEFINE d == IF c.sock = "closed" THEN c ELSE Closed(c)
  <2>1. d \in Conn
    BY ConnOps
  <2>2. d.sock = "closed"
    <3>1. Announce(c, IF c.sock = "connecting" THEN {"connectAbort", "close"}
                      ELSE {"close"}) \in Conn
      BY ConnOps DEF Events
    <3>2. Closed(c).sock = "closed"
      BY <3>1 DEF Closed, Conn
    <3> QED BY <3>2
  <2>3. Disconnect(c) = [d EXCEPT !.active = FALSE]
    BY <1>2 DEF Disconnect
  <2> HIDE DEF d
  <2> QED BY <2>1, <2>2, <2>3 DEF Conn
<1> QED BY <1>1, <1>2

\* Disconnecting an object of the map leaves a close event on its way.
LEMMA DisconnectInv ==
    ASSUME NEW c, PeerInv(c)
    PROVE  PeerInv(Disconnect(c))
<1>1. c \in Conn /\ Disconnect(c) \in Conn
  BY ConnOps DEF PeerInv
<1>2. CASE ~c.active
  BY <1>2 DEF Disconnect
<1>3. CASE c.active
  <2> DEFINE d == IF c.sock = "closed" THEN c ELSE Closed(c)
  <2>1. PeerInv(d) /\ d.sock = "closed"
    BY ClosedInv
  <2>2. Disconnect(c) = [d EXCEPT !.active = FALSE]
    BY <1>3 DEF Disconnect
  <2>3. "close" \in d.pending /\ d \in Conn
    BY <2>1 DEF PeerInv
  <2> HIDE DEF d
  <2>4. [d EXCEPT !.active = FALSE].pending = d.pending
        /\ [d EXCEPT !.active = FALSE].bound = d.bound
    BY <2>3 DEF Conn
  <2> QED BY <1>1, <2>1, <2>2, <2>3, <2>4 DEF PeerInv
<1> QED BY <1>2, <1>3

\* Sending through an object keeps its invariants.
LEMMA TransmitInv ==
    ASSUME NEW c \in Conn
    PROVE  /\ PeerInv(c) => PeerInv(Transmit(c))
           /\ DroppedInv(c) => DroppedInv(Transmit(c))
<1>1. Transmit(c) \in Conn
  BY ConnOps
<1>2. /\ Transmit(c).bound = c.bound /\ Transmit(c).active = c.active
      /\ Transmit(c).pending = c.pending
      /\ Transmit(c).sock = "closed" => c.sock = "closed"
  BY DEF Transmit, Conn
<1> QED BY <1>1, <1>2 DEF PeerInv, DroppedInv

\* Consuming an event other than close keeps the invariants.
LEMMA ConsumedInv ==
    ASSUME NEW c \in Conn, NEW ev \in {"connect", "connectAbort"}
    PROVE  /\ PeerInv(c) => PeerInv(Consumed(c, ev))
           /\ DroppedInv(c) => DroppedInv(Consumed(c, ev))
<1>1. Consumed(c, ev) \in Conn
  BY ConnOps DEF Events
<1>2. /\ Consumed(c, ev).bound = c.bound /\ Consumed(c, ev).active = c.active
      /\ Consumed(c, ev).pending = c.pending \ {ev}
      /\ Consumed(c, ev).sock = c.sock
  BY DEF Consumed, Conn
<1> QED BY <1>1, <1>2 DEF PeerInv, DroppedInv

\* An opened or closed object keeps the invariants.
LEMMA SocketInv ==
    ASSUME NEW c \in Conn
    PROVE  /\ PeerInv(c) => PeerInv([Announce(c, {"connect"}) EXCEPT !.sock = "open"])
           /\ DroppedInv(c) => DroppedInv([Announce(c, {"connect"}) EXCEPT !.sock = "open"])
           /\ PeerInv(c) => PeerInv(Closed(c))
           /\ DroppedInv(c) => DroppedInv(Closed(c))
<1> DEFINE o == [Announce(c, {"connect"}) EXCEPT !.sock = "open"]
<1>1. o \in Conn /\ Closed(c) \in Conn
  <2>1. Announce(c, {"connect"}) \in Conn
    BY ConnOps DEF Events
  <2> QED BY <2>1, ConnOps DEF Conn
<1>2. o.bound = c.bound /\ o.active = c.active /\ c.pending \subseteq o.pending /\ o.sock = "open"
  BY DEF Announce, Conn
<1>3. ~c.active => o.pending = c.pending /\ Closed(c).pending = c.pending
  BY DEF Announce, Closed, Conn
<1>4. Closed(c).bound = c.bound /\ Closed(c).active = c.active
  BY DEF Announce, Closed, Conn
<1> HIDE DEF o
<1>5. PeerInv(c) => PeerInv(o)
  BY <1>1, <1>2 DEF PeerInv
<1>6. DroppedInv(c) => DroppedInv(o) /\ DroppedInv(Closed(c))
  BY <1>1, <1>2, <1>3, <1>4 DEF DroppedInv
<1>7. PeerInv(c) => PeerInv(Closed(c))
  BY ClosedInv
<1> QED BY <1>5, <1>6, <1>7 DEF o

\* Unbinding a disconnected object makes it a removed one.
LEMMA UnbindInv ==
    ASSUME NEW c \in Conn, ~c.active
    PROVE  DroppedInv(Unbind(c)) /\ Unbind(c).sock = c.sock
<1>1. Unbind(c) \in Conn
  BY ConnOps
<1>2. /\ Unbind(c).bound = FALSE /\ Unbind(c).active = c.active
      /\ Unbind(c).pending = c.pending \cap {"connect"}
      /\ Unbind(c).sock = c.sock
  BY <1>1 DEF Unbind, Conn
<1> QED BY <1>1, <1>2 DEF DroppedInv

-----------------------------------------------------------------------------
\* An object replaced by one that satisfies the same invariant.
LEMMA BecomeInv ==
    ASSUME NEW e, EntryInv(e), NEW c \in Conn, NEW d \in Conn,
           PeerInv(c) => PeerInv(d), DroppedInv(c) => DroppedInv(d)
    PROVE  /\ EntryInv(Become(e, c, d))
           /\ Become(e, c, d).peer # NoPeer <=> e.peer # NoPeer
<1> DEFINE g == Become(e, c, d)
<1>1. /\ g.peer = IF e.peer = c THEN d ELSE e.peer
      /\ g.dropped = IF c \in e.dropped THEN Kept((e.dropped \ {c}) \cup {d}) ELSE e.dropped
      /\ g = [peer |-> g.peer, dropped |-> g.dropped]
  BY DEF Become
<1>2. e.peer \in Conn \cup {NoPeer} /\ e.dropped \in SUBSET Conn
  BY DEF EntryInv, Entry
<1>3. c # NoPeer /\ d # NoPeer
  BY ConnNotNone
<1> HIDE DEF g
<1>4. g.peer \in Conn \cup {NoPeer} /\ g.dropped \in SUBSET Conn
  BY <1>1, <1>2 DEF Kept
<1>5. g \in Entry
  BY <1>1, <1>4 DEF Entry
<1>6. g.peer # NoPeer => PeerInv(g.peer)
  BY <1>1, <1>3 DEF EntryInv
<1>7. \A x \in g.dropped : DroppedInv(x)
  BY <1>1 DEF EntryInv, Kept
<1>8. g.peer # NoPeer <=> e.peer # NoPeer
  BY <1>1, <1>3
<1>9. EntryInv(g)
  BY <1>5, <1>6, <1>7 DEF EntryInv
<1> QED BY <1>8, <1>9 DEF g

\* Removing the map's object: it is disconnected, unbound and dropped.
LEMMA RemoveInv ==
    ASSUME NEW e \in Entry, \A c \in e.dropped : DroppedInv(c)
    PROVE  /\ EntryInv(RemoveOutboundPeer(e))
           /\ RemoveOutboundPeer(e).peer = NoPeer
           /\ (e.peer # NoPeer /\ e.peer.active) =>
                 \A c \in RemoveOutboundPeer(e).dropped \ e.dropped : c.sock = "closed"
<1>1. CASE e.peer = NoPeer
  BY <1>1 DEF RemoveOutboundPeer, EntryInv
<1>2. CASE e.peer # NoPeer
  <2> DEFINE c == e.peer
             u == Unbind(Disconnect(e.peer))
             g == RemoveOutboundPeer(e)
  <2>1. c \in Conn
    BY <1>2 DEF Entry
  <2>2. Disconnect(c) \in Conn /\ ~Disconnect(c).active
        /\ (c.active => Disconnect(c).sock = "closed")
    BY <2>1, ConnOps, DisconnectCloses
  <2>3. DroppedInv(u) /\ u.sock = Disconnect(c).sock
    BY <2>2, UnbindInv
  <2>4. g = [peer |-> NoPeer, dropped |-> Kept(e.dropped \cup {u})]
    BY <1>2 DEF RemoveOutboundPeer
  <2>5. e.dropped \in SUBSET Conn
    BY DEF Entry
  <2> HIDE DEF u, g
  <2>6. u \in Conn
    BY <2>3 DEF DroppedInv
  <2>7. g \in Entry
    BY <2>4, <2>5, <2>6 DEF Entry, Kept
  <2>8. g.peer = NoPeer /\ g.dropped \subseteq e.dropped \cup {u}
    BY <2>4 DEF Kept
  <2>9. EntryInv(g)
    BY <2>3, <2>5, <2>7, <2>8 DEF EntryInv
  <2>10. c.active => \A x \in g.dropped \ e.dropped : x.sock = "closed"
    BY <2>2, <2>3, <2>8
  <2> QED BY <2>8, <2>9, <2>10 DEF g
<1> QED BY <1>1, <1>2

-----------------------------------------------------------------------------
\* Every handler leaves a sound book.
LEMMA HandlersSound ==
    ASSUME Sound(book), NEW i \in Ids
    PROVE  /\ \A b \in HandleOutboundPeerConnect(i) : Sound(b)
           /\ \A b \in HandleOutboundPeerConnectAbort(i) : Sound(b)
           /\ \A b \in HandlePeerInfoUpdate(i) : Sound(b)
           /\ Sound(HandleBanPeer(i))
           /\ \A b \in AddPeer(book, Info(i)) : Sound(b)
<1> DEFINE p == Info(i)
<1>1. p \in PeerInfo
  BY InfoType
<1> HIDE DEF p
<1>2. \A b \in AddPeer(book, p) : Sound(b)
  BY <1>1, AddPeerSound
<1>3. \A b \in UpgradePeer(book, p) : Sound(b)
  BY <1>1, UpgradePeerSound
<1>4. \A b \in AddPeer(book, p) : \A nb \in UpgradePeer(b, p) : Sound(nb)
  BY <1>1, <1>2, UpgradePeerSound
<1>5. \A b \in UpgradePeer(UpdatePeer(book, p), p) : Sound(b)
  <2>1. Sound(UpdatePeer(book, p))
    BY <1>1, UpdatePeerSound
  <2> QED BY <2>1, <1>1, UpgradePeerSound
<1>6. \A b \in DowngradePeer(book, p) : Sound(b)
  BY <1>1, DowngradePeerSound
<1>7. Sound(RemovePeer(book, p))
  BY <1>1, RemovePeerSound
<1>8. \A b \in HandleOutboundPeerConnect(i) : Sound(b)
  BY <1>3, <1>4 DEF HandleOutboundPeerConnect, p
<1>9. \A b \in HandleOutboundPeerConnectAbort(i) : Sound(b)
  BY <1>6 DEF HandleOutboundPeerConnectAbort, p
<1>10. \A b \in HandlePeerInfoUpdate(i) : Sound(b)
  BY <1>4, <1>5 DEF HandlePeerInfoUpdate, p
<1>11. Sound(HandleBanPeer(i))
  BY <1>7 DEF HandleBanPeer, p
<1> QED BY <1>2, <1>8, <1>9, <1>10, <1>11 DEF p

\* The configured book is sound.
LEMMA StartBookSound == Sound(StartBook)
<1> DEFINE N(b, i) == i \in Seeds \ (Whitelisted \cup Previous) /\ NewBucketOf[AddrOf[i]] = b
           T(b, i) == i \in Whitelisted \cup Previous /\ TriedBucketOf[AddrOf[i]] = b
           ne(i)   == [peerInfo |-> Info(i), aged |-> FALSE]
           te(i)   == [peerInfo |-> Info(i), failures |-> 0]
<1>1. ASSUME NEW i \in Ids
      PROVE  /\ ne(i) \in NewEntry /\ te(i) \in TriedEntry
             /\ ne(i).peerInfo.addr = AddrOf[i] /\ te(i).peerInfo.addr = AddrOf[i]
  <2>1. Info(i) \in PeerInfo
    BY InfoType
  <2>2. 0 \in 0 .. MaxReconnectTries - 1
    BY BookAssumption
  <2> QED BY <2>1, <2>2 DEF NewEntry, TriedEntry, Info
<1>2. ASSUME NEW i \in Ids PROVE IdOf[AddrOf[i]] = i
  BY PoolAssumption
<1>3. /\ StartBook.new = [b \in NewBuckets |-> [i \in Ids |-> IF N(b, i) THEN ne(i) ELSE Absent]]
      /\ StartBook.tried = [b \in TriedBuckets |-> [i \in Ids |-> IF T(b, i) THEN te(i) ELSE Absent]]
      /\ StartBook = [new |-> StartBook.new, tried |-> StartBook.tried]
  BY DEF StartBook
<1>4. /\ \A b \in NewBuckets, i \in Ids :
            StartBook.new[b][i] = IF N(b, i) THEN ne(i) ELSE Absent
      /\ \A b \in TriedBuckets, i \in Ids :
            StartBook.tried[b][i] = IF T(b, i) THEN te(i) ELSE Absent
  BY <1>3
<1> HIDE DEF ne, te
<1>5. StartBook \in Book
  <2>1. StartBook.new \in [NewBuckets -> NewBucket]
    BY <1>1, <1>3 DEF NewBucket
  <2>2. StartBook.tried \in [TriedBuckets -> TriedBucket]
    BY <1>1, <1>3 DEF TriedBucket
  <2> HIDE DEF N, T
  <2> QED BY <2>1, <2>2, <1>3 DEF Book
<1>6. Filed(StartBook)
  <2>1. ASSUME NEW b \in NewBuckets, NEW i \in Ids, StartBook.new[b][i] # Absent
        PROVE  /\ NewBucketOf[StartBook.new[b][i].peerInfo.addr] = b
               /\ IdOf[StartBook.new[b][i].peerInfo.addr] = i
    BY <2>1, <1>1, <1>2, <1>4
  <2>2. ASSUME NEW b \in TriedBuckets, NEW i \in Ids, StartBook.tried[b][i] # Absent
        PROVE  /\ TriedBucketOf[StartBook.tried[b][i].peerInfo.addr] = b
               /\ IdOf[StartBook.tried[b][i].peerInfo.addr] = i
    BY <2>2, <1>1, <1>2, <1>4
  <2> QED BY <2>1, <2>2 DEF Filed
<1>7. Disjoint(StartBook)
  BY <1>4 DEF Disjoint
<1> QED BY <1>5, <1>6, <1>7, PoolAssumption DEF Sound

-----------------------------------------------------------------------------
\* The initial state satisfies the invariant.
LEMMA PoolInit == ASSUME Init PROVE PoolInv
<1>1. Sound(book)
  BY StartBookSound DEF Init
<1>2. MapInv
  BY DEF Init, MapInv, EntryInv, Entry
<1>3. OutboundLimit
  <2>1. Pooled \ Fixed = {}
    BY DEF Init, Pooled, InPool
  <2>2. Cardinality(Pooled \ Fixed) = 0
    BY <2>1, FS_EmptySet, Zenon
  <2> QED BY <2>2, PoolAssumption DEF OutboundLimit
<1> QED BY <1>1, <1>2, <1>3 DEF PoolInv

\* A step that rewrites one entry without adding a peer to the map.
LEMMA SetStep ==
    ASSUME PoolInv, Sound(book'), NEW i \in Ids, NEW e, Set(i, e), EntryInv(e),
           e.peer # NoPeer => InPool(i)
    PROVE  PoolInv'
<1>1. pool \in [Ids -> Entry] /\ e \in Entry
  BY DEF PoolInv, MapInv, EntryInv
<1>2. pool' \in [Ids -> Entry] /\ pool'[i] = e /\ \A j \in Ids \ {i} : pool'[j] = pool[j]
  BY <1>1 DEF Set
<1>3. MapInv'
  <2>1. \A j \in Ids : EntryInv(pool'[j])
    BY <1>2 DEF PoolInv, MapInv
  <2> QED BY <1>2, <2>1 DEF MapInv
<1>4. OutboundLimit'
  <2>1. Pooled' \subseteq Pooled
    BY <1>2 DEF Pooled, InPool
  <2>2. IsFiniteSet(Pooled \ Fixed) /\ IsFiniteSet(Pooled' \ Fixed)
    BY BookAssumption, FS_Subset DEF Pooled
  <2>3. Cardinality(Pooled' \ Fixed) <= Cardinality(Pooled \ Fixed)
    BY <2>1, <2>2, FS_Subset
  <2>4. Cardinality(Pooled' \ Fixed) \in Nat /\ Cardinality(Pooled \ Fixed) \in Nat
    BY <2>2, FS_CardinalityType
  <2> QED BY <2>3, <2>4, PoolAssumption DEF OutboundLimit, PoolInv
<1> QED BY <1>3, <1>4 DEF PoolInv

\* A step that leaves the map alone.
LEMMA BookStep == ASSUME PoolInv, Sound(book'), UNCHANGED pool PROVE PoolInv'
BY DEF PoolInv, MapInv, OutboundLimit, Pooled, InPool

\* A step that replaces one object by one satisfying the same invariant.
LEMMA ObjectStep ==
    ASSUME PoolInv, Sound(book'), NEW i \in Ids, NEW c \in Conn, NEW d \in Conn,
           Step(i, c, d), PeerInv(c) => PeerInv(d), DroppedInv(c) => DroppedInv(d)
    PROVE  PoolInv'
<1>1. EntryInv(pool[i])
  BY DEF PoolInv, MapInv
<1>2. EntryInv(Become(pool[i], c, d)) /\ (Become(pool[i], c, d).peer # NoPeer => InPool(i))
  BY <1>1, BecomeInv DEF InPool
<1> QED BY <1>2, SetStep DEF Step

\* The objects of a peer, and which invariant they satisfy.
LEMMA ConnsTypes ==
    ASSUME PoolInv, NEW i \in Ids
    PROVE  /\ \A c \in Conns(i) : c \in Conn /\ (PeerInv(c) \/ DroppedInv(c))
           /\ InPool(i) => PeerInv(pool[i].peer) /\ pool[i].peer \in Conn
BY DEF PoolInv, MapInv, EntryInv, Conns, InPool, PeerInv, DroppedInv

\* A close event removes the peer of the map, and only the map's object has one.
LEMMA CloseStep ==
    ASSUME PoolInv, NEW i \in Ids, NEW c \in Conns(i), ConsumeClose(i, c)
    PROVE  /\ PoolInv'
           /\ "close" \in pool[i].peer.pending
           /\ \A j \in Ids \ {i} : pool'[j] = pool[j]
           /\ pool[i].peer.active =>
                 \A x \in pool'[i].dropped \ pool[i].dropped : x.sock = "closed"
<1>1. c \in Conn /\ PeerInv(c) /\ InPool(i) /\ c = pool[i].peer /\ "close" \in c.pending
  <2>1. \A d \in pool[i].dropped : "close" \notin d.pending
    BY DEF PoolInv, MapInv, EntryInv, DroppedInv
  <2>2. "close" \in c.pending
    BY DEF ConsumeClose
  <2> QED BY <2>1, <2>2, ConnsTypes DEF Conns
<1> DEFINE d == Consumed(c, "close")
           e == Become(pool[i], c, d)
           g == RemoveOutboundPeer(e)
<1>2. d \in Conn /\ d # NoPeer
  BY <1>1, ConnOps, ConnNotNone DEF Events
<1>3. c.bound /\ d.active = c.active
  BY <1>1 DEF Consumed, Conn, PeerInv
<1>4. EntryInv(pool[i]) /\ pool \in [Ids -> Entry]
  BY DEF PoolInv, MapInv
<1>5. c \notin pool[i].dropped
  BY <1>1, <1>4 DEF EntryInv, DroppedInv, PeerInv
<1>6. e = [peer |-> d, dropped |-> pool[i].dropped]
  BY <1>1, <1>5 DEF Become
<1>7. Set(i, g) /\ UNCHANGED book
  BY <1>3 DEF ConsumeClose
<1> HIDE DEF d, e, g
<1>8. e \in Entry /\ (\A x \in e.dropped : DroppedInv(x)) /\ e.peer = d
      /\ e.dropped = pool[i].dropped
  BY <1>2, <1>4, <1>6 DEF EntryInv, Entry
<1>9. EntryInv(g) /\ g.peer = NoPeer
      /\ (d.active => \A x \in g.dropped \ pool[i].dropped : x.sock = "closed")
  BY <1>2, <1>8, RemoveInv DEF g
<1>10. PoolInv'
  BY <1>7, <1>9, SetStep DEF PoolInv
<1>11. pool'[i] = g /\ \A j \in Ids \ {i} : pool'[j] = pool[j]
  BY <1>4, <1>7 DEF Set
<1> QED BY <1>1, <1>3, <1>9, <1>10, <1>11

\* The populator stays within the limit: the selection is at most as large as the
\* room left beside ALL outbound peers, and fixed peers are not counted.
LEMMA TriggerStep == ASSUME PoolInv, TriggerNewConnections PROVE PoolInv'
<1>1. PICK s \in SelectPeersForConnection(Candidates) :
        pool' = [i \in Ids |-> IF i \in s \cup (Fixed \ Pooled)
                               THEN [pool[i] EXCEPT !.peer = Fresh] ELSE pool[i]]
  BY DEF TriggerNewConnections
<1>2. Sound(book')
  BY DEF PoolInv, TriggerNewConnections
<1>3. pool \in [Ids -> Entry] /\ \A i \in Ids : EntryInv(pool[i])
  BY DEF PoolInv, MapInv
<1>4. ASSUME NEW i \in Ids
      PROVE  EntryInv([pool[i] EXCEPT !.peer = Fresh])
             /\ [pool[i] EXCEPT !.peer = Fresh].peer = Fresh
  <2>1. Fresh \in Conn
    BY FreshInv DEF PeerInv
  <2> QED BY <1>3, <2>1, FreshInv DEF EntryInv, Entry
<1>5. MapInv'
  <2>1. \A i \in Ids : EntryInv(pool'[i])
    BY <1>1, <1>3, <1>4
  <2>2. pool' \in [Ids -> Entry]
    <3>1. \A i \in Ids : pool'[i] \in Entry
      BY <2>1 DEF EntryInv
    <3> QED BY <3>1, <1>1
  <2> QED BY <2>1, <2>2 DEF MapInv
<1>6. Pooled' \subseteq Pooled \cup s \cup Fixed
  BY <1>1 DEF Pooled, InPool
<1>7. IsFiniteSet(Pooled) /\ Cardinality(Pooled) \in Nat
  BY BookAssumption, FS_Subset, FS_CardinalityType DEF Pooled
<1>8. Candidates \subseteq Ids
  BY DEF Candidates
<1> QED
  <2>1. s \subseteq Candidates /\ (s # {} => Cardinality(s) <= MaxOutbound - Cardinality(Pooled))
    <3> DEFINE L == MaxOutbound - Cardinality(Pooled)
    <3>1. L \in Int
      BY <1>7, PoolAssumption
    <3>2. s \in (IF L < 0 THEN {{}} ELSE IF L >= Cardinality(Candidates) THEN {Candidates}
                 ELSE {x \in SUBSET Candidates : Cardinality(x) = L})
      BY <1>1 DEF SelectPeersForConnection
    <3>3. IsFiniteSet(Candidates) /\ Cardinality(Candidates) \in Nat
      BY <1>8, BookAssumption, FS_Subset, FS_CardinalityType
    <3> HIDE DEF L
    <3>4. s \subseteq Candidates /\ (s # {} => Cardinality(s) <= L)
      <4>1. CASE L < 0
        BY <3>2, <4>1
      <4>2. CASE ~(L < 0) /\ L >= Cardinality(Candidates)
        <5>1. s = Candidates
          BY <3>2, <4>2
        <5> QED BY <5>1, <4>2
      <4>3. CASE ~(L < 0) /\ ~(L >= Cardinality(Candidates))
        <5>1. s \in SUBSET Candidates /\ Cardinality(s) = L
          BY <3>2, <4>3
        <5> QED BY <5>1, <3>1
      <4> QED BY <4>1, <4>2, <4>3
    <3> QED BY <3>4 DEF L
  <2>2. IsFiniteSet(s) /\ Cardinality(s) \in Nat
    BY <2>1, <1>8, BookAssumption, FS_Subset, FS_CardinalityType
  <2>3. CASE s = {}
    <3>1. Pooled' \ Fixed \subseteq Pooled \ Fixed
      BY <1>6, <2>3
    <3>2. IsFiniteSet(Pooled \ Fixed) /\ Cardinality(Pooled \ Fixed) \in Nat
      BY <1>7, FS_Subset, FS_CardinalityType
    <3>3. /\ Cardinality(Pooled' \ Fixed) <= Cardinality(Pooled \ Fixed)
          /\ Cardinality(Pooled' \ Fixed) \in Nat
      BY <3>1, <3>2, FS_Subset, FS_CardinalityType
    <3>4. OutboundLimit'
      BY <3>2, <3>3, PoolAssumption DEF PoolInv, OutboundLimit
    <3> QED BY <3>4, <1>2, <1>5 DEF PoolInv
  <2>4. CASE s # {}
    <3>1. Pooled' \ Fixed \subseteq Pooled \cup s
      BY <1>6
    <3>2. IsFiniteSet(Pooled \cup s)
      BY <1>7, <2>2, FS_Union
    <3>3. Cardinality(Pooled \cup s) <= Cardinality(Pooled) + Cardinality(s)
      <4>1. Cardinality(Pooled \cup s) = Cardinality(Pooled) + Cardinality(s)
                                          - Cardinality(Pooled \cap s)
        BY <1>7, <2>2, FS_Union
      <4>2. Cardinality(Pooled \cap s) \in Nat
        BY <1>7, FS_Subset, FS_CardinalityType
      <4> QED BY <4>1, <4>2, <1>7, <2>2
    <3>4. /\ Cardinality(Pooled' \ Fixed) <= Cardinality(Pooled \cup s)
          /\ Cardinality(Pooled' \ Fixed) \in Nat
          /\ Cardinality(Pooled \cup s) \in Nat
      BY <3>1, <3>2, FS_Subset, FS_CardinalityType
    <3>5. Cardinality(s) <= MaxOutbound - Cardinality(Pooled)
      BY <2>1, <2>4
    <3>6. OutboundLimit'
      BY <3>3, <3>4, <3>5, <1>7, <2>2, PoolAssumption DEF OutboundLimit
    <3> QED BY <3>6, <1>2, <1>5 DEF PoolInv
  <2> QED BY <2>3, <2>4

\* Every step of one object preserves the invariant.
LEMMA ConnStep ==
    ASSUME PoolInv, NEW i \in Ids, NEW c \in Conns(i),
           Open(i, c) \/ Lose(i, c) \/ Consume(i, c)
    PROVE  PoolInv'
<1>1. c \in Conn /\ Sound(book)
  BY ConnsTypes DEF PoolInv
<1>2. CASE Open(i, c)
  <2> DEFINE d == [Announce(c, {"connect"}) EXCEPT !.sock = "open"]
  <2>1. d \in Conn
    <3>1. Announce(c, {"connect"}) \in Conn
      BY <1>1, ConnOps DEF Events
    <3> QED BY <3>1 DEF Conn
  <2>2. Step(i, c, d) /\ Sound(book')
    BY <1>1, <1>2 DEF Open
  <2>3. (PeerInv(c) => PeerInv(d)) /\ (DroppedInv(c) => DroppedInv(d))
    BY <1>1, SocketInv
  <2> HIDE DEF d
  <2> QED BY <1>1, <2>1, <2>2, <2>3, ObjectStep
<1>3. CASE Lose(i, c)
  <2>1. Step(i, c, Closed(c)) /\ Sound(book') /\ Closed(c) \in Conn
    BY <1>1, <1>3, ConnOps DEF Lose
  <2>2. (PeerInv(c) => PeerInv(Closed(c))) /\ (DroppedInv(c) => DroppedInv(Closed(c)))
    BY <1>1, SocketInv
  <2> QED BY <1>1, <2>1, <2>2, ObjectStep
<1>4. CASE ConsumeConnect(i, c)
  <2> DEFINE d == Consumed(c, "connect")
  <2>1. d \in Conn /\ Transmit(d) \in Conn
    BY <1>1, ConnOps DEF Events
  <2>2. Step(i, c, Transmit(d)) /\ Sound(book')
    BY <1>1, <1>4, HandlersSound DEF ConsumeConnect
  <2>3. (PeerInv(c) => PeerInv(d)) /\ (DroppedInv(c) => DroppedInv(d))
    BY <1>1, ConsumedInv
  <2> HIDE DEF d
  <2>4. (PeerInv(c) => PeerInv(Transmit(d))) /\ (DroppedInv(c) => DroppedInv(Transmit(d)))
    BY <2>1, <2>3, TransmitInv
  <2> QED BY <1>1, <2>1, <2>2, <2>4, ObjectStep
<1>5. CASE ConsumeAbort(i, c)
  <2> DEFINE d == Consumed(c, "connectAbort")
  <2>1. d \in Conn
    BY <1>1, ConnOps DEF Events
  <2>2. Step(i, c, d) /\ Sound(book')
    BY <1>1, <1>5, HandlersSound DEF ConsumeAbort
  <2>3. (PeerInv(c) => PeerInv(d)) /\ (DroppedInv(c) => DroppedInv(d))
    BY <1>1, ConsumedInv
  <2> HIDE DEF d
  <2> QED BY <1>1, <2>1, <2>2, <2>3, ObjectStep
<1>6. CASE ConsumeClose(i, c)
  BY <1>6, CloseStep
<1> QED BY <1>2, <1>3, <1>4, <1>5, <1>6 DEF Consume

\* The calls, the book's own steps and the shuffle preserve the invariant.
LEMMA CallStep ==
    ASSUME PoolInv, NEW i \in Ids,
           \/ Send(i) \/ RequestTimeout(i) \/ Ban(i) \/ InboundBan(i)
           \/ UpdateInfo(i) \/ Learn(i) \/ Shuffle(i)
    PROVE  PoolInv'
<1>1. Sound(book) /\ (InPool(i) => PeerInv(pool[i].peer) /\ pool[i].peer \in Conn)
  BY ConnsTypes DEF PoolInv
<1> DEFINE c == pool[i].peer
<1>2. CASE Send(i)
  <2>1. c \in Conn /\ Step(i, c, Transmit(c)) /\ Sound(book')
    BY <1>1, <1>2 DEF Send
  <2> HIDE DEF c
  <2>2. Transmit(c) \in Conn
    BY <2>1, ConnOps
  <2>3. (PeerInv(c) => PeerInv(Transmit(c))) /\ (DroppedInv(c) => DroppedInv(Transmit(c)))
    BY <2>1, TransmitInv
  <2> QED BY <2>1, <2>2, <2>3, ObjectStep
<1>3. CASE RequestTimeout(i) \/ Ban(i)
  <2>1. c \in Conn /\ PeerInv(c) /\ Step(i, c, Disconnect(c))
    BY <1>1, <1>3 DEF RequestTimeout, Ban
  <2>2. Sound(book')
    BY <1>1, <1>3, HandlersSound DEF RequestTimeout, Ban
  <2> HIDE DEF c
  <2>3. Disconnect(c) \in Conn /\ PeerInv(Disconnect(c)) /\ ~DroppedInv(c)
    BY <2>1, ConnOps, DisconnectInv DEF PeerInv, DroppedInv
  <2> QED BY <2>1, <2>2, <2>3, ObjectStep
<1>4. CASE InboundBan(i) \/ UpdateInfo(i) \/ Learn(i)
  BY <1>1, <1>4, HandlersSound, BookStep DEF InboundBan, UpdateInfo, Learn
<1>5. CASE Shuffle(i)
  <2>1. Set(i, RemoveOutboundPeer(pool[i])) /\ Sound(book')
    BY <1>1, <1>5 DEF Shuffle
  <2>2. pool[i] \in Entry /\ \A x \in pool[i].dropped : DroppedInv(x)
    BY DEF PoolInv, MapInv, EntryInv
  <2>3. EntryInv(RemoveOutboundPeer(pool[i])) /\ RemoveOutboundPeer(pool[i]).peer = NoPeer
    BY <2>2, RemoveInv
  <2> QED BY <2>1, <2>3, SetStep
<1> QED BY <1>2, <1>3, <1>4, <1>5

\* Every step preserves the invariant.
LEMMA PoolInductive == ASSUME PoolInv, [Next]_vars PROVE PoolInv'
<1>1. CASE UNCHANGED vars
  BY <1>1, BookStep DEF vars, PoolInv
<1>2. CASE Next
  BY <1>2, TriggerStep, CallStep, ConnStep DEF Next
<1> QED BY <1>1, <1>2

\* The invariant holds throughout.
THEOREM PoolSound == Spec => []PoolInv
<1>1. Init => PoolInv
  BY PoolInit
<1>2. PoolInv /\ [Next]_vars => PoolInv'
  BY PoolInductive
<1> QED BY <1>1, <1>2, PTL DEF Spec

\* Type correctness: in particular no removed peer keeps the pool's handlers.
THEOREM PoolTypeCorrect == Spec => []TypeOK
<1>1. PoolInv => TypeOK
  BY DEF PoolInv, Sound, MapInv, EntryInv, DroppedInv, TypeOK
<1> QED BY <1>1, PoolSound, PTL

\* The peers dialled by choice never exceed the limit (peer_selection.js,
\* peer_pool.js triggerNewConnections).
THEOREM PoolWithinLimit == Spec => []OutboundLimit
<1>1. PoolInv => OutboundLimit
  BY DEF PoolInv
<1> QED BY <1>1, PoolSound, PTL

\* A peer of the map whose socket is closed has a close event on its way.
THEOREM PoolHasNoZombie == Spec => []NoZombie
<1>1. PoolInv => NoZombie
  BY DEF PoolInv, MapInv, EntryInv, PeerInv, NoZombie, Pooled, InPool
<1> QED BY <1>1, PoolSound, PTL

-----------------------------------------------------------------------------
\* A step that replaces one object removes no peer from the map.
LEMMA ObjectStays ==
    ASSUME PoolInv, NEW j \in Ids, NEW c \in Conn, NEW d \in Conn, Step(j, c, d)
    PROVE  \A i \in Ids : InPool(i) => InPool(i)'
<1>1. pool \in [Ids -> Entry]
  BY DEF PoolInv, MapInv
<1>2. c # NoPeer /\ d # NoPeer
  BY ConnNotNone
<1>3. Become(pool[j], c, d).peer # NoPeer <=> pool[j].peer # NoPeer
  BY <1>2 DEF Become
<1> QED BY <1>1, <1>3 DEF Step, Set, InPool

\* How a peer leaves the map: by its own close event, or by the shuffle if it is
\* not fixed; and its socket is closed unless it was disconnected before.
LEMMA LeavesMap ==
    ASSUME PoolInv, Next, NEW i \in Ids, InPool(i), ~InPool(i)'
    PROVE  /\ "close" \in pool[i].peer.pending \/ i \notin Fixed
           /\ pool[i].peer.active =>
                 \A c \in pool'[i].dropped \ pool[i].dropped : c.sock = "closed"
<1> DEFINE Goal == /\ "close" \in pool[i].peer.pending \/ i \notin Fixed
                   /\ pool[i].peer.active =>
                        \A c \in pool'[i].dropped \ pool[i].dropped : c.sock = "closed"
<1>1. pool \in [Ids -> Entry]
  BY DEF PoolInv, MapInv
<1>2. ASSUME TriggerNewConnections PROVE Goal
  <2>1. PICK s \in SelectPeersForConnection(Candidates) :
          pool' = [k \in Ids |-> IF k \in s \cup (Fixed \ Pooled)
                                 THEN [pool[k] EXCEPT !.peer = Fresh] ELSE pool[k]]
    BY <1>2 DEF TriggerNewConnections
  <2>2. [pool[i] EXCEPT !.peer = Fresh].peer = Fresh /\ Fresh # NoPeer
    BY <1>1, FreshInv, ConnNotNone DEF Entry, PeerInv
  <2> QED BY <2>1, <2>2 DEF InPool
<1>3. ASSUME NEW j \in Ids, Send(j) \/ RequestTimeout(j) \/ Ban(j) PROVE Goal
  <2> DEFINE c == pool[j].peer
  <2>1. c \in Conn /\ (Step(j, c, Transmit(c)) \/ Step(j, c, Disconnect(c)))
    BY <1>3, ConnsTypes DEF Send, RequestTimeout, Ban
  <2> HIDE DEF c
  <2>2. Transmit(c) \in Conn /\ Disconnect(c) \in Conn
    BY <2>1, ConnOps
  <2> QED BY <2>1, <2>2, ObjectStays
<1>4. ASSUME NEW j \in Ids, InboundBan(j) \/ UpdateInfo(j) \/ Learn(j) PROVE Goal
  BY <1>4 DEF InboundBan, UpdateInfo, Learn, InPool
<1>5. ASSUME NEW j \in Ids, Shuffle(j) PROVE Goal
  <2>1. j = i /\ pool'[i] = RemoveOutboundPeer(pool[i]) /\ i \notin Fixed
    BY <1>1, <1>5 DEF Shuffle, Set, InPool
  <2>2. pool[i] \in Entry /\ \A x \in pool[i].dropped : DroppedInv(x)
    BY DEF PoolInv, MapInv, EntryInv
  <2> QED BY <2>1, <2>2, RemoveInv DEF InPool
<1>6. ASSUME NEW j \in Ids, NEW c \in Conns(j), Open(j, c) PROVE Goal
  <2> DEFINE d == [Announce(c, {"connect"}) EXCEPT !.sock = "open"]
  <2>1. c \in Conn /\ d \in Conn /\ Step(j, c, d)
    <3>1. c \in Conn
      BY ConnsTypes
    <3>2. Announce(c, {"connect"}) \in Conn
      BY <3>1, ConnOps DEF Events
    <3> QED BY <3>1, <3>2, <1>6 DEF Conn, Open
  <2> HIDE DEF d
  <2> QED BY <2>1, ObjectStays
<1>7. ASSUME NEW j \in Ids, NEW c \in Conns(j), Lose(j, c) PROVE Goal
  <2>1. c \in Conn
    BY ConnsTypes
  <2>2. Closed(c) \in Conn /\ Step(j, c, Closed(c))
    BY <2>1, <1>7, ConnOps DEF Lose
  <2> QED BY <2>1, <2>2, ObjectStays
<1>8. ASSUME NEW j \in Ids, NEW c \in Conns(j), ConsumeConnect(j, c) \/ ConsumeAbort(j, c)
      PROVE  Goal
  <2>1. c \in Conn
    BY ConnsTypes
  <2>2. /\ Transmit(Consumed(c, "connect")) \in Conn /\ Consumed(c, "connectAbort") \in Conn
    BY <2>1, ConnOps DEF Events
  <2> QED BY <2>1, <2>2, <1>8, ObjectStays DEF ConsumeConnect, ConsumeAbort
<1>9. ASSUME NEW j \in Ids, NEW c \in Conns(j), ConsumeClose(j, c) PROVE Goal
  <2>1. /\ "close" \in pool[j].peer.pending
        /\ \A k \in Ids \ {j} : pool'[k] = pool[k]
        /\ pool[j].peer.active =>
              \A x \in pool'[j].dropped \ pool[j].dropped : x.sock = "closed"
    BY <1>9, CloseStep
  <2>2. i = j
    BY <2>1 DEF InPool
  <2> QED BY <2>1, <2>2
<1> HIDE DEF Goal
<1>10. Goal
  BY <1>2, <1>3, <1>4, <1>5, <1>6, <1>7, <1>8, <1>9 DEF Next, Consume
<1> QED BY <1>10 DEF Goal

\* A late close event never removes the connection that succeeded its own: a fixed
\* peer leaves the map only through the close of the connection in the map.
THEOREM PoolFixedStays == Spec => FixedStays
<1> DEFINE A == \A i \in Fixed : InPool(i) /\ ~InPool(i)' => "close" \in pool[i].peer.pending
<1>1. PoolInv /\ [Next]_vars => [A]_vars
  <2>1. ASSUME PoolInv, Next PROVE A
    BY <2>1, LeavesMap, PoolAssumption
  <2> HIDE DEF A
  <2> QED BY <2>1
<1> QED BY <1>1, PoolSound, PTL DEF Spec, FixedStays

\* Removing a peer that was not disconnected before closes its socket.
THEOREM PoolRemovalCloses == Spec => RemovalCloses
<1> DEFINE A == \A i \in Ids : InPool(i) /\ ~InPool(i)' /\ pool[i].peer.active =>
                    \A c \in pool'[i].dropped \ pool[i].dropped : c.sock = "closed"
<1>1. PoolInv /\ [Next]_vars => [A]_vars
  <2>1. ASSUME PoolInv, Next PROVE A
    BY <2>1, LeavesMap
  <2> HIDE DEF A
  <2> QED BY <2>1
<1> QED BY <1>1, PoolSound, PTL DEF Spec, RemovalCloses

-----------------------------------------------------------------------------
(***************************************************************************)
(* Whitelisted peers.  A handler writes the slots of one peer, j.  Rank    *)
(* falls for j itself or for a victim; the handlers that lower j ask the   *)
(* whitelist first, and a victim falls to 0 while j rises or re-enters.    *)
(***************************************************************************)

\* What a lookup by id finds is in one list only.
Apart(bk) == \A i \in Ids : ~(InNew(bk, Info(i)) /\ InTried(bk, Info(i)))

\* Nobody but j changes, except that what j gains others may lose.
Raises(bk, nb, j) ==
    /\ Rank(nb, j) >= Rank(bk, j)
    /\ \A i \in Ids \ {j} : \/ Rank(nb, i) = Rank(bk, i)
                            \/ Rank(nb, i) = 0 /\ Rank(nb, j) > Rank(bk, j)

\* The same for a step that may also send j back.
Displaces(bk, nb, j) ==
    \A i \in Ids \ {j} : \/ Rank(nb, i) = Rank(bk, i)
                         \/ Rank(nb, i) = 0 /\ Rank(nb, j) # Rank(bk, j) /\ Rank(nb, j) > 0

\* The slots that lookups read after a write of the new list.
LEMMA NewWriteSlots ==
    ASSUME NEW bk, NEW nb, NEW j \in Ids, NEW e, NEW v \in Ids, NewWrite(bk, nb, Info(j), e, v)
    PROVE  /\ \A i \in Ids : InTried(nb, Info(i)) <=> InTried(bk, Info(i))
           /\ InNew(nb, Info(j)) <=> e # Absent
           /\ \A i \in Ids \ {j} : \/ InNew(nb, Info(i)) <=> InNew(bk, Info(i))
                                   \/ ~InNew(nb, Info(i)) /\ i = v
<1>1. \A i \in Ids : Info(i).addr = AddrOf[i] /\ IdOf[AddrOf[i]] = i /\ NewBucketOf[AddrOf[i]] \in NewBuckets
  BY PoolAssumption, BookAssumption DEF BookAssumption, Info
<1> QED
  BY <1>1 DEF NewWrite, InTried, InNew, TriedSlot, NewSlot

\* After a write of the tried list.
LEMMA TriedWriteSlots ==
    ASSUME NEW bk, NEW nb, NEW j \in Ids, NEW e, NEW v \in Ids, TriedWrite(bk, nb, Info(j), e, v)
    PROVE  /\ \A i \in Ids : InNew(nb, Info(i)) <=> InNew(bk, Info(i))
           /\ InTried(nb, Info(j)) <=> e # Absent
           /\ \A i \in Ids \ {j} : \/ InTried(nb, Info(i)) <=> InTried(bk, Info(i))
                                   \/ ~InTried(nb, Info(i)) /\ i = v
<1>1. \A i \in Ids : Info(i).addr = AddrOf[i] /\ IdOf[AddrOf[i]] = i /\ TriedBucketOf[AddrOf[i]] \in TriedBuckets
  BY PoolAssumption, BookAssumption DEF BookAssumption, Info
<1> QED
  BY <1>1 DEF TriedWrite, InTried, InNew, TriedSlot, NewSlot

\* A write over j's own entry, or out of its slot, touches nobody else.
LEMMA OwnNewSlot ==
    ASSUME NEW bk, NEW nb, NEW j \in Ids, NEW e, NewWrite(bk, nb, Info(j), e, IdOf[Info(j).addr])
    PROVE  /\ nb \in Book
           /\ \A i \in Ids : InTried(nb, Info(i)) <=> InTried(bk, Info(i))
           /\ InNew(nb, Info(j)) <=> e # Absent
           /\ \A i \in Ids \ {j} : InNew(nb, Info(i)) <=> InNew(bk, Info(i))
<1>1. /\ \A i \in Ids : Info(i).addr = AddrOf[i] /\ IdOf[AddrOf[i]] = i /\ NewBucketOf[AddrOf[i]] \in NewBuckets
  BY PoolAssumption, BookAssumption DEF BookAssumption, Info
<1>2. NewWrite(bk, nb, Info(j), e, j)
  BY <1>1
<1> QED
  BY <1>1, <1>2 DEF NewWrite, InTried, InNew, TriedSlot, NewSlot

LEMMA OwnTriedSlot ==
    ASSUME NEW bk, NEW nb, NEW j \in Ids, NEW e, TriedWrite(bk, nb, Info(j), e, IdOf[Info(j).addr])
    PROVE  /\ nb \in Book
           /\ \A i \in Ids : InNew(nb, Info(i)) <=> InNew(bk, Info(i))
           /\ InTried(nb, Info(j)) <=> e # Absent
           /\ \A i \in Ids \ {j} : InTried(nb, Info(i)) <=> InTried(bk, Info(i))
<1>1. \A i \in Ids : Info(i).addr = AddrOf[i] /\ IdOf[AddrOf[i]] = i /\ TriedBucketOf[AddrOf[i]] \in TriedBuckets
  BY PoolAssumption, BookAssumption DEF BookAssumption, Info
<1>2. TriedWrite(bk, nb, Info(j), e, j)
  BY <1>1
<1> QED
  BY <1>1, <1>2 DEF TriedWrite, InTried, InNew, TriedSlot, NewSlot

\* Rank is a number, and says nothing but which lookup succeeds.
LEMMA RankIs ==
    ASSUME NEW bk, NEW i
    PROVE  /\ Rank(bk, i) \in {0, 1, 2}
           /\ Rank(bk, i) = 2 <=> InTried(bk, Info(i))
           /\ Rank(bk, i) = 0 <=> ~InTried(bk, Info(i)) /\ ~InNew(bk, Info(i))
BY DEF Rank

\* addPeer raises a peer it does not find from 0 to 1, at the cost of one peer of
\* the new list at most.
LEMMA AddRaises ==
    ASSUME NEW bk \in Book, Apart(bk), NEW j \in Ids, NEW nb \in AddPeer(bk, Info(j))
    PROVE  /\ nb \in Book /\ Apart(nb) /\ Raises(bk, nb, j)
           /\ Rank(bk, j) = 0 => Rank(nb, j) = 1
           /\ Rank(nb, j) > 0
<1> DEFINE e == [peerInfo |-> Info(j), aged |-> FALSE]
<1>1. CASE Known(bk, Info(j))
  BY <1>1, RankIs DEF AddPeer, Raises, Known
<1>2. CASE ~Known(bk, Info(j))
  <2>1. Info(j) \in PeerInfo /\ nb \in NewListAdd(bk, Info(j)) /\ ~InNew(bk, Info(j)) /\ ~InTried(bk, Info(j))
    BY <1>2, InfoType DEF AddPeer, Known
  <2>2. PICK v \in Ids : NewWrite(bk, nb, Info(j), e, v)
    BY <2>1, NewListAddWrites
  <2>3. e # Absent
    <3>1. e \in NewEntry
      BY <2>1 DEF NewEntry
    <3> QED
      BY <3>1, AbsentAssumption DEF AbsentAssumption
  <2> HIDE DEF e
  <2>4. /\ \A i \in Ids : InTried(nb, Info(i)) <=> InTried(bk, Info(i))
        /\ InNew(nb, Info(j))
        /\ \A i \in Ids \ {j} : \/ InNew(nb, Info(i)) <=> InNew(bk, Info(i))
                                \/ ~InNew(nb, Info(i))
    BY <2>2, <2>3, NewWriteSlots
  <2>5. Apart(nb)
    BY <2>1, <2>4 DEF Apart
  <2>6. Rank(bk, j) = 0 /\ Rank(nb, j) = 1
    BY <2>1, <2>4 DEF Rank
  <2>7. ASSUME NEW i \in Ids \ {j}
        PROVE  Rank(nb, i) = Rank(bk, i) \/ Rank(nb, i) = 0
    BY <2>4, <2>7 DEF Rank
  <2>8. nb \in Book
    BY <2>2 DEF NewWrite
  <2> QED
    BY <2>5, <2>6, <2>7, <2>8 DEF Raises
<1> QED
  BY <1>1, <1>2

\* upgradePeer raises a peer of the new list to the tried one, at the cost of one
\* peer there at most.
LEMMA UpgradeRaises ==
    ASSUME NEW bk \in Book, Apart(bk), NEW j \in Ids, NEW nb \in UpgradePeer(bk, Info(j))
    PROVE  nb \in Book /\ Apart(nb) /\ Raises(bk, nb, j)
<1> DEFINE e == [peerInfo |-> Info(j), failures |-> 0]
<1>1. CASE nb = bk
  BY <1>1, RankIs DEF Raises
<1>2. CASE nb # bk
  <2>1. Info(j) \in PeerInfo /\ IdOf[Info(j).addr] \in Ids
    BY InfoType, AddressTypes
  <2>2. InNew(bk, Info(j)) /\ ~InTried(bk, Info(j))
    BY <1>2, <2>1, UpgradePeerWrites
  <2>3. PICK mid \in Book, v \in Ids :
          /\ NewWrite(bk, mid, Info(j), Absent, IdOf[Info(j).addr])
          /\ TriedWrite(mid, nb, Info(j), e, v)
    BY <1>2, <2>1, UpgradePeerWrites
  <2>4. e # Absent
    <3>1. e \in TriedEntry
      BY <2>1, BookAssumption DEF BookAssumption, TriedEntry
    <3> QED
      BY <3>1, AbsentAssumption DEF AbsentAssumption
  <2> HIDE DEF e
  <2>5. /\ \A i \in Ids \ {j} : InNew(mid, Info(i)) <=> InNew(bk, Info(i))
        /\ \A i \in Ids : InTried(mid, Info(i)) <=> InTried(bk, Info(i))
        /\ ~InNew(mid, Info(j))
    BY <2>3, OwnNewSlot
  <2>6. /\ \A i \in Ids : InNew(nb, Info(i)) <=> InNew(mid, Info(i))
        /\ InTried(nb, Info(j))
        /\ \A i \in Ids \ {j} : \/ InTried(nb, Info(i)) <=> InTried(mid, Info(i))
                                \/ ~InTried(nb, Info(i))
    BY <2>3, <2>4, TriedWriteSlots
  <2>7. Apart(nb)
    BY <2>5, <2>6 DEF Apart
  <2>8. Rank(bk, j) = 1 /\ Rank(nb, j) = 2
    BY <2>2, <2>6 DEF Rank
  <2>9. ASSUME NEW i \in Ids \ {j}
        PROVE  Rank(nb, i) = Rank(bk, i) \/ Rank(nb, i) = 0
    BY <2>5, <2>6, <2>9 DEF Rank, Apart
  <2>10. nb \in Book
    BY <2>3 DEF TriedWrite
  <2> QED
    BY <2>7, <2>8, <2>9, <2>10 DEF Raises
<1> QED
  BY <1>1, <1>2

\* updatePeer changes no rank.
LEMMA UpdateRaises ==
    ASSUME NEW bk \in Book, Apart(bk), NEW j \in Ids
    PROVE  /\ UpdatePeer(bk, Info(j)) \in Book
           /\ Apart(UpdatePeer(bk, Info(j)))
           /\ Raises(bk, UpdatePeer(bk, Info(j)), j)
<1> DEFINE nb == UpdatePeer(bk, Info(j))
<1>1. Info(j) \in PeerInfo /\ IdOf[Info(j).addr] \in Ids
  BY InfoType, AddressTypes
<1>2. \/ nb = bk
      \/ InTried(bk, Info(j)) /\ \E e \in TriedEntry : TriedWrite(bk, nb, Info(j), e, IdOf[Info(j).addr])
      \/ InNew(bk, Info(j)) /\ \E e \in NewEntry : NewWrite(bk, nb, Info(j), e, IdOf[Info(j).addr])
  BY <1>1, UpdatePeerWrites
<1> HIDE DEF nb
<1>3. /\ nb \in Book
      /\ \A i \in Ids :
           /\ InNew(nb, Info(i)) <=> InNew(bk, Info(i))
           /\ InTried(nb, Info(i)) <=> InTried(bk, Info(i))
  <2>1. \A e \in NewEntry \cup TriedEntry : e # Absent
    BY AbsentAssumption DEF AbsentAssumption
  <2>2. CASE InTried(bk, Info(j)) /\ \E e \in TriedEntry : TriedWrite(bk, nb, Info(j), e, IdOf[Info(j).addr])
    <3>1. PICK e \in TriedEntry : TriedWrite(bk, nb, Info(j), e, IdOf[Info(j).addr])
      BY <2>2
    <3>2. /\ nb \in Book /\ InTried(nb, Info(j))
          /\ \A i \in Ids : InNew(nb, Info(i)) <=> InNew(bk, Info(i))
          /\ \A i \in Ids \ {j} : InTried(nb, Info(i)) <=> InTried(bk, Info(i))
      BY <2>1, <3>1, OwnTriedSlot
    <3> QED
      BY <2>2, <3>2
  <2>3. CASE InNew(bk, Info(j)) /\ \E e \in NewEntry : NewWrite(bk, nb, Info(j), e, IdOf[Info(j).addr])
    <3>1. PICK e \in NewEntry : NewWrite(bk, nb, Info(j), e, IdOf[Info(j).addr])
      BY <2>3
    <3>2. /\ nb \in Book /\ InNew(nb, Info(j))
          /\ \A i \in Ids : InTried(nb, Info(i)) <=> InTried(bk, Info(i))
          /\ \A i \in Ids \ {j} : InNew(nb, Info(i)) <=> InNew(bk, Info(i))
      BY <2>1, <3>1, OwnNewSlot
    <3> QED
      BY <2>3, <3>2
  <2> QED
    BY <1>2, <2>2, <2>3
<1>4. Apart(nb)
  BY <1>3 DEF Apart
<1>5. \A i \in Ids : Rank(nb, i) = Rank(bk, i)
  BY <1>3, Zenon DEF Rank
<1>6. Raises(bk, nb, j)
  BY <1>5, RankIs DEF Raises
<1> QED
  BY <1>3, <1>4, <1>6 DEF nb

\* Dropping j, from whatever list, changes nobody else.
LEMMA DropDisplaces ==
    ASSUME NEW bk, NEW nb, Apart(bk), NEW j \in Ids,
           \/ NewWrite(bk, nb, Info(j), Absent, IdOf[Info(j).addr])
           \/ TriedWrite(bk, nb, Info(j), Absent, IdOf[Info(j).addr])
    PROVE  nb \in Book /\ Apart(nb) /\ \A i \in Ids \ {j} : Rank(nb, i) = Rank(bk, i)
<1>1. CASE NewWrite(bk, nb, Info(j), Absent, IdOf[Info(j).addr])
  <2>1. /\ nb \in Book /\ ~InNew(nb, Info(j))
        /\ \A i \in Ids : InTried(nb, Info(i)) <=> InTried(bk, Info(i))
        /\ \A i \in Ids \ {j} : InNew(nb, Info(i)) <=> InNew(bk, Info(i))
    BY <1>1, OwnNewSlot
  <2>2. Apart(nb)
    BY <2>1 DEF Apart
  <2> QED
    BY <2>1, <2>2 DEF Rank
<1>2. CASE TriedWrite(bk, nb, Info(j), Absent, IdOf[Info(j).addr])
  <2>1. /\ nb \in Book /\ ~InTried(nb, Info(j))
        /\ \A i \in Ids : InNew(nb, Info(i)) <=> InNew(bk, Info(i))
        /\ \A i \in Ids \ {j} : InTried(nb, Info(i)) <=> InTried(bk, Info(i))
    BY <1>2, OwnTriedSlot
  <2>2. Apart(nb)
    BY <2>1 DEF Apart
  <2> QED
    BY <2>1, <2>2 DEF Rank
<1> QED
  BY <1>1, <1>2

\* removePeer changes nobody else.
LEMMA RemoveDisplaces ==
    ASSUME NEW bk \in Book, Apart(bk), NEW j \in Ids
    PROVE  Apart(RemovePeer(bk, Info(j))) /\ Displaces(bk, RemovePeer(bk, Info(j)), j)
<1>1. Info(j) \in PeerInfo
  BY InfoType
<1>2. CASE RemovePeer(bk, Info(j)) = bk
  BY <1>2 DEF Displaces
<1>3. CASE \/ NewWrite(bk, RemovePeer(bk, Info(j)), Info(j), Absent, IdOf[Info(j).addr])
           \/ TriedWrite(bk, RemovePeer(bk, Info(j)), Info(j), Absent, IdOf[Info(j).addr])
  BY <1>3, DropDisplaces DEF Displaces
<1> QED
  BY <1>1, <1>2, <1>3, RemovePeerWrites

\* downgradePeer may send j back to the new list, where it may cost another its place.
LEMMA DowngradeDisplaces ==
    ASSUME NEW bk \in Book, Apart(bk), NEW j \in Ids, NEW nb \in DowngradePeer(bk, Info(j))
    PROVE  Apart(nb) /\ Displaces(bk, nb, j)
<1>1. Info(j) \in PeerInfo
  BY InfoType
<1>2. CASE nb = bk
  BY <1>2 DEF Displaces
<1>3. CASE NewWrite(bk, nb, Info(j), Absent, IdOf[Info(j).addr])
  BY <1>3, DropDisplaces DEF Displaces
<1>4. CASE InTried(bk, Info(j)) /\ Counted(bk, nb, Info(j))
  <2>1. PICK e \in TriedEntry : TriedWrite(bk, nb, Info(j), e, IdOf[Info(j).addr])
    BY <1>4 DEF Counted
  <2>2. e # Absent
    BY AbsentAssumption DEF AbsentAssumption
  <2>3. /\ InTried(nb, Info(j))
        /\ \A i \in Ids : InNew(nb, Info(i)) <=> InNew(bk, Info(i))
        /\ \A i \in Ids \ {j} : InTried(nb, Info(i)) <=> InTried(bk, Info(i))
    BY <2>1, <2>2, OwnTriedSlot
  <2>4. Apart(nb)
    BY <1>4, <2>3 DEF Apart
  <2>5. \A i \in Ids \ {j} : Rank(nb, i) = Rank(bk, i)
    BY <2>3 DEF Rank
  <2> QED
    BY <2>4, <2>5 DEF Displaces
<1>5. CASE InTried(bk, Info(j)) /\ Dropped(bk, nb, Info(j))
  <2>1. PICK mid \in Book :
          TriedWrite(bk, mid, Info(j), Absent, IdOf[Info(j).addr]) /\ nb \in AddPeer(mid, Info(j))
    BY <1>5 DEF Dropped
  <2>2. Apart(mid) /\ \A i \in Ids \ {j} : Rank(mid, i) = Rank(bk, i)
    BY <2>1, DropDisplaces
  <2>3. Rank(bk, j) = 2 /\ Rank(mid, j) = 0
    <3>1. ~InTried(mid, Info(j)) /\ (InNew(mid, Info(j)) <=> InNew(bk, Info(j)))
      BY <2>1, OwnTriedSlot
    <3> QED
      BY <1>5, <3>1 DEF Rank, Apart
  <2>4. Apart(nb) /\ Raises(mid, nb, j) /\ Rank(nb, j) = 1
    BY <2>1, <2>2, <2>3, AddRaises
  <2> QED
    BY <2>2, <2>3, <2>4 DEF Raises, Displaces
<1> QED
  BY <1>1, <1>2, <1>3, <1>4, <1>5, DowngradePeerWrites

-----------------------------------------------------------------------------
\* One raise after the other is a raise.
LEMMA RaisesTwice ==
    ASSUME NEW bk, NEW mid, NEW nb, NEW j \in Ids, Raises(bk, mid, j), Raises(mid, nb, j)
    PROVE  Raises(bk, nb, j)
<1>1. Rank(bk, j) \in {0, 1, 2} /\ Rank(mid, j) \in {0, 1, 2} /\ Rank(nb, j) \in {0, 1, 2}
  BY RankIs
<1>2. Rank(nb, j) >= Rank(bk, j)
  BY <1>1 DEF Raises
<1>3. ASSUME NEW i \in Ids \ {j}
      PROVE  \/ Rank(nb, i) = Rank(bk, i)
             \/ Rank(nb, i) = 0 /\ Rank(nb, j) > Rank(bk, j)
  BY <1>1, <1>3 DEF Raises
<1> QED
  BY <1>2, <1>3 DEF Raises

\* What a step that acts on j does to a whitelisted peer's rank.
Spares(bk, nb) ==
    \A i \in Whitelisted : Rank(nb, i) < Rank(bk, i) =>
        /\ Rank(nb, i) = 0
        /\ \E j \in Ids \ {i} : Rank(nb, j) # Rank(bk, j) /\ Rank(nb, j) > 0

LEMMA RaiseSpares ==
    ASSUME NEW bk, NEW nb, NEW j \in Ids, Raises(bk, nb, j)
    PROVE  Spares(bk, nb)
<1>1. ASSUME NEW i \in Whitelisted, Rank(nb, i) < Rank(bk, i)
      PROVE  /\ Rank(nb, i) = 0
             /\ \E k \in Ids \ {i} : Rank(nb, k) # Rank(bk, k) /\ Rank(nb, k) > 0
  <2>1. /\ i \in Ids
        /\ Rank(bk, i) \in {0, 1, 2} /\ Rank(nb, i) \in {0, 1, 2}
        /\ Rank(bk, j) \in {0, 1, 2} /\ Rank(nb, j) \in {0, 1, 2}
    BY RankIs, PoolAssumption
  <2>2. i # j
    BY <1>1, <2>1 DEF Raises
  <2>3. Rank(nb, i) = 0 /\ Rank(nb, j) > Rank(bk, j)
    BY <1>1, <2>1, <2>2 DEF Raises
  <2> QED
    BY <2>1, <2>2, <2>3
<1> QED
  BY <1>1 DEF Spares

LEMMA DisplacementSpares ==
    ASSUME NEW bk, NEW nb, NEW j \in Ids, j \notin Whitelisted, Displaces(bk, nb, j)
    PROVE  Spares(bk, nb)
<1>1. ASSUME NEW i \in Whitelisted, Rank(nb, i) < Rank(bk, i)
      PROVE  /\ Rank(nb, i) = 0
             /\ \E k \in Ids \ {i} : Rank(nb, k) # Rank(bk, k) /\ Rank(nb, k) > 0
  <2>1. i \in Ids /\ i # j /\ Rank(bk, i) \in {0, 1, 2} /\ Rank(nb, i) \in {0, 1, 2}
    BY RankIs, PoolAssumption
  <2>2. Rank(nb, i) # Rank(bk, i)
    BY <1>1, <2>1
  <2> QED
    BY <2>1, <2>2 DEF Displaces
<1> QED
  BY <1>1 DEF Spares

\* A handler that adds a peer it does not know and upgrades it.
LEMMA AddUpgradeRaises ==
    ASSUME NEW bk \in Book, Apart(bk), NEW j \in Ids,
           NEW nb \in UNION {UpgradePeer(b, Info(j)) : b \in AddPeer(bk, Info(j))}
    PROVE  Apart(nb) /\ Raises(bk, nb, j)
<1>1. PICK mid \in AddPeer(bk, Info(j)) : nb \in UpgradePeer(mid, Info(j))
  OBVIOUS
<1>2. mid \in Book /\ Apart(mid) /\ Raises(bk, mid, j)
  BY <1>1, AddRaises
<1>3. Apart(nb) /\ Raises(mid, nb, j)
  BY <1>1, <1>2, UpgradeRaises
<1> QED
  BY <1>2, <1>3, RaisesTwice

\* Every handler of p2p.js spares the whitelisted peers.
LEMMA HandlersSpare ==
    ASSUME NEW j \in Ids, book \in Book, Apart(book)
    PROVE  /\ \A nb \in HandleOutboundPeerConnect(j) : Apart(nb) /\ Spares(book, nb)
           /\ \A nb \in HandleOutboundPeerConnectAbort(j) : Apart(nb) /\ Spares(book, nb)
           /\ \A nb \in HandlePeerInfoUpdate(j) : Apart(nb) /\ Spares(book, nb)
           /\ Apart(HandleBanPeer(j)) /\ Spares(book, HandleBanPeer(j))
           /\ \A nb \in AddPeer(book, Info(j)) : Apart(nb) /\ Spares(book, nb)
<1>1. ASSUME NEW nb \in AddPeer(book, Info(j))
      PROVE  Apart(nb) /\ Spares(book, nb)
  BY <1>1, AddRaises, RaiseSpares
<1>2. ASSUME NEW nb \in HandleOutboundPeerConnect(j)
      PROVE  Apart(nb) /\ Spares(book, nb)
  <2>1. CASE nb \in UpgradePeer(book, Info(j))
    BY <2>1, UpgradeRaises, RaiseSpares
  <2>2. CASE nb \in UNION {UpgradePeer(b, Info(j)) : b \in AddPeer(book, Info(j))}
    BY <2>2, AddUpgradeRaises, RaiseSpares
  <2> QED
    BY <1>2, <2>1, <2>2 DEF HandleOutboundPeerConnect
<1>3. ASSUME NEW nb \in HandlePeerInfoUpdate(j)
      PROVE  Apart(nb) /\ Spares(book, nb)
  <2>1. CASE nb \in UpgradePeer(UpdatePeer(book, Info(j)), Info(j))
    <3> DEFINE mid == UpdatePeer(book, Info(j))
    <3>1. mid \in Book /\ Apart(mid) /\ Raises(book, mid, j)
      BY UpdateRaises
    <3>2. nb \in UpgradePeer(mid, Info(j))
      BY <2>1
    <3> HIDE DEF mid
    <3>3. Apart(nb) /\ Raises(mid, nb, j)
      BY <3>1, <3>2, UpgradeRaises
    <3> QED
      BY <3>1, <3>3, RaisesTwice, RaiseSpares
  <2>2. CASE nb \in UNION {UpgradePeer(b, Info(j)) : b \in AddPeer(book, Info(j))}
    BY <2>2, AddUpgradeRaises, RaiseSpares
  <2> QED
    BY <1>3, <2>1, <2>2 DEF HandlePeerInfoUpdate
<1>4. Spares(book, book)
  BY RankIs DEF Spares
<1>5. ASSUME NEW nb \in HandleOutboundPeerConnectAbort(j)
      PROVE  Apart(nb) /\ Spares(book, nb)
  <2>1. nb = book \/ (j \notin Whitelisted /\ nb \in DowngradePeer(book, Info(j)))
    BY <1>5 DEF HandleOutboundPeerConnectAbort
  <2> QED
    BY <1>4, <2>1, DowngradeDisplaces, DisplacementSpares
<1>6. Apart(HandleBanPeer(j)) /\ Spares(book, HandleBanPeer(j))
  <2>1. CASE HandleBanPeer(j) = book
    BY <1>4, <2>1
  <2>2. CASE j \notin Whitelisted /\ HandleBanPeer(j) = RemovePeer(book, Info(j))
    BY <2>2, RemoveDisplaces, DisplacementSpares
  <2> QED
    BY <2>1, <2>2 DEF HandleBanPeer
<1> QED
  BY <1>1, <1>2, <1>3, <1>5, <1>6

\* Only the handlers and the addition of a peer write the book.
LEMMA BookWriters ==
    ASSUME Next
    PROVE  \/ book' = book
           \/ \E j \in Ids : \/ book' \in HandleOutboundPeerConnect(j)
                             \/ book' \in HandleOutboundPeerConnectAbort(j)
                             \/ book' \in HandlePeerInfoUpdate(j)
                             \/ book' = HandleBanPeer(j)
                             \/ book' \in AddPeer(book, Info(j))
<1>1. CASE TriggerNewConnections
  BY <1>1 DEF TriggerNewConnections
<1>2. ASSUME NEW i \in Ids, NEW c \in Conns(i), Open(i, c) \/ Lose(i, c) \/ Consume(i, c)
      PROVE  \/ book' = book
             \/ book' \in HandleOutboundPeerConnect(i) \/ book' \in HandleOutboundPeerConnectAbort(i)
  BY <1>2 DEF Open, Lose, Consume, ConsumeConnect, ConsumeAbort, ConsumeClose
<1>3. ASSUME NEW i \in Ids, Send(i) \/ RequestTimeout(i) \/ Shuffle(i)
      PROVE  book' = book
  BY <1>3 DEF Send, RequestTimeout, Shuffle
<1>4. ASSUME NEW i \in Ids, Ban(i) \/ InboundBan(i)
      PROVE  book' = HandleBanPeer(i)
  BY <1>4 DEF Ban, InboundBan
<1>5. ASSUME NEW i \in Ids, UpdateInfo(i) \/ Learn(i)
      PROVE  book' \in HandlePeerInfoUpdate(i) \/ book' \in AddPeer(book, Info(i))
  BY <1>5 DEF UpdateInfo, Learn
<1> QED
  BY <1>1, <1>2, <1>3, <1>4, <1>5 DEF Next

\* Bans, failed attempts and whatever inbound peers say cost a whitelisted peer its
\* place in no list; only another peer that enters a full bucket does
\* (src/src/p2p.js _isTrustedPeer, peer_book.js).
THEOREM PoolWhitelistedKept == Spec => WhitelistedKept
<1> DEFINE A == \A i \in Whitelisted : Rank(book', i) < Rank(book, i) =>
                    /\ Rank(book', i) = 0
                    /\ \E j \in Ids \ {i} : Rank(book', j) # Rank(book, j) /\ Rank(book', j) > 0
<1>1. Init => Apart(book)
  <2> SUFFICES ASSUME Init PROVE Apart(book)
    OBVIOUS
  <2>1. \A i \in Ids : /\ Info(i).addr = AddrOf[i] /\ IdOf[AddrOf[i]] = i
                       /\ NewBucketOf[AddrOf[i]] \in NewBuckets
                       /\ TriedBucketOf[AddrOf[i]] \in TriedBuckets
    BY PoolAssumption, BookAssumption DEF BookAssumption, Info
  <2> QED
    BY <2>1 DEF Init, StartBook, Apart, InNew, InTried, NewSlot, TriedSlot
<1>2. PoolInv /\ Apart(book) /\ Next => Apart(book') /\ Spares(book, book')
  <2> SUFFICES ASSUME PoolInv, Apart(book), Next PROVE Apart(book') /\ Spares(book, book')
    OBVIOUS
  <2>1. book \in Book /\ Spares(book, book)
    BY RankIs DEF PoolInv, Sound, Spares
  <2> QED
    BY <2>1, BookWriters, HandlersSpare
<1>3. PoolInv /\ Apart(book) /\ [Next]_vars => Apart(book)'
  BY <1>2 DEF vars, Apart
<1>4. PoolInv /\ Apart(book) /\ [Next]_vars => [A]_vars
  BY <1>2 DEF Spares
<1> HIDE DEF A
<1>5. Spec => [][A]_vars
  BY <1>1, <1>3, <1>4, PoolSound, PTL DEF Spec
<1> QED
  BY <1>5 DEF A, WhitelistedKept
=============================================================================
