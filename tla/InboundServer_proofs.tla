------------------------ MODULE InboundServer_proofs ------------------------
(***************************************************************************)
(* The inbound pool keeps to its limit, owns every open socket the loop    *)
(* has taken, and lets nobody go without a right to, for any number of     *)
(* peers, any limit, and any ratios that leave someone to evict.           *)
(***************************************************************************)
EXTENDS InboundServer, PeerLists_proofs

\* What is true of the entry s of peer i.
EntryInv(i, s) ==
    /\ s \in Socket
    /\ s.peer = i
    /\ s.open \/ s.close \/ s.deaf

MapInv ==
    /\ inbound \in [Ids -> Socket \cup {NoSocket}]
    /\ \A i \in Ids : InPool(i) => EntryInv(i, inbound[i])

ServerInv ==
    /\ queue \in Seq(Socket)
    /\ paused \in BOOLEAN
    /\ MapInv
    /\ loose = {}
    /\ Sound(book)
    /\ InboundLimit

-----------------------------------------------------------------------------
\* A peer's info is a peer info.
LEMMA InfoType == ASSUME NEW i \in Ids PROVE Info(i) \in PeerInfo
BY ServerAssumption DEF Info, PeerInfo

\* A removed peer leaves nothing: its socket is closed and its handlers are gone.
LEMMA NothingLeft == ASSUME MapInv, NEW i \in Ids PROVE Kept(Dismissed(i)) = {}
<1>1. ASSUME NEW s \in Socket
      PROVE  ~Unbind(Disconnect(s)).open /\ ~Unbind(Disconnect(s)).close
  <2>1. Disconnect(s) \in Socket /\ ~Disconnect(s).open
    BY DEF Disconnect, Socket
  <2> QED BY <2>1 DEF Unbind, Socket
<1> QED BY <1>1 DEF Kept, Dismissed, MapInv, EntryInv

\* The pool's members are finitely many.
LEMMA PooledFinite ==
    /\ IsFiniteSet(Pooled) /\ IsFiniteSet(Pooled \ Whitelisted)
    /\ Cardinality(Pooled) \in Nat /\ Cardinality(Pooled \ Whitelisted) \in Nat
    /\ Cardinality(Pooled \ Whitelisted) <= Cardinality(Ids)
<1>1. IsFiniteSet(Ids) /\ Pooled \subseteq Ids /\ Pooled \ Whitelisted \subseteq Ids
  BY BookAssumption DEF Pooled, BookAssumption
<1> QED BY <1>1, FS_Subset, FS_CardinalityType

\* A pool without newcomers keeps to its limit.
LEMMA FewerKeepLimit ==
    ASSUME InboundLimit, \A i \in Ids : InPool(i)' => InPool(i)
    PROVE  InboundLimit'
<1>1. Pooled' \subseteq Pooled /\ Pooled' \ Whitelisted \subseteq Pooled \ Whitelisted
  BY DEF Pooled
<1>2. /\ Cardinality(Pooled') <= Cardinality(Pooled) /\ Cardinality(Pooled') \in Nat
      /\ Cardinality(Pooled' \ Whitelisted) <= Cardinality(Pooled \ Whitelisted)
      /\ Cardinality(Pooled' \ Whitelisted) \in Nat
  BY <1>1, PooledFinite, FS_Subset, FS_CardinalityType
<1> QED BY <1>2, PooledFinite, ServerAssumption DEF InboundLimit

\* A newcomer in a pool that is not full, or has nobody to evict.
LEMMA NewcomerKeepsLimit ==
    ASSUME InboundLimit, NEW i \in Ids, Pooled' = Pooled \cup {i},
           Cardinality(Pooled) < MaxInbound \/ Victims = {}
    PROVE  InboundLimit'
<1>1. /\ Cardinality(Pooled') <= Cardinality(Pooled) + 1
      /\ Cardinality(Pooled') \in Nat
  <2> DEFINE S == Pooled
  <2>1. IsFiniteSet(S) /\ Pooled' = S \cup {i} /\ S = Pooled
    BY PooledFinite
  <2> HIDE DEF S
  <2>2. /\ Cardinality(S \cup {i}) <= Cardinality(S) + 1
        /\ Cardinality(S \cup {i}) \in Nat
    BY <2>1, AddAtMostOne
  <2> QED BY <2>1, <2>2, Zenon
<1>2. CASE Cardinality(Pooled) < MaxInbound
  BY <1>1, <1>2, PooledFinite, ServerAssumption DEF InboundLimit
<1>3. CASE Victims = {}
  <2> DEFINE others == Pooled \ Whitelisted
  <2>1. Cardinality(others) <= 1
    <3>1. Cardinality(others) # 0 => others # {}
      BY FS_EmptySet
    <3>2. CASE Evictable(Cardinality(others)) > 0
      BY <1>3, <3>1, <3>2 DEF Victims
    <3>3. CASE ~(Evictable(Cardinality(others)) > 0)
      BY <3>3, PooledFinite, RatiosAssumption
    <3> QED BY <3>2, <3>3
  <2>2. Cardinality(others \cup {i}) <= 2 /\ IsFiniteSet(others \cup {i})
    <3>1. IsFiniteSet(others) /\ Cardinality(others) \in Nat
      BY PooledFinite
    <3> HIDE DEF others
    <3>2. /\ IsFiniteSet(others \cup {i})
          /\ Cardinality(others \cup {i}) \in Nat
          /\ Cardinality(others \cup {i}) <= Cardinality(others) + 1
      BY <3>1, AddAtMostOne
    <3> QED BY <2>1, <3>1, <3>2
  <2>3. Pooled' \ Whitelisted \subseteq others \cup {i}
    OBVIOUS
  <2>4. Cardinality(Pooled' \ Whitelisted) <= 2
    <3> HIDE DEF others
    <3>1. /\ Cardinality(Pooled' \ Whitelisted) <= Cardinality(others \cup {i})
          /\ Cardinality(Pooled' \ Whitelisted) \in Nat
          /\ Cardinality(others \cup {i}) \in Nat
      BY <2>2, <2>3, FS_Subset, FS_CardinalityType
    <3> QED BY <2>2, <3>1
  <2> QED BY <2>4 DEF InboundLimit
<1> QED BY <1>2, <1>3

\* An exchange of one element does not enlarge a set.
LEMMA ExchangeKeepsSize ==
    ASSUME NEW S, IsFiniteSet(S), NEW v \in S, NEW i
    PROVE  /\ IsFiniteSet((S \ {v}) \cup {i})
           /\ Cardinality((S \ {v}) \cup {i}) \in Nat
           /\ Cardinality((S \ {v}) \cup {i}) <= Cardinality(S)
<1> DEFINE R == S \ {v}
<1>1. Cardinality(S) \in Nat
  BY FS_CardinalityType
<1>2. IsFiniteSet(R) /\ Cardinality(R) = Cardinality(S) - 1 /\ Cardinality(R) \in Nat
  BY <1>1, FS_RemoveElement, FS_CardinalityType
<1> HIDE DEF R
<1>3. /\ IsFiniteSet(R \cup {i})
      /\ Cardinality(R \cup {i}) \in Nat
      /\ Cardinality(R \cup {i}) <= Cardinality(R) + 1
  BY <1>2, AddAtMostOne
<1>4. Cardinality(R \cup {i}) <= Cardinality(S)
  BY <1>1, <1>2, <1>3
<1> QED BY <1>3, <1>4 DEF R

\* A newcomer for whom a peer that is not whitelisted makes room.
LEMMA ExchangeKeepsLimit ==
    ASSUME InboundLimit, NEW i \in Ids, NEW v \in Pooled \ Whitelisted,
           Pooled' = (Pooled \ {v}) \cup {i}
    PROVE  InboundLimit'
<1> DEFINE S      == Pooled
           others == Pooled \ Whitelisted
           rest   == (others \ {v}) \cup {i}
<1>1. Cardinality(Pooled') <= Cardinality(Pooled) /\ Cardinality(Pooled') \in Nat
  <2>1. IsFiniteSet(S) /\ v \in S /\ Pooled' = (S \ {v}) \cup {i} /\ S = Pooled
    BY PooledFinite
  <2> HIDE DEF S
  <2>2. /\ Cardinality((S \ {v}) \cup {i}) \in Nat
        /\ Cardinality((S \ {v}) \cup {i}) <= Cardinality(S)
    BY <2>1, ExchangeKeepsSize
  <2> QED BY <2>1, <2>2, Zenon
<1>2. Pooled' \ Whitelisted \subseteq rest
  OBVIOUS
<1>3. others = Pooled \ Whitelisted /\ IsFiniteSet(others) /\ v \in others
  BY PooledFinite
<1> HIDE DEF others
<1>4. IsFiniteSet(rest) /\ Cardinality(rest) \in Nat /\ Cardinality(rest) <= Cardinality(others)
  BY <1>3, ExchangeKeepsSize
<1> HIDE DEF rest
<1>5. /\ Cardinality(Pooled' \ Whitelisted) <= Cardinality(rest)
      /\ Cardinality(Pooled' \ Whitelisted) \in Nat
  BY <1>2, <1>4, FS_Subset, FS_CardinalityType
<1>6. /\ Cardinality(others) = Cardinality(Pooled \ Whitelisted)
      /\ Cardinality(others) \in Nat /\ Cardinality(Pooled) \in Nat
  BY <1>3, PooledFinite, Zenon
<1> QED BY <1>1, <1>4, <1>5, <1>6, ServerAssumption DEF InboundLimit

-----------------------------------------------------------------------------
\* The initial state satisfies the invariant.
LEMMA ServerInit == Init => ServerInv
<1> SUFFICES ASSUME Init PROVE ServerInv
  OBVIOUS
<1>1. MapInv /\ Pooled = {}
  BY DEF Init, MapInv, Pooled, InPool
<1>2. InboundLimit
  <2>1. Cardinality(Pooled) = 0
    BY <1>1, FS_EmptySet
  <2> QED BY <2>1, ServerAssumption DEF InboundLimit
<1>3. Sound(book)
  BY EmptyBookSound DEF Init
<1>4. queue \in Seq(Socket) /\ paused \in BOOLEAN /\ loose = {}
  <2>1. queue \in Seq(Socket) /\ loose = {}
    <3>1. <<>> \in Seq(Socket)
      OBVIOUS
    <3> QED BY <3>1, Zenon DEF Init
  <2>2. paused \in BOOLEAN
    BY Zenon DEF Init
  <2> QED BY <2>1, <2>2
<1> QED BY <1>1, <1>2, <1>3, <1>4 DEF ServerInv

\* An entry changes hands: i's peer leaves the map.
LEMMA LeaveKeepsMap ==
    ASSUME MapInv, NEW i \in Ids, inbound' = [inbound EXCEPT ![i] = NoSocket]
    PROVE  MapInv' /\ \A j \in Ids : InPool(j)' => InPool(j)
<1>1. NoSocket \notin Socket
  BY ServerAssumption
<1> QED BY <1>1 DEF MapInv, InPool

\* An entry keeps its peer: i's socket becomes s.
LEMMA EntryKeepsMap ==
    ASSUME MapInv, NEW i \in Ids, InPool(i), NEW s, EntryInv(i, s),
           inbound' = [inbound EXCEPT ![i] = s]
    PROVE  MapInv' /\ \A j \in Ids : InPool(j)' <=> InPool(j)
<1>1. NoSocket \notin Socket /\ s \in Socket
  BY ServerAssumption DEF EntryInv
<1> QED BY <1>1 DEF MapInv, InPool

\* A waiting socket is a socket.
LEMMA HeadType ==
    ASSUME queue \in Seq(Socket), queue # <<>>
    PROVE  Head(queue) \in Socket /\ Tail(queue) \in Seq(Socket)
OBVIOUS

\* Whom the pool makes room for or with.
LEMMA NewcomerEnters ==
    ASSUME MapInv, NEW s \in Socket, ~InPool(s.peer), AddInboundPeer(s), loose = {}
    PROVE  /\ MapInv'
           /\ loose' = {}
           /\ InPool(s.peer)'
           /\ \E v \in Ids :
                /\ \/ v = s.peer /\ (Cardinality(Pooled) < MaxInbound \/ Victims = {})
                   \/ v \in Pooled \ Whitelisted /\ Cardinality(Pooled) >= MaxInbound
                /\ Pooled' = (Pooled \ {v}) \cup {s.peer}
<1> DEFINE new == [s EXCEPT !.deaf = ~s.open]
           free == Cardinality(Pooled) < MaxInbound \/ Victims = {}
<1>1. s.peer \in Ids /\ EntryInv(s.peer, new) /\ NoSocket \notin Socket
  <2>1. NoSocket \notin Socket
    BY ServerAssumption
  <2>2. s.peer \in Ids /\ new \in Socket /\ new.peer = s.peer
    BY DEF Socket
  <2>3. new.open = s.open /\ new.deaf = ~s.open
    BY DEF Socket
  <2>4. new.open \/ new.deaf
    BY <2>3
  <2> QED BY <2>1, <2>2, <2>4, Zenon DEF EntryInv
<1>2. PICK v \in IF free THEN {s.peer} ELSE Victims :
        /\ inbound' = [inbound EXCEPT ![v] = NoSocket, ![s.peer] = new]
        /\ loose' = Kept(loose \cup Dismissed(v))
  BY DEF AddInboundPeer
<1>3. /\ v \in Ids
      /\ \/ v = s.peer /\ free
         \/ v \in Pooled \ Whitelisted /\ Cardinality(Pooled) >= MaxInbound
  <2>1. Victims \subseteq Pooled \ Whitelisted /\ Pooled \subseteq Ids
    BY DEF Victims, Pooled
  <2>2. CASE free
    BY <1>1, <1>2, <2>2
  <2>3. CASE ~free
    <3>1. Cardinality(Pooled) >= MaxInbound
      BY <2>3, PooledFinite, ServerAssumption
    <3> QED BY <1>2, <2>1, <2>3, <3>1
  <2> QED BY <2>2, <2>3
<1> HIDE DEF new, free
<1>4. MapInv' /\ InPool(s.peer)'
  BY <1>1, <1>2, <1>3 DEF MapInv, InPool, EntryInv
<1>5. Pooled' = (Pooled \ {v}) \cup {s.peer}
  BY <1>1, <1>2, <1>3 DEF MapInv, Pooled, InPool, EntryInv
<1>6. loose' = {}
  <2>1. loose \cup Dismissed(v) = Dismissed(v)
    OBVIOUS
  <2> QED BY <1>2, <1>3, <2>1, NothingLeft
<1> QED BY <1>3, <1>4, <1>5, <1>6 DEF free

\* A peer that enters, with whom it replaces, keeps the limit.
LEMMA NewcomerWithinLimit ==
    ASSUME MapInv, InboundLimit, NEW s \in Socket, ~InPool(s.peer), AddInboundPeer(s),
           loose = {}
    PROVE  InboundLimit'
<1>1. PICK v \in Ids :
        /\ \/ v = s.peer /\ (Cardinality(Pooled) < MaxInbound \/ Victims = {})
           \/ v \in Pooled \ Whitelisted /\ Cardinality(Pooled) >= MaxInbound
        /\ Pooled' = (Pooled \ {v}) \cup {s.peer}
  BY NewcomerEnters
<1>2. s.peer \in Ids
  BY DEF Socket
<1>3. CASE v = s.peer /\ (Cardinality(Pooled) < MaxInbound \/ Victims = {})
  <2>1. Pooled' = Pooled \cup {s.peer}
    BY <1>1, <1>3
  <2> QED BY <1>2, <1>3, <2>1, NewcomerKeepsLimit
<1>4. CASE v \in Pooled \ Whitelisted
  BY <1>1, <1>2, <1>4, ExchangeKeepsLimit
<1> QED BY <1>1, <1>3, <1>4

-----------------------------------------------------------------------------
\* Each action keeps the invariant.

\* The map and what rests on it.
PoolInv == MapInv /\ loose = {} /\ InboundLimit

\* A map that is left alone.
LEMMA MapUnchanged ==
    ASSUME PoolInv, UNCHANGED <<inbound, loose>> PROVE PoolInv'
<1>1. MapInv' /\ loose' = {}
  BY DEF PoolInv, MapInv, InPool
<1>2. \A i \in Ids : InPool(i)' => InPool(i)
  BY DEF InPool
<1> QED BY <1>1, <1>2, FewerKeepLimit DEF PoolInv

\* A map in which one entry's socket changes.
LEMMA EntryKeepsPool ==
    ASSUME PoolInv, NEW i \in Ids, InPool(i), NEW s, EntryInv(i, s),
           inbound' = [inbound EXCEPT ![i] = s], UNCHANGED loose
    PROVE  PoolInv'
<1>1. MapInv' /\ \A j \in Ids : InPool(j)' <=> InPool(j)
  BY EntryKeepsMap DEF PoolInv
<1> QED BY <1>1, FewerKeepLimit DEF PoolInv

\* A socket that closes, with its event announced, stays a proper entry.
LEMMA CloseKeepsEntry ==
    ASSUME NEW i \in Ids, NEW s, EntryInv(i, s), s.open
    PROVE  /\ EntryInv(i, [s EXCEPT !.open = FALSE, !.close = TRUE])
           /\ Disconnect(s) = [s EXCEPT !.open = FALSE, !.close = TRUE]
<1> DEFINE new == [s EXCEPT !.open = FALSE, !.close = TRUE]
<1>1. new \in Socket /\ new.peer = i /\ new.close
  BY DEF EntryInv, Socket
<1>2. Disconnect(s) = new
  BY DEF Disconnect
<1> QED BY <1>1, <1>2, Zenon DEF EntryInv

LEMMA LoseStep == ASSUME PoolInv, NEW i \in Ids, Lose(i) PROVE PoolInv'
<1>1. EntryInv(i, inbound[i]) /\ InPool(i) /\ inbound[i].open
  BY DEF PoolInv, MapInv, Lose
<1>2. inbound' = [inbound EXCEPT ![i] = [inbound[i] EXCEPT !.open = FALSE, !.close = TRUE]]
  BY DEF Lose, PoolInv, MapInv
<1> QED BY <1>1, <1>2, CloseKeepsEntry, EntryKeepsPool DEF Lose

LEMMA DropStep == ASSUME PoolInv, NEW i \in Ids, Drop(i) PROVE PoolInv'
<1>1. EntryInv(i, inbound[i]) /\ InPool(i) /\ inbound[i].open
  BY DEF PoolInv, MapInv, Drop
<1>2. inbound' = [inbound EXCEPT ![i] = Disconnect(inbound[i])]
  BY DEF Drop, PoolInv, MapInv
<1>3. EntryInv(i, Disconnect(inbound[i]))
  BY <1>1, CloseKeepsEntry
<1> QED BY <1>1, <1>2, <1>3, EntryKeepsPool DEF Drop

\* A close that is consumed comes from the peer's entry: nothing else is listened to.
LEMMA CloseStep ==
    ASSUME PoolInv, NEW i \in Ids, NEW s \in Objects(i), ConsumeClose(i, s)
    PROVE  /\ PoolInv'
           /\ InPool(i) /\ inbound[i].close
           /\ \A j \in Ids : InPool(j) /\ ~InPool(j)' => j = i
<1>1. InPool(i) /\ s = inbound[i] /\ s.close
  BY DEF Objects, PoolInv, ConsumeClose
<1>2. MapInv' /\ \A j \in Ids : InPool(j)' => InPool(j)
  BY LeaveKeepsMap DEF PoolInv, ConsumeClose
<1>3. loose' = {}
  <2>1. (loose \ {s}) \cup Dismissed(i) = Dismissed(i)
    BY DEF PoolInv
  <2> QED BY <2>1, NothingLeft DEF PoolInv, ConsumeClose
<1>4. \A j \in Ids : InPool(j) /\ ~InPool(j)' => j = i
  BY DEF ConsumeClose, InPool, PoolInv, MapInv
<1> QED BY <1>1, <1>2, <1>3, <1>4, FewerKeepLimit DEF PoolInv

LEMMA AdmitStep ==
    ASSUME PoolInv, queue \in Seq(Socket), Sound(book), Admit
    PROVE  PoolInv' /\ Sound(book')
<1> DEFINE s == Head(queue)
<1>1. s \in Socket /\ s.peer \in Ids
  BY HeadType DEF Admit, Take, Socket
<1>2. PoolInv'
  <2>1. CASE InPool(s.peer)
    BY <2>1, MapUnchanged DEF Admit
  <2>2. CASE ~InPool(s.peer)
    <3>1. AddInboundPeer(s)
      BY <2>2 DEF Admit
    <3> HIDE DEF s
    <3> QED BY <1>1, <2>2, <3>1, NewcomerEnters, NewcomerWithinLimit DEF PoolInv
  <2> QED BY <2>1, <2>2
<1>3. Sound(book')
  <2>1. Info(s.peer) \in PeerInfo
    BY <1>1, InfoType
  <2>2. book' = book \/ book' \in AddPeer(book, Info(s.peer))
    BY DEF Admit
  <2> HIDE DEF s
  <2> QED BY <2>1, <2>2, AddPeerSound
<1> QED BY <1>2, <1>3

LEMMA LearnSelfStep == ASSUME Sound(book), LearnSelf PROVE Sound(book')
<1>1. Info(Self) \in PeerInfo
  BY ServerAssumption, InfoType
<1>2. PICK b \in AddPeer(book, Info(Self)) : book' \in {b} \cup UpgradePeer(b, Info(Self))
  BY DEF LearnSelf
<1>3. Sound(b)
  BY <1>1, <1>2, AddPeerSound
<1> QED BY <1>1, <1>2, <1>3, UpgradePeerSound

LEMMA ResumeStep == ASSUME Sound(book), Resume PROVE Sound(book')
<1>1. Info(Self) \in PeerInfo
  BY ServerAssumption, InfoType
<1> QED BY <1>1, RemovePeerSound DEF Resume

\* The queue holds sockets, whatever happens.
LEMMA QueueStep ==
    ASSUME queue \in Seq(Socket), paused \in BOOLEAN, Next
    PROVE  queue' \in Seq(Socket) /\ paused' \in BOOLEAN
<1>1. ASSUME NEW i \in Ids, Connect(i)
      PROVE  queue' \in Seq(Socket) /\ paused' \in BOOLEAN
  <2>1. [peer |-> i, open |-> TRUE, close |-> FALSE, deaf |-> FALSE] \in Socket
    BY DEF Socket
  <2>2. queue' \in Seq(Socket) /\ paused' = paused
    BY <1>1, <2>1 DEF Connect
  <2> QED BY <2>2, Zenon
<1>2. ASSUME NEW k \in DOMAIN queue, HangUp(k)
      PROVE  queue' \in Seq(Socket) /\ paused' \in BOOLEAN
  <2>1. queue[k] \in Socket
    OBVIOUS
  <2>2. [queue[k] EXCEPT !.open = FALSE] \in Socket
    BY <2>1 DEF Socket
  <2>3. queue' = [queue EXCEPT ![k] = [queue[k] EXCEPT !.open = FALSE]] /\ paused' = paused
    BY <1>2 DEF HangUp
  <2>4. queue' \in Seq(Socket)
    BY <2>2, <2>3
  <2> QED BY <2>3, <2>4, Zenon
<1>3. ASSUME Refuse \/ MeetSelf \/ Admit
      PROVE  queue' \in Seq(Socket) /\ paused' \in BOOLEAN
  <2>1. queue' \in Seq(Socket)
    BY <1>3, HeadType DEF Refuse, MeetSelf, Admit, Take
  <2>2. paused' = paused \/ paused' = TRUE
    BY <1>3, Zenon DEF Refuse, MeetSelf, Admit
  <2> QED BY <2>1, <2>2, Zenon
<1>4. ASSUME Resume
      PROVE  queue' \in Seq(Socket) /\ paused' \in BOOLEAN
  BY <1>4, Zenon DEF Resume
<1>5. ASSUME UNCHANGED <<queue, paused>>
      PROVE  queue' \in Seq(Socket) /\ paused' \in BOOLEAN
  BY <1>5, Zenon
<1>6. \/ \E i \in Ids : Connect(i)
      \/ \E k \in DOMAIN queue : HangUp(k)
      \/ Refuse \/ MeetSelf \/ Admit
      \/ Resume
      \/ UNCHANGED <<queue, paused>>
  BY DEF Next, Loop, LearnSelf, Lose, Drop, ConsumeClose
<1> QED BY <1>1, <1>2, <1>3, <1>4, <1>5, <1>6

LEMMA ServerStep == ServerInv /\ [Next]_vars => ServerInv'
<1> SUFFICES ASSUME ServerInv, [Next]_vars PROVE ServerInv'
  OBVIOUS
<1> DEFINE Goal == PoolInv' /\ Sound(book')
<1>1. PoolInv /\ Sound(book) /\ queue \in Seq(Socket) /\ paused \in BOOLEAN
  BY DEF ServerInv, PoolInv
<1>2. ASSUME Next PROVE queue' \in Seq(Socket) /\ paused' \in BOOLEAN
  BY <1>1, <1>2, QueueStep
<1>3. ASSUME UNCHANGED <<inbound, loose, book>> PROVE Goal
  BY <1>1, <1>3, MapUnchanged
<1>4. ASSUME UNCHANGED vars
      PROVE  queue' \in Seq(Socket) /\ paused' \in BOOLEAN /\ Goal
  BY <1>1, <1>3, <1>4, Zenon DEF vars
<1>5. ASSUME Admit PROVE Goal
  BY <1>1, <1>5, AdmitStep
<1>6. ASSUME LearnSelf PROVE Goal
  BY <1>1, <1>6, LearnSelfStep, MapUnchanged DEF LearnSelf
<1>7. ASSUME Resume PROVE Goal
  BY <1>1, <1>7, ResumeStep, MapUnchanged DEF Resume
<1>8. ASSUME NEW i \in Ids, Lose(i) PROVE Goal
  BY <1>1, <1>8, LoseStep DEF Lose
<1>9. ASSUME NEW i \in Ids, Drop(i) PROVE Goal
  BY <1>1, <1>9, DropStep DEF Drop
<1>10. ASSUME NEW i \in Ids, NEW s \in Objects(i), ConsumeClose(i, s) PROVE Goal
  BY <1>1, <1>10, CloseStep DEF ConsumeClose
<1>11. ASSUME Next
       PROVE  \/ Admit \/ LearnSelf \/ Resume
              \/ \E i \in Ids : Lose(i) \/ Drop(i) \/ \E s \in Objects(i) : ConsumeClose(i, s)
              \/ UNCHANGED <<inbound, loose, book>>
  BY <1>11 DEF Next, Loop, Refuse, MeetSelf, Connect, HangUp
<1> HIDE DEF Goal
<1>12. ASSUME Next PROVE Goal
  BY <1>3, <1>5, <1>6, <1>7, <1>8, <1>9, <1>10, <1>11, <1>12
<1>13. queue' \in Seq(Socket) /\ paused' \in BOOLEAN /\ Goal
  BY <1>2, <1>4, <1>12
<1> QED BY <1>13 DEF ServerInv, PoolInv, Goal

-----------------------------------------------------------------------------
\* The invariant holds of every behaviour of the inbound server.
THEOREM ServerSound == Spec => []ServerInv
BY ServerInit, ServerStep, PTL DEF Spec

\* The variables keep their types, and a removed peer keeps none of the pool's
\* handlers (peer_pool.js, removeInboundPeer).
THEOREM ServerTypeCorrect == Spec => []TypeOK
<1>1. ServerInv => TypeOK
  BY DEF ServerInv, MapInv, EntryInv, TypeOK, Pooled, Sound
<1> QED BY <1>1, ServerSound, PTL

\* Beyond its limit the inbound pool holds at most two peers that are not whitelisted
\* (peer_pool.js, addInboundPeer and _evictPeer).
THEOREM ServerWithinLimit == Spec => []InboundLimit
<1>1. ServerInv => InboundLimit
  BY DEF ServerInv
<1> QED BY <1>1, ServerSound, PTL

\* The pool disconnects whatever it lets go of (peer_pool.js, removeInboundPeer).
THEOREM ServerOwnsSockets == Spec => []NoOrphan
<1>1. ServerInv => NoOrphan
  BY DEF ServerInv, NoOrphan
<1> QED BY <1>1, ServerSound, PTL

\* A dead entry whose close nobody will hear is one that was dead on arrival
\* (p2p.js, _startPeerServer, and peer/inbound.js).
THEOREM ServerHasNoZombie == Spec => []NoZombie
<1>1. ServerInv => NoZombie
  BY DEF ServerInv, MapInv, EntryInv, NoZombie, Pooled
<1> QED BY <1>1, ServerSound, PTL

\* A peer leaves by its own close, or is evicted from a full pool for a newcomer
\* (peer_pool.js, _handlePeerCloseInbound and addInboundPeer).
THEOREM ServerLeavesByRight == Spec => LeavesByRight
<1> DEFINE ByRight(i) ==
             \/ inbound[i].close
             \/ /\ i \notin Whitelisted
                /\ Cardinality(Pooled) >= MaxInbound
                /\ \E j \in Ids \ {i} : ~InPool(j) /\ InPool(j)'
           Rule == \A i \in Ids : InPool(i) /\ ~InPool(i)' => ByRight(i)
<1>1. ServerInv /\ [Next]_vars => Rule
  <2> SUFFICES ASSUME ServerInv, [Next]_vars, NEW i \in Ids, InPool(i), ~InPool(i)'
               PROVE  ByRight(i)
    OBVIOUS
  <2>1. PoolInv /\ MapInv /\ loose = {} /\ queue \in Seq(Socket)
    BY DEF ServerInv, PoolInv
  <2>2. ASSUME NEW k \in Ids, NEW s \in Objects(k), ConsumeClose(k, s)
        PROVE  inbound[i].close
    BY <2>1, <2>2, CloseStep
  <2>3. ASSUME NEW k \in Ids, Lose(k) \/ Drop(k)
        PROVE  FALSE
    <3>1. InPool(k) /\ EntryInv(k, inbound[k]) /\ inbound[k].open
      BY <2>1, <2>3 DEF Lose, Drop, MapInv
    <3>2. inbound' = [inbound EXCEPT ![k] = [inbound[k] EXCEPT !.open = FALSE, !.close = TRUE]]
      BY <2>1, <2>3, <3>1, CloseKeepsEntry DEF Lose, Drop, MapInv
    <3>3. \A j \in Ids : InPool(j)' <=> InPool(j)
      BY <2>1, <3>1, <3>2, CloseKeepsEntry, EntryKeepsMap
    <3> QED BY <3>3
  <2>4. ASSUME Admit
        PROVE  ByRight(i)
    <3>1. PICK s \in Socket : s = Head(queue)
      BY <2>1, <2>4, HeadType DEF Admit, Take
    <3>2. s.peer \in Ids /\ ~InPool(s.peer) /\ AddInboundPeer(s)
      BY <2>4, <3>1 DEF Admit, InPool, Socket
    <3>3. PICK v \in Ids :
            /\ \/ v = s.peer /\ (Cardinality(Pooled) < MaxInbound \/ Victims = {})
               \/ v \in Pooled \ Whitelisted /\ Cardinality(Pooled) >= MaxInbound
            /\ Pooled' = (Pooled \ {v}) \cup {s.peer}
      BY <2>1, <3>1, <3>2, NewcomerEnters
    <3>4. InPool(s.peer)'
      BY <2>1, <3>1, <3>2, NewcomerEnters
    <3>5. i \in Pooled /\ i \notin Pooled'
      BY DEF Pooled
    <3>6. i = v /\ i # s.peer
      BY <3>2, <3>3, <3>5
    <3> QED BY <3>1, <3>2, <3>3, <3>4, <3>6
  <2>5. ~(UNCHANGED inbound)
    BY DEF InPool
  <2>6. \/ Admit
        \/ \E k \in Ids : Lose(k) \/ Drop(k) \/ \E s \in Objects(k) : ConsumeClose(k, s)
    BY <2>5 DEF Next, Loop, LearnSelf, Refuse, MeetSelf, Resume, Connect, HangUp, vars
  <2> QED BY <2>2, <2>3, <2>4, <2>6
<1>2. ServerInv /\ [Next]_vars => [Rule]_vars
  BY <1>1
<1> QED BY <1>2, ServerSound, PTL DEF Spec, LeavesByRight
=============================================================================
