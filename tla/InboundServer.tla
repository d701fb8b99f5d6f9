---------------------------- MODULE InboundServer ----------------------------
(***************************************************************************)
(* The node as a server (src/src/p2p.js, _startPeerServer) and the inbound *)
(* half of the peer pool (src/src/peer_pool.js).                           *)
(*                                                                         *)
(* Accepted sockets queue up on a stream.  One loop takes them in turn and *)
(* turns them away or into inbound peers, and it pauses when the node has  *)
(* connected to itself.  A socket can close while it waits, before anyone  *)
(* listens to it, and the close events of inbound peers are consumed later *)
(* than they are announced.  Once closed, a server socket stays closed.    *)
(***************************************************************************)
EXTENDS PeerLists, Integers, Sequences

CONSTANTS
    AddrOf,          \* the address form the server writes for a peer
    Self,            \* the id under which the node sees itself
    Passive,         \* peers that do not take connections
    Whitelisted,     \* peers never evicted
    MaxInbound,      \* maxInboundConnections times the module count
    Latency,         \* protection ratios, in thousandths
    Usefulness,
    Longevity,
    MaxQueue,        \* bound: sockets that wait at one time
    NoSocket         \* no entry in the inbound peer map

VARIABLES
    queue,     \* accepted sockets the loop has not taken
    paused,    \* the loop waits a tick, to forget the node's own address after it
    inbound,   \* _inboundPeerMap, each peer shown by its socket
    loose,     \* removed peers' sockets that are open or still have handlers
    book       \* the peer book

vars == <<queue, paused, inbound, loose, book>>

\* close: announced to the peer's listener, not yet consumed.  deaf (history): the
\* socket had closed before the peer began to listen.
Socket == [peer : Ids, open : BOOLEAN, close : BOOLEAN, deaf : BOOLEAN]

Info(i)   == [addr |-> AddrOf[i], detailed |-> TRUE]
InPool(i) == inbound[i] # NoSocket
Pooled    == {i \in Ids : InPool(i)}

-----------------------------------------------------------------------------
\* Mutant: the close listener is killed, so that the event is lost.
MutantDisconnect(s) == [s EXCEPT !.open = FALSE]

\* InboundPeer.disconnect: the listener gets what is announced and ends.
Disconnect(s) == IF s.open THEN [s EXCEPT !.open = FALSE, !.close = TRUE] ELSE s

\* Mutant: the pool's handlers stay.
MutantUnbind(s) == s

Unbind(s) == [s EXCEPT !.close = FALSE]
Kept(ss)  == {s \in ss : s.open \/ s.close}

\* Mutant: the peer is forgotten, not disconnected.
MutantDismissed(i) == IF InPool(i) THEN {Unbind(inbound[i])} ELSE {}

\* What removeInboundPeer leaves of the peer.
Dismissed(i) == IF InPool(i) THEN {Unbind(Disconnect(inbound[i]))} ELSE {}

-----------------------------------------------------------------------------
\* Eviction.  Each filter protects the leading share of the peers that are left,
\* rounded up, and stops when one is left.  Who leads depends on measurements the
\* model does not have, so the choice is open and only the number matters.

Share(n, ratio)       == (n * ratio + 999) \div 1000
Unprotected(n, ratio) == n - Share(n, ratio)

Evictable(n) ==
    LET byLatency == Unprotected(n, Latency)
        byUse     == IF byLatency <= 1 THEN byLatency ELSE Unprotected(byLatency, Usefulness)
    IN  IF byUse <= 1 THEN byUse ELSE Unprotected(byUse, Longevity)

\* Mutant: whitelisted peers are candidates.
MutantVictims == IF Evictable(Cardinality(Pooled)) > 0 THEN Pooled ELSE {}

\* The peers of whom _evictPeer may take one.
Victims ==
    LET peers == Pooled \ Whitelisted
    IN  IF Evictable(Cardinality(peers)) > 0 THEN peers ELSE {}

ASSUME ServerAssumption ==
    /\ AddrOf \in [Ids -> Forms]
    /\ \A i \in Ids : IdOf[AddrOf[i]] = i
    /\ Self \in Ids \ Passive
    /\ Whitelisted \subseteq Ids
    /\ MaxInbound \in Nat
    /\ {Latency, Usefulness, Longevity} \subseteq 0 .. 1000
    /\ MaxQueue \in Nat \ {0}
    /\ NoSocket \notin Socket

\* Protection leaves someone to evict of two peers or more (the default ratios do).
ASSUME RatiosAssumption == \A n \in 2 .. Cardinality(Ids) : Evictable(n) > 0

-----------------------------------------------------------------------------
Init ==
    /\ queue = <<>>
    /\ paused = FALSE
    /\ inbound = [i \in Ids |-> NoSocket]
    /\ loose = {}
    /\ book = EmptyBook

\* The server accepts a connection.
Connect(i) ==
    /\ Len(queue) < MaxQueue
    /\ queue' = Append(queue, [peer |-> i, open |-> TRUE, close |-> FALSE, deaf |-> FALSE])
    /\ UNCHANGED <<paused, inbound, loose, book>>

\* A waiting socket closes: nobody listens.
HangUp(k) ==
    /\ queue[k].open
    /\ queue' = [queue EXCEPT ![k].open = FALSE]
    /\ UNCHANGED <<paused, inbound, loose, book>>

\* The remote side or the network closes an inbound peer's socket.
Lose(i) ==
    /\ InPool(i) /\ inbound[i].open
    /\ inbound' = [inbound EXCEPT ![i] = [@ EXCEPT !.open = FALSE, !.close = TRUE]]
    /\ UNCHANGED <<queue, paused, loose, book>>

\* The node disconnects an inbound peer: a ban, a request that timed out.
Drop(i) ==
    /\ InPool(i) /\ inbound[i].open
    /\ inbound' = [inbound EXCEPT ![i] = Disconnect(@)]
    /\ UNCHANGED <<queue, paused, loose, book>>

\* _handlePeerCloseInbound removes by id, whoever sits under that id by now.
ConsumeClose(i, s) ==
    /\ s.close
    /\ inbound' = [inbound EXCEPT ![i] = NoSocket]
    /\ loose' = Kept((loose \ {s}) \cup Dismissed(i))
    /\ UNCHANGED <<queue, paused, book>>

\* The node's own address enters the book, from a list or by dialling itself.
LearnSelf ==
    /\ \E b \in AddPeer(book, Info(Self)) : book' \in {b} \cup UpgradePeer(b, Info(Self))
    /\ UNCHANGED <<queue, paused, inbound, loose>>

-----------------------------------------------------------------------------
\* One turn of the loop takes the first waiting socket.

Take ==
    /\ ~paused /\ queue # <<>>
    /\ queue' = Tail(queue)

\* A blacklisted or banned address, a bad query, an incompatible peer.
Refuse ==
    /\ Take
    /\ UNCHANGED <<paused, inbound, loose, book>>

\* The node's own nonce: refuse, and wait a tick before forgetting the address.
MeetSelf ==
    /\ Take
    /\ Head(queue).peer = Self
    /\ paused' = TRUE
    /\ UNCHANGED <<inbound, loose, book>>

\* Mutant: one peer more than the limit.
MutantAddInboundPeer(s) ==
    \E v \in IF Cardinality(Pooled) <= MaxInbound \/ Victims = {} THEN {s.peer} ELSE Victims :
        /\ inbound' = [inbound EXCEPT ![v] = NoSocket, ![s.peer] = [s EXCEPT !.deaf = ~s.open]]
        /\ loose' = Kept(loose \cup Dismissed(v))

\* PeerPool.addInboundPeer, which makes room first when the pool is full (a v that
\* is s.peer makes none: that peer is not in the pool).
AddInboundPeer(s) ==
    \E v \in IF Cardinality(Pooled) < MaxInbound \/ Victims = {} THEN {s.peer} ELSE Victims :
        /\ inbound' = [inbound EXCEPT ![v] = NoSocket, ![s.peer] = [s EXCEPT !.deaf = ~s.open]]
        /\ loose' = Kept(loose \cup Dismissed(v))

\* A peer that passes the checks enters the pool, or is turned away as a duplicate.
\* The book hears of it in both cases.
Admit ==
    /\ Take
    /\ LET s == Head(queue)
       IN  /\ s.peer # Self
           /\ IF InPool(s.peer) THEN UNCHANGED <<inbound, loose>> ELSE AddInboundPeer(s)
           /\ IF s.peer \in Passive THEN UNCHANGED book
              ELSE book' \in AddPeer(book, Info(s.peer))
    /\ UNCHANGED paused

\* Mutant: the loop goes on and forgets to forget.
MutantResume ==
    /\ paused
    /\ paused' = FALSE
    /\ UNCHANGED <<queue, inbound, loose, book>>

\* The tick is over.
Resume ==
    /\ paused
    /\ paused' = FALSE
    /\ book' = RemovePeer(book, Info(Self))
    /\ UNCHANGED <<queue, inbound, loose>>

Loop == Refuse \/ MeetSelf \/ Admit \/ Resume

Objects(i) == {s \in loose : s.peer = i} \cup (IF InPool(i) THEN {inbound[i]} ELSE {})

Next ==
    \/ Loop
    \/ LearnSelf
    \/ \E k \in DOMAIN queue : HangUp(k)
    \/ \E i \in Ids : \/ Connect(i)
                      \/ Lose(i)
                      \/ Drop(i)
                      \/ \E s \in Objects(i) : ConsumeClose(i, s)

\* The event loop runs the accept loop, its timer and the listeners of every peer.
Fairness ==
    /\ WF_vars(Loop)
    /\ \A i \in Ids : WF_vars(\E s \in Objects(i) : ConsumeClose(i, s))

Spec == Init /\ [][Next]_vars /\ Fairness

-----------------------------------------------------------------------------
\* Every variable has its type, an entry is its own peer's, and no removed peer
\* keeps the pool's handlers.
TypeOK ==
    /\ queue \in Seq(Socket)
    /\ paused \in BOOLEAN
    /\ inbound \in [Ids -> Socket \cup {NoSocket}]
    /\ \A i \in Pooled : inbound[i].peer = i
    /\ loose \subseteq Socket
    /\ \A s \in loose : ~s.close
    /\ book \in Book

\* When the pool exceeds its limit, at most two peers are in it that are not
\* whitelisted.  (A lone evictable peer is always protected by the rounding up, so the
\* pool takes a second one before it evicts: a limit of 0 or 1 is passed by that one,
\* a larger limit only by whitelisted peers.)
InboundLimit ==
    Cardinality(Pooled) <= MaxInbound \/ Cardinality(Pooled \ Whitelisted) <= 2

\* Whatever the pool lets go of (a closed, dropped or evicted peer) is disconnected:
\* no socket outlives its entry, to be used by a peer the limit does not count.
NoOrphan == \A s \in loose : ~s.open

\* A peer in the map with a closed socket has a close event on its way, unless the
\* socket closed while it waited in the queue.  (Such an entry stays, and its peer
\* is turned away as a duplicate, until it is evicted.)
NoZombie ==
    \A i \in Pooled : inbound[i].open \/ inbound[i].close \/ inbound[i].deaf

\* A peer leaves the map through the close of its own connection, or is evicted
\* from a full pool in favour of a newcomer, which a whitelisted peer never is.  A
\* duplicate, or a late close of an earlier connection, does not cost it its place.
LeavesByRight ==
    [][\A i \in Ids : InPool(i) /\ ~InPool(i)' =>
         \/ inbound[i].close
         \/ /\ i \notin Whitelisted
            /\ Cardinality(Pooled) >= MaxInbound
            /\ \E j \in Ids \ {i} : ~InPool(j) /\ InPool(j)']_vars

\* A connection the pool listened to leaves the map after it closed.
ClosedLeaves ==
    \A i \in Ids : (InPool(i) /\ ~inbound[i].open /\ ~inbound[i].deaf) ~> ~InPool(i)

\* After a connection to itself the node loses its own address from both lists, even
\* if it learns it again meanwhile.
SelfForgotten == paused ~> ~Known(book, Info(Self))
=============================================================================
