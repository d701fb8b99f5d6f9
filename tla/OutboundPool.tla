----------------------------- MODULE OutboundPool -----------------------------
(***************************************************************************)
(* The outbound half of the peer pool (src/src/peer_pool.js) composed with *)
(* the outbound peers it owns (src/src/peer/outbound.js, base.js), the     *)
(* peer book, and the handlers of p2p.js that tie them together.           *)
(*                                                                         *)
(* An outbound peer's socket announces what happens to it on event         *)
(* streams.  A "for await" loop consumes them LATER: between the moment a  *)
(* socket closes and the moment its close event is handled, timers fire    *)
(* and the application calls the node.  Nothing here depends on how soon   *)
(* the stream library delivers.                                            *)
(*                                                                         *)
(* Addresses are written in one form here (see PeerLists, Canonical), and  *)
(* the protocol fields of the infos are not tracked.                       *)
(***************************************************************************)
EXTENDS PeerLists, Integers

CONSTANTS
    AddrOf,         \* the address form the node writes for a peer
    HostOf,         \* the host of a peer
    Seeds,          \* peers start() puts in the new list
    Previous,       \* peers the constructor puts in the tried list
    Whitelisted,    \* peers start() puts in the tried list and never demotes
    Fixed,          \* peers the populator always dials
    MaxOutbound,    \* maxOutboundConnections times the module count
    MaxLoose,       \* bound: objects that may be loose at one time
    NoPeer          \* no entry in the outbound peer map

VARIABLES
    book,    \* the peer book
    pool     \* per peer id: "peer", its entry in _outboundPeerMap, and "dropped",
             \* objects removed from the map that still own a socket or an event

vars == <<book, pool>>

Info(i) == [addr |-> AddrOf[i], detailed |-> FALSE]

\* The book after the constructor and the first lines of start().
StartBook ==
    [new |-> [b \in NewBuckets |-> [i \in Ids |->
        IF i \in Seeds \ (Whitelisted \cup Previous) /\ NewBucketOf[AddrOf[i]] = b
        THEN [peerInfo |-> Info(i), aged |-> FALSE] ELSE Absent]],
     tried |-> [b \in TriedBuckets |-> [i \in Ids |->
        IF i \in Whitelisted \cup Previous /\ TriedBucketOf[AddrOf[i]] = b
        THEN [peerInfo |-> Info(i), failures |-> 0] ELSE Absent]]]

-----------------------------------------------------------------------------
\* Outbound peer objects.

Events == {"connect", "connectAbort", "close"}

\* active: disconnect() was not called, so the socket's listeners are attached.
\* bound: the pool's handlers are attached.  pending: announced, not yet consumed.
Conn == [active : BOOLEAN, bound : BOOLEAN,
         sock : {"connecting", "open", "closed"}, pending : SUBSET Events]

\* A new OutboundPeer: the node info pushed at once creates and dials its socket.
Fresh == [active |-> TRUE, bound |-> TRUE, sock |-> "connecting", pending |-> {}]

Announce(c, events) ==
    [c EXCEPT !.pending = IF c.active THEN @ \cup events ELSE @]

\* The socket closes, which aborts an attempt that has not completed.
Closed(c) ==
    [Announce(c, IF c.sock = "connecting" THEN {"connectAbort", "close"} ELSE {"close"})
        EXCEPT !.sock = "closed"]

\* Mutant: the close listener is killed, so what was announced to it is lost.
MutantDisconnect(c) ==
    IF ~c.active THEN c
    ELSE [c EXCEPT !.active = FALSE, !.sock = "closed", !.pending = @ \ {"close"}]

\* Peer.disconnect: effective once.  Listeners get what is announced and end.
Disconnect(c) ==
    IF ~c.active THEN c
    ELSE [IF c.sock = "closed" THEN c ELSE Closed(c) EXCEPT !.active = FALSE]

\* transmit and invoke dial a socket that is closed, whatever closed it.
Transmit(c) == [c EXCEPT !.sock = IF @ = "closed" THEN "connecting" ELSE @]

\* Mutant: the pool's handlers stay on the removed peer.
MutantUnbind(c) == c

\* After _unbindHandlersFromPeer, an event matters only for the requests that
\* the connect listener itself makes.
Unbind(c) == [c EXCEPT !.bound = FALSE, !.pending = @ \cap {"connect"}]

Consumed(c, event) == [c EXCEPT !.pending = @ \ {event}]

-----------------------------------------------------------------------------
\* The pool's map.

Entry     == [peer : Conn \cup {NoPeer}, dropped : SUBSET Conn]
InPool(i) == pool[i].peer # NoPeer
Pooled    == {i \in Ids : InPool(i)}
Conns(i)  == pool[i].dropped \cup (IF InPool(i) THEN {pool[i].peer} ELSE {})

Kept(cs) == {c \in cs : c.sock # "closed" \/ c.pending # {}}

\* Entry e after its object c became d.
Become(e, c, d) ==
    [peer    |-> IF e.peer = c THEN d ELSE e.peer,
     dropped |-> IF c \in e.dropped THEN Kept((e.dropped \ {c}) \cup {d}) ELSE e.dropped]

\* Mutants: the peer is forgotten but not disconnected; a peer already disconnected
\* is taken for removed.
MutantForget(e) ==
    IF e.peer = NoPeer THEN e
    ELSE [peer |-> NoPeer, dropped |-> Kept(e.dropped \cup {Unbind(e.peer)})]
MutantSkipInactive(e) ==
    IF e.peer = NoPeer \/ ~e.peer.active THEN e
    ELSE [peer |-> NoPeer, dropped |-> Kept(e.dropped \cup {Unbind(Disconnect(e.peer))})]

RemoveOutboundPeer(e) ==
    IF e.peer = NoPeer THEN e
    ELSE [peer |-> NoPeer, dropped |-> Kept(e.dropped \cup {Unbind(Disconnect(e.peer))})]

\* An object that would outlive its removal: a send revived it after disconnect()
\* or its connect event is still to come.  Bounding them bounds "dropped".
IsLoose(c) == (~c.active /\ c.sock # "closed") \/ "connect" \in c.pending
Loose      == UNION {{i} \X {c \in Conns(i) : IsLoose(c)} : i \in Ids}
LooseRoom  == Cardinality(Loose) < MaxLoose

Set(i, e)       == pool' = [pool EXCEPT ![i] = e]
Step(i, c, d)   == Set(i, Become(pool[i], c, d))

-----------------------------------------------------------------------------
\* The handlers of p2p.js, as the books they may leave.

HandleOutboundPeerConnect(i) ==
    IF Known(book, Info(i)) THEN UpgradePeer(book, Info(i))
    ELSE UNION {UpgradePeer(b, Info(i)) : b \in AddPeer(book, Info(i))}

\* Mutant: failed attempts demote whitelisted peers too.
MutantConnectAbort(i) ==
    IF Known(book, Info(i)) THEN DowngradePeer(book, Info(i)) ELSE {book}

HandleOutboundPeerConnectAbort(i) ==
    IF Known(book, Info(i)) /\ i \notin Whitelisted
    THEN DowngradePeer(book, Info(i)) ELSE {book}

HandlePeerInfoUpdate(i) ==
    IF Known(book, Info(i)) THEN UpgradePeer(UpdatePeer(book, Info(i)), Info(i))
    ELSE UNION {UpgradePeer(b, Info(i)) : b \in AddPeer(book, Info(i))}

HandleBanPeer(i) ==
    IF Known(book, Info(i)) /\ i \notin Whitelisted
    THEN RemovePeer(book, Info(i)) ELSE book

ASSUME PoolAssumption ==
    /\ AddrOf \in [Ids -> Forms]
    /\ \A i \in Ids : IdOf[AddrOf[i]] = i
    /\ Seeds \cup Previous \cup Whitelisted \cup Fixed \subseteq Ids
    /\ MaxOutbound \in Nat
    /\ NoPeer \notin Conn
    /\ Bounded(StartBook)      \* the configured lists fit in their buckets

-----------------------------------------------------------------------------
Init ==
    /\ book = StartBook
    /\ pool = [i \in Ids |-> [peer |-> NoPeer, dropped |-> {}]]

\* The network: an attempt ends well or badly, an open connection is lost.
Open(i, c) ==
    /\ c.sock = "connecting"
    /\ c.active => LooseRoom
    /\ Step(i, c, [Announce(c, {"connect"}) EXCEPT !.sock = "open"])
    /\ UNCHANGED book

Lose(i, c) ==
    /\ c.sock # "closed"
    /\ Step(i, c, Closed(c))
    /\ UNCHANGED book

\* Consumption of one event.  The pool's handlers run if they are still bound.
ConsumeConnect(i, c) ==
    /\ "connect" \in c.pending
    /\ IF c.bound THEN book' \in HandleOutboundPeerConnect(i) ELSE UNCHANGED book
    /\ Step(i, c, Transmit(Consumed(c, "connect")))      \* fetchStatus, discoverPeers

ConsumeAbort(i, c) ==
    /\ "connectAbort" \in c.pending
    /\ IF c.bound THEN book' \in HandleOutboundPeerConnectAbort(i) ELSE UNCHANGED book
    /\ Step(i, c, Consumed(c, "connectAbort"))

\* _handlePeerCloseOutbound removes by id, whoever sits under that id by now.
ConsumeClose(i, c) ==
    /\ "close" \in c.pending
    /\ LET e == Become(pool[i], c, Consumed(c, "close"))
       IN  Set(i, IF c.bound THEN RemoveOutboundPeer(e) ELSE e)
    /\ UNCHANGED book

\* The application sends or requests, or the node pushes new node info.
Send(i) ==
    /\ InPool(i) /\ pool[i].peer.sock = "closed"
    /\ ~pool[i].peer.active => LooseRoom
    /\ Step(i, pool[i].peer, Transmit(pool[i].peer))
    /\ UNCHANGED book

\* A request times out: Peer.request disconnects.
RequestTimeout(i) ==
    /\ InPool(i) /\ pool[i].peer.active
    /\ Step(i, pool[i].peer, Disconnect(pool[i].peer))
    /\ UNCHANGED book

\* A penalty takes the last of an outbound peer's reputation.
Ban(i) ==
    /\ InPool(i)
    /\ book' = HandleBanPeer(i)
    /\ Step(i, pool[i].peer, Disconnect(pool[i].peer))

\* A peer's info arrives: it answers fetchStatus or pushes an update, over its
\* outbound or its inbound connection, and the answer may be handled late.
UpdateInfo(i) == book' \in HandlePeerInfoUpdate(i) /\ UNCHANGED pool

\* An inbound peer is banned; a connection is accepted, or a peer is discovered.
InboundBan(i) == book' = HandleBanPeer(i) /\ UNCHANGED pool
Learn(i)      == book' \in AddPeer(book, Info(i)) /\ UNCHANGED pool

\* The shuffle timer evicts an outbound peer that is not fixed.
Shuffle(i) ==
    /\ InPool(i) /\ i \notin Fixed
    /\ Set(i, RemoveOutboundPeer(pool[i]))
    /\ UNCHANGED book

-----------------------------------------------------------------------------
\* The populator.

Candidates ==
    {i \in Ids : /\ \E p \in AllPeers(book) : IdOf[p.addr] = i
                 /\ ~InPool(i)
                 /\ \A f \in Fixed : HostOf[i] # HostOf[f]}

\* Mutant: attempts still in progress are not counted.
MutantSelectPeersForConnection(candidates) ==
    LET peerLimit == MaxOutbound - Cardinality({i \in Pooled : pool[i].peer.sock = "open"})
    IN  IF peerLimit < 0 THEN {{}}
        ELSE IF peerLimit >= Cardinality(candidates) THEN {candidates}
        ELSE {s \in SUBSET candidates : Cardinality(s) = peerLimit}

\* selectPeersForConnection: all candidates, or a random choice of as many as the
\* limit leaves room for.
SelectPeersForConnection(candidates) ==
    LET peerLimit == MaxOutbound - Cardinality(Pooled)
    IN  IF peerLimit < 0 THEN {{}}
        ELSE IF peerLimit >= Cardinality(candidates) THEN {candidates}
        ELSE {s \in SUBSET candidates : Cardinality(s) = peerLimit}

\* Mutant: fixed peers are left to the selection.
MutantTriggerNewConnections ==
    /\ \E peersToConnect \in SelectPeersForConnection(Candidates) :
         pool' = [i \in Ids |-> IF i \in peersToConnect
                               THEN [pool[i] EXCEPT !.peer = Fresh] ELSE pool[i]]
    /\ UNCHANGED book

TriggerNewConnections ==
    /\ \E peersToConnect \in SelectPeersForConnection(Candidates) :
         pool' = [i \in Ids |->
                    IF i \in peersToConnect \cup (Fixed \ Pooled)
                    THEN [pool[i] EXCEPT !.peer = Fresh] ELSE pool[i]]
    /\ UNCHANGED book

Consume(i, c) ==
    \/ ConsumeConnect(i, c)
    \/ ConsumeAbort(i, c)
    \/ ConsumeClose(i, c)

Next ==
    \/ TriggerNewConnections
    \/ \E i \in Ids : \/ Send(i)
                      \/ RequestTimeout(i)
                      \/ Ban(i)
                      \/ InboundBan(i)
                      \/ UpdateInfo(i)
                      \/ Learn(i)
                      \/ Shuffle(i)
                      \/ \E c \in Conns(i) : \/ Open(i, c)
                                             \/ Lose(i, c)
                                             \/ Consume(i, c)

\* The event loop consumes what was announced, and the populator's interval never
\* stops firing.  The network and the application owe nothing.
Fairness ==
    /\ WF_vars(TriggerNewConnections)
    /\ \A i \in Ids : WF_vars(\E c \in Conns(i) : ConsumeClose(i, c))

Spec == Init /\ [][Next]_vars /\ Fairness

-----------------------------------------------------------------------------
\* Every variable has its type, and no removed object keeps the pool's handlers.
TypeOK ==
    /\ book \in Book
    /\ pool \in [Ids -> Entry]
    /\ \A i \in Ids : \A c \in pool[i].dropped : ~c.bound

\* However dialling, eviction and removal interleave, the peers the node dialled of
\* its own choice never exceed the limit (the fixed peers come on top of it).
OutboundLimit == Cardinality(Pooled \ Fixed) <= MaxOutbound

\* No zombie in the map: a peer whose socket is closed has a close event on its
\* way, the only thing that ever removes it.  The populator would not redial it.
NoZombie ==
    \A i \in Pooled : pool[i].peer.sock # "closed" \/ "close" \in pool[i].peer.pending

\* Bans, failed attempts and the inbound side never cost a whitelisted peer its
\* place in the book; only another peer entering a full bucket does.
Rank(bk, i) == IF InTried(bk, Info(i)) THEN 2 ELSE IF InNew(bk, Info(i)) THEN 1 ELSE 0

WhitelistedKept ==
    [][\A i \in Whitelisted : Rank(book', i) < Rank(book, i) =>
         /\ Rank(book', i) = 0
         /\ \E j \in Ids \ {i} : Rank(book', j) # Rank(book, j) /\ Rank(book', j) > 0]_vars

\* Close events name a peer, not an object.  Even so a late one never removes the
\* connection that succeeded its own: a fixed peer leaves the map only through the
\* close of the very connection that is in the map.
FixedStays ==
    [][\A i \in Fixed : InPool(i) /\ ~InPool(i)' => "close" \in pool[i].peer.pending]_vars

\* Removing a peer that was not disconnected before closes its socket, also when a
\* send has reopened it after a loss.  (A peer that WAS disconnected keeps a socket
\* that a late send reopened: Peer.disconnect does nothing the second time.)
RemovalCloses ==
    [][\A i \in Ids : InPool(i) /\ ~InPool(i)' /\ pool[i].peer.active =>
         \A c \in pool'[i].dropped \ pool[i].dropped : c.sock = "closed"]_vars

\* A connection that closes always leaves the map in the end, even when the
\* application keeps sending to the peer and so reopens the socket.
ClosedLeaves ==
    \A i \in Ids : (InPool(i) /\ pool[i].peer.sock = "closed") ~> ~InPool(i)

\* A fixed peer is dialled again and again, however full the pool is.
FixedRedialled == \A i \in Fixed : []<>InPool(i)
=============================================================================
