------------------------------ MODULE Lifecycle ------------------------------
(***************************************************************************)
(* start() and stop() of a node (src/src/p2p.js), with the awaits between  *)
(* their steps, the populator's interval, the pool they fill and empty,    *)
(* and the loops that accept connections.  Calls may overlap: start()      *)
(* looks at _isActive before its awaits and sets it after them.            *)
(***************************************************************************)
EXTENDS Naturals, FiniteSets

CONSTANTS
    Starts,     \* the calls of start(), one element for each
    Peers,      \* peers of the book that the populator may dial
    Sockets,    \* connections other nodes make, one element for each
    PeerOf      \* the peer id of a socket

VARIABLES
    active,         \* P2P._isActive
    hasConnected,   \* P2P._hasConnected
    populatorId,    \* P2P._populatorIntervalId holds an id
    populators,     \* how many intervals of the populator run
    outbound,       \* keys of PeerPool._outboundPeerMap
    shuffling,      \* the shuffle interval of the pool runs
    inbound,        \* PeerPool._inboundPeerMap, peers shown by their sockets
    pc,             \* where each call of start() is
    ready,          \* AGServer.isReady
    listening,      \* the HTTP server listens
    closing,        \* stop() waits for the servers to close
    waiting,        \* sockets each accept loop has not taken yet
    arrived,        \* history: sockets the server has accepted
    duplicates      \* history: sockets disconnected with DUPLICATE_CONNECTION

populatorVars == <<populatorId, populators>>
serverVars    == <<ready, listening, closing>>
acceptVars    == <<inbound, waiting, arrived, duplicates>>
vars == <<active, hasConnected, populatorVars, outbound, shuffling, pc, serverVars, acceptVars>>

\* "ready": awaits the server; "resumed": the server was ready; "delay": awaits
\* the populator's start delay; "failed": threw.
Stages == {"none", "ready", "resumed", "delay", "done", "failed"}

\* Every call that got past the first check has installed a loop for good.
Loops == {c \in Starts : pc[c] # "none"}

Init ==
    /\ active = FALSE
    /\ hasConnected = FALSE
    /\ populatorId = FALSE
    /\ populators = 0
    /\ outbound = {}
    /\ shuffling = TRUE
    /\ inbound = {}
    /\ pc = [c \in Starts |-> "none"]
    /\ ready \in BOOLEAN
    /\ listening = FALSE
    /\ closing = FALSE
    /\ waiting = [c \in Starts |-> {}]
    /\ arrived = {}
    /\ duplicates = {}

-----------------------------------------------------------------------------
\* start()

\* listen() throws when the server listens already; else the node is active.
Serve(c) ==
    IF listening
    THEN pc' = [pc EXCEPT ![c] = "failed"] /\ UNCHANGED <<active, listening>>
    ELSE /\ pc' = [pc EXCEPT ![c] = "delay"]
         /\ listening' = TRUE
         /\ active' = TRUE

\* A call past the check: the loop is installed, then either the server is
\* ready and the call goes on in the same turn, or it waits.
Start(c) ==
    /\ pc[c] = "none"
    /\ ~active
    /\ IF ready THEN Serve(c)
       ELSE pc' = [pc EXCEPT ![c] = "ready"] /\ UNCHANGED <<active, listening>>
    /\ UNCHANGED <<hasConnected, populatorVars, outbound, shuffling, ready, closing, acceptVars>>

\* The server announces that it is ready, to all who wait.
Ready ==
    /\ ~ready
    /\ ready' = TRUE
    /\ pc' = [c \in Starts |-> IF pc[c] = "ready" THEN "resumed" ELSE pc[c]]
    /\ UNCHANGED <<active, hasConnected, populatorVars, outbound, shuffling, listening, closing, acceptVars>>

Resume(c) ==
    /\ pc[c] = "resumed"
    /\ Serve(c)
    /\ UNCHANGED <<hasConnected, populatorVars, outbound, shuffling, ready, closing, acceptVars>>

\* once(readyTimeout) rejects, and start() with it.
ReadyTimeout(c) ==
    /\ pc[c] = "ready"
    /\ pc' = [pc EXCEPT ![c] = "failed"]
    /\ UNCHANGED <<active, hasConnected, populatorVars, outbound, shuffling, serverVars, acceptVars>>

\* _peerPool.triggerNewConnections: some peers of the book are dialled.
TriggerNewConnections == \E S \in SUBSET Peers : outbound' = outbound \cup S

\* Mutant: a second interval starts beside the first.
MutantStartPopulator(c) ==
    /\ pc' = [pc EXCEPT ![c] = "done"]
    /\ populatorId' = TRUE
    /\ populators' = populators + 1
    /\ TriggerNewConnections

\* Throws when the id is set: "Populator is already running".
StartPopulator(c) ==
    IF populatorId
    THEN pc' = [pc EXCEPT ![c] = "failed"] /\ UNCHANGED <<populatorVars, outbound>>
    ELSE /\ pc' = [pc EXCEPT ![c] = "done"]
         /\ populatorId' = TRUE
         /\ populators' = populators + 1
         /\ TriggerNewConnections

\* Mutant: the node may have been stopped during the delay, and nobody asks.
MutantDelayNoCheck(c) ==
    /\ pc[c] = "delay"
    /\ StartPopulator(c)
    /\ UNCHANGED <<active, hasConnected, shuffling, serverVars, acceptVars>>

\* Mutant: it asks for a connection instead.
MutantDelayWaits(c) ==
    /\ pc[c] = "delay"
    /\ IF hasConnected THEN StartPopulator(c)
       ELSE pc' = [pc EXCEPT ![c] = "done"] /\ UNCHANGED <<populatorVars, outbound>>
    /\ UNCHANGED <<active, hasConnected, shuffling, serverVars, acceptVars>>

\* The start delay is over.
Delay(c) ==
    /\ pc[c] = "delay"
    /\ IF active THEN StartPopulator(c)
       ELSE pc' = [pc EXCEPT ![c] = "done"] /\ UNCHANGED <<populatorVars, outbound>>
    /\ UNCHANGED <<active, hasConnected, shuffling, serverVars, acceptVars>>

-----------------------------------------------------------------------------
\* stop()

\* The interval is cleared; its id stays where it is.
StopPopulator ==
    /\ populators' = IF populatorId /\ populators > 0 THEN populators - 1 ELSE populators
    /\ UNCHANGED populatorId

\* Everything up to the first await.  The server may stay ready or not.  (A connect
\* event of a removed peer, which may still make its socket dial, is in OutboundPool.)
Stop ==
    /\ active
    /\ active' = FALSE
    /\ hasConnected' = FALSE
    /\ StopPopulator
    /\ shuffling' = FALSE
    /\ outbound' = {}
    /\ inbound' = {}
    /\ closing' = TRUE
    /\ ready' \in {ready, FALSE}
    /\ UNCHANGED <<pc, listening, waiting, arrived, duplicates>>

\* Both servers are closed, and stop() returns.
Closed ==
    /\ closing
    /\ closing' = FALSE
    /\ listening' = FALSE
    /\ UNCHANGED <<active, hasConnected, populatorVars, outbound, shuffling, pc, ready, acceptVars>>

-----------------------------------------------------------------------------
\* What runs in between

Populate ==
    /\ populators > 0
    /\ TriggerNewConnections
    /\ UNCHANGED <<active, hasConnected, populatorVars, shuffling, pc, serverVars, acceptVars>>

\* A connect event of a peer in the pool, with some peer connected: the network
\* is ready (_isNetworkReady).
NetworkReady ==
    /\ outbound # {}
    /\ ~hasConnected
    /\ hasConnected' = TRUE
    /\ UNCHANGED <<active, populatorVars, outbound, shuffling, pc, serverVars, acceptVars>>

\* An outbound peer leaves: its socket closed, or it was banned.
LeaveOutbound(p) ==
    /\ p \in outbound
    /\ outbound' = outbound \ {p}
    /\ UNCHANGED <<active, hasConnected, populatorVars, shuffling, pc, serverVars, acceptVars>>

\* The shuffle interval, which nothing sets again once stop() has cleared it.
Shuffle(p) ==
    /\ shuffling
    /\ LeaveOutbound(p)

\* The server accepts a connection and hands it to every loop.
Connect(s) ==
    /\ listening /\ ~closing
    /\ s \notin arrived
    /\ arrived' = arrived \cup {s}
    /\ waiting' = [c \in Starts |-> IF c \in Loops THEN waiting[c] \cup {s} ELSE waiting[c]]
    /\ UNCHANGED <<active, hasConnected, populatorVars, outbound, shuffling, inbound, pc, serverVars, duplicates>>

\* One turn of one loop, for a socket that passes the other checks.  A loop does
\* not ask whether the node is active.
Accept(c, s) ==
    /\ s \in waiting[c]
    /\ waiting' = [waiting EXCEPT ![c] = @ \ {s}]
    /\ IF \E t \in inbound : PeerOf[t] = PeerOf[s]
       THEN duplicates' = duplicates \cup {s} /\ UNCHANGED inbound
       ELSE inbound' = inbound \cup {s} /\ UNCHANGED duplicates
    /\ UNCHANGED <<active, hasConnected, populatorVars, outbound, shuffling, pc, serverVars, arrived>>

\* An inbound peer leaves: its socket closed, or it was evicted or banned.
LeaveInbound(s) ==
    /\ s \in inbound
    /\ inbound' = inbound \ {s}
    /\ UNCHANGED <<active, hasConnected, populatorVars, outbound, shuffling, pc, serverVars, waiting, arrived, duplicates>>

Next ==
    \/ \E c \in Starts : Start(c) \/ Resume(c) \/ ReadyTimeout(c) \/ Delay(c)
    \/ Ready \/ Stop \/ Closed
    \/ Populate \/ NetworkReady
    \/ \E p \in Peers : LeaveOutbound(p) \/ Shuffle(p)
    \/ \E s \in Sockets : Connect(s) \/ LeaveInbound(s)
    \/ \E c \in Starts, s \in Sockets : Accept(c, s)

\* The start delay is a setTimeout: it ends.
Fairness == \A c \in Starts : WF_vars(Delay(c))

Spec == Init /\ [][Next]_vars /\ Fairness

-----------------------------------------------------------------------------
\* Also: there are never two intervals, and no loop sees a socket nobody made.
TypeOK ==
    /\ active \in BOOLEAN /\ hasConnected \in BOOLEAN /\ populatorId \in BOOLEAN
    /\ populators \in {0, 1}
    /\ outbound \subseteq Peers
    /\ shuffling \in BOOLEAN /\ ready \in BOOLEAN /\ listening \in BOOLEAN /\ closing \in BOOLEAN
    /\ inbound \subseteq Sockets /\ arrived \subseteq Sockets /\ duplicates \subseteq arrived
    /\ pc \in [Starts -> Stages]
    /\ waiting \in [Starts -> SUBSET arrived]
    /\ inbound \subseteq arrived

\* A node that is not active has no interval of the populator running and no outbound
\* peer in its pool, and does not think it is connected, however
\* calls of start and stop overlapped (p2p.js:821: "in case the P2P library is
\* shut down while it was in the middle of starting up").
Quiet == ~active => populators = 0 /\ outbound = {} /\ ~hasConnected

\* The first call of start() that reaches the start delay makes the node dial,
\* unless it is stopped meanwhile.  (After a stop the id that StopPopulator left
\* makes later calls throw.)
FirstStartDials ==
    \A c \in Starts : (pc[c] = "delay" /\ ~populatorId) ~> (populators = 1 \/ ~active)

\* "Peer has a duplicate connection" (disconnect_status_codes.js:42): a socket
\* turned away with that reason belongs to a peer that made another connection.
DuplicatesAreReal ==
    \A s \in duplicates : \E t \in arrived \ {s} : PeerOf[t] = PeerOf[s]
=============================================================================
