------------------------------- MODULE BanList -------------------------------
(***************************************************************************)
(* Reputation, bans and their timers (src/src/peer/base.js, peer_pool.js,  *)
(* p2p.js).  A peer whose reputation runs out is banned: its HOST enters   *)
(* the node's list, and a timer of its own will take the host out again.   *)
(* Several peers of one host, or the two connections of one peer, may be   *)
(* banned while earlier timers are still running.                          *)
(***************************************************************************)
EXTENDS Integers, FiniteSets

CONSTANTS
    Ids, Hosts, HostOf,
    Reputation,      \* DEFAULT_REPUTATION_SCORE
    Penalties,       \* penalties the application or the rate check applies
    BanTime,         \* peerBanTime, in ticks
    TimerIds,        \* bound: how many ban timers may run at one time
    Gone,            \* no such object in the pool
    Idle             \* no timer under that timer id

ASSUME BanAssumption ==
    /\ HostOf \in [Ids -> Hosts]
    /\ Reputation \in Nat \ {0}
    /\ Penalties \subseteq Nat
    /\ BanTime \in Nat \ {0}
    /\ Gone \notin Nat
    /\ Idle \notin [peer : Ids, left : 0 .. BanTime]

VARIABLES
    rep,      \* reputation of every peer object in the pool, 0 for none left
    banned,   \* P2P._bannedPeers
    timers,   \* pending setTimeout calls of PeerPool._handleBanPeer
    since     \* history: ticks since the latest ban of a host, BanTime for longer

vars == <<rep, banned, timers, since>>

Kinds   == {"inbound", "outbound"}
Objects == Ids \X Kinds
Timer   == [peer : Ids, left : 0 .. BanTime]

Init ==
    /\ rep = [o \in Objects |-> Gone]
    /\ banned = {}
    /\ timers = [t \in TimerIds |-> Idle]
    /\ since = [h \in Hosts |-> BanTime]

-----------------------------------------------------------------------------
\* The inbound loop turns the connections of a banned host away; the populator
\* does not ask.
AcceptInbound(i) ==
    /\ rep[<<i, "inbound">>] = Gone
    /\ HostOf[i] \notin banned
    /\ rep' = [rep EXCEPT ![<<i, "inbound">>] = Reputation]
    /\ UNCHANGED <<banned, timers, since>>

Dial(i) ==
    /\ rep[<<i, "outbound">>] = Gone
    /\ rep' = [rep EXCEPT ![<<i, "outbound">>] = Reputation]
    /\ UNCHANGED <<banned, timers, since>>

\* A connection ends, by itself or because the peer was banned.
Leave(o) ==
    /\ rep[o] # Gone
    /\ rep' = [rep EXCEPT ![o] = Gone]
    /\ UNCHANGED <<banned, timers, since>>

Less(r, penalty) == IF r > penalty THEN r - penalty ELSE 0

\* Mutant: the timer runs one tick too long.
MutantStartTimers(i, n) ==
    \E ts \in SUBSET {t \in TimerIds : timers[t] = Idle} :
        /\ Cardinality(ts) = n
        /\ timers' = [t \in TimerIds |-> IF t \in ts THEN [peer |-> i, left |-> BanTime + 1]
                                         ELSE timers[t]]

\* _banPeer of n objects of peer i at once: n timers start.
StartTimers(i, n) ==
    \E ts \in SUBSET {t \in TimerIds : timers[t] = Idle} :
        /\ Cardinality(ts) = n
        /\ timers' = [t \in TimerIds |-> IF t \in ts THEN [peer |-> i, left |-> BanTime]
                                         ELSE timers[t]]

\* Mutant: no timer for a host that is already in the list.
MutantPenalise(i, os, penalty) ==
    /\ rep' = [o \in Objects |-> IF o \in os THEN Less(rep[o], penalty) ELSE rep[o]]
    /\ LET out == {o \in os : rep[o] <= penalty}
       IN  IF out = {} THEN UNCHANGED <<banned, timers, since>>
           ELSE /\ banned' = banned \cup {HostOf[i]}
                /\ since' = [since EXCEPT ![HostOf[i]] = 0]
                /\ IF HostOf[i] \in banned THEN UNCHANGED timers
                   ELSE StartTimers(i, Cardinality(out))

\* A penalty hits the objects os of peer i.  Peer.applyPenalty bans whenever it
\* leaves nothing, also a second time.
Penalise(i, os, penalty) ==
    /\ rep' = [o \in Objects |-> IF o \in os THEN Less(rep[o], penalty) ELSE rep[o]]
    /\ LET out == {o \in os : rep[o] <= penalty}
       IN  IF out = {} THEN UNCHANGED <<banned, timers, since>>
           ELSE /\ banned' = banned \cup {HostOf[i]}
                /\ since' = [since EXCEPT ![HostOf[i]] = 0]
                /\ StartTimers(i, Cardinality(out))

\* PeerPool.applyPenalty: the outbound and the inbound peer of that id.
ApplyPenalty(i, penalty) ==
    LET os == {o \in {i} \X Kinds : rep[o] # Gone}
    IN  os # {} /\ Penalise(i, os, penalty)

\* The rate check of one object that is not disconnected yet.
RateExceeded(o, penalty) ==
    /\ rep[o] # Gone /\ rep[o] # 0
    /\ Penalise(o[1], {o}, penalty)

\* Mutant: the peer id is taken out of the list instead of its host.
MutantHandleUnbanPeer(t) ==
    /\ timers[t] # Idle /\ timers[t].left = 0
    /\ banned' = banned \ {timers[t].peer}
    /\ timers' = [timers EXCEPT ![t] = Idle]
    /\ UNCHANGED <<rep, since>>

\* A ban timer is due: _handleUnbanPeer frees the host.
HandleUnbanPeer(t) ==
    /\ timers[t] # Idle /\ timers[t].left = 0
    /\ banned' = banned \ {HostOf[timers[t].peer]}
    /\ timers' = [timers EXCEPT ![t] = Idle]
    /\ UNCHANGED <<rep, since>>

\* Time passes; a due timer may be late.
Tick ==
    /\ timers' = [t \in TimerIds |->
                    IF timers[t] # Idle /\ timers[t].left > 0
                    THEN [timers[t] EXCEPT !.left = @ - 1] ELSE timers[t]]
    /\ since' = [h \in Hosts |-> IF since[h] < BanTime THEN since[h] + 1 ELSE BanTime]
    /\ UNCHANGED <<rep, banned>>

Next ==
    \/ Tick
    \/ \E t \in TimerIds : HandleUnbanPeer(t)
    \/ \E i \in Ids : AcceptInbound(i) \/ Dial(i)
    \/ \E o \in Objects : Leave(o)
    \/ \E p \in Penalties : \/ \E i \in Ids : ApplyPenalty(i, p)
                            \/ \E o \in Objects : RateExceeded(o, p)

\* Time passes and due timers fire.
Fairness == WF_vars(Tick) /\ \A t \in TimerIds : WF_vars(HandleUnbanPeer(t))

Spec == Init /\ [][Next]_vars /\ Fairness

-----------------------------------------------------------------------------
\* Every variable has its type.
TypeOK ==
    /\ rep \in [Objects -> 0 .. Reputation \cup {Gone}]
    /\ banned \subseteq Hosts
    /\ timers \in [TimerIds -> Timer \cup {Idle}]
    /\ since \in [Hosts -> 0 .. BanTime]

\* A ban cannot outlast its time, however bans of one host overlap: the timer of the
\* latest ban is still running, so the host is never left in the list for good.
BanHasTimer ==
    \A h \in banned : \E t \in TimerIds :
        /\ timers[t] # Idle
        /\ HostOf[timers[t].peer] = h
        /\ timers[t].left = BanTime - since[h]

\* A banned host is freed in the end, whatever its peers do meanwhile.
Unbanned == \A h \in Hosts : h \in banned ~> h \notin banned

\* "Unban peer after peerBanTime" (peer_pool.js:194): a host is freed only when its
\* latest ban has lasted the ban time.  The code frees it with the first timer.
FullBanTime ==
    [][\A h \in banned \ banned' : since[h] = BanTime]_vars
=============================================================================
