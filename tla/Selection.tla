------------------------------ MODULE Selection ------------------------------
(***************************************************************************)
(* The stateless choices of PeerSelection, called with any input: the only *)
(* state is the call that was made last, with its input and its result.    *)
(***************************************************************************)
EXTENDS PeerSelection

CONSTANTS
    Peers,        \* peers that may be connected, in one direction or in both
    SendLimit,    \* sendPeerLimit
    MaxLimit,     \* bound: limits the application gives with a send
    Shares,       \* protection ratios in thousandths
    Measurements, \* [latency, responseRate, connectTime : Peers -> Nat]
    MaxKnown,     \* bound: how many peers the node knows
    MaxSetting    \* bound: response lengths and thresholds in a configuration

ASSUME SelectionAssumption ==
    /\ IsFiniteSet(Peers)
    /\ {SendLimit, MaxLimit, MaxKnown, MaxSetting} \subseteq Nat
    /\ Shares \in [latency : Nat, productivity : Nat, longevity : Nat]
    /\ Measurements \subseteq [latency : [Peers -> Nat], responseRate : [Peers -> Nat], connectTime : [Peers -> Nat]]

VARIABLE call

NoCall == [op |-> "none"]
CallInit == call = NoCall

\* The lists given to a selection have an entry for each connection of a peer,
\* marked with its kind.
Entries(peers, kind) == peers \X {kind}

\* PeerPool.send: the limit the application gives, which by default is the
\* configured one and for -1 the number of entries.
Limits(entries) == (0 .. MaxLimit) \cup {SendLimit, Cardinality(entries)}

Send(outbound, inbound) ==
    LET out == Entries(outbound, "outbound")
        in  == Entries(inbound, "inbound")
    IN  \E limit \in Limits(out \cup in) : \E chosen \in SelectPeersForSend(out, in, limit) :
            call' = [op |-> "send", out |-> out, in |-> in, limit |-> limit, chosen |-> chosen]

\* PeerPool.request: one peer, or it fails.
Request(outbound, inbound) ==
    LET entries == Entries(outbound, "outbound") \cup Entries(inbound, "inbound")
    IN  \E chosen \in SelectPeersForRequest(entries, 1) :
            call' = [op |-> "request", entries |-> entries, chosen |-> chosen]

\* PeerPool._evictPeer among the inbound peers that are not whitelisted.
Evict(peers, m) ==
    \E candidates \in SelectPeersForEviction(peers, m, Shares) : \E victim \in candidates :
        call' = [op |-> "evict", peers |-> peers, m |-> m, victim |-> victim]

\* P2P._handleGetPeersRequest
Answer(known, length, threshold) ==
    \E n \in AnswerSizes(known, length, threshold) :
        call' = [op |-> "answer", known |-> known, length |-> length, threshold |-> threshold, size |-> n]

Return == call # NoCall /\ call' = NoCall

Calls ==
    \/ /\ call = NoCall
       /\ \/ \E out, in \in SUBSET Peers : Send(out, in) \/ Request(out, in)
          \/ \E peers \in SUBSET Peers, m \in Measurements : Evict(peers, m)
          \/ \E known \in 0 .. MaxKnown, length, threshold \in 1 .. MaxSetting : Answer(known, length, threshold)
    \/ Return

CallSpec == CallInit /\ [][Calls]_call

-----------------------------------------------------------------------------
\* A send uses its whole limit while there are connections to use, and gives
\* each kind of connection at least half of it (rounded down), or all there are.
SendUsesLimit ==
    call.op = "send" =>
        /\ Cardinality(call.chosen) = Lesser(call.limit, Cardinality(call.out \cup call.in))
        /\ Cardinality(call.chosen \cap call.out) >= Lesser(call.limit \div 2, Cardinality(call.out))
        /\ Cardinality(call.chosen \cap call.in)  >= Lesser(call.limit \div 2, Cardinality(call.in))

Best(p, peers, value, asc) ==
    \A q \in peers \ {p} : IF asc THEN value[p] < value[q] ELSE value[p] > value[q]

\* Shares that protect somebody, and leave the next filter somebody to protect;
\* the defaults do (68, 68 and 500).
SharesSpare ==
    /\ 1 <= Shares.latency      /\ Shares.latency <= 250
    /\ 1 <= Shares.productivity /\ Shares.productivity <= 333
    /\ 1 <= Shares.longevity    /\ Shares.longevity <= 1000

\* With such shares the peer evicted is never the one with the lowest latency,
\* of three candidates or more not the one that answers most, and of four or
\* more not the one connected longest.
ProtectedSpared ==
    call.op = "evict" =>
        LET n == Cardinality(call.peers)
        IN  /\ n >= 2
            /\ ~Best(call.victim, call.peers, call.m.latency, TRUE)
            /\ n >= 3 => ~Best(call.victim, call.peers, call.m.responseRate, FALSE)
            /\ n >= 4 => ~Best(call.victim, call.peers, call.m.connectTime, TRUE)

\* A list holds no more peers than the node knows and no fewer than it owes by
\* its threshold; and it is as short as the response length, which the receiver
\* checks, if the threshold is.
AnswerFits ==
    call.op = "answer" =>
        /\ call.size <= call.known
        /\ call.size >= Lesser(call.threshold, call.known)
        /\ call.threshold <= call.length => call.size <= call.length
=============================================================================
