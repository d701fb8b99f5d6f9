---------------------------- MODULE PeerSelection ----------------------------
(***************************************************************************)
(* The choices among peers that lp2p makes without state of their own:     *)
(* whom a message or a request goes to (src/src/peer_selection.js), which  *)
(* inbound peers may be evicted (peer_pool.js) and how many peers a node   *)
(* tells another about (p2p.js).  Lists are shuffled in the code, so a     *)
(* list of peers is a set here and a choice yields the SET of outcomes.    *)
(***************************************************************************)
EXTENDS Naturals, FiniteSetsExt

Lesser(m, n)  == IF m <= n THEN m ELSE n
Greater(m, n) == IF m <= n THEN n ELSE m

\* shuffle(peers).slice(0, n)
Samples(peers, n) == kSubset(Lesser(n, Cardinality(peers)), peers)

SelectPeersForRequest(peers, limit) == Samples(peers, limit)

\* Math.round(peerLimit / 2)
Half(limit) == (limit + 1) \div 2

\* A selection holds half the limit of the shorter list (the inbound one when
\* they are equal), and from the longer what is left of the limit.
Deals(short, long, limit) ==
    {chosen \in SUBSET (short \cup long) :
        LET first == Cardinality(chosen \cap short)
        IN  /\ first = Lesser(Half(limit), Cardinality(short))
            /\ Cardinality(chosen \cap long) = Lesser(limit - first, Cardinality(long))}

\* Mutant: both kinds get half of the limit, and what one kind lacks is lost.
MutantSelectPeersForSend(outbound, inbound, limit) ==
    {chosen \in SUBSET (outbound \cup inbound) :
        /\ Cardinality(chosen \cap outbound) = Lesser(limit - Half(limit), Cardinality(outbound))
        /\ Cardinality(chosen \cap inbound)  = Lesser(Half(limit), Cardinality(inbound))}

SelectPeersForSend(outbound, inbound, limit) ==
    IF Cardinality(outbound) < Cardinality(inbound)
    THEN Deals(outbound, inbound, limit)
    ELSE Deals(inbound, outbound, limit)

-----------------------------------------------------------------------------
\* Protection from eviction.  value[p] is the measurement of a category, asc
\* says that low values are good.  The best share, in thousandths and rounded
\* up, is taken out; a share of 0 or above 1000 takes out nobody.

Protected(n, share) == IF share > 1000 THEN 0 ELSE (n * share + 999) \div 1000

FilterPeersByCategory(peers, value, asc, share) ==
    {rest \in kSubset(Cardinality(peers) - Protected(Cardinality(peers), share), peers) :
        \A p \in peers \ rest, r \in rest : IF asc THEN value[p] <= value[r] ELSE value[p] >= value[r]}

\* Mutant: the peers that answered least are protected.
MutantByResponseRate(peers, m, shares) ==
    FilterPeersByCategory(peers, m.responseRate, TRUE, shares.productivity)

ByLatency(peers, m, shares)      == FilterPeersByCategory(peers, m.latency, TRUE, shares.latency)
ByResponseRate(peers, m, shares) == FilterPeersByCategory(peers, m.responseRate, FALSE, shares.productivity)
ByConnectTime(peers, m, shares)  == FilterPeersByCategory(peers, m.connectTime, TRUE, shares.longevity)

\* The candidates left by the three filters, which stop when they leave one.
SelectPeersForEviction(peers, m, shares) ==
    LET Last(rest)   == IF Cardinality(rest) <= 1 THEN {rest} ELSE ByConnectTime(rest, m, shares)
        Second(rest) == IF Cardinality(rest) <= 1 THEN {rest}
                        ELSE UNION {Last(r) : r \in ByResponseRate(rest, m, shares)}
    IN  UNION {Second(r) : r \in ByLatency(peers, m, shares)}

-----------------------------------------------------------------------------
\* The size of a peer list: drawn between a quarter, rounded up, and a half,
\* rounded down, of the peers known, capped by the response length; then raised
\* to the discovery threshold.  (With one known peer the draw is 1.)

Drawn(known, length) ==
    LET low  == Lesser(length, (known + 3) \div 4)
        high == Lesser(length, known \div 2)
    IN  low .. Greater(low, high)

\* Mutant: the threshold is not bounded by what the node knows.
MutantAnswerSizes(known, length, threshold) ==
    {Greater(drawn, threshold) : drawn \in Drawn(known, length)}

AnswerSizes(known, length, threshold) ==
    {Greater(drawn, Lesser(threshold, known)) : drawn \in Drawn(known, length)}
=============================================================================
