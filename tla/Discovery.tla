------------------------------ MODULE Discovery ------------------------------
(***************************************************************************)
(* A network of nodes that find each other: what each has in its book of   *)
(* each address, who is connected to whom, and the peer lists that go      *)
(* from one to the other when a connection is made (src/src/p2p.js,        *)
(* peer/base.js, peer/outbound.js, validation.js).                         *)
(*                                                                         *)
(* Peers are told apart by their normalized addresses, but blacklists are  *)
(* compared with addresses as they are written.                            *)
(*                                                                         *)
(* Nodes stay up, a request on an open connection is answered, and books   *)
(* are far from full.                                                      *)
(***************************************************************************)
EXTENDS PeerSelection

CONSTANTS
    Nodes,          \* nodes that are up, shown by their addresses
    Dead,           \* addresses where nobody answers
    Foreign,        \* those of them that write addresses in lists in a way of their own
    Configured,     \* seed, whitelisted and previous peers of each node
    Remembered,     \* those of them that are configured with all their fields, as
                    \* the previous peers are that a node has saved
    Whitelisted,    \* those of them that stay in the book whatever happens
    Blacklists,     \* blacklists the nodes may be configured with
    Length,         \* peerDiscoveryResponseLength
    Threshold,      \* minimumPeerDiscoveryThreshold
    MaxLength       \* maxPeerDiscoveryResponseLength

Addresses == Nodes \cup Dead

\* An address is written as normalizeAddress writes it, or in another way that falls
\* in the same bucket.
Spelling == {"normal", "other"}

\* What a book has of an address: nothing, the address only, or also the details that
\* only the peer itself, a list or a configuration gives.
Entry   == [status : {"unknown", "named", "detailed"}, written : Spelling]
Unknown == [status |-> "unknown", written |-> "normal"]
Found(spelling) == [status |-> "detailed", written |-> spelling]

ASSUME DiscoveryAssumption ==
    /\ Nodes \cap Dead = {} /\ Foreign \subseteq Nodes
    /\ Configured \in [Nodes -> SUBSET Addresses]
    /\ Remembered \in [Nodes -> SUBSET Addresses]
    /\ \A n \in Nodes : Remembered[n] \subseteq Configured[n]
    /\ Whitelisted \in [Nodes -> SUBSET Addresses]
    /\ Blacklists \subseteq [Nodes -> SUBSET (Addresses \X Spelling)]
    /\ {Length, Threshold, MaxLength} \subseteq Nat

VARIABLES
    book,   \* per node and address, the entry
    link,   \* per node and node: no outbound peer; one whose list has not come yet;
            \* one whose list has come
    blacklist \* P2P._blacklistedIPs of each node, as they are written
vars == <<book, link, blacklist>>

Known(n) == {a \in Addresses : book[n][a].status # "unknown"}

\* The comparison is one of strings.
Barred(n, a, spelling) == <<a, spelling>> \in blacklist[n]

\* sanitizePeerLists normalizes what is configured and drops what is blacklisted.
Sanitized(n) == {a \in Configured[n] : ~Barred(n, a, "normal")}

\* Previous peers enter the book in the constructor, the others in start().
Init ==
    /\ blacklist \in Blacklists
    /\ book = [n \in Nodes |-> [a \in Addresses |->
                  CASE a \in Sanitized(n) \cap Remembered[n] -> Found("normal")
                    [] a \in Sanitized(n) \ Remembered[n]    -> [Unknown EXCEPT !.status = "named"]
                    [] a \notin Sanitized(n)                 -> Unknown]]
    /\ link = [n \in Nodes |-> [m \in Nodes |-> "none"]]

-----------------------------------------------------------------------------
\* Mutant: a node does not recognise itself.
MutantDial(n, m) ==
    /\ m \in Known(n)
    /\ link[n][m] = "none"
    /\ ~Barred(m, n, "normal")
    /\ link' = [link EXCEPT ![n][m] = "asked"]
    /\ book' = [book EXCEPT ![m][n] = IF n \in Known(m) THEN @ ELSE Found("normal")]
    /\ UNCHANGED blacklist

\* The populator of n dials m, which takes n into its book with the details of
\* the handshake, normalized.  A node that reaches itself forgets the address.  One that is
\* blacklisted is turned away, which changes no book.
Dial(n, m) ==
    /\ m \in Known(n)
    /\ link[n][m] = "none"
    /\ ~Barred(m, n, "normal")
    /\ IF n = m
       THEN book' = [book EXCEPT ![n][n] = Unknown] /\ UNCHANGED link
       ELSE /\ link' = [link EXCEPT ![n][m] = "asked"]
            /\ book' = [book EXCEPT ![m][n] = IF n \in Known(m) THEN @ ELSE Found("normal")]
    /\ UNCHANGED blacklist

\* A peer's own details reach n over a connection of either direction: as the
\* answer to a status request or as an update the peer pushes.  A connected peer is in
\* the book (TypeOK), and its address stays there as it is written.
Inform(n, peer) ==
    /\ link[n][peer] # "none" \/ link[peer][n] # "none"
    /\ book[n][peer].status = "named"
    /\ book' = [book EXCEPT ![n][peer].status = "detailed"]
    /\ UNCHANGED <<link, blacklist>>

\* A list of m writes an address as its book does, unless m has a way of its own.
Written(m, peers) == [a \in peers |-> IF m \in Foreign THEN "other" ELSE book[m][a].written]

\* Mutant: blacklisted addresses are not left out.
MutantAccepted(n, m, list) ==
    IF Cardinality(DOMAIN list) <= MaxLength /\ \A a \in DOMAIN list : book[m][a].status = "detailed"
    THEN DOMAIN list ELSE {}

\* validatePeersInfoList throws for a list that is too long or has one entry
\* without details; blacklisted addresses are left out.
Accepted(n, m, list) ==
    IF Cardinality(DOMAIN list) <= MaxLength /\ \A a \in DOMAIN list : book[m][a].status = "detailed"
    THEN {a \in DOMAIN list : ~Barred(n, a, list[a])} ELSE {}

\* The list n asked of m when it connected.  What n knows already stays as it is.
List(n, m) ==
    /\ link[n][m] = "asked"
    /\ link' = [link EXCEPT ![n][m] = "settled"]
    /\ \E size \in AnswerSizes(Cardinality(Known(m)), Length, Threshold) :
       \E peers \in Samples(Known(m), size) : LET list == Written(m, peers) IN
            book' = [book EXCEPT ![n] = [a \in Addresses |->
                        IF a \in Accepted(n, m, list) \ Known(n) THEN Found(list[a]) ELSE @[a]]]
    /\ UNCHANGED blacklist

\* The attempt to connect that makes the book drop the address (see PeerBook).
Abort(n, a) ==
    /\ a \in Known(n)
    /\ a \notin Whitelisted[n]
    /\ book' = [book EXCEPT ![n][a] = Unknown]
    /\ UNCHANGED <<link, blacklist>>

\* Mutant: the shuffle finds nobody to evict, so nobody is asked again.
MutantShuffle(n, m) == link[n][m] = "settled" /\ UNCHANGED vars

\* The shuffle interval drops an outbound peer.  It is far longer than ackTimeout:
\* what was asked over the connection has been answered.
Shuffle(n, m) ==
    /\ link[n][m] = "settled"
    /\ book[n][m].status = "detailed" /\ book[m][n].status = "detailed"
    /\ link' = [link EXCEPT ![n][m] = "none"]
    /\ UNCHANGED <<book, blacklist>>

Next ==
    \/ \E n, m \in Nodes : Dial(n, m) \/ Inform(n, m) \/ List(n, m) \/ Shuffle(n, m)
    \/ \E n \in Nodes, a \in Dead : Abort(n, a)

\* The populator dials whom it is not connected to, again and again; the server
\* answers; the shuffle takes its turns.
Fairness ==
    /\ \A n, m \in Nodes :
        /\ WF_vars(Dial(n, m)) /\ WF_vars(Inform(n, m))
        /\ WF_vars(List(n, m)) /\ WF_vars(Shuffle(n, m))
    /\ \A n \in Nodes, a \in Dead : WF_vars(Abort(n, a))

Spec == Init /\ [][Next]_vars /\ Fairness

-----------------------------------------------------------------------------
\* Also: no node is connected to itself, and who is connected is known.
TypeOK ==
    /\ book \in [Nodes -> [Addresses -> Entry]]
    /\ link \in [Nodes -> [Nodes -> {"none", "asked", "settled"}]]
    /\ blacklist \in Blacklists
    /\ \A n, m \in Nodes : link[n][m] # "none" => n # m /\ m \in Known(n) /\ n \in Known(m)

\* "should discover all peers in the network after a few cycles of discovery"
\* (test/integration/p2p.js:157): in the end every node has the details of every
\* other that it does not blacklist, in any spelling.
AllDiscovered ==
    <>[](\A n \in Nodes : \A m \in Nodes \ {n} :
            (\A spelling \in Spelling : ~Barred(n, m, spelling)) => book[n][m].status = "detailed")

\* What a book holds came in by a way that is open to it.  An address stands there in
\* a spelling that the node does not blacklist (another spelling of it may be on the
\* blacklist, since the three places that look at it compare strings), and in another
\* spelling than the normalized one only where some node writes lists so.  An
\* address where nobody answers was configured: at this very node if the
\* book has nothing but the address, else with all its fields, at any node, since
\* lists carry it on.
EntersClean ==
    \A n \in Nodes : \A a \in Known(n) :
        /\ ~Barred(n, a, book[n][a].written)
        /\ book[n][a].written # "normal" => Foreign # {}
        /\ a \in Dead =>
              IF book[n][a].status = "named" THEN a \in Configured[n] ELSE \E m \in Nodes : a \in Remembered[m]
=============================================================================
