# Verification of lp2p

lp2p is the peer-to-peer layer of a node: it keeps a book of known peers, dials some of them, accepts
connections from others, exchanges requests, messages and peer lists, penalises and bans. It runs on one event
loop. Nothing runs in parallel, but almost everything happens *later*: sockets announce events on streams that
`for await` loops consume at their own pace, requests are answered or time out, timers fire, and the
application calls in between. The order of these steps is what a unit test hardly varies and what the models
here enumerate.

Source paths below are relative to `src/src/`.

## 1. Inventory

| component | state | operations | status |
|---|---|---|---|
| **Peer book** (`peer_book/*`) | new list and tried list: buckets of entries with `dateAdded` and, in the tried list, `numOfConnectionFailures` | `addPeer`, `updatePeer`, `removePeer`, `upgradePeer`, `downgradePeer`, `getPeer`, `getAllPeers`, two eviction strategies | modelled: `PeerLists`, `PeerBook`, `PeerStatus` |
| **Outbound pool and populator** (`peer_pool.js`, `peer_selection.js`, `p2p.js:703`) | `_outboundPeerMap`, the populator's and the shuffle's intervals | `triggerNewConnections`, `addOutboundPeer`, `removeOutboundPeer`, `_evictPeer`, `send`, `request`, `applyPenalty` | modelled: `OutboundPool`; the intervals in `Lifecycle` |
| **Outbound peer** (`peer/outbound.js`, `peer/base.js`) | socket, `_active`, reputation, counters, rates, productivity | lazy socket creation, event streams, `disconnect`, `send`, `request`, `fetchStatus`, `discoverPeers` | partly: `OutboundPool` (socket life), `Requests` (requests, productivity); rates are left out |
| **Node handlers and ban list** (`p2p.js:172-350`) | `_bannedPeers`, ban timers, sanitized lists | one handler per pool event; `_handleBanPeer`, `_handleUnbanPeer` | partly: in `OutboundPool` (effect on the book), `BanList`, `Discovery` |
| **Inbound server and inbound peer** (`p2p.js:537-684`, `peer/inbound.js`) | `_inboundPeerMap`, the accept loop, ping timers | accept, self-connection, duplicates, limit and eviction, close | partly: `InboundServer`; the chain of pings is left out |
| **Lifecycle** (`p2p.js:799-836`) | `_isActive`, `_hasConnected`, `_populatorIntervalId` | `start`, `stop` | modelled: `Lifecycle` |
| **Peer list exchange** (`p2p.js:737-776`, `validation.js`) | the books of several nodes | `_handleGetPeersRequest`, `fetchPeers`, list validation | modelled: `Discovery` |
| **Selection and eviction choice** (`peer_selection.js`, `peer_pool.js:66-81, 553-596`) | — (pure) | selection for connection, request, send; protection filters | modelled: `PeerSelection`; selection for connection in `OutboundPool`, how many peers protection leaves in `InboundServer` |
| **Remote requests** (`p2p_request.js`) | whether a response was sent | `end`, `error` | modelled: `Requests` |
| **Validation and utilities** (`validation.js`, `utils.js`) | — | reading addresses, accepting lists, sanitizing configured peers | partly: `Addresses`, `Discovery` |
| **Errors, codes, exports** | — | — | not modelled: messages and constants |

How they interact. The populator reads the book and fills the outbound map. A new outbound peer dials at once
(the pool pushes the node info to it). Socket events reach the pool through the peer's emitter, and the node
through the pool's: `connect` upgrades the peer in the book (adding it first when it is unknown),
`connectAbort` downgrades it unless it is whitelisted, `close` removes it from the map by id. A consumed `connect`
also makes the peer ask for a status, whose answer updates and upgrades the book, and for a peer list, whose
entries are added to the book. A penalty that takes the last of a reputation puts the host on the ban list, takes the
peer out of the book unless it is whitelisted, and disconnects. The inbound loop turns banned hosts away; the populator
does not look at the ban list.

What is hard, and what each component has to get right:

* **Peer book.** A bucket id comes from a hash of the address *as written* (`peer_list.js:56`), the key from
  the normalized one. Several operations are two steps (remove from one list, add to the other), and an add to a
  full bucket evicts. Right means: buckets within their size, every entry where its address will be looked up, one
  entry per peer, demotion only after the configured number of failures, old entries evicted first.
* **Outbound pool.** Between the close of a socket and the consumption of its close event, the peer may be
  evicted, redialled, sent to, penalised, or time out. `Peer.disconnect` is effective once, and a send to a closed
  socket dials it again. Right means: the limit holds, no dead peer stays in the map, no late event removes a
  newer connection, removed peers are closed, fixed peers come back.
* **Ban list.** Hosts are banned through peers, one timer per ban. Right means: every ban ends, and not before its time.
* **Inbound server.** One loop with a pause in it, fed by a queue; a socket may die in the queue, a peer may be evicted
  while its close is on its way, and removal is by id. Right means: the limit, nobody removed without a right to, no
  socket left open behind the map, closed peers leave it, the node's own address leaves the book.
* **Lifecycle.** `_isActive` is read and written on two sides of awaits, and calls may overlap. Right means: a stopped node's
  populator dials no one, one populator runs at most, the first start dials, and a connection is taken by one loop.
* **Requests.** A request crosses four hands (caller, socket, library, application) that may each be gone when the next one acts.
  Right means: one answer, no answer counted that was not asked for, no connection kept that does not serve.
* **Peer lists.** Asked for once per connection, refused as a whole for one bad entry. Right means: everybody is found in the end,
  and nothing enters a book that should not.
* **Selections.** Rounding and limits. Right means: the send limit is used, the best peers are spared, an answer fits its receiver.

The full list of hazards, each at its line and with the properties that guard it, is in `PROJECT.json`.

## 2. The modules

### PeerLists — the two lists as a value

A book is a record of the two lists; a list maps buckets to entries by peer id. Every operation of
`peer_list.js`, `new_list.js`, `tried_list.js` and `peer_book.js` is an operator of the same name. Eviction is
random in the code, so an operation that may evict yields the set of possible books. An address is a *form*:
`IdOf` gives its id (normalized), `NewBucketOf` and `TriedBucketOf` its bucket in each list (raw); two forms may
share an id and not a bucket. `Canonical` says that they never do, which holds for all the addresses the node
writes itself and not for the lists other nodes send. An entry of the new list is `aged` when it has been
there for the eviction threshold. `detailed` stands for the protocol fields of an info. Where several aged
entries share a bucket the code takes the oldest insertion, the model any.

### PeerBook, PeerStatus — the book as a component, and what it promises

`PeerBook` has one variable for the book, a history variable (`reported`, the failures reported for a peer since
it entered the tried list), and one action for each call, with any address and any info, plus `Age`. `PeerStatus` is the abstract specification: each peer is
unknown, new or tried, is moved by the calls named in the book's comments ("Move a peer from newList to
triedList on events like on successful connection"), and may vanish only when another peer enters. `PeerBook` refines it with
`ImplementsStatus` (status read off the two lists) when addresses are canonical.

### OutboundPool — the outbound map, the peers' sockets, the book and the handlers

`pool[i].peer` is the entry of `_outboundPeerMap` for id `i`. An object has `active` (not yet disconnected),
`bound` (the pool's handlers are attached), `sock`, and `pending`: the events announced to its streams and
not yet consumed. `pool[i].dropped` holds removed objects that still own a live socket or a
`connect` event, since the `connect` listener makes requests of its own after the pool has lost interest.

| action | code |
|---|---|
| `TriggerNewConnections` | the populator: selection for connection, then the fixed peers (`peer_pool.js:308`) |
| `Open`, `Lose` | the network and the socket library (external) |
| `ConsumeConnect`, `ConsumeAbort`, `ConsumeClose` | one turn of a listener loop, the pool's handler and the node's handler in one step, as the emitters are synchronous |
| `Send` | `send`, `request`, `sendToPeer`, `requestFromPeer`, `applyNodeInfo` to a peer of the map; it changes something only when the socket is closed |
| `RequestTimeout` | `Peer.request` disconnects (`base.js:350`) |
| `Ban`, `InboundBan` | `applyPenalty` on an outbound, or only an inbound, peer |
| `UpdateInfo`, `Learn` | a status or a pushed info; an accepted connection or a discovered peer |
| `Shuffle` | the shuffle interval's `_evictPeer('outbound')` |

Choices. Events of one object may be consumed in any order: each stream has its own loop, and the model promises
nothing about how fast the library delivers. Events of one kind are not counted, since consuming a second one
does the same. The status answer may arrive at any time (`UpdateInfo` has no guard), which covers
answers over inbound connections too. A peer has one address form and the blacklist is not consulted. Passive
peers, which the book never holds, are left out; a passive fixed peer is on the plan.

### BanList — reputations, bans, timers

`rep` has the reputation of each object of the pool (an inbound and an outbound one for each peer), `banned` is
`_bannedPeers`, `timers` the running `setTimeout` calls, and `since` a history of how long ago a host's
latest ban was. `ApplyPenalty` hits both objects of a peer in one step, as the code does; an object whose
reputation is already gone is banned again, with another timer. Timers may fire late, never early. `P2P.applyPenalty` means to spare trusted
peers, but hands the wrong value to `_isTrustedPeer` (`p2p.js:477`), so nobody is spared, and the models have no such guard.

### InboundServer — the accept loop and the inbound map

`queue` holds the accepted sockets the loop has not taken, `paused` says that it waits its tick
(`p2p.js:582`), `inbound` is `_inboundPeerMap` with each peer shown by its socket, `loose` the sockets of removed
peers that are still open or still reach the pool (there must be none), `book` the peer book. A socket is
`open` or not, has its `close` announced to a listener or not, and is `deaf` when it had closed before the
peer was made, so that no close will ever be heard. One turn of the loop is one step, split only at its `await`.

| action | code |
|---|---|
| `Connect`, `HangUp`, `Lose` | the server library and the network (external) |
| `Refuse`, `MeetSelf`, `Admit` | the loop takes a socket: turned away, the node itself, or past the checks (`p2p.js:537`) |
| `AddInboundPeer` | part of `Admit`: eviction in a full pool, then the new entry (`peer_pool.js:365`) |
| `Resume` | after the tick: the node's own address leaves the book (`p2p.js:585`) |
| `Drop` | the node disconnects a peer: a timeout, a ban |
| `ConsumeClose` | the close handler removes by id (`peer_pool.js:153`) |
| `LearnSelf` | the node's own address enters the book, in either list |

Choices. Whether a check refuses a socket is open (`Refuse` is always possible), so bans and compatibility need no
state. The protection filters rank peers by measurements; the model keeps only *how many* they leave (`Evictable`, with
the rounding of the code) and lets the choice among the peers that are not whitelisted be open. Ratios are in thousandths.

### Lifecycle — start, stop and what outlives them

`pc` says where each call of `start()` is between its awaits, `populators` how many intervals run,
`populatorId` whether the node holds an interval's id, `waiting` what each accept loop has not taken yet.

| action | code |
|---|---|
| `Start`, `Ready`, `Resume`, `ReadyTimeout`, `Delay` | `start()` up to its end, split at its two awaits (`p2p.js:799`, `673`, `819`) |
| `Stop`, `Closed` | `stop()` up to its await, and the end of the two servers |
| `Populate`, `Shuffle`, `NetworkReady` | the intervals; `_isNetworkReady` |
| `Connect`, `Accept` | the server hands a socket to every loop; one turn of a loop |
| `LeaveOutbound`, `LeaveInbound` | peers that close, are evicted or banned |

Choices. A second `listen()` on a listening server fails the call that makes it. Whether the server object counts as ready after it was
closed is up to the library, so `Stop` leaves it open. Book, limits and bans do not matter here: the populator dials any peers.

### Requests — one peer, the requests to it and its counters

`conn` is the peer's object and its socket, with the loop that serves at the remote end (`serving`); `slot` has the requests under way, each with
who gave an answer, what travels back, and whether it was made since the counters were reset; `prod` has the two productivity
counters; `strays` is a history of responses to requests from before the last reset.

| action | code |
|---|---|
| `Ask` | `Peer.request` counts, then invokes; a closed outbound socket dials (`base.js:336`, `outbound.js:61`) |
| `Serve` | one turn of the RPC loop: the library's own procedures, then the application's listener, which may throw (`base.js:146`) |
| `Answer`, `Forget` | the application answers a request it kept, or never |
| `Receive` | an answer is counted, an error handed on (`base.js:358`) |
| `Timeout` | `TimeoutError`: disconnect (`base.js:349`) |
| `Lose`, `Remove`, `Join` | the socket closes; the object leaves the pool; a new one enters it |
| `Reset`, `Age` | the productivity interval (`base.js:134`) |

Choices. `Remove` settles what still waits on the removed object, since its answers reach counters nobody reads.
Requests are told apart by slot only, and the same slot is used again.

### PeerSelection, Selection — the stateless choices

`PeerSelection` has the choices as operators that yield the *set* of outcomes: lists are shuffled in the code, so a
list is a set and a slice of it any subset of that size. The protection filters sort by a measurement and cut off the best: ties
are open. `Selection` wraps each in a call with any input, so that a run goes through all inputs within its bounds.

### Discovery — a network of nodes

Per node and address, `book` says whether the address is unknown, named (configured without the details a peer gives of itself) or
`detailed` (given by the peer, by a list, or configured with all its fields, as the peers are that a node saved: `Remembered`), and how it is
`written`: normalized, or in another spelling that falls in the same bucket. Configured and connected addresses are normalized by the code; lists are taken as they come, and a
`Foreign` node writes its own way. Blacklists are sets of addresses *as they are written*, since all three places that look at them compare strings. `link` says for two nodes whether one has dialled the other and whether the peer list it asks for on
connecting has come. This composes the handlers of all the nodes: the one that dials, the one that accepts, the one that is told of third parties.

| action | code |
|---|---|
| `Dial` | the populator; the accept loop of the other end takes the caller into its book, or notices that it is itself (`p2p.js:537`) |
| `Inform` | a status answer or a pushed update (`base.js:413-466`) |
| `List` | a peer list is drawn (`PeerSelection!AnswerSizes`), sent, validated as a whole, and its unknown entries added |
| `Abort` | the failed attempt after which a book forgets an address |
| `Shuffle` | the shuffle interval drops an outbound peer, which is then dialled, and asked, again |

Choices. Books are far from full and connections far from their limits (`PeerBook`, `OutboundPool` and `InboundServer` are about those);
nodes stay up and answer. An entry that is larger than `maxPeerInfoSize` is dropped without spoiling its list and is left
out, as are incompatible versions. A list is drawn at random in the code; with the instance's threshold it covers the
whole book, so `AllDiscovered` does not depend on luck. With fewer it holds with probability one only, which fairness cannot say.

### Addresses — how an address is read

`NormalizeAddress`, `GetPeerId`, `GetNetwork` and `BucketKey` (what `getBucketId` hashes) over addresses that are written in one of several ways.
`MCPeerBook` derives from them the ids and buckets that `PeerBook` has as constants: `PeerBook.cfg` with normalized addresses,
`PeerBookRaw.cfg` with a nested IPv4 address among them, of which the hash sees the first byte only. Local and private
peers share one bucket. A host name has no key: `getBucketId` throws. The hybrid prefix written in capitals, which
the code's expression does not match, is left out.

### MC modules and proof modules

`MCPeerBook`, `MCOutboundPool`, `MCBanList`, `MCInboundServer`, `MCLifecycle`, `MCRequests`, `MCSelection` and `MCDiscovery` give the constants
their values. The modules `*_proofs` hold the theorems, each about the module of that name; `PeerLists_proofs` has the lemmas about the
lists that the proofs of every component with a book cite, and `PeerSelection_proofs` the theorems of `Selection` and, since a peer list
is one of the selections, of `Discovery`.

## 3. The runs

| run | instance | shows |
|---|---|---|
| `peer_book` | 3 peers, 2 buckets per list, sizes 2 and 1, 3 failures to a demotion | all the book's properties, and that it refines `PeerStatus` |
| `peer_book_raw` | the same, one peer with a second form in another new bucket | bounds and lookups survive; `OnePerPeer` would not and is not claimed |
| `outbound_pool` | a fixed, a whitelisted and an ordinary peer, limit 1, one bucket of size 1 per list | the pool's safety, action and liveness properties |
| `ban_list` | two peers of one host, reputation 2, penalties 1 and 2, ban time 2, two timers | bans are timed and end |
| `ban_full_time` | the same | a finding: see below |
| `inbound_server` | the node, a whitelisted and three other peers (one passive), limit 2, two waiting sockets, default ratios | the inbound pool's safety and action properties |
| `inbound_server_live` | the same with one waiting socket | closed peers leave, the node forgets itself |
| `lifecycle` | 3 calls of start, any number of stops, one peer to dial, one socket | `Quiet`, `FirstStartDials` |
| `lifecycle_loops` | 2 calls of start, 2 sockets of 2 peers | a finding: see below |
| `requests` | 2 requests under way, 2 between resets | `AnsweredOnce`, `RateExplained`, `DeafDropped` |
| `selection` | subsets of the peers of both kinds, limits, measurements, answer lengths | `SendUsesLimit`, `ProtectedSpared`, `AnswerFits` |
| `discovery` | 3 nodes in a line of seeds, a dead peer that is a seed of the middle one and saved by the first, the middle one foreign, 4 blacklists | `EntersClean`, `AllDiscovered` |

Why these bounds suffice. In the book, everything is decided within one bucket of each list and by one peer
against its neighbours: three peers give a newcomer, a victim and a bystander, a size of 1 and a size of 2 give a
full bucket with and without a choice, three failures distinguish the first, a middle and the last. In the pool,
objects interact only through their id, the limit and the book: a peer of each kind with room for one of them makes every peer compete
for the limit and for the book. `MaxLoose = 1` bounds the objects that may be *loose* at one time (revived by a
late send, or with a connect event to consume); within it any sequence of removals and redials of the same id
happens. With `MaxLoose = 2` the invariants were checked too, in half a million states. `TimerIds` bounds
the bans that overlap: two are enough for one to cut the other short.

At the server,
five ids with a limit of two let a newcomer meet a full pool whose other peers are whitelisted, alone, or free to be evicted; two sockets in
the queue let one die, or a duplicate arrive, behind a self-connection.

Three calls of start let two overlap and a third follow a stop, or two fail; two loops suffice for one socket to be seen twice. Two requests let one
time out, or throw, while the other waits; two of them between resets let one be answered in time and one after. In the network, three nodes in a line are
the fewest of which one must be heard of through another; the dead seed sits where the lists come from, so that they are refused
until it is forgotten, and comes back there with its fields from the node that saved it. That one keeps it (it is whitelisted there), and the last node bars it in both spellings:
with the dead address going round all three nodes the instance has more states than a run can go through. For `selection`, four peers are the fewest for which all three filters have someone to protect.

Deadlock is checked, except in the `lifecycle` runs: there a node that has used up its calls of start and is stopped may really have nothing left to do.

**Fairness.** `OutboundPool` assumes that the populator keeps firing (`setInterval`, `p2p.js:707`) and that a
close event that was announced is consumed some day (the event loop runs the listener loops). Nothing is assumed of the network, of
the application, of the shuffle, of connect events. `BanList` assumes that time passes and that a
due timer fires. `InboundServer` assumes that the accept loop and its timer go on and that announced closes are consumed.
`Lifecycle` assumes only that the start delay ends (`setTimeout`), `Requests` only that a request has its timer (`ackTimeout`, set for every
invocation). `Discovery` assumes the populator of every node, answers on open connections, and the shuffle interval. The last is
what the code's discovery rests on: there is no interval that asks for lists, so a node asks a peer again only when it dials it again.

**Findings.** (`ban_full_time`) `peer_pool.js:194` says "Unban peer after peerBanTime". Each ban starts its own timer, and each
timer deletes the *host* from the set. If a peer of a banned host is banned again, or both connections of a peer run out of
reputation at different times, the first timer ends the second ban early. `BanHasTimer` and `Unbanned` show what does hold: the latest
ban's timer always runs, and no host stays banned for ever.

(`lifecycle_loops`) Each `start()` that passes its first check installs an endless loop over the server's connections
(`p2p.js:537`), before anything that may fail. After overlapping starts, a start retried after its ready timeout, or a restart, two loops see
each socket. The first admits the peer; the second finds it in the pool and disconnects *the same socket* with 4404, "Peer has a duplicate
connection" (`disconnect_status_codes.js:42`), though the peer made only one.

Other things met on the way, recorded as hazards since no doc or test states otherwise: trusted peers are
penalised (`p2p.js:477`); the failure count survives successful reconnections (`tried_list.js:87`), so a peer is
demoted after that many failures *in its life as a tried peer*; a lone evictable inbound peer is always
protected by the rounding up, so a pool of limit 1, or one filled with whitelisted peers, goes beyond its limit (`InboundLimit` says how far); a
socket that died in the accept queue leaves an entry that no close removes (`NoZombie` says that nothing else does); an upgrade into a full bucket throws the victim
out of the book altogether (`peer_book.js:123`); a send after `disconnect()` reopens the socket, and the removal
that follows does not close it (`base.js:316`), which is why `RemovalCloses` and `DeafDropped` speak of active peers only; after a stop the
populator's id stays set, so a later `start()` throws at its end (`p2p.js:705`) and the node listens without dialling, which is why
`FirstStartDials` speaks of the first; a socket in the queue of a stopped node is still admitted (`p2p.js:660`), so `Quiet` says nothing of inbound
peers, nor of the sockets of removed peers, which a late `connect` event may make dial once more (`outbound.js:129`); a comment at `p2p.js:738` says that lists are picked from "Peers whose values has been updated at least once", while `getAllPeers` gives all of them, so
a seed never reached makes a node's lists invalid for their receivers until it is forgotten, and a dead *whitelisted* peer for
ever; a dead address that some node saved with its fields passes from book to book, also back to those that have dropped it; a blacklist entry that is not in normalized form matches
no configured peer and no caller, and one in normalized form does not match another spelling in a list (`p2p.js:303`); `maxPeerDiscoveryResponseLength` limits what is accepted, not what is sent; the first inner branch of `_handleDiscoveredPeer` (`p2p.js:309`) cannot be reached; a peer
connected both ways takes two of a send's limit and gets the message twice over its outbound connection.

## 4. The proofs

For all constants that satisfy the named assumptions of the modules, TLAPS checks:

| theorem | states |
|---|---|
| `BookTypeCorrect`, `BookBounded`, `BookFindable` | `TypeOK`, `BucketBounds`, `Findable` of `PeerBook`, whatever the forms |
| `BookStaleFirst` | `StaleFirst`, whatever the forms |
| `BookOnePerPeer`, `BookDemotionEarned`, `BookImplementsStatus` | `OnePerPeer`, `DemotionEarned` and the refinement, given `Canonical` |
| `PlainIsCanonical` | which addresses satisfy `Canonical` |
| `PoolTypeCorrect`, `PoolWithinLimit`, `PoolHasNoZombie` | `TypeOK`, `OutboundLimit`, `NoZombie` of `OutboundPool` |
| `PoolFixedStays`, `PoolRemovalCloses` | the two action properties about removal |
| `PoolWhitelistedKept` | the action property about the book |
| `ServerTypeCorrect`, `ServerWithinLimit`, `ServerOwnsSockets`, `ServerHasNoZombie` | the invariants of `InboundServer` |
| `ServerLeavesByRight` | its action property |
| `BanTypeCorrect`, `BanAlwaysTimed` | `TypeOK`, `BanHasTimer` of `BanList` |
| `LifecycleTypeCorrect`, `InactiveIsQuiet` | `TypeOK` (at most one populator) and `Quiet` of `Lifecycle` |
| `RequestsTypeCorrect`, `RequestsAnsweredOnce`, `ResponsesExplained` | the invariants of `Requests` |
| `DiscoveryTypeCorrect`, `BooksStayClean` | the invariants of `Discovery`, for any configurations, saved peers, blacklists and spellings |
| `BarredStayOut` | what must be on a blacklist to keep an address out of the book |
| `OwnListsAccepted` | a lemma for configurations: a node's list is accepted whole when its settings are within the receiver's |
| `SendUsesWholeLimit`, `AnswersFit` | `SendUsesLimit`, `AnswerFits` of `Selection`, for any peers, limits and settings |
| `EvictionSparesTheBest` | `ProtectedSpared`, given `SharesSpare` |

*The book.* `Bounded` is not inductive alone: that a full bucket keeps its size depends on the victim being one of
its occupants. The invariant is `Sound`: type, `Bounded`, and `Filed` (each entry lies where its own address says), and under `Canonical` also
`Disjoint` and `Single`. `PeerLists_proofs` proves for each operation that it keeps each part, from a few
lemmas about changing one slot of a bucket (`Cardinality` of what remains); `PeerBook_proofs` only has to
apply them per action. For the refinement, each action's status change is read off the slots it touches.

`StaleFirst` is about one bucket in one step, so it needs no invariant beyond `Sound`: an operation is shown to write either nothing that enters
a new bucket, or one slot of it and the slot of one victim, and the victim is one of `NewVictims` of the bucket as it was. A demotion writes the tried
list first and adds to the new list after; the lemma `AddPeerEvicts` is therefore applied to the book between the two, whose new buckets are still the old ones.
`DemotionEarned` compares the count stored in an entry with the history `reported`; the invariant is `CountsMatch`, that they are equal for every
peer in the tried list. It needs `Canonical`, and the property does: with two forms of one address, a peer may be in the tried list twice, and a failure counts on the
entry of the form it was reported under. TLC shows a violation of both on the instance of `peer_book_raw`, which is why that run does not claim it.

`Canonical` is a condition on constants. `PlainIsCanonical` says when the code's reading of addresses (`Addresses`) brings it about: for any hash, any
ports, and any ways of writing addresses but two, IPv4 nested in IPv6 and private IPv6 in capitals. So the three
theorems also hold of books with addresses that nobody normalized. `HostKinds` says that the three kinds of hosts do not
overlap. `AbsentAssumption` says that the value for an empty slot is no entry and no id, as `undefined` is neither.

*The pool.* `OutboundLimit` needs that the map grows only in `TriggerNewConnections`, and there by no more than
`peerLimit`; it needs the finiteness of `Ids` and the type invariant. `NoZombie` is not inductive: that a
late close cannot be lost rests on every object in the map being bound, and on an object that is no longer active having its close announced when
its socket went. The strengthening `PeerInv` says this of an object in the map, `DroppedInv` says that removed objects are unbound. Since `ConsumeClose` of a
removed object therefore does nothing to the map, a fixed peer leaves it only by its own close: `FixedStays`.

`WhitelistedKept` follows every handler into the book. The relation `Raises` says that an operation lifts at most the rank of the peer it is
about and leaves the others where they are, but for those it throws out, and that it throws somebody out only if the peer did rise; `Displaces` says the same of operations
that may lower their peer. Each operation of the book is one of the two (they need `Apart`: no peer is in both lists), adding and then upgrading in one handler is again a `Raises`, and
the handlers call the lowering operations only behind their check for a whitelisted peer. Either way another peer's place is what
a whitelisted one loses its own to.

*The inbound server.* The invariant `ServerInv` says that `loose` is empty, which makes every close that is consumed the close of the
peer's present entry: that is why removal by id is safe here. `InboundLimit` is inductive with it, by counting: a newcomer either
comes in for a peer that is not whitelisted, or finds at most one such peer (`RatiosAssumption`: the ratios leave
someone to evict of two or more, as the defaults do). It also rests on `PeerLists_proofs` for the book.

*The ban list.* `BanHasTimer` is stated so that it is inductive with the type invariant: the timer started by the
latest ban of a host has exactly `BanTime - since` ticks left. Saying only that *some* timer of the host runs
would not be, since the one that fires might be the last.

*The lifecycle.* `Quiet` needs that an interval runs only while its id is held, which is why a stop that finds the id clears the only
interval there is; a populator that starts in `Delay` does so in the step that sees `active`.

*Requests.* `RateExplained` is not inductive: an answer raises the left side alone. The invariant counts the requests that may
still be answered: responses plus awaited requests made since the reset never exceed requests plus strays (`Balanced`). Most
actions only make fewer requests awaited, which one lemma (`LessAwaited`) settles for all of them. `AnsweredOnce` needs that what the
application keeps of the library's own requests has been answered already (`SlotOK`).

*Discovery.* `EntersClean` is inductive with `TypeOK`, entry by entry (`Clean`): each way into a book compares the very spelling it stores, and an
update of a peer's details leaves the spelling as it is, which needs that a connected peer is in the book (the last part of
`TypeOK`). A list brings a dead address only with details, so its sender had them, and by the invariant some node was configured with them. What an operator wants of a blacklist
follows only partly: `BarredStayOut` says that the normalized form suffices where all nodes write lists as this library does, and that every
spelling is needed where some do not. That lists are accepted at all is not an
invariant (one address without details spoils a list), but their length never is the reason when the sender's
settings are within the receiver's: `OwnListsAccepted`, from the bounds of `AnswersFit`.

*The selections.* No induction here, since the state is the last call: what has to be shown is arithmetic over cardinalities. `Deals` splits a limit
between two disjoint lists; that nothing of it is lost comes down to the shorter list taking no more than half, so that the longer has the rest to give
or is exhausted. The filters are shown to keep the count `n - Protected(n, share)` and never the best; a chain of three
protects the best of each category only if the earlier filters leave the later ones somebody to protect, which is what `SharesSpare` says
(at most a quarter and a third: with more, a filter may leave one peer and the next is not asked). The defaults
(68, 68 and 500 thousandths, `peer_pool.js:66`) satisfy it, which an `ASSUME` of `MCSelection` has TLC check.

**Only model-checked** are the liveness properties: `ClosedLeaves` (of both pools), `FixedRedialled`, `SelfForgotten`, `Unbanned`,
`FirstStartDials`, `DeafDropped` and `AllDiscovered`. They rest on fairness, and TLAPS reasons neither about fairness nor about `ENABLED`.
Every invariant and every action property that a passing run checks is proved. `FullBanTime` and `DuplicatesAreReal` are false, so there is
nothing to prove.

## 5. Plan

Modelling is where it was meant to be, and each safety property has its theorem. What is left
is the safety half of the liveness properties: that what is awaited cannot be lost on the way (a pending close
stays pending until it is consumed, a due timer stays due), which is all of them but fairness.

## 6. Not modelled, and why

The wire format, parsing and validation of infos, and error texts are data without control. The socket library and the
HTTP server are external: their part is what the code relies on (streams that end after what was announced, a
transmit that dials). Message and RPC rates only matter through the penalty they cause, which `BanList` has. The chain of
pings of an inbound peer (`inbound.js:64`) only measures the latency that `PeerSelection` takes as given; it may outlive its peer by the timer it
sets last, and nothing reads what it then measures. Events that the node re-emits to the application change nothing in it.
`OutboundPool`, `InboundServer` and `BanList` are not composed into one state: they meet in the book and the ban list, of which each
model already lets the others do what they may (`Learn`, `LearnSelf`, `InboundBan`, `Refuse`), and the product is out of TLC's reach.
