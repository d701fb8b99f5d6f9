------------------------------ MODULE Requests ------------------------------
(***************************************************************************)
(* Requests of a node to one peer over their connection: the node's Peer   *)
(* object, which counts requests and responses (src/src/peer/base.js), and *)
(* the remote end, which serves them in a loop, answers some itself and    *)
(* hands every one to its application (p2p.js, p2p_request.js).  After an  *)
(* object has left the pool the peer may join again, with a new one.       *)
(***************************************************************************)
EXTENDS Naturals, FiniteSets

CONSTANTS
    Slots,       \* requests that may be under way at one time
    MaxRequests  \* bound: requests between two resets of the counters

ASSUME RequestsAssumption == IsFiniteSet(Slots) /\ MaxRequests \in Nat

VARIABLES
    conn,       \* the object: in the pool, Peer._active; its socket: open, and served
                \* by a loop at the remote end
    prod,       \* Peer._productivity: requestCounter and responseCounter
    recent,     \* lastResponded is younger than the reset interval
    strays,     \* history: responses counted for requests made before the last reset
    slot        \* the requests
vars == <<conn, prod, recent, strays, slot>>

\* status, peers and updateMyself; the application's own; what is no request.
Procedures == {"library", "application", "malformed"}

\* waiting: its caller waits.  at: sent, or kept by the remote application.
\* answers, by: given at the remote end.  reply: on its way to the caller, or the
\* closed socket's rejection.
\* counted: made since the last reset.
Request == [waiting : BOOLEAN, procedure : Procedures, at : {"none", "wire", "held"},
            answers : Nat, by : {"nobody", "library", "application"},
            reply : {"none", "data", "error", "rejected"}, counted : BOOLEAN]

NoRequest == [waiting |-> FALSE, procedure |-> "application", at |-> "none",
              answers |-> 0, by |-> "nobody", reply |-> "none", counted |-> FALSE]

Sent(procedure) == [waiting |-> TRUE, procedure |-> procedure, at |-> "wire",
                    answers |-> 0, by |-> "nobody", reply |-> "none", counted |-> TRUE]

NoCounts == [requests |-> 0, responses |-> 0]
Joined   == [pooled |-> TRUE, active |-> TRUE, open |-> TRUE, serving |-> TRUE]

Init ==
    /\ conn = Joined
    /\ prod = NoCounts
    /\ recent = FALSE
    /\ strays = 0
    /\ slot = [s \in Slots |-> NoRequest]

-----------------------------------------------------------------------------
\* The remote end.

\* Mutant: wasResponseSent is not looked at.
MutantEnd(r, by, reply) == [r EXCEPT !.answers = @ + 1, !.by = by, !.reply = IF r.waiting THEN reply ELSE "none"]

\* P2PRequest.end and .error, which throw when an answer was sent.
End(r, by, reply) ==
    IF r.answers > 0 THEN r
    ELSE [r EXCEPT !.answers = 1, !.by = by, !.reply = IF r.waiting THEN reply ELSE "none"]

\* The library's part, before anybody else sees the request.
Handled(r) ==
    CASE r.procedure = "library"     -> {End(r, "library", "data"), End(r, "library", "error")}
      [] r.procedure = "malformed"   -> {End(r, "library", "error")}
      [] r.procedure = "application" -> {r}

\* What a listener of the application leaves: it answers or not, and it may
\* keep the request for later.
Listened(r) ==
    IF r.procedure = "malformed" THEN {[r EXCEPT !.at = "none"]}
    ELSE {[q EXCEPT !.at = at] : at \in {"held", "none"},
                                 q \in {r, End(r, "application", "data"), End(r, "application", "error")}}

\* A turn of the loop.  What the listener throws, be it only because the request
\* had its answer, ends the loop.
Serve(s) ==
    /\ slot[s].at = "wire"
    /\ conn.open /\ conn.serving
    /\ \E r \in Handled(slot[s]) : \E q \in Listened(r) : slot' = [slot EXCEPT ![s] = q]
    /\ \E throws \in BOOLEAN : conn' = [conn EXCEPT !.serving = ~throws]
    /\ UNCHANGED <<prod, recent, strays>>

\* The application answers a request it kept, or answers it again.
Answer(s) ==
    /\ slot[s].at = "held"
    /\ \E reply \in {"data", "error"} : slot' = [slot EXCEPT ![s] = End(slot[s], "application", reply)]
    /\ UNCHANGED <<conn, prod, recent, strays>>

Forget(s) ==
    /\ slot[s].at = "held"
    /\ slot' = [slot EXCEPT ![s].at = "none"]
    /\ UNCHANGED <<conn, prod, recent, strays>>

-----------------------------------------------------------------------------
\* The node's end.

Settled(r) == [r EXCEPT !.waiting = FALSE, !.reply = "none", !.at = IF @ = "wire" THEN "none" ELSE @]

\* The socket closes, by a disconnect at this end or not.  It rejects what waits
\* on it, except answers that had arrived.
Rejected(slots, arrived) ==
    [s \in Slots |->
        IF slots[s].waiting /\ s \notin arrived
        THEN [slots[s] EXCEPT !.reply = "rejected", !.at = IF @ = "wire" THEN "none" ELSE @]
        ELSE slots[s]]

Close(slots) ==
    /\ conn' \in {[conn EXCEPT !.open = FALSE], [conn EXCEPT !.open = FALSE, !.active = FALSE]}
    /\ \E arrived \in SUBSET {s \in Slots : slots[s].reply # "none"} : slot' = Rejected(slots, arrived)

\* Peer.request counts first.  A closed socket of an outbound peer is dialled
\* again; that of an inbound one rejects the request.
Ask(s, procedure) ==
    /\ conn.pooled
    /\ ~slot[s].waiting /\ slot[s].at = "none"
    /\ prod.requests < MaxRequests
    /\ prod' = [prod EXCEPT !.requests = @ + 1]
    /\ \/ slot' = [slot EXCEPT ![s] = Sent(procedure)]
          /\ conn' = IF conn.open THEN conn ELSE [conn EXCEPT !.open = TRUE, !.serving = TRUE]
       \/ ~conn.open /\ UNCHANGED <<slot, conn>>
    /\ UNCHANGED <<recent, strays>>

\* An answer is counted; an error or a rejection is handed to the caller.
Receive(s) ==
    /\ slot[s].reply # "none"
    /\ slot' = [slot EXCEPT ![s] = Settled(slot[s])]
    /\ IF slot[s].reply = "data"
       THEN /\ prod' = [prod EXCEPT !.responses = @ + 1]
            /\ recent' = TRUE
            /\ strays' = IF slot[s].counted THEN strays ELSE strays + 1
       ELSE UNCHANGED <<prod, recent, strays>>
    /\ UNCHANGED conn

\* Mutant: the caller is told, and the connection stays.
MutantTimeout(s) ==
    /\ slot[s].waiting /\ slot[s].reply # "rejected"
    /\ slot' = [slot EXCEPT ![s] = Settled(slot[s])]
    /\ UNCHANGED <<conn, prod, recent, strays>>

\* ackTimeout: disconnect, which is effective once.  An answer on its way is lost.
Timeout(s) ==
    /\ slot[s].waiting /\ slot[s].reply # "rejected"
    /\ LET others == [slot EXCEPT ![s] = Settled(slot[s])]
       IN  IF conn.active /\ conn.open THEN Close(others) /\ ~conn'.active
           ELSE slot' = others /\ conn' = [conn EXCEPT !.active = FALSE]
    /\ UNCHANGED <<prod, recent, strays>>

\* The socket closes: the network, the remote end, or a disconnect at this one.
Lose ==
    /\ conn.open
    /\ Close(slot)
    /\ UNCHANGED <<prod, recent, strays>>

\* Mutant: the removed peer is not disconnected.
MutantRemove ==
    /\ conn.pooled
    /\ conn' = [conn EXCEPT !.pooled = FALSE]
    /\ UNCHANGED <<prod, recent, strays, slot>>

\* The object leaves the pool.  What still waits on it counts for nobody.
Remove ==
    /\ conn.pooled
    /\ conn' = [pooled |-> FALSE, active |-> FALSE, open |-> FALSE, serving |-> FALSE]
    /\ slot' = [s \in Slots |-> Settled(slot[s])]
    /\ UNCHANGED <<prod, recent, strays>>

Join ==
    /\ ~conn.pooled
    /\ conn' = Joined
    /\ prod' = NoCounts
    /\ recent' = FALSE
    /\ strays' = 0
    /\ UNCHANGED slot

\* Time passes.
Age ==
    /\ recent
    /\ recent' = FALSE
    /\ UNCHANGED <<conn, prod, strays, slot>>

\* Mutant: the responses survive.
MutantReset ==
    /\ conn.active
    /\ ~recent
    /\ prod' = [prod EXCEPT !.requests = 0]
    /\ slot' = [s \in Slots |-> [slot[s] EXCEPT !.counted = FALSE]]
    /\ strays' = 0
    /\ UNCHANGED <<conn, recent>>

\* The interval of an active object; requests under way are not looked at.
Reset ==
    /\ conn.active
    /\ ~recent
    /\ prod' = NoCounts
    /\ slot' = [s \in Slots |-> [slot[s] EXCEPT !.counted = FALSE]]
    /\ strays' = 0
    /\ UNCHANGED <<conn, recent>>

Next ==
    \/ \E s \in Slots : Serve(s) \/ Answer(s) \/ Forget(s) \/ Receive(s) \/ Timeout(s)
    \/ \E s \in Slots, procedure \in Procedures : Ask(s, procedure)
    \/ Lose \/ Remove \/ Join \/ Age \/ Reset

\* Every request has its timer.
Fairness == \A s \in Slots : WF_vars(Timeout(s))

Spec == Init /\ [][Next]_vars /\ Fairness

-----------------------------------------------------------------------------
\* Also: a reply travels to a caller that waits.
TypeOK ==
    /\ conn \in [pooled : BOOLEAN, active : BOOLEAN, open : BOOLEAN, serving : BOOLEAN]
    /\ prod \in [requests : Nat, responses : Nat]
    /\ recent \in BOOLEAN
    /\ strays \in Nat
    /\ slot \in [Slots -> Request]
    /\ \A s \in Slots : slot[s].reply # "none" \/ slot[s].at = "wire" => slot[s].waiting
    /\ conn.active => conn.pooled

\* A request is answered at most once, and a request the library answers itself
\* is never answered by the application, to which it is handed too.
AnsweredOnce ==
    \A s \in Slots :
        /\ slot[s].answers <= 1
        /\ slot[s].by = "application" => slot[s].procedure = "application"

\* A peer is credited with more responses than it was sent requests only for
\* requests that were made before its counters were reset.  (Its response rate,
\* which protects from eviction, is then above one, or divides by zero.)
RateExplained == prod.responses <= prod.requests + strays

\* A connection whose remote end has stopped serving, because a listener of its
\* application threw, does not outlive a request that it leaves unserved, unless its peer
\* had been disconnected before and a send dialled again (disconnect works once).
DeafDropped ==
    \A s \in Slots :
        (slot[s].at = "wire" /\ conn.open /\ ~conn.serving) ~> ~(conn.open /\ conn.active)
=============================================================================
