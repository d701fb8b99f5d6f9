--------------------------- MODULE Requests_proofs ---------------------------
(***************************************************************************)
(* Requests are answered once and responses are explained, for any number  *)
(* of requests under way.  The counters balance: what was answered and     *)
(* what is still awaited of the requests made since the last reset is no   *)
(* more than what was asked, but for answers to earlier requests.          *)
(***************************************************************************)
EXTENDS Requests, FiniteSetTheorems, TLAPS

\* A request as it may be at any time.  One that the library answers has its
\* answer before the application can keep it.
SlotOK(r) ==
    /\ r \in Request
    /\ r.answers <= 1
    /\ r.by = "application" => r.procedure = "application"
    /\ r.at = "held" /\ r.procedure # "application" => r.answers = 1
    /\ r.reply # "none" \/ r.at = "wire" => r.waiting

\* Requests that may still add to the responses and were counted.
Pending == {s \in Slots : slot[s].waiting /\ slot[s].counted}

ConnOK ==
    /\ conn \in [pooled : BOOLEAN, active : BOOLEAN, open : BOOLEAN, serving : BOOLEAN]
    /\ conn.active => conn.pooled
    /\ ~conn.pooled => \A s \in Slots : ~slot[s].waiting

SlotsOK == slot \in [Slots -> Request] /\ \A s \in Slots : SlotOK(slot[s])

CountsOK ==
    /\ prod \in [requests : Nat, responses : Nat]
    /\ strays \in Nat
    /\ recent \in BOOLEAN

Balanced == prod.responses + Cardinality(Pending) <= prod.requests + strays

Inv == ConnOK /\ SlotsOK /\ CountsOK /\ Balanced

-----------------------------------------------------------------------------
\* What the operators on a request preserve.

\* An answered request is a request.
LEMMA GivenType ==
  ASSUME NEW r \in Request, NEW by \in {"library", "application"},
         NEW reply \in {"none", "data", "error"}
  PROVE  [r EXCEPT !.answers = 1, !.by = by, !.reply = reply] \in Request
BY DEF Request

\* An answer is given at most once, and only where it may be.
LEMMA EndOK ==
  ASSUME NEW r, SlotOK(r), NEW by \in {"library", "application"}, NEW reply \in {"data", "error"},
         r.answers = 1 \/ by = "library" \/ r.procedure = "application"
  PROVE  /\ SlotOK(End(r, by, reply)) /\ End(r, by, reply).answers = 1
         /\ End(r, by, reply).waiting = r.waiting /\ End(r, by, reply).counted = r.counted
         /\ End(r, by, reply).procedure = r.procedure
<1>1. CASE r.answers > 0
  BY <1>1 DEF End, SlotOK, Request
<1>2. CASE ~(r.answers > 0)
  <2> DEFINE x == IF r.waiting THEN reply ELSE "none"
  <2>1. End(r, by, reply) = [r EXCEPT !.answers = 1, !.by = by, !.reply = x]
    BY <1>2 DEF End
  <2>2. by = "library" \/ r.procedure = "application"
    BY <1>2 DEF SlotOK, Request
  <2>3. x \in {"none", "data", "error"} /\ (x # "none" => r.waiting)
    OBVIOUS
  <2>4. r \in Request /\ (r.at = "wire" => r.waiting)
    BY DEF SlotOK
  <2> HIDE DEF x
  <2>5. End(r, by, reply) \in Request
    <3>1. [r EXCEPT !.answers = 1, !.by = by, !.reply = x] \in Request
      BY <2>3, <2>4, GivenType
    <3> QED
      BY <2>1, <3>1
  <2>6. /\ End(r, by, reply).answers = 1 /\ End(r, by, reply).by = by
        /\ End(r, by, reply).reply = x /\ End(r, by, reply).at = r.at
        /\ End(r, by, reply).procedure = r.procedure
        /\ End(r, by, reply).waiting = r.waiting /\ End(r, by, reply).counted = r.counted
    BY <2>1, <2>4 DEF Request
  <2> QED
    BY <2>2, <2>3, <2>4, <2>5, <2>6 DEF SlotOK
<1> QED
  BY <1>1, <1>2

\* The library has answered what is not the application's.
LEMMA HandledOK ==
  ASSUME NEW r, SlotOK(r), NEW q \in Handled(r)
  PROVE  /\ SlotOK(q) /\ q.waiting = r.waiting /\ q.counted = r.counted
         /\ q.procedure # "application" => q.answers = 1
<1>1. r.procedure \in Procedures
  BY DEF SlotOK, Request
<1>2. CASE r.procedure = "library"
  BY <1>2, EndOK DEF Handled
<1>3. CASE r.procedure = "malformed"
  BY <1>3, EndOK DEF Handled
<1>4. CASE r.procedure = "application"
  BY <1>4 DEF Handled
<1> QED
  BY <1>1, <1>2, <1>3, <1>4 DEF Procedures

\* A listener leaves a request in order.
LEMMA ListenedOK ==
  ASSUME NEW r, SlotOK(r), r.procedure # "application" => r.answers = 1,
         NEW q \in Listened(r)
  PROVE  SlotOK(q) /\ q.waiting = r.waiting /\ q.counted = r.counted
<1>1. CASE r.procedure = "malformed"
  BY <1>1 DEF Listened, SlotOK, Request
<1>2. CASE r.procedure # "malformed"
  <2>1. PICK at \in {"held", "none"},
             p \in {r, End(r, "application", "data"), End(r, "application", "error")} :
             q = [p EXCEPT !.at = at]
    BY <1>2 DEF Listened
  <2>2. SlotOK(p) /\ p.waiting = r.waiting /\ p.counted = r.counted
        /\ (p.procedure # "application" => p.answers = 1)
    BY EndOK
  <2> QED
    BY <2>1, <2>2 DEF SlotOK, Request
<1> QED
  BY <1>1, <1>2

\* A settled request waits no more.
LEMMA SettledOK ==
  ASSUME NEW r, SlotOK(r)
  PROVE  SlotOK(Settled(r)) /\ ~Settled(r).waiting /\ Settled(r).counted = r.counted
BY DEF SlotOK, Request, Settled

\* A rejection leaves every request as awaited as it was.
LEMMA RejectedOK ==
  ASSUME NEW slots \in [Slots -> Request], \A s \in Slots : SlotOK(slots[s]), NEW arrived
  PROVE  /\ Rejected(slots, arrived) \in [Slots -> Request]
         /\ \A s \in Slots : /\ SlotOK(Rejected(slots, arrived)[s])
                             /\ Rejected(slots, arrived)[s].waiting = slots[s].waiting
                             /\ Rejected(slots, arrived)[s].counted = slots[s].counted
<1>1. ASSUME NEW s \in Slots
      PROVE  /\ SlotOK(Rejected(slots, arrived)[s])
             /\ Rejected(slots, arrived)[s].waiting = slots[s].waiting
             /\ Rejected(slots, arrived)[s].counted = slots[s].counted
  <2>1. SlotOK(slots[s])
    OBVIOUS
  <2>2. CASE slots[s].waiting /\ s \notin arrived
    BY <2>1, <2>2 DEF Rejected, SlotOK, Request
  <2>3. CASE ~(slots[s].waiting /\ s \notin arrived)
    BY <2>1, <2>3 DEF Rejected
  <2> QED
    BY <2>2, <2>3
<1>2. \A s \in Slots : Rejected(slots, arrived)[s] \in Request
  BY <1>1 DEF SlotOK
<1>3. Rejected(slots, arrived) \in [Slots -> Request]
  BY <1>2 DEF Rejected
<1> QED
  BY <1>1, <1>3

-----------------------------------------------------------------------------
\* Counting.

\* There are finitely many requests to count.
LEMMA PendingFinite == IsFiniteSet(Pending) /\ Cardinality(Pending) \in Nat
<1>1. Pending \subseteq Slots
  BY DEF Pending
<1> QED
  BY <1>1, FS_Subset, FS_CardinalityType, RequestsAssumption

\* What most steps do: the requests stay requests and none becomes awaited; the
\* connection stays one, and its object in the pool unless nothing waits on it.
FewerAwaited ==
    /\ slot' \in [Slots -> Request]
    /\ \A s \in Slots : /\ SlotOK(slot'[s]) /\ slot'[s].counted = slot[s].counted
                        /\ slot'[s].waiting => slot[s].waiting

ConnStep ==
    /\ conn' \in [pooled : BOOLEAN, active : BOOLEAN, open : BOOLEAN, serving : BOOLEAN]
    /\ conn'.active => conn'.pooled
    /\ conn'.pooled = conn.pooled \/ \A s \in Slots : ~slot'[s].waiting

\* A step that leaves the counters alone and makes no request awaited.
LEMMA LessAwaited ==
  ASSUME Inv, UNCHANGED <<prod, recent, strays>>, ConnStep, FewerAwaited
  PROVE  Inv'
<1>1. ConnOK'
  BY DEF Inv, ConnOK, ConnStep, FewerAwaited
<1>2. Pending' \subseteq Pending
  BY DEF Pending, FewerAwaited
<1>3. Cardinality(Pending') <= Cardinality(Pending) /\ Cardinality(Pending') \in Nat
  BY <1>2, PendingFinite, FS_Subset, FS_CardinalityType
<1>4. Balanced'
  BY <1>3, PendingFinite DEF Inv, CountsOK, Balanced
<1>5. SlotsOK' /\ CountsOK'
  BY DEF Inv, SlotsOK, CountsOK, FewerAwaited
<1> QED
  BY <1>1, <1>4, <1>5 DEF Inv

\* The same for a step that changes one request.
LEMMA OneLessAwaited ==
  ASSUME Inv, UNCHANGED <<prod, recent, strays>>, NEW s \in Slots, NEW q,
         slot' = [slot EXCEPT ![s] = q],
         SlotOK(q), q.counted = slot[s].counted, q.waiting => slot[s].waiting,
         conn' \in [pooled : BOOLEAN, active : BOOLEAN, open : BOOLEAN, serving : BOOLEAN],
         conn'.active => conn'.pooled, conn'.pooled = conn.pooled
  PROVE  Inv'
<1>1. slot' \in [Slots -> Request]
  BY DEF SlotOK, Inv, SlotsOK
<1>2. \A t \in Slots : /\ SlotOK(slot'[t]) /\ slot'[t].counted = slot[t].counted
                       /\ slot'[t].waiting => slot[t].waiting
  BY DEF Inv, SlotsOK
<1>3. ConnStep /\ FewerAwaited
  BY <1>1, <1>2 DEF ConnStep, FewerAwaited
<1> QED
  BY <1>3, LessAwaited

-----------------------------------------------------------------------------
\* One lemma for each action.

LEMMA InitInv == Init => Inv
<1> SUFFICES ASSUME Init PROVE Inv
  OBVIOUS
<1>1. SlotOK(NoRequest) /\ NoRequest.waiting = FALSE
  BY DEF SlotOK, NoRequest, Request, Procedures
<1>2. SlotsOK
  BY <1>1 DEF Init, SlotsOK, SlotOK
<1>3. Pending = {}
  BY <1>1 DEF Init, Pending
<1>4. Balanced
  BY <1>3, FS_EmptySet DEF Init, Balanced, NoCounts
<1> QED
  BY <1>2, <1>4 DEF Init, Inv, ConnOK, CountsOK, Joined, NoCounts

LEMMA ServeInv ==
  ASSUME Inv, NEW s \in Slots, Serve(s)
  PROVE  Inv'
<1>1. PICK r \in Handled(slot[s]) : \E q \in Listened(r) : slot' = [slot EXCEPT ![s] = q]
  BY DEF Serve
<1>2. PICK q \in Listened(r) : slot' = [slot EXCEPT ![s] = q]
  BY <1>1
<1>3. SlotOK(slot[s])
  BY DEF Inv, SlotsOK
<1>4. SlotOK(q) /\ q.waiting = slot[s].waiting /\ q.counted = slot[s].counted
  BY <1>3, HandledOK, ListenedOK
<1>5. /\ conn' \in [pooled : BOOLEAN, active : BOOLEAN, open : BOOLEAN, serving : BOOLEAN]
      /\ conn'.active => conn'.pooled
      /\ conn'.pooled = conn.pooled
  BY DEF Serve, Inv, ConnOK
<1>6. UNCHANGED <<prod, recent, strays>>
  BY DEF Serve
<1> QED
  BY <1>2, <1>4, <1>5, <1>6, OneLessAwaited

LEMMA AnswerInv ==
  ASSUME Inv, NEW s \in Slots, Answer(s)
  PROVE  Inv'
<1>1. PICK reply \in {"data", "error"} : slot' = [slot EXCEPT ![s] = End(slot[s], "application", reply)]
  BY DEF Answer
<1>2. SlotOK(slot[s]) /\ slot[s].at = "held"
  BY DEF Answer, Inv, SlotsOK
<1>3. slot[s].answers = 1 \/ slot[s].procedure = "application"
  BY <1>2 DEF SlotOK
<1> DEFINE q == End(slot[s], "application", reply)
<1>4. SlotOK(q) /\ q.waiting = slot[s].waiting /\ q.counted = slot[s].counted
  BY <1>2, <1>3, EndOK
<1>5. UNCHANGED <<conn, prod, recent, strays>>
  BY DEF Answer
<1> HIDE DEF q
<1> QED
  BY <1>1, <1>4, <1>5, OneLessAwaited DEF Inv, ConnOK, q

LEMMA ForgetInv ==
  ASSUME Inv, NEW s \in Slots, Forget(s)
  PROVE  Inv'
<1> DEFINE q == [slot[s] EXCEPT !.at = "none"]
<1>1. slot' = [slot EXCEPT ![s] = q] /\ UNCHANGED <<conn, prod, recent, strays>>
  BY DEF Forget
<1>2. SlotOK(slot[s])
  BY DEF Inv, SlotsOK
<1>3. SlotOK(q) /\ q.waiting = slot[s].waiting /\ q.counted = slot[s].counted
  BY <1>2 DEF SlotOK, Request
<1> HIDE DEF q
<1> QED
  BY <1>1, <1>3, OneLessAwaited DEF Inv, ConnOK

\* The counters of a request that is counted, or not any more, and its answer.
LEMMA ReceiveInv ==
  ASSUME Inv, NEW s \in Slots, Receive(s)
  PROVE  Inv'
<1> DEFINE q == Settled(slot[s])
<1>1. slot' = [slot EXCEPT ![s] = q] /\ UNCHANGED conn
  BY DEF Receive
<1>2. SlotOK(slot[s]) /\ slot[s].waiting
  BY DEF Receive, Inv, SlotsOK, SlotOK
<1>3. SlotOK(q) /\ ~q.waiting /\ q.counted = slot[s].counted
  BY <1>2, SettledOK
<1>4. CASE slot[s].reply # "data"
  <2>1. UNCHANGED <<prod, recent, strays>>
    BY <1>4 DEF Receive
  <2> HIDE DEF q
  <2> QED
    BY <1>1, <1>3, <2>1, OneLessAwaited DEF Inv, ConnOK
<1>5. CASE slot[s].reply = "data"
  <2>1. /\ prod' = [prod EXCEPT !.responses = @ + 1] /\ recent' = TRUE
        /\ strays' = IF slot[s].counted THEN strays ELSE strays + 1
    BY <1>5 DEF Receive
  <2> HIDE DEF q
  <2>2. SlotsOK'
    BY <1>1, <1>3 DEF Inv, SlotsOK, SlotOK
  <2>3. ConnOK'
    BY <1>1, <1>2, <1>3 DEF Inv, ConnOK, SlotsOK
  <2>4. CountsOK'
    BY <2>1 DEF Inv, CountsOK
  <2>5. Pending' = Pending \ {s}
    BY <1>1, <1>3 DEF Pending, Inv, SlotsOK
  <2>6. CASE slot[s].counted
    <3>1. s \in Pending
      BY <1>2, <2>6 DEF Pending
    <3>2. Cardinality(Pending') = Cardinality(Pending) - 1
      BY <2>5, <3>1, PendingFinite, FS_RemoveElement
    <3> QED
      BY <2>1, <2>2, <2>3, <2>4, <2>6, <3>2, PendingFinite DEF Inv, CountsOK, Balanced
  <2>7. CASE ~slot[s].counted
    <3>1. Pending' = Pending
      BY <2>5, <2>7 DEF Pending
    <3> QED
      BY <2>1, <2>2, <2>3, <2>4, <2>7, <3>1, PendingFinite DEF Inv, CountsOK, Balanced
  <2> QED
    BY <2>6, <2>7
<1> QED
  BY <1>4, <1>5

\* A request is counted when it is made.
LEMMA AskInv ==
  ASSUME Inv, NEW s \in Slots, NEW procedure \in Procedures, Ask(s, procedure)
  PROVE  Inv'
<1> DEFINE q == Sent(procedure)
<1>1. /\ conn.pooled /\ ~slot[s].waiting
      /\ prod' = [prod EXCEPT !.requests = @ + 1]
      /\ UNCHANGED <<recent, strays>>
  BY DEF Ask
<1>2. CASE slot' = slot /\ conn' = conn
  <2>1. Pending' = Pending
    BY <1>2 DEF Pending
  <2>2. ConnOK' /\ SlotsOK' /\ CountsOK'
    BY <1>1, <1>2 DEF Inv, ConnOK, SlotsOK, CountsOK
  <2> QED
    BY <1>1, <2>1, <2>2, PendingFinite DEF Inv, CountsOK, Balanced
<1>3. CASE /\ slot' = [slot EXCEPT ![s] = q]
           /\ conn' = IF conn.open THEN conn ELSE [conn EXCEPT !.open = TRUE, !.serving = TRUE]
  <2>2. SlotOK(q) /\ q.waiting /\ q.counted
    BY DEF SlotOK, Request, Sent
  <2> HIDE DEF q
  <2>3. SlotsOK'
    BY <1>3, <2>2 DEF Inv, SlotsOK, SlotOK
  <2>4. ConnOK'
    BY <1>1, <1>3 DEF Inv, ConnOK
  <2>5. CountsOK'
    BY <1>1 DEF Inv, CountsOK
  <2>6. Pending' = Pending \cup {s}
    BY <1>3, <2>2 DEF Pending, Inv, SlotsOK
  <2>7. s \notin Pending
    BY <1>1 DEF Pending
  <2>8. Cardinality(Pending') = Cardinality(Pending) + 1
    BY <2>6, <2>7, PendingFinite, FS_AddElement
  <2> QED
    BY <1>1, <2>3, <2>4, <2>5, <2>8, PendingFinite DEF Inv, CountsOK, Balanced
<1> QED
  BY <1>2, <1>3 DEF Ask

\* A timeout settles its request and rejects the others, if it closes the socket.
LEMMA TimeoutInv ==
  ASSUME Inv, NEW s \in Slots, Timeout(s)
  PROVE  Inv'
<1> DEFINE others == [slot EXCEPT ![s] = Settled(slot[s])]
<1>1. \A t \in Slots : /\ SlotOK(others[t]) /\ others[t].counted = slot[t].counted
                       /\ others[t].waiting => slot[t].waiting
  BY SettledOK DEF Inv, SlotsOK
<1>2. others \in [Slots -> Request]
  BY <1>1 DEF SlotOK, Inv, SlotsOK
<1>3. UNCHANGED <<prod, recent, strays>>
  BY DEF Timeout
<1>4. CASE conn.active /\ conn.open
  <2>1. Close(others)
    BY <1>4 DEF Timeout
  <2> HIDE DEF others
  <2>2. \/ conn' = [conn EXCEPT !.open = FALSE]
        \/ conn' = [conn EXCEPT !.open = FALSE, !.active = FALSE]
    BY <2>1 DEF Close
  <2>3. /\ conn' \in [pooled : BOOLEAN, active : BOOLEAN, open : BOOLEAN, serving : BOOLEAN]
        /\ conn'.active => conn'.pooled
        /\ conn'.pooled = conn.pooled
    BY <2>2 DEF Inv, ConnOK
  <2>4. /\ slot' \in [Slots -> Request]
        /\ \A t \in Slots : /\ SlotOK(slot'[t]) /\ slot'[t].counted = slot[t].counted
                            /\ slot'[t].waiting => slot[t].waiting
    <3>1. PICK arrived \in SUBSET {t \in Slots : others[t].reply # "none"} :
            slot' = Rejected(others, arrived)
      BY <2>1 DEF Close
    <3> QED
      BY <1>1, <1>2, <3>1, RejectedOK
  <2>5. ConnStep
    BY <2>3 DEF ConnStep
  <2>6. FewerAwaited
    BY <2>4 DEF FewerAwaited
  <2> QED
    BY <1>3, <2>5, <2>6, LessAwaited
<1>5. CASE ~(conn.active /\ conn.open)
  <2>1. slot' = others /\ conn' = [conn EXCEPT !.active = FALSE]
    BY <1>5 DEF Timeout
  <2> HIDE DEF others
  <2>2. /\ conn' \in [pooled : BOOLEAN, active : BOOLEAN, open : BOOLEAN, serving : BOOLEAN]
        /\ conn'.active => conn'.pooled
        /\ conn'.pooled = conn.pooled
    BY <2>1 DEF Inv, ConnOK
  <2>3. ConnStep /\ FewerAwaited
    BY <1>1, <1>2, <2>1, <2>2 DEF ConnStep, FewerAwaited
  <2> QED
    BY <1>3, <2>3, LessAwaited
<1> QED
  BY <1>4, <1>5

LEMMA LoseInv ==
  ASSUME Inv, Lose
  PROVE  Inv'
<1>1. PICK arrived \in SUBSET {t \in Slots : slot[t].reply # "none"} : slot' = Rejected(slot, arrived)
  BY DEF Lose, Close
<1>2. /\ conn' \in [pooled : BOOLEAN, active : BOOLEAN, open : BOOLEAN, serving : BOOLEAN]
      /\ conn'.active => conn'.pooled
      /\ conn'.pooled = conn.pooled
  BY DEF Lose, Close, Inv, ConnOK
<1>3. UNCHANGED <<prod, recent, strays>>
  BY DEF Lose
<1>4. slot \in [Slots -> Request] /\ \A t \in Slots : SlotOK(slot[t])
  BY DEF Inv, SlotsOK
<1>5. FewerAwaited
  BY <1>1, <1>4, RejectedOK DEF FewerAwaited
<1>6. ConnStep
  BY <1>2 DEF ConnStep
<1> QED
  BY <1>3, <1>5, <1>6, LessAwaited

LEMMA RemoveInv ==
  ASSUME Inv, Remove
  PROVE  Inv'
<1>1. slot' = [s \in Slots |-> Settled(slot[s])] /\ UNCHANGED <<prod, recent, strays>>
  BY DEF Remove
<1>2. /\ conn' \in [pooled : BOOLEAN, active : BOOLEAN, open : BOOLEAN, serving : BOOLEAN]
      /\ conn'.active => conn'.pooled
  BY DEF Remove
<1>3. \A s \in Slots : /\ SlotOK(slot'[s]) /\ slot'[s].counted = slot[s].counted
                       /\ ~slot'[s].waiting
  BY <1>1, SettledOK DEF Inv, SlotsOK
<1>4. slot' \in [Slots -> Request]
  BY <1>1, <1>3 DEF SlotOK
<1>5. ConnStep /\ FewerAwaited
  BY <1>1, <1>2, <1>3, <1>4 DEF ConnStep, FewerAwaited
<1> QED
  BY <1>1, <1>5, LessAwaited

\* A new object starts with no requests of its own and none of its predecessor's.
LEMMA JoinInv ==
  ASSUME Inv, Join
  PROVE  Inv'
<1>1. Pending' = {}
  BY DEF Join, Inv, ConnOK, Pending
<1>2. prod' = [requests |-> 0, responses |-> 0] /\ strays' = 0
  BY DEF Join, NoCounts
<1>3. Balanced'
  BY <1>1, <1>2, FS_EmptySet DEF Balanced
<1>4. ConnOK'
  BY DEF Join, Joined, ConnOK
<1>5. SlotsOK'
  BY DEF Join, Inv, SlotsOK
<1>6. prod' \in [requests : Nat, responses : Nat]
  BY <1>2
<1>7. strays' \in Nat
  BY <1>2
<1>8. recent' \in BOOLEAN
  BY Zenon DEF Join
<1> QED
  BY <1>3, <1>4, <1>5, <1>6, <1>7, <1>8 DEF Inv, CountsOK

LEMMA AgeInv ==
  ASSUME Inv, Age
  PROVE  Inv'
<1>1. Pending' = Pending
  BY DEF Age, Pending
<1>2. ConnOK' /\ SlotsOK' /\ CountsOK'
  BY DEF Age, Inv, ConnOK, SlotsOK, CountsOK
<1> QED
  BY <1>1, <1>2 DEF Age, Inv, Balanced

\* After a reset no request is counted.
LEMMA ResetInv ==
  ASSUME Inv, Reset
  PROVE  Inv'
<1>1. slot' = [s \in Slots |-> [slot[s] EXCEPT !.counted = FALSE]] /\ UNCHANGED conn
  BY DEF Reset
<1>2. ASSUME NEW s \in Slots
      PROVE  SlotOK(slot'[s]) /\ slot'[s].waiting = slot[s].waiting /\ ~slot'[s].counted
  <2>1. SlotOK(slot[s]) /\ slot'[s] = [slot[s] EXCEPT !.counted = FALSE]
    BY <1>1 DEF Inv, SlotsOK
  <2> QED
    BY <2>1 DEF SlotOK, Request
<1>3. SlotsOK'
  BY <1>1, <1>2 DEF SlotsOK, SlotOK
<1>4. ConnOK'
  BY <1>1, <1>2 DEF Inv, ConnOK
<1>5. Pending' = {}
  BY <1>2 DEF Pending
<1>6. prod' = [requests |-> 0, responses |-> 0] /\ strays' = 0 /\ recent' = recent
  BY DEF Reset, NoCounts
<1>7. CountsOK'
  BY <1>6 DEF Inv, CountsOK
<1>8. Balanced'
  BY <1>5, <1>6, FS_EmptySet DEF Balanced
<1> QED
  BY <1>3, <1>4, <1>7, <1>8 DEF Inv

LEMMA NextInv == Inv /\ [Next]_vars => Inv'
<1> SUFFICES ASSUME Inv, [Next]_vars PROVE Inv'
  OBVIOUS
<1>1. CASE Next
  BY <1>1, ServeInv, AnswerInv, ForgetInv, ReceiveInv, TimeoutInv, AskInv, LoseInv,
     RemoveInv, JoinInv, AgeInv, ResetInv DEF Next
<1>2. CASE UNCHANGED vars
  <2>1. Pending' = Pending
    BY <1>2 DEF vars, Pending
  <2>2. ConnOK' /\ SlotsOK' /\ CountsOK'
    BY <1>2 DEF vars, Inv, ConnOK, SlotsOK, CountsOK
  <2> QED
    BY <1>2, <2>1, <2>2 DEF vars, Inv, Balanced
<1> QED
  BY <1>1, <1>2

LEMMA AlwaysInv == Spec => []Inv
  BY InitInv, NextInv, PTL DEF Spec

-----------------------------------------------------------------------------
\* Every variable has its type, and replies travel to callers that wait.
THEOREM RequestsTypeCorrect == Spec => []TypeOK
<1>1. Inv => TypeOK
  BY DEF Inv, ConnOK, SlotsOK, CountsOK, SlotOK, TypeOK
<1> QED
  BY <1>1, AlwaysInv, PTL

\* A request is answered at most once, and one the library answers is never
\* answered by the application it is handed to as well (p2p_request.js).
THEOREM RequestsAnsweredOnce == Spec => []AnsweredOnce
<1>1. Inv => AnsweredOnce
  BY DEF Inv, SlotsOK, SlotOK, AnsweredOnce
<1> QED
  BY <1>1, AlwaysInv, PTL

\* A peer's responses outnumber its requests only by those that answer requests
\* made before its counters were reset (base.js).
THEOREM ResponsesExplained == Spec => []RateExplained
<1>1. Inv => RateExplained
  BY PendingFinite DEF Inv, CountsOK, Balanced, RateExplained
<1> QED
  BY <1>1, AlwaysInv, PTL
=============================================================================
