-------------------------- MODULE Lifecycle_proofs --------------------------
(***************************************************************************)
(* A node keeps its type and stays quiet while it is not active, for any   *)
(* number of calls of start(), peers and sockets.  The invariant behind    *)
(* both says who owns the populator's interval.                            *)
(***************************************************************************)
EXTENDS Lifecycle, TLAPS

\* The interval that runs is the one whose id is kept, and its node is active.
Owned == populators = 1 => populatorId /\ active

Inv == TypeOK /\ Quiet /\ Owned

\* The node starts quiet.
LEMMA InitInv == Init => Inv
<1> SUFFICES ASSUME Init PROVE Inv
  OBVIOUS
<1>1. pc \in [Starts -> Stages] /\ waiting \in [Starts -> SUBSET arrived]
  BY DEF Init, Stages
<1>2. TypeOK
  BY <1>1 DEF Init, TypeOK
<1> QED
  BY <1>2 DEF Init, Inv, Quiet, Owned

\* A call of start() up to its start delay.
LEMMA StartInv ==
  ASSUME Inv, NEW c \in Starts, Start(c) \/ Resume(c) \/ ReadyTimeout(c)
  PROVE  Inv'
<1>1. pc' \in [Starts -> Stages]
  BY DEF Inv, TypeOK, Start, Resume, ReadyTimeout, Serve, Stages
<1>2. /\ active' \in BOOLEAN /\ listening' \in BOOLEAN /\ (active => active')
      /\ hasConnected' = hasConnected /\ outbound' = outbound /\ shuffling' = shuffling
      /\ populatorId' = populatorId /\ populators' = populators
      /\ ready' = ready /\ closing' = closing
      /\ acceptVars' = acceptVars
  <2>1. CASE Start(c) /\ ready
    BY <2>1 DEF Inv, TypeOK, Start, Serve, populatorVars
  <2>2. CASE Start(c) /\ ~ready
    BY <2>2 DEF Inv, TypeOK, Start, populatorVars
  <2>3. CASE Resume(c)
    BY <2>3 DEF Inv, TypeOK, Resume, Serve, populatorVars
  <2>4. CASE ReadyTimeout(c)
    BY <2>4 DEF Inv, TypeOK, ReadyTimeout, populatorVars, serverVars
  <2> QED
    BY <2>1, <2>2, <2>3, <2>4
<1>3. TypeOK'
  BY <1>1, <1>2 DEF Inv, TypeOK, acceptVars
<1>4. Quiet' /\ Owned'
  BY <1>2 DEF Inv, Quiet, Owned
<1> QED
  BY <1>3, <1>4 DEF Inv

\* The start delay of an active node ends in one interval, whose id is kept.
LEMMA DelayInv ==
  ASSUME Inv, NEW c \in Starts, Delay(c)
  PROVE  Inv'
<1>1. pc' \in [Starts -> Stages]
  BY DEF Inv, TypeOK, Delay, StartPopulator, Stages
<1>2. UNCHANGED <<active, hasConnected, shuffling, serverVars, acceptVars>>
  BY DEF Delay
<1>3. CASE active /\ ~populatorId
  <2>1. populators' = 1 /\ populatorId' = TRUE
    <3>1. populators = 0
      BY <1>3 DEF Inv, TypeOK, Owned
    <3>2. populators' = populators + 1
      BY <1>3 DEF Delay, StartPopulator
    <3>3. populatorId' = TRUE
      BY <1>3 DEF Delay, StartPopulator
    <3> QED
      BY <3>1, <3>2, <3>3
  <2>2. outbound' \subseteq Peers
    BY <1>3 DEF Delay, StartPopulator, TriggerNewConnections, Inv, TypeOK
  <2> QED
    BY <1>1, <1>2, <1>3, <2>1, <2>2 DEF Inv, TypeOK, Quiet, Owned, serverVars, acceptVars
<1>4. CASE ~(active /\ ~populatorId)
  <2>1. UNCHANGED <<populators, populatorId, outbound>>
    BY <1>4 DEF Delay, StartPopulator, populatorVars
  <2> QED
    BY <1>1, <1>2, <2>1 DEF Inv, TypeOK, Quiet, Owned, serverVars, acceptVars
<1> QED
  BY <1>3, <1>4

\* stop() ends the interval it knows, and there is no other.
LEMMA StopInv ==
  ASSUME Inv, Stop
  PROVE  Inv'
<1>1. populators' = 0 /\ populatorId' = populatorId
  <2>1. CASE populators = 0
    BY <2>1 DEF Stop, StopPopulator
  <2>2. CASE populators = 1
    BY <2>2 DEF Stop, StopPopulator, Inv, Owned
  <2> QED
    BY <2>1, <2>2 DEF Inv, TypeOK
<1>2. TypeOK'
  BY <1>1 DEF Stop, Inv, TypeOK
<1> QED
  BY <1>1, <1>2 DEF Stop, Inv, Quiet, Owned

\* The server's events.
LEMMA ServerInv ==
  ASSUME Inv, Ready \/ Closed
  PROVE  Inv'
<1>1. pc' \in [Starts -> Stages]
  BY DEF Inv, TypeOK, Ready, Closed, Stages
<1>2. /\ UNCHANGED <<active, hasConnected, populatorVars, outbound, shuffling, acceptVars>>
      /\ ready' \in BOOLEAN /\ listening' \in BOOLEAN /\ closing' \in BOOLEAN
  <2>1. CASE Ready
    BY <2>1 DEF Ready, Inv, TypeOK
  <2>2. CASE Closed
    BY <2>2 DEF Closed, Inv, TypeOK
  <2> QED
    BY <2>1, <2>2
<1>3. TypeOK'
  BY <1>1, <1>2 DEF Inv, TypeOK, populatorVars, acceptVars
<1> QED
  BY <1>2, <1>3 DEF Inv, Quiet, Owned, populatorVars

\* The pool changes only while the node is active, except that it shrinks.
LEMMA PoolInv ==
  ASSUME Inv, Populate \/ NetworkReady \/ \E p \in Peers : LeaveOutbound(p) \/ Shuffle(p)
  PROVE  Inv'
<1>1. /\ outbound' \subseteq Peers
      /\ ~active => outbound' = {} /\ ~hasConnected'
      /\ hasConnected' \in BOOLEAN
  <2>1. CASE Populate
    BY <2>1 DEF Populate, TriggerNewConnections, Inv, TypeOK, Quiet
  <2>2. CASE NetworkReady
    BY <2>2 DEF NetworkReady, Inv, TypeOK, Quiet
  <2>3. CASE \E p \in Peers : LeaveOutbound(p) \/ Shuffle(p)
    BY <2>3 DEF LeaveOutbound, Shuffle, Inv, TypeOK, Quiet
  <2> QED
    BY <2>1, <2>2, <2>3
<1>2. UNCHANGED <<active, populatorVars, shuffling, pc, serverVars, acceptVars>>
  BY DEF Populate, NetworkReady, LeaveOutbound, Shuffle
<1> QED
  BY <1>1, <1>2 DEF Inv, TypeOK, Quiet, Owned, populatorVars, serverVars, acceptVars

\* The loops and the inbound peers do not touch what the node dials.
LEMMA AcceptInv ==
  ASSUME Inv, NEW s \in Sockets,
         Connect(s) \/ LeaveInbound(s) \/ \E c \in Starts : Accept(c, s)
  PROVE  Inv'
<1>1. UNCHANGED <<active, hasConnected, populatorVars, outbound, shuffling, pc, serverVars>>
  BY DEF Connect, LeaveInbound, Accept, serverVars
<1>2. /\ inbound' \subseteq arrived' /\ arrived' \subseteq Sockets
      /\ duplicates' \subseteq arrived' /\ waiting' \in [Starts -> SUBSET arrived']
  <2>1. CASE Connect(s)
    BY <2>1 DEF Connect, Inv, TypeOK
  <2>2. CASE LeaveInbound(s)
    BY <2>2 DEF LeaveInbound, Inv, TypeOK
  <2>3. ASSUME NEW c \in Starts, Accept(c, s)
        PROVE  /\ inbound' \subseteq arrived' /\ arrived' \subseteq Sockets
               /\ duplicates' \subseteq arrived' /\ waiting' \in [Starts -> SUBSET arrived']
    <3>1. waiting' \in [Starts -> SUBSET arrived] /\ arrived' = arrived
      BY <2>3 DEF Accept, Inv, TypeOK
    <3>2. s \in arrived
      BY <2>3 DEF Accept, Inv, TypeOK
    <3>3. inbound' \subseteq inbound \cup {s} /\ duplicates' \subseteq duplicates \cup {s}
      BY <2>3 DEF Accept
    <3> QED
      BY <3>1, <3>2, <3>3 DEF Inv, TypeOK
  <2> QED
    BY <2>1, <2>2, <2>3
<1> QED
  BY <1>1, <1>2 DEF Inv, TypeOK, Quiet, Owned, populatorVars, serverVars

\* Every step keeps the invariant.
LEMMA NextInv == Inv /\ [Next]_vars => Inv'
<1> SUFFICES ASSUME Inv, [Next]_vars PROVE Inv'
  OBVIOUS
<1>1. CASE UNCHANGED vars
  BY <1>1 DEF vars, Inv, TypeOK, Quiet, Owned, populatorVars, serverVars, acceptVars
<1>2. CASE Next
  BY <1>2, StartInv, DelayInv, StopInv, ServerInv, PoolInv, AcceptInv DEF Next
<1> QED
  BY <1>1, <1>2

\* The invariant holds in every reachable state.
LEMMA AlwaysInv == Spec => []Inv
  BY InitInv, NextInv, PTL DEF Spec

\* Every variable has its type, and there are never two intervals.
THEOREM LifecycleTypeCorrect == Spec => []TypeOK
  BY AlwaysInv, PTL DEF Inv

\* A node that is not active has no populator running and no outbound peer in its
\* pool, however calls of start() and stop() overlapped.
THEOREM InactiveIsQuiet == Spec => []Quiet
  BY AlwaysInv, PTL DEF Inv
=============================================================================
