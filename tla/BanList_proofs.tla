---------------------------- MODULE BanList_proofs ----------------------------
(***************************************************************************)
(* Bans always have a running timer, for any number of peers, hosts and    *)
(* timers and any ban time.                                                *)
(***************************************************************************)
EXTENDS BanList, FiniteSetTheorems, TLAPS

BanInv == TypeOK /\ BanHasTimer

\* A reputation stays in its range whatever the penalty.
LEMMA LessBounded ==
    ASSUME NEW r \in 0 .. Reputation, NEW p \in Nat
    PROVE  Less(r, p) \in 0 .. Reputation
BY BanAssumption DEF Less

\* A running timer is in the timer type, and Idle is not.
LEMMA TimerFacts ==
    ASSUME TypeOK
    PROVE  /\ \A t \in TimerIds : timers[t] # Idle => timers[t] \in Timer
           /\ \A x \in Timer : x # Idle
BY BanAssumption DEF TypeOK, Timer

\* An action that touches neither bans nor timers preserves the invariant.
LEMMA RepOnly ==
    ASSUME BanInv, rep' \in [Objects -> 0 .. Reputation \cup {Gone}],
           UNCHANGED <<banned, timers, since>>
    PROVE  BanInv'
BY DEF BanInv, TypeOK, BanHasTimer

\* Time passing: the latest timer and the history run down together.
LEMMA TickStep == ASSUME BanInv, Tick PROVE BanInv'
<1>1. TypeOK'
  <2>1. timers' \in [TimerIds -> Timer \cup {Idle}]
    <3>1. ASSUME NEW t \in TimerIds, timers[t] # Idle, timers[t].left > 0
          PROVE  [timers[t] EXCEPT !.left = @ - 1] \in Timer
      BY <3>1, TimerFacts, BanAssumption DEF BanInv, Timer
    <3> QED BY <3>1 DEF BanInv, TypeOK, Tick
  <2>2. since' \in [Hosts -> 0 .. BanTime]
    BY BanAssumption DEF BanInv, TypeOK, Tick
  <2> QED BY <2>1, <2>2 DEF BanInv, TypeOK, Tick
<1>2. ASSUME NEW h \in banned'
      PROVE  \E t \in TimerIds : /\ timers'[t] # Idle
                                 /\ HostOf[timers'[t].peer] = h
                                 /\ timers'[t].left = BanTime - since'[h]
  <2>1. h \in banned /\ h \in Hosts
    BY <1>2 DEF Tick, BanInv, TypeOK
  <2>2. PICK t \in TimerIds : /\ timers[t] # Idle
                              /\ HostOf[timers[t].peer] = h
                              /\ timers[t].left = BanTime - since[h]
    BY <2>1 DEF BanInv, BanHasTimer
  <2>3. timers[t] \in Timer /\ since[h] \in 0 .. BanTime
    BY <2>1, <2>2, TimerFacts DEF BanInv, TypeOK
  <2>4. CASE timers[t].left > 0
    <3>1. timers'[t] = [timers[t] EXCEPT !.left = @ - 1]
      BY <2>2, <2>4 DEF Tick
    <3>2. timers'[t] \in Timer /\ timers'[t].peer = timers[t].peer
          /\ timers'[t].left = timers[t].left - 1
      BY <3>1, <2>3, <2>4, BanAssumption DEF Timer
    <3>3. since'[h] = since[h] + 1
      BY <2>1, <2>2, <2>3, <2>4, BanAssumption DEF Tick
    <3> QED BY <3>2, <3>3, <2>2, <2>3, TimerFacts, BanAssumption DEF BanInv
  <2>5. CASE ~(timers[t].left > 0)
    <3>1. timers'[t] = timers[t]
      BY <2>5 DEF Tick
    <3>2. since[h] = BanTime /\ timers[t].left = 0
      BY <2>2, <2>3, <2>5, BanAssumption DEF Timer
    <3>3. since'[h] = BanTime
      BY <3>2, <2>1, BanAssumption DEF Tick
    <3> QED BY <3>1, <3>2, <3>3, <2>2, BanAssumption
  <2> QED BY <2>4, <2>5
<1> QED BY <1>1, <1>2 DEF BanInv, BanHasTimer

\* A fired timer frees its host, and leaves the other hosts their own timers.
LEMMA UnbanStep == ASSUME BanInv, NEW t \in TimerIds, HandleUnbanPeer(t) PROVE BanInv'
<1>1. TypeOK'
  BY DEF BanInv, TypeOK, HandleUnbanPeer
<1>2. ASSUME NEW h \in banned'
      PROVE  \E u \in TimerIds : /\ timers'[u] # Idle
                                 /\ HostOf[timers'[u].peer] = h
                                 /\ timers'[u].left = BanTime - since'[h]
  <2>1. h \in banned /\ h # HostOf[timers[t].peer]
    BY <1>2 DEF HandleUnbanPeer
  <2>2. PICK u \in TimerIds : /\ timers[u] # Idle
                              /\ HostOf[timers[u].peer] = h
                              /\ timers[u].left = BanTime - since[h]
    BY <2>1 DEF BanInv, BanHasTimer
  <2>3. timers'[u] = timers[u] /\ since' = since
    BY <2>1, <2>2 DEF HandleUnbanPeer, BanInv, TypeOK
  <2> QED BY <2>2, <2>3
<1> QED BY <1>1, <1>2 DEF BanInv, BanHasTimer

\* A penalty that bans starts a fresh timer for the host it puts in the list.
LEMMA PenaliseStep ==
    ASSUME BanInv, NEW i \in Ids, NEW os \in SUBSET ({i} \X Kinds), NEW p \in Nat,
           \A o \in os : rep[o] # Gone, Penalise(i, os, p)
    PROVE  BanInv'
<1> DEFINE out == {o \in os : rep[o] <= p}
<1>1. os \subseteq Objects
  BY DEF Objects
<1>2. rep' \in [Objects -> 0 .. Reputation \cup {Gone}]
  BY <1>1, LessBounded DEF BanInv, TypeOK, Penalise
<1>3. CASE out = {}
  BY <1>2, <1>3, RepOnly DEF Penalise
<1>4. CASE out # {}
  <2>1. /\ banned' = banned \cup {HostOf[i]}
        /\ since' = [since EXCEPT ![HostOf[i]] = 0]
        /\ StartTimers(i, Cardinality(out))
    BY <1>4 DEF Penalise
  <2>2. IsFiniteSet(out) /\ Cardinality(out) # 0
    <3>1. IsFiniteSet(Kinds)
      <4>1. Kinds = {"inbound"} \cup {"outbound"}
        BY DEF Kinds
      <4> QED BY <4>1, FS_Singleton, FS_Union
    <3>2. IsFiniteSet({i} \X Kinds)
      BY <3>1, FS_Singleton, FS_Product
    <3>3. IsFiniteSet(out)
      BY <3>2, FS_Subset
    <3> QED BY <3>3, <1>4, FS_EmptySet
  <2> HIDE DEF out
  <2>3. PICK ts \in SUBSET {t \in TimerIds : timers[t] = Idle} :
            /\ Cardinality(ts) = Cardinality(out)
            /\ timers' = [t \in TimerIds |-> IF t \in ts THEN [peer |-> i, left |-> BanTime]
                                             ELSE timers[t]]
    BY <2>1 DEF StartTimers
  <2>4. ts # {}
    BY <2>2, <2>3, FS_EmptySet
  <2>5. HostOf[i] \in Hosts
    BY BanAssumption
  <2>6. [peer |-> i, left |-> BanTime] \in Timer
    BY BanAssumption DEF Timer
  <2>7. TypeOK'
    BY <1>2, <2>1, <2>3, <2>5, <2>6, BanAssumption DEF BanInv, TypeOK
  <2>8. ASSUME NEW h \in banned'
        PROVE  \E t \in TimerIds : /\ timers'[t] # Idle
                                   /\ HostOf[timers'[t].peer] = h
                                   /\ timers'[t].left = BanTime - since'[h]
    <3>1. CASE h = HostOf[i]
      <4>1. PICK t \in ts : TRUE
        BY <2>4
      <4>2. timers'[t] = [peer |-> i, left |-> BanTime]
        BY <4>1, <2>3
      <4>3. since'[h] = 0
        BY <3>1, <2>1, <2>5 DEF BanInv, TypeOK
      <4>4. timers'[t] # Idle
        BY <4>2, <2>6, TimerFacts DEF BanInv
      <4> QED BY <4>1, <4>2, <4>3, <4>4, <3>1, <2>3, BanAssumption
    <3>2. CASE h # HostOf[i]
      <4>1. PICK t \in TimerIds : /\ timers[t] # Idle
                                  /\ HostOf[timers[t].peer] = h
                                  /\ timers[t].left = BanTime - since[h]
        BY <3>2, <2>1, <2>8 DEF BanInv, BanHasTimer
      <4>2. timers'[t] = timers[t]
        BY <4>1, <2>3
      <4>3. since'[h] = since[h]
        BY <3>2, <2>1, <2>8, <2>5 DEF BanInv, TypeOK
      <4> QED BY <4>1, <4>2, <4>3
    <3> QED BY <3>1, <3>2
  <2> QED BY <2>7, <2>8 DEF BanInv, BanHasTimer
<1> QED BY <1>3, <1>4

\* The initial state has no ban.
LEMMA InitStep == ASSUME Init PROVE BanInv
BY BanAssumption DEF Init, BanInv, TypeOK, BanHasTimer

\* Every step preserves the invariant.
LEMMA BanInductive == ASSUME BanInv, [Next]_vars PROVE BanInv'
<1>1. CASE UNCHANGED vars
  BY <1>1 DEF vars, BanInv, TypeOK, BanHasTimer
<1>2. CASE Tick
  BY <1>2, TickStep
<1>3. ASSUME NEW t \in TimerIds, HandleUnbanPeer(t) PROVE BanInv'
  BY <1>3, UnbanStep
<1>4. ASSUME NEW i \in Ids, AcceptInbound(i) \/ Dial(i) PROVE BanInv'
  BY <1>4, RepOnly, BanAssumption DEF AcceptInbound, Dial, BanInv, TypeOK, Objects, Kinds
<1>5. ASSUME NEW o \in Objects, Leave(o) PROVE BanInv'
  BY <1>5, RepOnly DEF Leave, BanInv, TypeOK
<1>6. ASSUME NEW p \in Penalties, NEW i \in Ids, ApplyPenalty(i, p) PROVE BanInv'
  <2> DEFINE os == {o \in {i} \X Kinds : rep[o] # Gone}
  <2>1. Penalise(i, os, p) /\ p \in Nat /\ os \in SUBSET ({i} \X Kinds)
    BY <1>6, BanAssumption DEF ApplyPenalty
  <2>2. \A o \in os : rep[o] # Gone
    OBVIOUS
  <2> HIDE DEF os
  <2> QED BY <2>1, <2>2, PenaliseStep
<1>7. ASSUME NEW p \in Penalties, NEW o \in Objects, RateExceeded(o, p) PROVE BanInv'
  <2> DEFINE i == o[1]
             os == {o}
  <2>1. i \in Ids /\ os \in SUBSET ({i} \X Kinds) /\ p \in Nat
    BY BanAssumption DEF Objects
  <2>2. Penalise(i, os, p) /\ \A x \in os : rep[x] # Gone
    BY <1>7 DEF RateExceeded
  <2> HIDE DEF i, os
  <2> QED BY <2>1, <2>2, PenaliseStep
<1> QED BY <1>1, <1>2, <1>3, <1>4, <1>5, <1>6, <1>7 DEF Next

\* The invariant holds throughout.
THEOREM BanSound == Spec => []BanInv
<1>1. Init => BanInv
  BY InitStep
<1>2. BanInv /\ [Next]_vars => BanInv'
  BY BanInductive
<1> QED BY <1>1, <1>2, PTL DEF Spec

\* Type correctness of the ban list.
THEOREM BanTypeCorrect == Spec => []TypeOK
<1>1. BanInv => TypeOK
  BY DEF BanInv
<1> QED BY <1>1, BanSound, PTL

\* However bans overlap, the timer of a banned host's latest ban is running: no
\* ban outlasts its time by a lost timer (peer_pool.js _handleBanPeer).
THEOREM BanAlwaysTimed == Spec => []BanHasTimer
<1>1. BanInv => BanHasTimer
  BY DEF BanInv
<1> QED BY <1>1, BanSound, PTL
=============================================================================
