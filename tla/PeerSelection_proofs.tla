-------------------------- MODULE PeerSelection_proofs --------------------------
(***************************************************************************)
(* The choices of PeerSelection, and the two machines that make them:      *)
(* Selection, which calls each with any input, and Discovery, where nodes  *)
(* answer each other's questions for peers.                                *)
(***************************************************************************)
EXTENDS Selection, Discovery, FiniteSetTheorems, TLAPS

\* The smaller and the greater of two numbers are one of them.
LEMMA LesserGreater ==
  ASSUME NEW m \in Nat, NEW n \in Nat
  PROVE  /\ Lesser(m, n) \in Nat /\ Lesser(m, n) <= m /\ Lesser(m, n) <= n
         /\ Lesser(m, n) = m \/ Lesser(m, n) = n
         /\ Greater(m, n) \in Nat /\ Greater(m, n) >= m /\ Greater(m, n) >= n
         /\ Greater(m, n) = m \/ Greater(m, n) = n
BY DEF Lesser, Greater

\* A sample is a part of what it is taken from, of the size asked for or all.
LEMMA SampleSize ==
  ASSUME NEW S, IsFiniteSet(S), NEW n \in Nat, NEW s \in Samples(S, n)
  PROVE  s \subseteq S /\ IsFiniteSet(s) /\ Cardinality(s) = Lesser(n, Cardinality(S))
<1>1. s \in SUBSET S /\ Cardinality(s) = Lesser(n, Cardinality(S))
  BY DEF Samples, kSubset
<1> QED
  BY <1>1, FS_Subset

\* The parts that a set has in two disjoint sets it lies in make up the set.
LEMMA DisjointParts ==
  ASSUME NEW S, NEW T, IsFiniteSet(S), IsFiniteSet(T), S \cap T = {},
         NEW s \in SUBSET (S \cup T)
  PROVE  Cardinality(s) = Cardinality(s \cap S) + Cardinality(s \cap T)
<1> DEFINE a == s \cap S
           b == s \cap T
<1>1. IsFiniteSet(a) /\ IsFiniteSet(b)
  BY FS_Subset
<1>2. a \cap b = {} /\ a \cup b = s
  OBVIOUS
<1>3. Cardinality(a) \in Nat /\ Cardinality(b) \in Nat
  BY <1>1, FS_CardinalityType
<1>4. Cardinality(a \cup b) = Cardinality(a) + Cardinality(b) - Cardinality(a \cap b)
  BY <1>1, FS_Union
<1>5. Cardinality(a \cap b) = 0
  BY <1>2, FS_EmptySet, Zenon
<1>6. Cardinality(a \cup b) = Cardinality(a) + Cardinality(b)
  <2> HIDE DEF a, b
  <2> QED
    BY <1>3, <1>4, <1>5
<1> QED
  BY <1>2, <1>6, Zenon

-----------------------------------------------------------------------------
\* Half of a limit, rounded up.
LEMMA HalfLimit ==
  ASSUME NEW limit \in Nat
  PROVE  /\ Half(limit) \in Nat /\ limit \div 2 \in Nat
         /\ limit \div 2 <= Half(limit) /\ limit \div 2 + Half(limit) = limit
BY DEF Half

\* The arithmetic of a selection: half the limit of the shorter list, and what is
\* left of it from the longer, make up the limit or everything there is.
LEMMA LimitSplit ==
  ASSUME NEW short \in Nat, NEW long \in Nat, short <= long, NEW limit \in Nat,
         NEW first, first = Lesser(Half(limit), short),
         NEW second, second = Lesser(limit - first, long)
  PROVE  /\ first + second = Lesser(limit, short + long)
         /\ first >= Lesser(limit \div 2, short)
         /\ second >= Lesser(limit \div 2, long)
<1> DEFINE h == Half(limit)
           l == limit \div 2
<1>1. h \in Nat /\ l \in Nat /\ l <= h /\ l + h = limit
  BY HalfLimit
<1> HIDE DEF h, l
<1> SUFFICES /\ first + second = Lesser(limit, short + long)
             /\ first >= Lesser(l, short)
             /\ second >= Lesser(l, long)
  BY DEF l
<1>2. first = (IF h <= short THEN h ELSE short)
  BY DEF Lesser, h
<1>3. second = (IF limit - first <= long THEN limit - first ELSE long)
  BY DEF Lesser
<1> QED
  BY <1>1, <1>2, <1>3 DEF Lesser

\* What a selection takes of two disjoint lists of which one is no longer.
LEMMA DealSize ==
  ASSUME NEW short, NEW long, IsFiniteSet(short), IsFiniteSet(long), short \cap long = {},
         Cardinality(short) <= Cardinality(long),
         NEW limit \in Nat, NEW chosen \in Deals(short, long, limit)
  PROVE  /\ Cardinality(chosen) = Lesser(limit, Cardinality(short \cup long))
         /\ Cardinality(chosen \cap short) >= Lesser(limit \div 2, Cardinality(short))
         /\ Cardinality(chosen \cap long)  >= Lesser(limit \div 2, Cardinality(long))
<1> DEFINE s == Cardinality(short)
           l == Cardinality(long)
           first == Cardinality(chosen \cap short)
           second == Cardinality(chosen \cap long)
<1>1. s \in Nat /\ l \in Nat
  BY FS_CardinalityType
<1>2. /\ chosen \in SUBSET (short \cup long)
      /\ first = Lesser(Half(limit), s)
      /\ second = Lesser(limit - first, l)
  BY DEF Deals
<1>3. Cardinality(chosen) = first + second
  BY <1>2, DisjointParts
<1>4. Cardinality(short \cup long) = s + l
  <2>1. short \cup long \in SUBSET (short \cup long)
    OBVIOUS
  <2>2. (short \cup long) \cap short = short /\ (short \cup long) \cap long = long
    OBVIOUS
  <2>3. Cardinality(short \cup long) = Cardinality((short \cup long) \cap short)
                                       + Cardinality((short \cup long) \cap long)
    BY <2>1, DisjointParts
  <2> QED
    BY <2>2, <2>3, Zenon
<1>5. s <= l
  OBVIOUS
<1> HIDE DEF s, l, first, second
<1>6. /\ first + second = Lesser(limit, s + l)
      /\ first >= Lesser(limit \div 2, s)
      /\ second >= Lesser(limit \div 2, l)
  BY <1>1, <1>2, <1>5, LimitSplit
<1> QED
  BY <1>3, <1>4, <1>6 DEF s, l, first, second

\* Whichever list is longer, a selection for a send uses its whole limit.
LEMMA SendSize ==
  ASSUME NEW outbound, NEW inbound, IsFiniteSet(outbound), IsFiniteSet(inbound),
         outbound \cap inbound = {},
         NEW limit \in Nat, NEW chosen \in SelectPeersForSend(outbound, inbound, limit)
  PROVE  /\ Cardinality(chosen) = Lesser(limit, Cardinality(outbound \cup inbound))
         /\ Cardinality(chosen \cap outbound) >= Lesser(limit \div 2, Cardinality(outbound))
         /\ Cardinality(chosen \cap inbound)  >= Lesser(limit \div 2, Cardinality(inbound))
<1>1. Cardinality(outbound) \in Nat /\ Cardinality(inbound) \in Nat
  BY FS_CardinalityType
<1>2. CASE Cardinality(outbound) < Cardinality(inbound)
  <2>1. chosen \in Deals(outbound, inbound, limit) /\ Cardinality(outbound) <= Cardinality(inbound)
    BY <1>1, <1>2 DEF SelectPeersForSend
  <2> QED
    BY <2>1, DealSize
<1>3. CASE ~(Cardinality(outbound) < Cardinality(inbound))
  <2>1. chosen \in Deals(inbound, outbound, limit) /\ Cardinality(inbound) <= Cardinality(outbound)
    BY <1>1, <1>3 DEF SelectPeersForSend
  <2>2. inbound \cap outbound = {} /\ inbound \cup outbound = outbound \cup inbound
    OBVIOUS
  <2>3. /\ Cardinality(chosen) = Lesser(limit, Cardinality(inbound \cup outbound))
        /\ Cardinality(chosen \cap outbound) >= Lesser(limit \div 2, Cardinality(outbound))
        /\ Cardinality(chosen \cap inbound)  >= Lesser(limit \div 2, Cardinality(inbound))
    BY <2>1, <2>2, DealSize
  <2> QED
    BY <2>2, <2>3, Zenon
<1> QED
  BY <1>2, <1>3

-----------------------------------------------------------------------------
\* How many a share protects: somebody, unless it is none; not more than there are;
\* and a quarter or a third at most leaves what the next filter needs.
LEMMA ProtectedCount ==
  ASSUME NEW n \in Nat, NEW share \in Nat, share >= 1, share <= 1000
  PROVE  /\ Protected(n, share) \in Nat /\ Protected(n, share) <= n
         /\ n >= 1 => Protected(n, share) >= 1
         /\ share <= 333 /\ n >= 3 => n - Protected(n, share) >= 2
         /\ share <= 250 /\ n >= 4 => n - Protected(n, share) >= 3
<1> DEFINE k == (n * share + 999) \div 1000
           x == n * share
<1>1. Protected(n, share) = k
  BY DEF Protected
<1>2. x \in Nat /\ x <= n * 1000 /\ (n >= 1 => x >= 1)
  BY DEF x
<1>3. k \in Nat /\ 1000 * k <= x + 999 /\ x <= 1000 * k
  BY <1>2
<1>4. /\ share <= 333 => x <= n * 333
      /\ share <= 250 => x <= n * 250
  OBVIOUS
<1> HIDE DEF k, x
<1>5. k <= n /\ (n >= 1 => k >= 1)
  BY <1>2, <1>3
<1>6. share <= 333 /\ n >= 3 => n - k >= 2
  BY <1>2, <1>3, <1>4
<1>7. share <= 250 /\ n >= 4 => n - k >= 3
  BY <1>2, <1>3, <1>4
<1> QED
  BY <1>1, <1>3, <1>5, <1>6, <1>7

\* Of a list that is not empty a filter protects somebody, and with a small share it
\* leaves enough for the next filters.
LEMMA FilterProtects ==
  ASSUME NEW S, IsFiniteSet(S), NEW share \in Nat, share >= 1, share <= 1000,
         NEW rest \in SUBSET S,
         Cardinality(rest) = Cardinality(S) - Protected(Cardinality(S), share)
  PROVE  /\ IsFiniteSet(rest) /\ Cardinality(rest) \in Nat
         /\ rest # {} => S \ rest # {}
         /\ share <= 333 /\ Cardinality(S) >= 3 => Cardinality(rest) >= 2
         /\ share <= 250 /\ Cardinality(S) >= 4 => Cardinality(rest) >= 3
<1>1. IsFiniteSet(rest) /\ Cardinality(rest) \in Nat /\ Cardinality(S) \in Nat
  BY FS_Subset, FS_CardinalityType
<1>2. ASSUME rest # {}
      PROVE  S \ rest # {}
  <2> DEFINE n == Cardinality(S)
  <2>1. n \in Nat /\ S # {}
    BY <1>2, FS_CardinalityType
  <2>2. n # 0
    BY <2>1, FS_EmptySet
  <2> HIDE DEF n
  <2>3. Protected(n, share) \in Nat /\ Protected(n, share) >= 1
    BY <2>1, <2>2, ProtectedCount
  <2>4. n - Protected(n, share) # n
    BY <2>1, <2>3
  <2>5. rest # S
    BY <2>4 DEF n
  <2> QED
    BY <2>5
<1>3. /\ share <= 333 /\ Cardinality(S) >= 3 => Cardinality(S) - Protected(Cardinality(S), share) >= 2
      /\ share <= 250 /\ Cardinality(S) >= 4 => Cardinality(S) - Protected(Cardinality(S), share) >= 3
  BY <1>1, ProtectedCount
<1> QED
  BY <1>1, <1>2, <1>3

\* The filter where low values are good, and the one where high values are.
FilterLow(S, value, share)  == FilterPeersByCategory(S, value, TRUE, share)
FilterHigh(S, value, share) == FilterPeersByCategory(S, value, FALSE, share)

\* Whom a filter leaves, somebody it protects is no worse than; low values are good.
LEMMA FilterSparesLow ==
  ASSUME NEW S, IsFiniteSet(S), NEW value, NEW share \in Nat, share >= 1, share <= 1000,
         NEW rest \in FilterLow(S, value, share)
  PROVE  /\ rest \subseteq S /\ IsFiniteSet(rest) /\ Cardinality(rest) \in Nat
         /\ share <= 333 /\ Cardinality(S) >= 3 => Cardinality(rest) >= 2
         /\ share <= 250 /\ Cardinality(S) >= 4 => Cardinality(rest) >= 3
         /\ \A r \in rest : \E p \in S \ rest : value[p] <= value[r]
<1>1. /\ rest \in SUBSET S
      /\ Cardinality(rest) = Cardinality(S) - Protected(Cardinality(S), share)
      /\ \A p \in S \ rest, r \in rest : value[p] <= value[r]
  BY DEF FilterLow, FilterPeersByCategory, kSubset
<1>2. /\ IsFiniteSet(rest) /\ Cardinality(rest) \in Nat /\ (rest # {} => S \ rest # {})
      /\ share <= 333 /\ Cardinality(S) >= 3 => Cardinality(rest) >= 2
      /\ share <= 250 /\ Cardinality(S) >= 4 => Cardinality(rest) >= 3
  BY <1>1, FilterProtects
<1> QED
  BY <1>1, <1>2

\* The same where high values are good.
LEMMA FilterSparesHigh ==
  ASSUME NEW S, IsFiniteSet(S), NEW value, NEW share \in Nat, share >= 1, share <= 1000,
         NEW rest \in FilterHigh(S, value, share)
  PROVE  /\ rest \subseteq S /\ IsFiniteSet(rest) /\ Cardinality(rest) \in Nat
         /\ share <= 333 /\ Cardinality(S) >= 3 => Cardinality(rest) >= 2
         /\ share <= 250 /\ Cardinality(S) >= 4 => Cardinality(rest) >= 3
         /\ \A r \in rest : \E p \in S \ rest : value[p] >= value[r]
<1>1. /\ rest \in SUBSET S
      /\ Cardinality(rest) = Cardinality(S) - Protected(Cardinality(S), share)
      /\ \A p \in S \ rest, r \in rest : value[p] >= value[r]
  BY DEF FilterHigh, FilterPeersByCategory, kSubset
<1>2. /\ IsFiniteSet(rest) /\ Cardinality(rest) \in Nat /\ (rest # {} => S \ rest # {})
      /\ share <= 333 /\ Cardinality(S) >= 3 => Cardinality(rest) >= 2
      /\ share <= 250 /\ Cardinality(S) >= 4 => Cardinality(rest) >= 3
  BY <1>1, FilterProtects
<1> QED
  BY <1>1, <1>2

\* The values of a category.
Values(m) == /\ m.latency \in [Peers -> Nat]
             /\ m.responseRate \in [Peers -> Nat]
             /\ m.connectTime \in [Peers -> Nat]

\* Someone else has as low, or as high, a value as v.
LEMMA NotBest ==
  ASSUME NEW S \in SUBSET Peers, NEW v \in S, NEW value \in [Peers -> Nat], NEW p \in S, p # v
  PROVE  /\ value[p] <= value[v] => ~Best(v, S, value, TRUE)
         /\ value[p] >= value[v] => ~Best(v, S, value, FALSE)
<1>1. value[p] \in Nat /\ value[v] \in Nat /\ p \in S \ {v}
  OBVIOUS
<1> QED
  BY <1>1 DEF Best

\* The three filters one after the other.
LEMMA EvictionSpares ==
  ASSUME SharesSpare, NEW S \in SUBSET Peers, IsFiniteSet(S), NEW m, Values(m),
         NEW candidates \in SelectPeersForEviction(S, m, Shares), NEW victim \in candidates
  PROVE  /\ Cardinality(S) >= 2
         /\ victim \in S
         /\ ~Best(victim, S, m.latency, TRUE)
         /\ Cardinality(S) >= 3 => ~Best(victim, S, m.responseRate, FALSE)
         /\ Cardinality(S) >= 4 => ~Best(victim, S, m.connectTime, TRUE)
<1> DEFINE Last(rest)   == IF Cardinality(rest) <= 1 THEN {rest} ELSE ByConnectTime(rest, m, Shares)
           Second(rest) == IF Cardinality(rest) <= 1 THEN {rest}
                           ELSE UNION {Last(r) : r \in ByResponseRate(rest, m, Shares)}
           n == Cardinality(S)
<1>0. /\ Shares.latency \in Nat /\ Shares.latency >= 1 /\ Shares.latency <= 250
      /\ Shares.latency <= 333 /\ Shares.latency <= 1000
      /\ Shares.productivity \in Nat /\ Shares.productivity >= 1
      /\ Shares.productivity <= 333 /\ Shares.productivity <= 1000
      /\ Shares.longevity \in Nat /\ Shares.longevity >= 1 /\ Shares.longevity <= 1000
  BY SelectionAssumption DEF SharesSpare, SelectionAssumption
<1>n. n \in Nat
  BY FS_CardinalityType
<1>1. PICK first \in ByLatency(S, m, Shares) : candidates \in Second(first)
  BY DEF SelectPeersForEviction
<1>2. /\ first \subseteq S /\ IsFiniteSet(first)
      /\ \A r \in first : \E p \in S \ first : m.latency[p] <= m.latency[r]
      /\ Cardinality(first) \in Nat
      /\ n >= 3 => Cardinality(first) >= 2
      /\ n >= 4 => Cardinality(first) >= 3
  <2>1. first \in FilterLow(S, m.latency, Shares.latency)
    BY DEF ByLatency, FilterLow
  <2> QED
    BY <1>0, <2>1, FilterSparesLow
\* What is left of the candidates after the first filter.
<1>4. /\ candidates \subseteq first
      /\ Cardinality(first) >= 2 =>
            \E p \in first : p # victim /\ m.responseRate[p] >= m.responseRate[victim]
      /\ Cardinality(first) >= 3 =>
            \E p \in first : p # victim /\ m.connectTime[p] <= m.connectTime[victim]
  <2>1. CASE Cardinality(first) <= 1
    BY <1>1, <1>2, <2>1
  <2>2. CASE ~(Cardinality(first) <= 1)
    <3>1. PICK second \in ByResponseRate(first, m, Shares) : candidates \in Last(second)
      BY <1>1, <2>2
    <3>2. /\ second \subseteq first /\ IsFiniteSet(second)
          /\ \A r \in second : \E p \in first \ second : m.responseRate[p] >= m.responseRate[r]
          /\ Cardinality(second) \in Nat
          /\ Cardinality(first) >= 3 => Cardinality(second) >= 2
      <4>1. second \in FilterHigh(first, m.responseRate, Shares.productivity)
        BY DEF ByResponseRate, FilterHigh
      <4> QED
        BY <1>0, <1>2, <4>1, FilterSparesHigh
    <3>4. CASE Cardinality(second) <= 1
      BY <1>2, <3>1, <3>2, <3>4
    <3>5. CASE ~(Cardinality(second) <= 1)
      <4>1. candidates \in FilterLow(second, m.connectTime, Shares.longevity)
        BY <3>1, <3>5 DEF ByConnectTime, FilterLow
      <4>2. /\ candidates \subseteq second
            /\ \A r \in candidates : \E p \in second \ candidates : m.connectTime[p] <= m.connectTime[r]
        BY <1>0, <3>2, <4>1, FilterSparesLow
      <4> QED
        BY <3>2, <4>2
    <3> QED
      BY <3>4, <3>5
  <2> QED
    BY <2>1, <2>2
<1>5. victim \in first /\ victim \in S
  BY <1>2, <1>4
<1>6. PICK p \in S : p # victim /\ m.latency[p] <= m.latency[victim]
  BY <1>2, <1>5
<1>7. n >= 2
  <2>1. {p, victim} \subseteq S /\ Cardinality({p, victim}) = 2 /\ IsFiniteSet({p, victim})
    <3>1. Cardinality({victim}) = 1 /\ IsFiniteSet({victim})
      BY FS_Singleton
    <3>2. {p, victim} = {victim} \cup {p} /\ p \notin {victim}
      BY <1>6
    <3>3. Cardinality({victim} \cup {p}) = Cardinality({victim}) + 1 /\ IsFiniteSet({victim} \cup {p})
      BY <3>1, <3>2, FS_AddElement
    <3>4. Cardinality({victim} \cup {p}) = 2
      BY <3>1, <3>3
    <3> QED
      BY <1>5, <3>2, <3>3, <3>4, Zenon
  <2> QED
    BY <2>1, FS_Subset
<1>8. ~Best(victim, S, m.latency, TRUE)
  BY <1>5, <1>6, NotBest DEF Values
<1>9. n >= 3 => ~Best(victim, S, m.responseRate, FALSE)
  BY <1>2, <1>4, <1>5, NotBest DEF Values
<1>10. n >= 4 => ~Best(victim, S, m.connectTime, TRUE)
  BY <1>2, <1>4, <1>5, NotBest DEF Values
<1> HIDE DEF n
<1> QED
  BY <1>5, <1>7, <1>8, <1>9, <1>10 DEF n
-----------------------------------------------------------------------------
\* How many peers a list holds, however the size is drawn.
LEMMA DrawnFits ==
  ASSUME NEW known \in Nat, NEW length \in Nat, length >= 1, NEW drawn \in Drawn(known, length)
  PROVE  drawn \in Nat /\ drawn <= known /\ drawn <= length
<1> DEFINE q == (known + 3) \div 4
           h == known \div 2
           low  == Lesser(length, q)
           high == Lesser(length, h)
           top  == Greater(low, high)
<1>1. q \in Nat /\ h \in Nat /\ q <= known /\ h <= known
  OBVIOUS
<1> HIDE DEF q, h
<1>2. /\ low \in Nat /\ low <= length /\ low <= q
      /\ high \in Nat /\ high <= length /\ high <= h
  BY <1>1, LesserGreater
<1>3. drawn \in low .. top
  BY DEF Drawn, q, h
<1> HIDE DEF low, high
<1>4. top = low \/ top = high
  BY <1>2, LesserGreater
<1> HIDE DEF top
<1>5. top \in Nat /\ drawn \in Nat /\ drawn <= top
  BY <1>2, <1>3, <1>4
<1>6. top <= known /\ top <= length
  BY <1>1, <1>2, <1>4
<1> QED
  BY <1>5, <1>6

LEMMA AnswerSize ==
  ASSUME NEW known \in Nat, NEW length \in Nat, length >= 1, NEW threshold \in Nat,
         NEW size \in AnswerSizes(known, length, threshold)
  PROVE  /\ size \in Nat /\ size <= known /\ size >= Lesser(threshold, known)
         /\ threshold <= length => size <= length
         /\ size <= length \/ size <= threshold
<1> DEFINE owed == Lesser(threshold, known)
<1>1. owed \in Nat /\ owed <= threshold /\ owed <= known
  BY LesserGreater
<1>2. PICK drawn \in Drawn(known, length) : size = Greater(drawn, owed)
  BY DEF AnswerSizes
<1>3. drawn \in Nat /\ drawn <= known /\ drawn <= length
  BY DrawnFits
<1> HIDE DEF owed
<1>4. size \in Nat /\ size >= owed /\ (size = drawn \/ size = owed)
  BY <1>1, <1>2, <1>3, LesserGreater
<1>5. size <= known /\ (threshold <= length => size <= length) /\ (size <= length \/ size <= threshold)
  BY <1>1, <1>3, <1>4
<1> QED
  BY <1>4, <1>5 DEF owed

-----------------------------------------------------------------------------
\* The entries of the peers of both kinds are finitely many and apart.
LEMMA EntriesApart ==
  ASSUME NEW out \in SUBSET Peers, NEW in \in SUBSET Peers
  PROVE  /\ IsFiniteSet(Entries(out, "outbound")) /\ IsFiniteSet(Entries(in, "inbound"))
         /\ Entries(out, "outbound") \cap Entries(in, "inbound") = {}
<1>1. IsFiniteSet(out) /\ IsFiniteSet(in)
  BY SelectionAssumption, FS_Subset DEF SelectionAssumption
<1>2. IsFiniteSet({"outbound"}) /\ IsFiniteSet({"inbound"})
  BY FS_Singleton
<1> QED
  BY <1>1, <1>2, FS_Product DEF Entries

\* The calls of a step, and what each leaves as the last call.
LEMMA CallCases ==
  ASSUME [Calls]_call
  PROVE  \/ call' = call \/ call' = NoCall
         \/ \E out, in \in SUBSET Peers : Send(out, in) \/ Request(out, in)
         \/ \E peers \in SUBSET Peers, m \in Measurements : Evict(peers, m)
         \/ \E known \in 0 .. MaxKnown, length, threshold \in 1 .. MaxSetting : Answer(known, length, threshold)
BY DEF Calls, Return

LEMMA SendKeeps ==
  ASSUME NEW out \in SUBSET Peers, NEW in \in SUBSET Peers, Send(out, in)
  PROVE  call'.op = "send" /\ SendUsesLimit'
<1> DEFINE o == Entries(out, "outbound")
           i == Entries(in, "inbound")
<1>1. IsFiniteSet(o) /\ IsFiniteSet(i) /\ o \cap i = {}
  BY EntriesApart
<1>2. Cardinality(o \cup i) \in Nat
  BY <1>1, FS_Union, FS_CardinalityType
<1> HIDE DEF o, i
<1>3. PICK limit \in Limits(o \cup i) : \E chosen \in SelectPeersForSend(o, i, limit) :
        call' = [op |-> "send", out |-> o, in |-> i, limit |-> limit, chosen |-> chosen]
  BY DEF Send, o, i
<1>4. limit \in Nat
  BY <1>2, SelectionAssumption DEF Limits, SelectionAssumption
<1>5. PICK chosen \in SelectPeersForSend(o, i, limit) :
        call' = [op |-> "send", out |-> o, in |-> i, limit |-> limit, chosen |-> chosen]
  BY <1>3
<1>6. /\ Cardinality(chosen) = Lesser(limit, Cardinality(o \cup i))
      /\ Cardinality(chosen \cap o) >= Lesser(limit \div 2, Cardinality(o))
      /\ Cardinality(chosen \cap i) >= Lesser(limit \div 2, Cardinality(i))
  BY <1>1, <1>4, SendSize
<1>7. /\ call'.op = "send" /\ call'.out = o /\ call'.in = i
      /\ call'.limit = limit /\ call'.chosen = chosen
  BY <1>5
<1> QED
  BY <1>6, <1>7 DEF SendUsesLimit

LEMMA EvictKeeps ==
  ASSUME SharesSpare, NEW peers \in SUBSET Peers, NEW m \in Measurements, Evict(peers, m)
  PROVE  call'.op = "evict" /\ ProtectedSpared'
<1>1. IsFiniteSet(peers)
  BY SelectionAssumption, FS_Subset DEF SelectionAssumption
<1>2. Values(m)
  BY SelectionAssumption DEF SelectionAssumption, Values
<1>3. PICK candidates \in SelectPeersForEviction(peers, m, Shares) : \E victim \in candidates :
        call' = [op |-> "evict", peers |-> peers, m |-> m, victim |-> victim]
  BY DEF Evict
<1>4. PICK victim \in candidates :
        call' = [op |-> "evict", peers |-> peers, m |-> m, victim |-> victim]
  BY <1>3
<1>5. /\ Cardinality(peers) >= 2
      /\ ~Best(victim, peers, m.latency, TRUE)
      /\ Cardinality(peers) >= 3 => ~Best(victim, peers, m.responseRate, FALSE)
      /\ Cardinality(peers) >= 4 => ~Best(victim, peers, m.connectTime, TRUE)
  BY <1>1, <1>2, EvictionSpares
<1>6. call'.op = "evict" /\ call'.peers = peers /\ call'.m = m /\ call'.victim = victim
  BY <1>4
<1> QED
  BY <1>5, <1>6 DEF ProtectedSpared, Best

LEMMA AnswerKeeps ==
  ASSUME NEW known \in 0 .. MaxKnown, NEW length \in 1 .. MaxSetting,
         NEW threshold \in 1 .. MaxSetting, Answer(known, length, threshold)
  PROVE  call'.op = "answer" /\ AnswerFits'
<1>1. known \in Nat /\ length \in Nat /\ length >= 1 /\ threshold \in Nat
  BY SelectionAssumption DEF SelectionAssumption
<1>2. PICK n \in AnswerSizes(known, length, threshold) :
        call' = [op |-> "answer", known |-> known, length |-> length, threshold |-> threshold, size |-> n]
  BY DEF Answer
<1>3. n <= known /\ n >= Lesser(threshold, known) /\ (threshold <= length => n <= length)
  BY <1>1, AnswerSize
<1>4. /\ call'.op = "answer" /\ call'.known = known /\ call'.length = length
      /\ call'.threshold = threshold /\ call'.size = n
  BY <1>2
<1> QED
  BY <1>3, <1>4 DEF AnswerFits

\* Which call a step leaves when it is not the kind a property speaks of.
LEMMA OtherCalls ==
  /\ \A out, in \in SUBSET Peers : Request(out, in) => call'.op = "request"
  /\ \A out, in \in SUBSET Peers : Send(out, in) => call'.op = "send"
  /\ \A peers \in SUBSET Peers, m \in Measurements : Evict(peers, m) => call'.op = "evict"
  /\ \A known \in 0 .. MaxKnown, length, threshold \in 1 .. MaxSetting :
        Answer(known, length, threshold) => call'.op = "answer"
BY DEF Request, Send, Evict, Answer

LEMMA CallStep ==
  ASSUME [Calls]_call
  PROVE  /\ SendUsesLimit => SendUsesLimit'
         /\ AnswerFits => AnswerFits'
         /\ SharesSpare /\ ProtectedSpared => ProtectedSpared'
<1>1. CASE call' = call
  BY <1>1 DEF SendUsesLimit, AnswerFits, ProtectedSpared, Best
<1>2. CASE call' = NoCall
  BY <1>2 DEF SendUsesLimit, AnswerFits, ProtectedSpared, NoCall
<1>3. CASE \E out, in \in SUBSET Peers : Send(out, in)
  BY <1>3, SendKeeps DEF AnswerFits, ProtectedSpared
<1>4. CASE \E out, in \in SUBSET Peers : Request(out, in)
  BY <1>4, OtherCalls DEF SendUsesLimit, AnswerFits, ProtectedSpared
<1>5. CASE \E peers \in SUBSET Peers, m \in Measurements : Evict(peers, m)
  BY <1>5, OtherCalls, EvictKeeps DEF SendUsesLimit, AnswerFits
<1>6. CASE \E known \in 0 .. MaxKnown, length, threshold \in 1 .. MaxSetting : Answer(known, length, threshold)
  BY <1>6, OtherCalls, AnswerKeeps DEF SendUsesLimit, ProtectedSpared
<1> QED
  BY <1>1, <1>2, <1>3, <1>4, <1>5, <1>6, CallCases

\* No send leaves a part of its limit unused while there are connections it did not
\* choose, nor lets one kind of connection take the share of the other
\* (src/src/peer_selection.js).
THEOREM SendUsesWholeLimit == CallSpec => []SendUsesLimit
<1>1. CallInit => SendUsesLimit
  BY DEF CallInit, NoCall, SendUsesLimit
<1>2. SendUsesLimit /\ [Calls]_call => SendUsesLimit'
  BY CallStep
<1> QED
  BY <1>1, <1>2, PTL DEF CallSpec

\* The filters spare the best peer of each category, for shares that protect somebody
\* and leave the next filter somebody to protect (src/src/peer_pool.js).
THEOREM EvictionSparesTheBest ==
  ASSUME SharesSpare
  PROVE  CallSpec => []ProtectedSpared
<1>1. CallInit => ProtectedSpared
  BY DEF CallInit, NoCall, ProtectedSpared
<1>2. ProtectedSpared /\ [Calls]_call => ProtectedSpared'
  BY CallStep
<1> QED
  BY <1>1, <1>2, PTL DEF CallSpec

\* A list never names more peers than the node knows, and its receiver does not refuse
\* it for its length (src/src/p2p.js).
THEOREM AnswersFit == CallSpec => []AnswerFits
<1>1. CallInit => AnswerFits
  BY DEF CallInit, NoCall, AnswerFits
<1>2. AnswerFits /\ [Calls]_call => AnswerFits'
  BY CallStep
<1> QED
  BY <1>1, <1>2, PTL DEF CallSpec

-----------------------------------------------------------------------------
\* Discovery: what gets into the books of any network, whatever its seeds, saved peers
\* and blacklists.  That every node ends up in the book of every other is liveness.

\* EntersClean of one entry.
Clean(n, a, e) ==
    e.status # "unknown" =>
        /\ ~Barred(n, a, e.written)
        /\ e.written # "normal" => Foreign # {}
        /\ a \in Dead =>
              IF e.status = "named" THEN a \in Configured[n] ELSE \E m \in Nodes : a \in Remembered[m]

LEMMA CleanEntries == EntersClean <=> \A n \in Nodes, a \in Addresses : Clean(n, a, book[n][a])
BY DEF EntersClean, Clean, Known

LEMMA CleanEntriesNext == EntersClean' <=> \A n \in Nodes, a \in Addresses : Clean(n, a, book[n][a])'
BY DEF EntersClean, Clean, Known

Inv == TypeOK /\ EntersClean

Books == [Nodes -> [Addresses -> Entry]]
Links == [Nodes -> [Nodes -> {"none", "asked", "settled"}]]

\* Links are between two nodes that know each other.
Acquainted ==
    \A n, m \in Nodes : link[n][m] # "none" =>
        n # m /\ book[n][m].status # "unknown" /\ book[m][n].status # "unknown"

LEMMA TypeParts == TypeOK <=> book \in Books /\ link \in Links /\ blacklist \in Blacklists /\ Acquainted
BY DiscoveryAssumption DEF DiscoveryAssumption, TypeOK, Books, Links, Acquainted, Known, Addresses

LEMMA TypePartsNext == TypeOK' <=> book' \in Books /\ link' \in Links /\ blacklist' \in Blacklists /\ Acquainted'
BY DiscoveryAssumption DEF DiscoveryAssumption, TypeOK, Books, Links, Acquainted, Known, Addresses

LEMMA EntryTypes ==
    /\ Unknown \in Entry /\ Unknown.status = "unknown"
    /\ \A spelling \in Spelling : /\ Found(spelling) \in Entry
                                  /\ Found(spelling).status = "detailed"
                                  /\ Found(spelling).written = spelling
BY DEF Unknown, Found, Entry, Spelling

-----------------------------------------------------------------------------
\* The book after a step that changes what one node has of one address.
LEMMA OneEntry ==
  ASSUME Inv, UNCHANGED blacklist, NEW n \in Nodes, NEW a \in Addresses, NEW v \in Entry,
         book' = [book EXCEPT ![n][a] = v], Clean(n, a, v)
  PROVE  /\ book' \in Books
         /\ \A k \in Nodes, b \in Addresses : book'[k][b] = IF k = n /\ b = a THEN v ELSE book[k][b]
         /\ EntersClean'
<1>1. book \in Books
  BY TypeParts DEF Inv
<1>2. /\ book' \in Books
      /\ \A k \in Nodes, b \in Addresses : book'[k][b] = IF k = n /\ b = a THEN v ELSE book[k][b]
  BY <1>1 DEF Books
<1>3. \A k \in Nodes, b \in Addresses : Clean(k, b, book[k][b])
  BY CleanEntries DEF Inv
<1>4. \A k \in Nodes, b \in Addresses : Clean(k, b, book[k][b])'
  BY <1>2, <1>3 DEF Clean, Barred
<1> QED
  BY <1>2, <1>4, CleanEntriesNext

LEMMA InitInv == Init => Inv
<1> SUFFICES ASSUME Init PROVE Inv
  OBVIOUS
<1>1. ASSUME NEW n \in Nodes, NEW a \in Addresses
      PROVE  /\ book[n][a] \in Entry
             /\ book[n][a].written = "normal"
             /\ book[n][a].status # "unknown" => a \in Sanitized(n)
             /\ book[n][a].status = "detailed" => a \in Remembered[n]
  <2>1. CASE a \in Sanitized(n) \cap Remembered[n]
    BY <2>1 DEF Init, Found, Entry, Spelling
  <2>2. CASE a \in Sanitized(n) \ Remembered[n]
    BY <2>2 DEF Init, Unknown, Entry, Spelling
  <2>3. CASE a \notin Sanitized(n)
    BY <2>3 DEF Init, Unknown, Entry, Spelling
  <2> QED
    BY <2>1, <2>2, <2>3
<1>2. book \in Books
  BY <1>1 DEF Init, Books
<1>3. ASSUME NEW n \in Nodes, NEW a \in Addresses PROVE Clean(n, a, book[n][a])
  <2>1. book[n][a].status # "unknown" => ~Barred(n, a, "normal") /\ a \in Configured[n]
    BY <1>1 DEF Sanitized
  <2>2. book[n][a].status \in {"unknown", "named", "detailed"}
    BY <1>1 DEF Entry
  <2> QED
    BY <1>1, <2>1, <2>2 DEF Clean
<1>4. link \in Links /\ Acquainted
  BY DEF Init, Links, Acquainted
<1> QED
  BY <1>2, <1>3, <1>4, TypeParts, CleanEntries DEF Init, Inv

\* Who is taken into a book when it dials is alive, and not blacklisted there in the
\* normalized spelling.
LEMMA DialInv ==
  ASSUME Inv, NEW n \in Nodes, NEW m \in Nodes, Dial(n, m)
  PROVE  Inv'
<1>1. n \in Addresses /\ m \in Addresses /\ n \notin Dead /\ UNCHANGED blacklist
  BY DiscoveryAssumption DEF DiscoveryAssumption, Addresses, Dial
<1>2. book \in Books /\ link \in Links /\ blacklist \in Blacklists /\ Acquainted
  BY TypeParts DEF Inv
<1>3. CASE n = m
  <2>1. book' = [book EXCEPT ![n][n] = Unknown] /\ UNCHANGED link
    BY <1>3 DEF Dial
  <2>2. Clean(n, n, Unknown)
    BY EntryTypes DEF Clean
  <2>3. /\ book' \in Books /\ EntersClean'
        /\ \A k \in Nodes, b \in Addresses : book'[k][b] = IF k = n /\ b = n THEN Unknown ELSE book[k][b]
    <3>1. book' = [book EXCEPT ![n][n] = Unknown] /\ UNCHANGED blacklist
      BY <1>1, <2>1
    <3>2. n \in Addresses /\ Unknown \in Entry
      BY <1>1, EntryTypes
    <3> QED
      BY <2>2, <3>1, <3>2, OneEntry
  <2>4. \A k, l \in Nodes : k # l => book'[k][l] = book[k][l]
    BY <2>3 DEF Addresses
  <2>5. Acquainted'
    BY <1>2, <2>1, <2>4 DEF Acquainted
  <2> QED
    BY <1>1, <1>2, <2>1, <2>3, <2>5, TypePartsNext DEF Inv
<1>4. CASE n # m
  <2> DEFINE v == IF n \in Known(m) THEN book[m][n] ELSE Found("normal")
  <2>1. link' = [link EXCEPT ![n][m] = "asked"] /\ book' = [book EXCEPT ![m][n] = v]
    BY <1>4 DEF Dial
  <2>2. v \in Entry /\ v.status # "unknown" /\ Clean(m, n, v)
    <3>1. CASE n \in Known(m)
      <4>1. Clean(m, n, book[m][n])
        BY <1>1, CleanEntries DEF Inv
      <4> QED
        BY <1>1, <1>2, <3>1, <4>1 DEF Books, Known
    <3>2. CASE n \notin Known(m)
      <4>1. ~Barred(m, n, "normal") /\ "normal" \in Spelling
        BY DEF Dial, Spelling
      <4> QED
        BY <1>1, <3>2, <4>1, EntryTypes DEF Clean
    <3> QED
      BY <3>1, <3>2
  <2> HIDE DEF v
  <2>3. /\ book' \in Books /\ EntersClean'
        /\ \A k \in Nodes, b \in Addresses : book'[k][b] = IF k = m /\ b = n THEN v ELSE book[k][b]
    <3>1. book' = [book EXCEPT ![m][n] = v] /\ UNCHANGED blacklist
      BY <1>1, <2>1
    <3>2. n \in Addresses /\ v \in Entry /\ Clean(m, n, v)
      BY <1>1, <2>2
    <3> QED
      BY <3>1, <3>2, OneEntry
  <2>4. /\ link' \in Links
        /\ \A k, l \in Nodes : link'[k][l] = IF k = n /\ l = m THEN "asked" ELSE link[k][l]
    BY <1>2, <2>1 DEF Links
  <2>5. book[n][m].status # "unknown"
    BY DEF Dial, Known
  <2>6. \A k \in Nodes, b \in Addresses : book[k][b].status # "unknown" => book'[k][b].status # "unknown"
    BY <2>2, <2>3
  <2>7. book'[m][n].status # "unknown" /\ book'[n][m].status # "unknown"
    BY <1>1, <2>2, <2>3, <2>5, <2>6
  <2>8. Acquainted'
    BY <1>2, <1>4, <2>4, <2>6, <2>7 DEF Acquainted, Addresses
  <2> QED
    BY <1>1, <1>2, <2>3, <2>4, <2>8, TypePartsNext DEF Inv
<1> QED
  BY <1>3, <1>4

\* Details of a living peer change nothing else.
LEMMA InformInv ==
  ASSUME Inv, NEW n \in Nodes, NEW peer \in Nodes, Inform(n, peer)
  PROVE  Inv'
<1>1. peer \in Addresses /\ peer \notin Dead /\ UNCHANGED <<link, blacklist>>
  BY DiscoveryAssumption DEF DiscoveryAssumption, Addresses, Inform
<1>2. book \in Books /\ link \in Links /\ blacklist \in Blacklists /\ Acquainted
  BY TypeParts DEF Inv
<1> DEFINE v == [book[n][peer] EXCEPT !.status = "detailed"]
<1>3. /\ book[n][peer] \in Entry
      /\ book[n][peer].status = "named"
      /\ Clean(n, peer, book[n][peer])
  BY <1>1, <1>2, CleanEntries DEF Inv, Books, Inform
<1>4. v \in Entry /\ v.status = "detailed" /\ v.written = book[n][peer].written
  BY <1>3 DEF Entry
<1>5. book' = [book EXCEPT ![n][peer] = v]
  BY DEF Inform
<1> HIDE DEF v
<1>6. Clean(n, peer, v)
  BY <1>1, <1>3, <1>4 DEF Clean
<1>7. /\ book' \in Books /\ EntersClean'
      /\ \A k \in Nodes, b \in Addresses : book'[k][b] = IF k = n /\ b = peer THEN v ELSE book[k][b]
  BY <1>1, <1>4, <1>5, <1>6, OneEntry
<1>8. \A k \in Nodes, b \in Addresses : book[k][b].status # "unknown" => book'[k][b].status # "unknown"
  BY <1>4, <1>7
<1>9. Acquainted'
  BY <1>1, <1>2, <1>8 DEF Acquainted, Addresses
<1> QED
  BY <1>1, <1>2, <1>7, <1>9, TypePartsNext DEF Inv

\* A list brings in what its receiver does not blacklist as the list writes it, and of
\* which its sender has the details: a dead address was configured with them.
LEMMA ListInv ==
  ASSUME Inv, NEW n \in Nodes, NEW m \in Nodes, List(n, m)
  PROVE  Inv'
<1>1. link' = [link EXCEPT ![n][m] = "settled"] /\ UNCHANGED blacklist /\ link[n][m] = "asked"
  BY DEF List
<1>2. book \in Books /\ link \in Links /\ blacklist \in Blacklists /\ Acquainted
  BY TypeParts DEF Inv
<1>3. /\ link' \in Links
      /\ \A k, l \in Nodes : link'[k][l] # "none" => link[k][l] # "none"
  BY <1>1, <1>2 DEF Links
<1>4. PICK peers \in SUBSET Known(m) :
        book' = [book EXCEPT ![n] = [a \in Addresses |->
                    IF a \in Accepted(n, m, Written(m, peers)) \ Known(n)
                    THEN Found(Written(m, peers)[a]) ELSE book[n][a]]]
  <2>1. PICK size \in AnswerSizes(Cardinality(Known(m)), Length, Threshold) :
          \E peers \in Samples(Known(m), size) :
            book' = [book EXCEPT ![n] = [a \in Addresses |->
                        IF a \in Accepted(n, m, Written(m, peers)) \ Known(n)
                        THEN Found(Written(m, peers)[a]) ELSE book[n][a]]]
    BY DEF List
  <2>2. Samples(Known(m), size) \subseteq SUBSET Known(m)
    BY DEF Samples, kSubset
  <2> QED
    BY <2>1, <2>2
<1> DEFINE list == Written(m, peers)
<1>5. ASSUME NEW a \in Accepted(n, m, list)
      PROVE  /\ a \in Addresses /\ list[a] \in Spelling
             /\ list[a] # "normal" => m \in Foreign \/ book[m][a].written # "normal"
             /\ ~Barred(n, a, list[a])
             /\ book[m][a].status = "detailed"
  <2>1. a \in peers /\ ~Barred(n, a, list[a]) /\ book[m][a].status = "detailed"
    BY DEF Accepted, Written
  <2>2. a \in Addresses
    BY <2>1 DEF Known
  <2>3. book[m][a].written \in Spelling
    BY <1>2, <2>2 DEF Books, Entry
  <2>4. list[a] = IF m \in Foreign THEN "other" ELSE book[m][a].written
    BY <2>1 DEF Written
  <2> QED
    BY <2>1, <2>2, <2>3, <2>4 DEF Spelling
<1>6. book' = [book EXCEPT ![n] = [a \in Addresses |->
                  IF a \in Accepted(n, m, list) \ Known(n) THEN Found(list[a]) ELSE book[n][a]]]
  BY <1>4
<1> HIDE DEF list
<1>7. \A k \in Nodes, a \in Addresses :
        book'[k][a] = IF k = n /\ a \in Accepted(n, m, list) \ Known(n) THEN Found(list[a]) ELSE book[k][a]
  BY <1>2, <1>6 DEF Books
<1>8. \A a \in Accepted(n, m, list) : Found(list[a]) \in Entry /\ Clean(n, a, Found(list[a]))
  <2> SUFFICES ASSUME NEW a \in Accepted(n, m, list)
               PROVE  Found(list[a]) \in Entry /\ Clean(n, a, Found(list[a]))
    OBVIOUS
  <2>1. /\ Found(list[a]) \in Entry
        /\ Found(list[a]).status = "detailed"
        /\ Found(list[a]).written = list[a]
    BY <1>5, EntryTypes
  <2>2. Clean(m, a, book[m][a])
    BY <1>5, CleanEntries DEF Inv
  <2>3. list[a] # "normal" => Foreign # {}
    BY <1>5, <2>2 DEF Clean
  <2>4. a \in Dead => \E k \in Nodes : a \in Remembered[k]
    BY <1>5, <2>2 DEF Clean
  <2> QED
    BY <1>5, <2>1, <2>3, <2>4 DEF Clean
<1>9. book' \in Books
  BY <1>2, <1>6, <1>8 DEF Books
<1>10. \A k \in Nodes, a \in Addresses : Clean(k, a, book[k][a])
  BY CleanEntries DEF Inv
<1>11. \A k \in Nodes, a \in Addresses : Clean(k, a, book[k][a])'
  BY <1>1, <1>7, <1>8, <1>10 DEF Clean, Barred
<1>12. \A k \in Nodes, a \in Addresses : book[k][a].status # "unknown" => book'[k][a].status # "unknown"
  BY <1>7 DEF Known
<1>13. Acquainted'
  BY <1>2, <1>3, <1>12 DEF Acquainted, Addresses
<1> QED
  BY <1>1, <1>2, <1>3, <1>9, <1>11, <1>13, TypePartsNext, CleanEntriesNext DEF Inv

LEMMA ShuffleInv ==
  ASSUME Inv, NEW n \in Nodes, NEW m \in Nodes, Shuffle(n, m)
  PROVE  Inv'
<1>1. link' = [link EXCEPT ![n][m] = "none"] /\ UNCHANGED <<book, blacklist>>
  BY DEF Shuffle
<1>2. book \in Books /\ link \in Links /\ blacklist \in Blacklists /\ Acquainted
  BY TypeParts DEF Inv
<1>3. /\ link' \in Links
      /\ \A k, l \in Nodes : link'[k][l] # "none" => link[k][l] # "none"
  BY <1>1, <1>2 DEF Links
<1>4. Acquainted'
  BY <1>1, <1>2, <1>3 DEF Acquainted
<1>5. EntersClean'
  BY <1>1 DEF Inv, EntersClean, Known, Barred
<1> QED
  BY <1>1, <1>2, <1>3, <1>4, <1>5, TypePartsNext DEF Inv

LEMMA AbortInv ==
  ASSUME Inv, NEW n \in Nodes, NEW a \in Dead, Abort(n, a)
  PROVE  Inv'
<1>1. book' = [book EXCEPT ![n][a] = Unknown] /\ UNCHANGED <<link, blacklist>>
  BY DEF Abort
<1>2. book \in Books /\ link \in Links /\ blacklist \in Blacklists /\ Acquainted
  BY TypeParts DEF Inv
<1>3. a \in Addresses /\ a \notin Nodes
  BY DiscoveryAssumption DEF DiscoveryAssumption, Addresses
<1>4. Clean(n, a, Unknown)
  BY EntryTypes DEF Clean
<1>5. /\ book' \in Books /\ EntersClean'
      /\ \A k \in Nodes, b \in Addresses : book'[k][b] = IF k = n /\ b = a THEN Unknown ELSE book[k][b]
  <2>1. Unknown \in Entry
    BY EntryTypes
  <2> QED
    BY <1>1, <1>3, <1>4, <2>1, OneEntry
<1>6. \A k, l \in Nodes : book'[k][l] = book[k][l]
  BY <1>3, <1>5 DEF Addresses
<1>7. Acquainted'
  BY <1>1, <1>2, <1>6 DEF Acquainted
<1> QED
  BY <1>1, <1>2, <1>5, <1>7, TypePartsNext DEF Inv

LEMMA NextInv == Inv /\ [Next]_vars => Inv'
<1> SUFFICES ASSUME Inv, [Next]_vars PROVE Inv'
  OBVIOUS
<1>1. ASSUME NEW n \in Nodes, NEW m \in Nodes, Dial(n, m) \/ Inform(n, m) \/ List(n, m) \/ Shuffle(n, m)
      PROVE  Inv'
  BY <1>1, DialInv, InformInv, ListInv, ShuffleInv
<1>2. ASSUME NEW n \in Nodes, NEW a \in Dead, Abort(n, a)
      PROVE  Inv'
  BY <1>2, AbortInv
<1>3. CASE UNCHANGED vars
  BY <1>3 DEF vars, Inv, TypeOK, EntersClean, Known, Barred
<1> QED
  BY <1>1, <1>2, <1>3 DEF Next

LEMMA InvHolds == Spec => []Inv
BY InitInv, NextInv, PTL DEF Spec

-----------------------------------------------------------------------------
\* Books, links and blacklists keep their types, and a connection is between two nodes
\* that have each other in their books (src/src/p2p.js).
THEOREM DiscoveryTypeCorrect == Spec => []TypeOK
<1>1. Inv => TypeOK
  BY DEF Inv
<1> QED
  BY <1>1, InvHolds, PTL

\* Whatever nodes are configured with, what they saved included, and however they write
\* addresses in lists: no book has an address in a spelling its node blacklists, and an
\* address where nobody answers comes from a configuration, with its fields if it came in
\* a list (src/src/p2p.js:302 and 420-431, src/src/validation.js:120-144 and 208-279).
THEOREM BooksStayClean == Spec => []EntersClean
<1>1. Inv => EntersClean
  BY DEF Inv
<1> QED
  BY <1>1, InvHolds, PTL

\* When a blacklist keeps an address out of the book: the normalized spelling on it is
\* enough where every node writes lists as this library does, else every spelling must
\* be on it (src/src/p2p.js:302 and 543, src/src/validation.js:218 compare strings).
THEOREM BarredStayOut ==
  Spec => [](\A n \in Nodes, a \in Addresses :
                Barred(n, a, "normal") /\ (Foreign = {} \/ Barred(n, a, "other")) => a \notin Known(n))
<1> DEFINE Out == \A n \in Nodes, a \in Addresses :
                     Barred(n, a, "normal") /\ (Foreign = {} \/ Barred(n, a, "other")) => a \notin Known(n)
<1>1. Inv => Out
  <2> SUFFICES ASSUME Inv, NEW n \in Nodes, NEW a \in Known(n), Barred(n, a, "normal")
               PROVE  Foreign # {} /\ ~Barred(n, a, "other")
    OBVIOUS
  <2>1. a \in Addresses
    BY DEF Known
  <2>2. book[n][a].written \in {"normal", "other"}
    BY <2>1, TypeParts DEF Inv, Books, Entry, Spelling
  <2>3. ~Barred(n, a, book[n][a].written) /\ (book[n][a].written # "normal" => Foreign # {})
    BY DEF Inv, EntersClean
  <2> QED
    BY <2>2, <2>3
<1> QED
  BY <1>1, InvHolds, PTL

\* A node never refuses a list for its length when the response length and threshold of
\* the node that sends it are within the length it accepts (src/src/p2p.js,
\* src/src/validation.js): if the sender has the details of all it names, all are
\* accepted that the receiver does not blacklist as the list writes them.
THEOREM OwnListsAccepted ==
  ASSUME IsFiniteSet(Addresses), Length >= 1, Length <= MaxLength, Threshold <= MaxLength,
         NEW n \in Nodes, NEW m \in Nodes,
         NEW size \in AnswerSizes(Cardinality(Known(m)), Length, Threshold),
         NEW peers \in Samples(Known(m), size),
         \A a \in peers : book[m][a].status = "detailed"
  PROVE  Accepted(n, m, Written(m, peers)) = {a \in peers : ~Barred(n, a, Written(m, peers)[a])}
<1> DEFINE k == Cardinality(Known(m))
           c == Cardinality(peers)
<1>1. IsFiniteSet(Known(m)) /\ k \in Nat
  <2>1. Known(m) \subseteq Addresses
    BY DEF Known
  <2> QED
    BY <2>1, FS_Subset, FS_CardinalityType
<1>2. Length \in Nat /\ Threshold \in Nat /\ MaxLength \in Nat
  BY DiscoveryAssumption DEF DiscoveryAssumption
<1>3. size \in Nat /\ (size <= Length \/ size <= Threshold)
  BY <1>1, <1>2, AnswerSize
<1>4. c = Lesser(size, k)
  BY <1>1, <1>3, SampleSize
<1> HIDE DEF k, c
<1>5. c \in Nat /\ c <= size
  BY <1>1, <1>3, <1>4, LesserGreater
<1>6. c <= MaxLength
  BY <1>2, <1>3, <1>5
<1> QED
  BY <1>6 DEF Accepted, Written, c
=============================================================================
