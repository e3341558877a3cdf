------------------------- MODULE SnowballRoundProofs -------------------------
(***************************************************************************)
(* Theorems about the rounds of SnowballEngine: what confidence_counter,   *)
(* last_color and decision_array say about the results of the rounds, when *)
(* a block is decided, and when drawing peers can go on for ever.          *)
(***************************************************************************)
EXTENDS SnowballDecisionProofs

\* The types of the fields a round is counted in.
LEMMA TallyType ==
    ASSUME IInv
    PROVE  /\ state.confidence_counter \in Nat
           /\ state.decision_array \in [Color -> Nat]
           /\ state.last_color \in SnowballDecisionState
           /\ state.seq_num \in SeqNum
           /\ state.decision_map \in [SeqNum -> SnowballDecisionState \cup {"None"}]
           /\ rounds \in Seq(Color \cup {NoMajority})
           /\ Len(rounds) \in Nat
           /\ DOMAIN rounds = 1..Len(rounds)
BY DEF IInv, TypeOK, State

----------------------------------------------------------------------------
\* The beta-th majority in a row decides the block, and no other does: the test is
\* >= beta in the code, and confidence_counter never steps over beta.
THEOREM DecisionAtBeta == Spec => []DecidesAtBeta
<1>1. Init => DecidesAtBeta
  BY DEF Init, NewState, DecidesAtBeta
<1>2. IInv /\ DecidesAtBeta /\ [Next]_vars => DecidesAtBeta'
  <2> SUFFICES ASSUME IInv, DecidesAtBeta, [Next]_vars
               PROVE  DecidesAtBeta'
    OBVIOUS
  <2>1. beta \in Nat /\ beta >= 1 /\ state.confidence_counter \in Nat
    BY ThresholdAssumption, TallyType
  <2>2. CASE Keeps
    BY <2>2 DEF Keeps, SameTally, DecidesAtBeta, current_color
  <2>3. CASE Opens
    BY <2>1, <2>3 DEF Opens, DecidesAtBeta
  <2>4. ASSUME NEW c \in State, EndsRound(c)
        PROVE  DecidesAtBeta'
    <3> DEFINE v == RoundResult(c)
    <3>1. /\ c.confidence_counter = state.confidence_counter
          /\ state.confidence_counter < beta
      BY <2>4 DEF EndsRound, SameTally, DecidesAtBeta
    <3>2. v \in Color \/ v = NoMajority
      BY RoundResultType
    <3>3. /\ v \in Color => state'.confidence_counter = majority_confidence(c, v)
          /\ v = NoMajority => state'.confidence_counter = 0
          /\ round_decides(c) <=> v \in Color /\ state'.confidence_counter >= beta
      BY <2>4, CountTally DEF EndsRound
    <3> HIDE DEF v
    <3>4. majority_confidence(c, v) \in Nat /\ majority_confidence(c, v) <= beta
      BY <2>1, <3>1 DEF majority_confidence
    <3>5. CASE ~ round_decides(c)
      <4>1. state'.phase = "Listening"
        BY <2>4, <3>5 DEF EndsRound
      <4>2. state'.confidence_counter < beta
        BY <2>1, <3>2, <3>3, <3>4, <3>5
      <4> QED
        BY <4>1, <4>2 DEF DecidesAtBeta
    <3>6. CASE round_decides(c)
      <4> DEFINE entry == [block |-> state.decision_block, color |-> current_color(state')]
      <4>1. /\ state'.phase = "Idle" /\ decided' = Append(decided, entry)
            /\ entry.block = state'.decision_block /\ entry.color = current_color(state')
        BY <2>4, <3>6 DEF EndsRound, Decides
      <4>2. state'.confidence_counter = beta
        BY <2>1, <3>3, <3>4, <3>6
      <4> HIDE DEF entry
      <4>3. decided'[Len(decided')] = entry
        BY <4>1 DEF IInv, TypeOK
      <4> QED
        BY <4>1, <4>2, <4>3 DEF DecidesAtBeta
    <3> QED
      BY <3>5, <3>6
  <2> QED
    BY <2>2, <2>3, <2>4, StepKinds
<1> QED
  BY <1>1, <1>2, Invariance, PTL DEF Spec

----------------------------------------------------------------------------
\* c is the length of the run of equal majorities at the end of r.
Streak(r, c) ==
    /\ c <= Len(r)
    /\ c > 0 => r[Len(r)] # NoMajority
    /\ \A i \in (Len(r) - c + 1)..Len(r) : r[i] = r[Len(r)]
    /\ 0 < c /\ c < Len(r) => r[Len(r) - c] # r[Len(r)]
    /\ c = 0 /\ Len(r) > 0 => r[Len(r)] = NoMajority

\* ConfidenceIsStreak is inductive together with what last_color says: while the
\* counter is not 0, it is the colour of the last round.
StreakInv ==
    /\ ConfidenceIsStreak
    /\ state.confidence_counter > 0 =>
          state.last_color = usize_to_decision_state(rounds[Len(rounds)])

\* A run of equal results is prolonged, broken off or begun by one more result.
LEMMA StreakAppend ==
    ASSUME NEW r \in Seq(Color \cup {NoMajority}), NEW c \in Nat, NEW last,
           NEW v \in Color \cup {NoMajority}, NEW d,
           Streak(r, c),
           c > 0 => last = usize_to_decision_state(r[Len(r)]),
           v = NoMajority => d = 0,
           v \in Color => d = IF usize_to_decision_state(v) # last THEN 1 ELSE c + 1
    PROVE  d \in Nat /\ Streak(Append(r, v), d)
<1> DEFINE s == Append(r, v)
           n == Len(r)
<1>1. /\ n \in Nat /\ Len(s) = n + 1 /\ s[n + 1] = v
      /\ \A i \in 1..n : s[i] = r[i]
  OBVIOUS
<1>2. NoMajority \notin Color
  BY DEF NoMajority, Color
<1>3. \A x, y \in Color : usize_to_decision_state(x) = usize_to_decision_state(y) => x = y
  BY DEF usize_to_decision_state, Color
<1>4. \A i \in 1..n : r[i] \in Color \cup {NoMajority}
  BY ElementOfSeq
<1> HIDE DEF s, n
<1>5. /\ c <= n
      /\ c > 0 => r[n] # NoMajority
      /\ \A i \in (n - c + 1)..n : r[i] = r[n]
      /\ 0 < c /\ c < n => r[n - c] # r[n]
      /\ c = 0 /\ n > 0 => r[n] = NoMajority
      /\ c > 0 => last = usize_to_decision_state(r[n])
  BY DEF Streak, n
<1>6. CASE v = NoMajority
  <2>1. d = 0
    BY <1>6
  <2> QED
    BY <1>1, <1>6, <2>1 DEF Streak, s
<1>7. CASE v \in Color /\ usize_to_decision_state(v) # last
  <2>1. d = 1
    BY <1>7
  <2>2. n > 0 => r[n] # v
    <3>1. CASE c = 0
      BY <1>2, <1>5, <1>7, <3>1
    <3>2. CASE c > 0
      BY <1>5, <1>7, <3>2
    <3> QED
      BY <3>1, <3>2
  <2>3. v # NoMajority
    BY <1>2, <1>7
  <2> QED
    BY <1>1, <2>1, <2>2, <2>3 DEF Streak, s
<1>8. CASE v \in Color /\ usize_to_decision_state(v) = last
  <2>1. d = c + 1 /\ v # NoMajority
    BY <1>2, <1>8
  <2>2. CASE c = 0
    <3>1. n > 0 => r[n] # v
      BY <1>2, <1>5, <1>8, <2>2
    <3> QED
      BY <1>1, <2>1, <2>2, <3>1 DEF Streak, s
  <2>3. CASE c > 0
    <3>1. n \in 1..n /\ r[n] = v
      <4>1. n \in 1..n /\ r[n] # NoMajority /\ last = usize_to_decision_state(r[n])
        BY <1>1, <1>5, <2>3
      <4>2. r[n] \in Color
        BY <1>4, <4>1
      <4> QED
        BY <1>3, <1>8, <4>1, <4>2
    <3>2. ASSUME NEW i \in ((n + 1) - d + 1)..(n + 1) PROVE s[i] = v
      <4>1. CASE i = n + 1
        BY <1>1, <4>1
      <4>2. CASE i # n + 1
        <5>1. i \in (n - c + 1)..n /\ i \in 1..n
          BY <1>1, <1>5, <2>1, <4>2
        <5> QED
          BY <1>1, <1>5, <3>1, <5>1
      <4> QED
        BY <4>1, <4>2
    <3>3. ASSUME d < n + 1 PROVE s[(n + 1) - d] # v
      <4>1. (n + 1) - d = n - c /\ n - c \in 1..n /\ c < n
        BY <1>1, <2>1, <2>3, <3>3
      <4> QED
        BY <1>1, <1>5, <2>3, <3>1, <4>1
    <3>4. d \in Nat /\ d <= n + 1 /\ d > 0
      BY <1>1, <1>5, <2>1
    <3> QED
      BY <1>1, <2>1, <3>2, <3>3, <3>4 DEF Streak, s
  <2> QED
    BY <2>2, <2>3
<1> QED
  BY <1>6, <1>7, <1>8

\* confidence_counter is the length of the last run of equal majorities, and 0 after a
\* round without one, although last_color outlives such a round.
THEOREM ConfidenceCountsStreak == Spec => []ConfidenceIsStreak
<1>1. Init => StreakInv
  BY DEF Init, NewState, StreakInv, ConfidenceIsStreak
<1>2. IInv /\ StreakInv /\ [Next]_vars => StreakInv'
  <2> SUFFICES ASSUME IInv, StreakInv, [Next]_vars
               PROVE  StreakInv'
    OBVIOUS
  <2>1. CASE Keeps
    BY <2>1 DEF Keeps, SameTally, StreakInv, ConfidenceIsStreak
  <2>2. CASE Opens
    BY <2>2 DEF Opens, StreakInv, ConfidenceIsStreak
  <2>3. ASSUME NEW c \in State, EndsRound(c)
        PROVE  StreakInv'
    <3> DEFINE v == RoundResult(c)
               d == state'.confidence_counter
               e == state.confidence_counter
               last == state.last_color
               r == rounds
    <3>1. v \in Color \cup {NoMajority}
      BY RoundResultType
    <3>2. c.confidence_counter = e /\ c.last_color = last
      BY <2>3 DEF EndsRound, SameTally
    <3>3. /\ v \in Color => d = IF usize_to_decision_state(v) # last THEN 1 ELSE e + 1
          /\ v \in Color => state'.last_color = usize_to_decision_state(v)
          /\ v = NoMajority => d = 0
      BY <2>3, <3>2, CountTally DEF EndsRound, majority_confidence
    <3>4. /\ r \in Seq(Color \cup {NoMajority}) /\ e \in Nat
          /\ Streak(r, e)
          /\ e > 0 => last = usize_to_decision_state(r[Len(r)])
      BY TallyType DEF StreakInv, ConfidenceIsStreak, Streak
    <3>5. rounds' = Append(r, v)
      BY <2>3 DEF EndsRound
    <3> HIDE DEF v, d, e, last, r
    <3>6. d \in Nat /\ Streak(Append(r, v), d)
      BY <3>1, <3>3, <3>4, StreakAppend
    <3>7. d > 0 => state'.last_color = usize_to_decision_state(rounds'[Len(rounds')])
      <4>1. rounds'[Len(rounds')] = v
        BY <3>1, <3>4, <3>5
      <4> QED
        BY <3>1, <3>3, <4>1
    <3> QED
      BY <3>5, <3>6, <3>7 DEF StreakInv, ConfidenceIsStreak, Streak, d
  <2> QED
    BY <2>1, <2>2, <2>3, StepKinds
<1>3. StreakInv => ConfidenceIsStreak
  BY DEF StreakInv
<1> QED
  BY <1>1, <1>2, <1>3, Invariance, PTL DEF Spec

----------------------------------------------------------------------------
\* The places of the rounds r with the result i.
Places(r, i) == {j \in DOMAIN r : r[j] = i}

\* One more round is one more place with its result.
LEMMA CountAppend ==
    ASSUME NEW S, NEW r \in Seq(S), NEW v \in S, NEW i
    PROVE  /\ Cardinality(Places(r, i)) \in Nat
           /\ Cardinality(Places(Append(r, v), i)) =
                  IF v = i THEN Cardinality(Places(r, i)) + 1 ELSE Cardinality(Places(r, i))
<1> DEFINE n == Len(r)
           P == {j \in DOMAIN r : r[j] = i}
           Q == {j \in DOMAIN Append(r, v) : Append(r, v)[j] = i}
<1>1. /\ n \in Nat /\ DOMAIN r = 1..n /\ DOMAIN Append(r, v) = 1..(n + 1)
      /\ Append(r, v)[n + 1] = v /\ \A j \in 1..n : Append(r, v)[j] = r[j]
  OBVIOUS
<1>2. IsFiniteSet(P)
  <2>1. IsFiniteSet(1..n)
    BY <1>1, FS_Interval
  <2>2. P \in SUBSET (1..n)
    BY <1>1
  <2> HIDE DEF P
  <2> QED
    BY <2>1, <2>2, FS_Subset
<1>3. n + 1 \notin P
  BY <1>1
<1>4. Q = IF v = i THEN P \cup {n + 1} ELSE P
  BY <1>1
<1> HIDE DEF P, Q
<1>5. Cardinality(P) \in Nat /\ Cardinality(P \cup {n + 1}) = Cardinality(P) + 1
  BY <1>2, <1>3, FS_AddElement, FS_CardinalityType
<1>6. Cardinality(Q) = IF v = i THEN Cardinality(P) + 1 ELSE Cardinality(P)
  BY <1>4, <1>5
<1> QED
  BY <1>5, <1>6 DEF P, Q, Places

\* The colour after a majority is not behind, if it was not behind before.
LEMMA PluralityKept ==
    ASSUME NEW s \in State, NEW v \in Color,
           LET c == decision_state_to_u8(current_color(s))
           IN  s.decision_array[c] >= s.decision_array[1 - c]
    PROVE  LET a == majority_array(s, v)
               c == decision_state_to_u8(majority_color(s, v))
           IN  a[c] >= a[1 - c]
<1> DEFINE a == majority_array(s, v)
           old == s.decision_array
           c == decision_state_to_u8(current_color(s))
           d == decision_state_to_u8(majority_color(s, v))
<1>1. old \in [Color -> Nat] /\ old[0] \in Nat /\ old[1] \in Nat
  BY DEF State, Color
<1>2. \A i \in Color : a[i] = IF i = v THEN old[i] + 1 ELSE old[i]
  BY <1>1 DEF majority_array
<1>3. (v = 0 \/ v = 1) /\ (c = 0 \/ c = 1)
  BY DEF Color, decision_state_to_u8
<1>4. d = IF a[v] > a[c] THEN v ELSE c
  BY <1>3 DEF majority_color, usize_to_decision_state, decision_state_to_u8
<1>5. old[c] >= old[1 - c]
  OBVIOUS
<1> HIDE DEF a, c, d, old
<1>6. /\ a[0] = (IF v = 0 THEN old[0] + 1 ELSE old[0])
      /\ a[1] = (IF v = 1 THEN old[1] + 1 ELSE old[1])
  BY <1>2, <1>3 DEF Color
<1>7. a[d] >= a[1 - d]
  BY <1>1, <1>3, <1>4, <1>5, <1>6
<1> QED
  BY <1>7 DEF a, d

\* The colour that gets decided is never behind: decision_array counts all the
\* majorities of the block, and decision_map follows the larger count.
THEOREM ColorFollowsPlurality == Spec => []ColorIsPlurality
<1>1. Init => ColorIsPlurality
  BY DEF Init, NewState, ColorIsPlurality
<1>2. IInv /\ ColorIsPlurality /\ [Next]_vars => ColorIsPlurality'
  <2> SUFFICES ASSUME IInv, ColorIsPlurality, [Next]_vars
               PROVE  ColorIsPlurality'
    OBVIOUS
  <2>1. CASE Keeps
    BY <2>1 DEF Keeps, SameTally, ColorIsPlurality, current_color
  <2>2. CASE Opens
    <3>1. \A i \in Color : {j \in DOMAIN rounds' : rounds'[j] = i} = {}
      BY <2>2 DEF Opens
    <3>2. \A i \in Color : state'.decision_array[i] = 0
      BY <2>2 DEF Opens, Zeros
    <3>3. \A d : decision_state_to_u8(d) \in Color /\ 1 - decision_state_to_u8(d) \in Color
      BY DEF decision_state_to_u8, Color
    <3> QED
      BY <3>1, <3>2, <3>3, FS_EmptySet DEF ColorIsPlurality
  <2>3. ASSUME NEW c \in State, EndsRound(c)
        PROVE  ColorIsPlurality'
    <3> DEFINE v == RoundResult(c)
    <3>1. v \in Color \cup {NoMajority} /\ NoMajority \notin Color
      BY RoundResultType DEF NoMajority, Color
    <3>2. /\ c.decision_array = state.decision_array /\ c.seq_num = state.seq_num
          /\ c.decision_map = state.decision_map /\ current_color(c) = current_color(state)
      BY <2>3 DEF EndsRound, SameTally, current_color
    <3>3. /\ v \in Color =>
                /\ state'.decision_array = majority_array(c, v)
                /\ state'.decision_map =
                       [c.decision_map EXCEPT ![c.seq_num] = majority_color(c, v)]
          /\ v = NoMajority =>
                /\ state'.decision_array = c.decision_array
                /\ state'.decision_map = c.decision_map
          /\ state'.seq_num = c.seq_num
          /\ rounds' = Append(rounds, v)
      BY <2>3, <3>2, CountTally DEF EndsRound
    <3>4. state.decision_block # NoBlock
      <4>1. /\ state.block_queue # <<>> /\ Head(state.block_queue) = state.decision_block
            /\ state.block_queue \in Seq(Block)
        BY <2>3 DEF EndsRound, IInv, NodeInv, Deciding, State
      <4>2. state.decision_block \in Block
        BY <4>1
      <4> QED
        BY <4>2, IdAssumption
    <3>5. /\ \A i \in Color : state.decision_array[i] = Cardinality(Places(rounds, i))
          /\ LET u == decision_state_to_u8(current_color(state))
             IN  state.decision_array[u] >= state.decision_array[1 - u]
      BY <3>4 DEF ColorIsPlurality, Places
    <3> HIDE DEF v
    <3>6. \A i \in Color :
              /\ Cardinality(Places(rounds, i)) \in Nat
              /\ Cardinality(Places(rounds', i)) =
                    IF v = i THEN Cardinality(Places(rounds, i)) + 1
                    ELSE Cardinality(Places(rounds, i))
      <4> SUFFICES ASSUME NEW i \in Color
                   PROVE  /\ Cardinality(Places(rounds, i)) \in Nat
                          /\ Cardinality(Places(Append(rounds, v), i)) =
                                IF v = i THEN Cardinality(Places(rounds, i)) + 1
                                ELSE Cardinality(Places(rounds, i))
        BY <3>3
      <4> DEFINE S == Color \cup {NoMajority}
      <4>1. rounds \in Seq(S) /\ v \in S
        BY <3>1, TallyType
      <4> HIDE DEF S
      <4> QED
        BY <4>1, CountAppend
    <3>7. \A i \in Color : state'.decision_array[i] = Cardinality(Places(rounds', i))
      <4>1. CASE v \in Color
        <5>1. \A i \in Color : state'.decision_array[i] =
                  IF v = i THEN state.decision_array[i] + 1 ELSE state.decision_array[i]
          BY <3>2, <3>3, <4>1, TallyType DEF majority_array
        <5> QED
          BY <3>5, <3>6, <5>1
      <4>2. CASE v = NoMajority
        BY <3>1, <3>2, <3>3, <3>5, <3>6, <4>2
      <4> QED
        BY <3>1, <4>1, <4>2
    <3>8. LET u == decision_state_to_u8(current_color(state'))
          IN  state'.decision_array[u] >= state'.decision_array[1 - u]
      <4>1. CASE v \in Color
        <5>1. current_color(state') = majority_color(c, v)
          BY <3>2, <3>3, <4>1, TallyType DEF current_color
        <5>2. LET u == decision_state_to_u8(current_color(c))
              IN  c.decision_array[u] >= c.decision_array[1 - u]
          BY <3>2, <3>5
        <5> QED
          BY <3>3, <4>1, <5>1, <5>2, PluralityKept
      <4>2. CASE v = NoMajority
        BY <3>2, <3>3, <3>5, <4>2 DEF current_color
      <4> QED
        BY <3>1, <4>1, <4>2
    <3> QED
      BY <3>7, <3>8 DEF ColorIsPlurality, Places
  <2> QED
    BY <2>1, <2>2, <2>3, StepKinds
<1> QED
  BY <1>1, <1>2, Invariance, PTL DEF Spec

----------------------------------------------------------------------------
\* Draws that cannot end

\* A finite set has subsets of every size up to its own.
LEMMA SubsetOfSize ==
    ASSUME NEW S, IsFiniteSet(S), NEW n \in Nat, n <= Cardinality(S)
    PROVE  kSubset(n, S) # {}
<1>1. Cardinality(S) \in Nat /\ ExistsBijection(1..Cardinality(S), S)
  BY FS_CardinalityType
<1>2. PICK f : f \in Bijection(1..Cardinality(S), S)
  BY <1>1 DEF ExistsBijection
<1> DEFINE T == {f[i] : i \in 1..n}
           g == [i \in 1..n |-> f[i]]
<1>3. 1..n \subseteq 1..Cardinality(S)
  BY <1>1
<1>4. /\ \A i \in 1..Cardinality(S) : f[i] \in S
      /\ \A i, j \in 1..Cardinality(S) : f[i] = f[j] => i = j
  BY <1>2 DEF Bijection, Injection, IsInjective
<1>5. T \subseteq S
  BY <1>3, <1>4
<1>6. g \in Injection(1..n, T)
  BY <1>3, <1>4 DEF Injection, IsInjective
<1>7. g \in Surjection(1..n, T)
  BY <1>6 DEF Surjection, Injection
<1>8. ExistsBijection(1..n, T)
  BY <1>6, <1>7 DEF ExistsBijection, Bijection
<1>9. IsFiniteSet(1..n) /\ Cardinality(1..n) = n
  BY FS_Interval
<1> HIDE DEF T
<1>10. Cardinality(T) = n
  BY <1>8, <1>9, FS_Bijection
<1> QED
  BY <1>5, <1>10 DEF kSubset

\* A sequence of N places has N - 1 besides any one of them.
LEMMA OtherPlaces ==
    ASSUME NEW N \in Nat, NEW x \in 1..N
    PROVE  IsFiniteSet((1..N) \ {x}) /\ Cardinality((1..N) \ {x}) = N - 1
<1>1. IsFiniteSet(1..N) /\ Cardinality(1..N) = N
  BY FS_Interval
<1> DEFINE S == 1..N
<1>2. x \in S
  OBVIOUS
<1> HIDE DEF S
<1>3. IsFiniteSet(S \ {x}) /\ Cardinality(S \ {x}) = Cardinality(S) - 1
  <2>1. IsFiniteSet(S)
    BY <1>1 DEF S
  <2> QED
    BY <1>2, <2>1, FS_RemoveElement
<1> QED
  BY <1>1, <1>3 DEF S

LEMMA OutsideSubset ==
    ASSUME NEW S, IsFiniteSet(S), NEW T \in SUBSET S
    PROVE  IsFiniteSet(S \ T) /\ Cardinality(S \ T) = Cardinality(S) - Cardinality(T)
<1>1. S \cap T = T
  OBVIOUS
<1> QED
  BY <1>1, FS_Difference

\* Of the k questions of a round, those awaited and those lost are a part.
LEMMA PartOfRound ==
    ASSUME NEW w \in Nat, NEW x \in Nat, NEW y \in Nat, NEW lost \in Nat, w + x + y + lost = k
    PROVE  w + lost <= k /\ w <= k
BY ThresholdAssumption

\* A replacement loop ends when there are n members who are neither this node nor
\* awaited; peers that are awaited and no longer members do not get in its way.
LEMMA ReplacementsExist ==
    ASSUME NEW s \in State, Ordered(s), NEW n \in Nat,
           Cardinality(s.waiting_response_map) + n < Len(s.member_ids)
    PROVE  extra_node_sets(s, n) # {}
<1> DEFINE m == s.member_ids
           W == s.waiting_response_map
           D == DOMAIN m \ {s.order + 1}
           A == {i \in D : m[i] \in W}
           C == D \ A
<1>1. m \in Seq(Peer) /\ s.order \in Nat /\ Len(m) \in Nat /\ DOMAIN m = 1..Len(m)
  BY DEF State
<1>2. /\ s.order + 1 \in 1..Len(m)
      /\ \A i, j \in DOMAIN m : m[i] = m[j] => i = j
  BY <1>1 DEF Ordered
<1>3. IsFiniteSet(W) /\ Cardinality(W) \in Nat
  BY WaitingFinite, FS_CardinalityType
<1> HIDE DEF m, W
<1>4. IsFiniteSet(D) /\ Cardinality(D) = Len(m) - 1
  BY <1>1, <1>2, OtherPlaces
<1>5. IsFiniteSet(A) /\ Cardinality(A) <= Cardinality(W) /\ Cardinality(A) \in Nat
  <2> DEFINE f == [i \in A |-> m[i]]
  <2>1. f \in Injection(A, W)
    BY <1>2 DEF Injection, IsInjective
  <2> HIDE DEF A, f
  <2> QED
    BY <1>3, <2>1, FS_Injection, FS_CardinalityType
<1>6. IsFiniteSet(C) /\ Cardinality(C) = Cardinality(D) - Cardinality(A)
  <2>1. A \in SUBSET D
    OBVIOUS
  <2> HIDE DEF D, A
  <2> QED
    BY <1>4, <2>1, OutsideSubset
<1>7. Cardinality(W) + n < Len(m)
  BY DEF W, m
<1>8. n <= Cardinality(C)
  BY <1>1, <1>3, <1>4, <1>5, <1>6, <1>7
<1>9. C \subseteq D /\ \A i \in C : m[i] \notin W
  OBVIOUS
<1> HIDE DEF A, C
<1>10. PICK I : I \in kSubset(n, C)
  BY <1>6, <1>8, SubsetOfSize
<1>11. I \in kSubset(n, D) /\ I \subseteq C
  BY <1>9, <1>10 DEF kSubset
<1> DEFINE E == {m[i] : i \in I}
<1>12. E \in select_node_sample(s, n)
  BY <1>11 DEF select_node_sample, m
<1>13. E \cap W = {}
  BY <1>9, <1>11
<1> QED
  BY <1>12, <1>13 DEF extra_node_sets, W

\* With k members besides this node, a round can be started.
LEMMA SamplesExist ==
    ASSUME NEW s \in State, Ordered(s), s.waiting_response_map = {}, k < Len(s.member_ids)
    PROVE  select_node_sample(s, k) # {}
<1>1. k \in Nat /\ Len(s.member_ids) \in Nat
  BY ThresholdAssumption DEF State
<1>2. Cardinality(s.waiting_response_map) + k < Len(s.member_ids)
  BY <1>1, FS_EmptySet
<1>3. extra_node_sets(s, k) # {}
  BY <1>1, <1>2, ReplacementsExist
<1> QED
  BY <1>3 DEF extra_node_sets

\* handle_block_new draws k peers.
LEMMA OpeningSpins ==
    ASSUME IInv, FrontIsNew, handle_block_new(state, Head(state.block_queue)) = {}
    PROVE  Len(state.member_ids) <= k
<1>1. state \in State /\ Ordered(state) /\ Accounted(state, dropped) /\ Deciding(state)
  BY DEF IInv, NodeInv
<1>2. state.phase # "Listening"
  BY <1>1 DEF Deciding, FrontIsNew
<1>3. state.waiting_response_map = {}
  BY <1>1, <1>2 DEF Accounted
<1>4. select_node_sample(state, k) = {}
  BY DEF handle_block_new
<1>5. ~ (k < Len(state.member_ids))
  BY <1>1, <1>3, <1>4, SamplesExist
<1>6. k \in Nat /\ Len(state.member_ids) \in Nat
  BY <1>1, ThresholdAssumption DEF State
<1> QED
  BY <1>5, <1>6

\* A response makes the node draw when it completes a round that does not decide.
LEMMA ResponseSpins ==
    ASSUME IInv, NEW p \in Peer, NEW vote \in Votes, on_response(state, p, vote) = {}
    PROVE  Len(state.member_ids) <= k
<1> DEFINE c == counted(state, p, vote)
           r == count_round(c)
<1>1. NodeInv(state, dropped) /\ state \in State
  BY DEF IInv, NodeInv
<1>2. awaited(state, p) /\ vote \in Color /\ round_complete(c) /\ on_values_ready(c) = {}
  BY DEF on_response
<1>3. c \in State /\ Ordered(c) /\ Deciding(c) /\ c.phase = "Listening"
  BY <1>1, <1>2, CountedEffect
<1>4. c.waiting_response_map = {} /\ c.member_ids = state.member_ids
  BY <1>1, <1>2, CompleteEffect DEF counted, State
<1> HIDE DEF c
<1>5. current_color(c) \in {"OK", "KO"}
  BY <1>3 DEF Deciding
<1>6. /\ r \in State /\ r.id = c.id /\ r.waiting_response_map = {}
      /\ r.member_ids = c.member_ids /\ r.order = c.order
  BY <1>3, <1>4, <1>5, CountRoundEffect
<1>7. select_node_sample(r, k) = {}
  BY <1>2 DEF on_values_ready
<1> HIDE DEF r
<1>8. Ordered(r)
  BY <1>3, <1>6 DEF Ordered
<1>9. ~ (k < Len(r.member_ids))
  BY <1>6, <1>7, <1>8, SamplesExist
<1>10. k \in Nat /\ Len(state.member_ids) \in Nat
  BY <1>1, ThresholdAssumption DEF State
<1> QED
  BY <1>4, <1>6, <1>9, <1>10

\* One peer more is drawn for an "unavailable".
LEMMA UnavailableSpins ==
    ASSUME IInv, NEW p \in Peer, on_unavailable(state, p) = {}
    PROVE  Len(state.member_ids) <= k
<1> DEFINE a == answered_by(state, p)
<1>1. NodeInv(state, dropped) /\ state \in State /\ dropped \in Nat
  BY DEF IInv, NodeInv
<1>2. awaited(state, p) /\ extra_node_sets(a, 1) = {}
  BY DEF on_unavailable
<1>3. NodeInv(a, dropped + 1) /\ a.phase = "Listening"
  BY <1>1, <1>2, AnsweredEffect
<1>4. a.member_ids = state.member_ids
  BY <1>1 DEF answered_by, State
<1> HIDE DEF a
<1>5. a \in State /\ Ordered(a) /\ Accounted(a, dropped + 1)
  BY <1>3 DEF NodeInv
<1>6. /\ Cardinality(a.waiting_response_map) \in Nat /\ k \in Nat
      /\ a.response_buffer[0] \in Nat /\ a.response_buffer[1] \in Nat
      /\ Len(a.member_ids) \in Nat
  BY <1>5, WaitingFinite, FS_CardinalityType, ThresholdAssumption DEF State, Color
<1>7. Cardinality(a.waiting_response_map) + 1 <= k
  <2>1. Cardinality(a.waiting_response_map) + a.response_buffer[0]
            + a.response_buffer[1] + (dropped + 1) = k
    BY <1>3, <1>5 DEF Accounted
  <2>2. Cardinality(a.waiting_response_map) + (dropped + 1) <= k
    BY <1>1, <1>6, <2>1, PartOfRound
  <2> QED
    BY <1>1, <1>6, <2>2
<1>8. ~ (Cardinality(a.waiting_response_map) + 1 < Len(a.member_ids))
  BY <1>2, <1>5, ReplacementsExist
<1> QED
  BY <1>4, <1>6, <1>7, <1>8

\* As many peers are drawn as have expired.
LEMMA UnresponsiveSpins ==
    ASSUME IInv, NEW expired \in SUBSET state.waiting_response_map,
           handle_unresponsive_peers(state, expired) = {}
    PROVE  Len(state.member_ids) <= k
<1> DEFINE W == state.waiting_response_map
           n == Cardinality(expired)
           a == [state EXCEPT !.waiting_response_map = @ \ expired]
<1>1. /\ state \in State /\ Ordered(state) /\ Accounted(state, dropped) /\ dropped \in Nat
  BY DEF IInv, NodeInv
<1>2. extra_node_sets(a, n) = {}
  BY DEF handle_unresponsive_peers
<1>3. /\ a \in State /\ a.waiting_response_map = W \ expired
      /\ a.member_ids = state.member_ids /\ a.order = state.order /\ a.id = state.id
  BY <1>1 DEF State
<1> HIDE DEF a
<1>4. Ordered(a)
  BY <1>1, <1>3 DEF Ordered
<1>5. /\ IsFiniteSet(W) /\ Cardinality(W) \in Nat /\ n \in Nat
      /\ Cardinality(W \ expired) = Cardinality(W) - n
  <2>1. IsFiniteSet(W) /\ IsFiniteSet(expired)
    BY <1>1, WaitingFinite, FS_Subset
  <2>2. W \cap expired = expired
    OBVIOUS
  <2> QED
    BY <2>1, <2>2, FS_Difference, FS_CardinalityType
<1> HIDE DEF n
<1>6. /\ k \in Nat /\ state.response_buffer[0] \in Nat /\ state.response_buffer[1] \in Nat
      /\ Len(state.member_ids) \in Nat /\ state.order \in Nat
  BY <1>1, ThresholdAssumption DEF State, Color
<1>7. Cardinality(W) <= k
  <2>1. CASE state.phase = "Listening"
    <3>1. Cardinality(W) + state.response_buffer[0] + state.response_buffer[1] + dropped = k
      BY <1>1, <2>1 DEF Accounted
    <3> QED
      BY <1>1, <1>5, <1>6, <3>1, PartOfRound
  <2>2. CASE state.phase # "Listening"
    <3>1. W = {}
      BY <1>1, <2>2 DEF Accounted
    <3> QED
      BY <1>6, <3>1, FS_EmptySet
  <2> QED
    BY <2>1, <2>2
<1>8. ~ (Cardinality(a.waiting_response_map) + n < Len(a.member_ids))
  BY <1>2, <1>3, <1>4, <1>5, ReplacementsExist
<1> HIDE DEF W
<1> QED
  BY <1>3, <1>5, <1>6, <1>7, <1>8

\* The sampling loops end as long as there are k members besides this node, also when
\* peers that are awaited have left, and whatever was drawn before.
THEOREM DrawsEnd == Spec => []SpinsOnlyWhenTooFew
<1>1. Init => SpinsOnlyWhenTooFew
  BY DEF Init, SpinsOnlyWhenTooFew
<1>2. IInv /\ SpinsOnlyWhenTooFew /\ [Next]_vars => SpinsOnlyWhenTooFew'
  <2> SUFFICES ASSUME IInv, SpinsOnlyWhenTooFew, [Next]_vars, status' = "spinning"
               PROVE  Len(state'.member_ids) <= k
    BY DEF SpinsOnlyWhenTooFew
  <2>1. CASE UNCHANGED <<state, status>>
    BY <2>1 DEF SpinsOnlyWhenTooFew
  <2>2. ASSUME NEW from, NEW to, Loop(from, to) PROVE FALSE
    BY <2>2 DEF Loop
  <2>3. ASSUME NEW why, Halt(why), why # "spinning" PROVE FALSE
    BY <2>3 DEF Halt
  <2>4. CASE HandleQueue
    <3>1. ConsiderBlock /\ Halt("spinning")
      BY <2>2, <2>4 DEF HandleQueue, NothingToConsider, FailStaleBlock, ConsiderBlock
    <3>2. FrontIsNew /\ handle_block_new(state, Head(state.block_queue)) = {} /\ state' = state
      BY <2>2, <3>1 DEF ConsiderBlock, Halt
    <3> QED
      BY <3>2, OpeningSpins
  <2>5. CASE HandleUpdate
    <3>1. ASSUME NEW p \in Peer, NEW vote \in Votes, OnResponse(p, vote)
          PROVE  on_response(state, p, vote) = {} /\ state' = state
      BY <2>2, <2>3, <3>1 DEF OnResponse, Halt
    <3>2. ASSUME NEW p \in Peer, OnUnavailable(p)
          PROVE  on_unavailable(state, p) = {} /\ state' = state
      BY <2>2, <3>2 DEF OnUnavailable, Halt
    <3>3. ~ (\E b \in Block : OnBlockNew(b)) /\ ~ OnNotice /\ ~ (\E q \in SeqNum : OnRequest(q))
      BY <2>2 DEF OnBlockNew, OnNotice, OnRequest
    <3>4. \A p \in Mobile : ~ OnPeerConnected(p) /\ ~ OnPeerDisconnected(p)
      BY <2>2, <2>3 DEF OnPeerConnected, OnPeerDisconnected
    <3> QED
      BY <2>5, <3>1, <3>2, <3>3, <3>4, ResponseSpins, UnavailableSpins DEF HandleUpdate
  <2>6. CASE HandleTimers
    <3>1. ASSUME NEW expired \in SUBSET state.waiting_response_map,
                 HandleUnresponsivePeers(expired)
          PROVE  handle_unresponsive_peers(state, expired) = {} /\ state' = state
      BY <2>2, <3>1 DEF HandleUnresponsivePeers, Halt
    <3>2. ~ NoPublish /\ ~ TryPublish
      BY <2>2, <2>3 DEF NoPublish, TryPublish
    <3> QED
      BY <2>6, <3>1, <3>2, UnresponsiveSpins DEF HandleTimers
  <2>7. CASE Stop \/ ServiceError
    BY <2>3, <2>7 DEF Stop, ServiceError
  <2>8. CASE Validator
    BY <2>1, <2>8 DEF Validator, ValidatorChecks, ValidatorCommits
  <2>9. CASE UNCHANGED vars
    BY <2>1, <2>9 DEF vars
  <2> QED
    BY <2>4, <2>5, <2>6, <2>7, <2>8, <2>9 DEF Next
<1> QED
  BY <1>1, <1>2, Invariance, PTL DEF Spec
=============================================================================
