------------------------- MODULE SnowballNodeProofs -------------------------
(***************************************************************************)
(* What the handlers of SnowballNode do to a state that satisfies NodeInv, *)
(* the part of the engine's inductive invariant that speaks of one state   *)
(* record.  SnowballEngineProofs builds on these lemmas.                   *)
(***************************************************************************)
EXTENDS SnowballNode, FiniteSetTheorems, SequenceTheorems, TLAPS

\* order is the node's own index in a list without duplicates, and the node does
\* not wait for itself.
Ordered(s) ==
    /\ \A i, j \in DOMAIN s.member_ids : s.member_ids[i] = s.member_ids[j] => i = j
    /\ s.order < Len(s.member_ids)
    /\ s.member_ids[s.order + 1] = s.id
    /\ s.id \notin s.waiting_response_map

\* The k questions of a round are awaited, counted or lost.
Accounted(s, lost) ==
    /\ s.phase = "Listening" =>
          /\ Cardinality(s.waiting_response_map) + s.response_buffer[0]
                 + s.response_buffer[1] + lost = k
          /\ s.response_buffer[0] + s.response_buffer[1] < k
    /\ s.phase # "Listening" => s.waiting_response_map = {}

\* The block being decided is the front of the queue and has a colour.
Deciding(s) ==
    /\ s.phase # "Finishing"
    /\ s.phase = "Listening" =>
          /\ s.block_queue # <<>>
          /\ Head(s.block_queue) = s.decision_block
          /\ current_color(s) \in {"OK", "KO"}
          /\ s.decision_block \in s.convergenza

NodeInv(s, lost) ==
    /\ s \in State
    /\ lost \in Nat
    /\ Ordered(s)
    /\ Accounted(s, lost)
    /\ Deciding(s)

----------------------------------------------------------------------------
\* Sampling

\* A sample has the size asked for, and this node is not part of it.  The list of
\* members must have no duplicates: the code draws indexes and waits for peers.
LEMMA SampleProperties ==
    ASSUME NEW s \in State, Ordered(s), NEW n \in Nat, NEW E \in select_node_sample(s, n)
    PROVE  /\ E \subseteq Peer
           /\ IsFiniteSet(E)
           /\ Cardinality(E) = n
           /\ s.id \notin E
<1> DEFINE D == DOMAIN s.member_ids
<1>1. PICK I \in kSubset(n, D \ {s.order + 1}) : E = {s.member_ids[i] : i \in I}
  BY DEF select_node_sample
<1>2. s.member_ids \in Seq(Peer) /\ s.order \in Nat
  BY DEF State
<1>3. Len(s.member_ids) \in Nat /\ D = 1..Len(s.member_ids)
  BY <1>2
<1>4. I \subseteq D \ {s.order + 1} /\ Cardinality(I) = n
  BY <1>1 DEF kSubset
<1>5. IsFiniteSet(I)
  <2>1. IsFiniteSet(1..Len(s.member_ids))
    BY <1>3, FS_Interval
  <2>2. IsFiniteSet(D) /\ I \in SUBSET D
    BY <1>3, <1>4, <2>1
  <2> HIDE DEF D
  <2> QED
    BY <2>2, FS_Subset
<1>6. \A i \in D : s.member_ids[i] \in Peer
  BY <1>2, <1>3, ElementOfSeq
<1>7. \A i, j \in D : s.member_ids[i] = s.member_ids[j] => i = j
  BY DEF Ordered
<1>8. ExistsBijection(I, E)
  <2> DEFINE f == [i \in I |-> s.member_ids[i]]
  <2>1. f \in Injection(I, E)
    BY <1>1, <1>4, <1>7 DEF Injection, IsInjective
  <2>2. f \in Surjection(I, E)
    BY <1>1, <2>1 DEF Surjection, Injection
  <2> QED
    BY <2>1, <2>2 DEF ExistsBijection, Bijection
<1>9. s.id \notin E
  <2>1. s.order + 1 \in D /\ s.member_ids[s.order + 1] = s.id
    BY <1>2, <1>3 DEF Ordered
  <2> QED
    BY <1>1, <1>4, <1>7, <2>1
<1> QED
  BY <1>1, <1>4, <1>5, <1>6, <1>8, <1>9, FS_Bijection

\* The replacement peers are new: the waiting set grows by their number.
LEMMA ExtraProperties ==
    ASSUME NEW s \in State, Ordered(s), NEW n \in Nat, NEW E \in extra_node_sets(s, n),
           IsFiniteSet(s.waiting_response_map)
    PROVE  /\ E \subseteq Peer
           /\ s.id \notin E
           /\ Cardinality(s.waiting_response_map \cup E) =
                  Cardinality(s.waiting_response_map) + n
<1>1. E \in select_node_sample(s, n) /\ s.waiting_response_map \cap E = {}
  BY DEF extra_node_sets
<1>2. E \subseteq Peer /\ IsFiniteSet(E) /\ Cardinality(E) = n /\ s.id \notin E
  BY <1>1, SampleProperties
<1>3. Cardinality(s.waiting_response_map \cup E) =
          Cardinality(s.waiting_response_map) + n - Cardinality(s.waiting_response_map \cap E)
  BY <1>2, FS_Union
<1>4. Cardinality(s.waiting_response_map \cap E) = 0
  BY <1>1, FS_EmptySet
<1>5. Cardinality(s.waiting_response_map) \in Nat
  BY FS_CardinalityType
<1> QED
  BY <1>2, <1>3, <1>4, <1>5

----------------------------------------------------------------------------
\* The steps the handlers are made of keep the type of the state

\* handle_block_new leaves a well-typed state while sequence numbers last.
LEMMA OpenedType ==
    ASSUME NEW s \in State, NEW b \in Block, s.seq_num < MaxSeq
    PROVE  opened(s, b) \in State
<1>1. s.seq_num + 1 \in SeqNum
  BY SeqAssumption DEF State, SeqNum
<1>2. [s.decision_map EXCEPT ![s.seq_num + 1] = "OK"]
          \in [SeqNum -> SnowballDecisionState \cup {"None"}]
  BY <1>1 DEF State, SnowballDecisionState
<1>3. Zeros \in [Color -> Nat] /\ b \in BlockId /\ "OK" \in SnowballDecisionState
  BY DEF Zeros, Color, BlockId, SnowballDecisionState
<1> QED
  BY <1>1, <1>2, <1>3 DEF opened, State

\* Starting a round, prepare_and_forward_peer_requests, keeps the types.
LEMMA PrepareType ==
    ASSUME NEW s \in State, NEW sample \in SUBSET Peer
    PROVE  prepare_and_forward_peer_requests(s, sample) \in State
BY DEF prepare_and_forward_peer_requests, add_to_waiting_set, State, Zeros, Color

\* Counting a majority in on_values_ready keeps the types.
LEMMA CountMajorityType ==
    ASSUME NEW s \in State, NEW i \in Color, current_color(s) \in {"OK", "KO"}
    PROVE  count_majority(s, i) \in State
<1>1. majority_array(s, i) \in [Color -> Nat]
  BY DEF majority_array, State, Color
<1>2. usize_to_decision_state(i) \in {"OK", "KO"}
  BY DEF usize_to_decision_state
<1>3. majority_color(s, i) \in {"OK", "KO"}
  BY <1>2 DEF majority_color
<1>4. [s.decision_map EXCEPT ![s.seq_num] = majority_color(s, i)]
          \in [SeqNum -> SnowballDecisionState \cup {"None"}]
  BY <1>3 DEF State, SnowballDecisionState
<1>5. majority_confidence(s, i) \in Nat
  BY DEF State, majority_confidence
<1>6. usize_to_decision_state(i) \in SnowballDecisionState
  BY <1>2 DEF SnowballDecisionState
<1> QED
  BY <1>1, <1>4, <1>5, <1>6 DEF count_majority, State

\* handle_decision keeps the types.
LEMMA HandleDecisionType ==
    ASSUME NEW s \in State
    PROVE  handle_decision(s) \in State
<1>1. (IF s.block_queue = <<>> THEN s.block_queue ELSE Tail(s.block_queue)) \in Seq(Block)
  BY DEF State
<1>2. (IF current_color(s) = "OK" THEN s.decision_block ELSE s.chain_head) \in BlockId
  BY DEF State
<1>3. next_phase(s.phase) \in SnowballPhase
  BY DEF next_phase, SnowballPhase
<1> QED
  BY <1>1, <1>2, <1>3 DEF handle_decision, switch_phase, State

\* waiting_response_map is finite, so that its size can be counted.
LEMMA WaitingFinite ==
    ASSUME NEW s \in State
    PROVE  IsFiniteSet(s.waiting_response_map)
<1>1. s.waiting_response_map \in SUBSET Peer
  BY DEF State
<1> QED
  BY <1>1, PeerAssumption, FS_Subset

----------------------------------------------------------------------------
\* Handlers

\* Opening the front block starts a round with k questions.
LEMMA BlockNewEffect ==
    ASSUME NEW s, NEW lost, NodeInv(s, lost), s.phase = "Idle", s.seq_num < MaxSeq,
           NEW b \in Block, s.block_queue # <<>>, Head(s.block_queue) = b,
           b \in s.convergenza, NEW t \in handle_block_new(s, b)
    PROVE  /\ NodeInv(t, 0)
           /\ t.phase = "Listening"
           /\ t.id = s.id
           /\ t.seq_num = s.seq_num + 1
           /\ t.decision_block = b
           /\ t.block_queue = s.block_queue
           /\ t.convergenza = s.convergenza
           /\ \A q \in SeqNum \ {t.seq_num} : t.decision_map[q] = s.decision_map[q]
<1> DEFINE o == opened(s, b)
<1>1. PICK sample \in select_node_sample(s, k) :
          t = switch_phase(prepare_and_forward_peer_requests(o, sample))
  BY DEF handle_block_new
<1> DEFINE r == prepare_and_forward_peer_requests(o, sample)
<1>2. s \in State /\ Ordered(s) /\ s.waiting_response_map = {} /\ k \in Nat \ {0}
  BY ThresholdAssumption DEF NodeInv, Accounted
<1>3. sample \subseteq Peer /\ Cardinality(sample) = k /\ s.id \notin sample
  BY <1>2, SampleProperties
<1>4. o \in State
  BY <1>2, OpenedType
<1>5. r \in State
  BY <1>3, <1>4, PrepareType
<1>6. /\ r.phase = "Idle" /\ r.id = s.id /\ r.seq_num = s.seq_num + 1
      /\ r.decision_block = b /\ r.block_queue = s.block_queue
      /\ r.convergenza = s.convergenza
      /\ r.decision_map = [s.decision_map EXCEPT ![s.seq_num + 1] = "OK"]
      /\ r.waiting_response_map = sample /\ r.response_buffer = Zeros
      /\ r.member_ids = s.member_ids /\ r.order = s.order
  BY <1>2 DEF opened, prepare_and_forward_peer_requests, add_to_waiting_set, State
<1> HIDE DEF r
<1>7. /\ t \in State /\ t.phase = "Listening" /\ t.id = r.id /\ t.seq_num = r.seq_num
      /\ t.decision_block = r.decision_block /\ t.block_queue = r.block_queue
      /\ t.convergenza = r.convergenza /\ t.decision_map = r.decision_map
      /\ t.waiting_response_map = r.waiting_response_map
      /\ t.response_buffer = r.response_buffer
      /\ t.member_ids = r.member_ids /\ t.order = r.order
  BY <1>1, <1>5, <1>6 DEF switch_phase, next_phase, State, SnowballPhase, r
<1>8. Ordered(t)
  BY <1>2, <1>3, <1>6, <1>7 DEF Ordered
<1>9. Accounted(t, 0)
  BY <1>2, <1>3, <1>6, <1>7 DEF Accounted, Zeros, Color
<1>10. t.decision_map[t.seq_num] = "OK"
  BY <1>2, <1>6, <1>7, SeqAssumption DEF State, SeqNum
<1>11. Deciding(t)
  BY <1>6, <1>7, <1>10 DEF Deciding, current_color
<1>12. \A q \in SeqNum \ {t.seq_num} : t.decision_map[q] = s.decision_map[q]
  BY <1>2, <1>6, <1>7 DEF State
<1> QED
  BY <1>6, <1>7, <1>8, <1>9, <1>11, <1>12 DEF NodeInv

\* Counting the majority of a round changes the colour of no other block.
LEMMA CountRoundEffect ==
    ASSUME NEW s \in State, current_color(s) \in {"OK", "KO"}
    PROVE  LET t == count_round(s)
           IN  /\ t \in State
               /\ t.phase = s.phase /\ t.id = s.id /\ t.seq_num = s.seq_num
               /\ t.decision_block = s.decision_block /\ t.block_queue = s.block_queue
               /\ t.convergenza = s.convergenza
               /\ t.waiting_response_map = s.waiting_response_map
               /\ t.response_buffer = s.response_buffer
               /\ t.member_ids = s.member_ids /\ t.order = s.order
               /\ current_color(t) \in {"OK", "KO"}
               /\ \A q \in SeqNum \ {s.seq_num} : t.decision_map[q] = s.decision_map[q]
<1> DEFINE Same(t) ==
           /\ t \in State
           /\ t.phase = s.phase /\ t.id = s.id /\ t.seq_num = s.seq_num
           /\ t.decision_block = s.decision_block /\ t.block_queue = s.block_queue
           /\ t.convergenza = s.convergenza
           /\ t.waiting_response_map = s.waiting_response_map
           /\ t.response_buffer = s.response_buffer
           /\ t.member_ids = s.member_ids /\ t.order = s.order
           /\ current_color(t) \in {"OK", "KO"}
           /\ \A q \in SeqNum \ {s.seq_num} : t.decision_map[q] = s.decision_map[q]
<1>1. ASSUME NEW i \in Color PROVE Same(count_majority(s, i))
  <2>1. count_majority(s, i) \in State
    BY CountMajorityType
  <2>2. majority_color(s, i) \in {"OK", "KO"}
    BY DEF majority_color, usize_to_decision_state
  <2>3. s.decision_map \in [SeqNum -> SnowballDecisionState \cup {"None"}] /\ s.seq_num \in SeqNum
    BY DEF State
  <2>4. count_majority(s, i).decision_map =
            [s.decision_map EXCEPT ![s.seq_num] = majority_color(s, i)]
    BY DEF count_majority, State
  <2>5. count_majority(s, i).seq_num = s.seq_num
    BY DEF count_majority, State
  <2>6. current_color(count_majority(s, i)) \in {"OK", "KO"}
    BY <2>2, <2>3, <2>4, <2>5 DEF current_color
  <2>7. \A q \in SeqNum \ {s.seq_num} : count_majority(s, i).decision_map[q] = s.decision_map[q]
    BY <2>3, <2>4
  <2> QED
    BY <2>1, <2>6, <2>7 DEF count_majority, State
<1>2. Same([s EXCEPT !.confidence_counter = 0])
  BY DEF State, current_color
<1>3. 0 \in Color /\ 1 \in Color
  BY DEF Color
<1>4. \/ count_round(s) = count_majority(s, 0)
      \/ count_round(s) = count_majority(s, 1)
      \/ count_round(s) = [s EXCEPT !.confidence_counter = 0]
  BY DEF count_round
<1> HIDE DEF Same
<1>5. Same(count_round(s))
  BY <1>1, <1>2, <1>3, <1>4
<1> QED
  BY <1>5 DEF Same

\* A vote takes its sender from the awaited peers to the counted votes.
LEMMA CountedEffect ==
    ASSUME NEW s, NEW lost, NodeInv(s, lost), NEW p \in Peer, awaited(s, p), NEW vote \in Color
    PROVE  LET c == counted(s, p, vote)
           IN  /\ c \in State /\ Ordered(c) /\ Deciding(c) /\ c.phase = "Listening"
               /\ c.id = s.id /\ c.seq_num = s.seq_num /\ c.block_queue = s.block_queue
               /\ c.convergenza = s.convergenza /\ c.decision_map = s.decision_map
               /\ c.decision_block = s.decision_block
               /\ IsFiniteSet(c.waiting_response_map)
               /\ c.response_buffer[0] \in Nat /\ c.response_buffer[1] \in Nat
               /\ c.response_buffer[0] + c.response_buffer[1] <= k
               /\ Cardinality(c.waiting_response_map) + c.response_buffer[0]
                      + c.response_buffer[1] + lost = k
<1> DEFINE c == counted(s, p, vote)
<1>1. s \in State /\ lost \in Nat /\ Ordered(s) /\ Deciding(s) /\ Accounted(s, lost)
  BY DEF NodeInv
<1>2. s.phase = "Listening" /\ p \in s.waiting_response_map
  BY DEF awaited
<1>3. votes_with(s, vote) \in [Color -> Nat]
  BY <1>1 DEF votes_with, State, Color
<1>4. /\ c \in State /\ c.phase = s.phase
      /\ c.id = s.id /\ c.seq_num = s.seq_num /\ c.block_queue = s.block_queue
      /\ c.convergenza = s.convergenza /\ c.decision_map = s.decision_map
      /\ c.decision_block = s.decision_block
      /\ c.member_ids = s.member_ids /\ c.order = s.order
      /\ c.waiting_response_map = s.waiting_response_map \ {p}
      /\ c.response_buffer = votes_with(s, vote)
  BY <1>1, <1>3 DEF counted, State
<1> HIDE DEF c
<1>5. IsFiniteSet(s.waiting_response_map)
  BY <1>1, WaitingFinite
<1>6. /\ IsFiniteSet(c.waiting_response_map)
      /\ Cardinality(c.waiting_response_map) = Cardinality(s.waiting_response_map) - 1
  <2>1. /\ IsFiniteSet(s.waiting_response_map \ {p})
        /\ Cardinality(s.waiting_response_map \ {p}) = Cardinality(s.waiting_response_map) - 1
    BY <1>2, <1>5, FS_RemoveElement
  <2> QED
    BY <1>4, <2>1
<1>7. /\ s.response_buffer[0] \in Nat /\ s.response_buffer[1] \in Nat
      /\ c.response_buffer[0] \in Nat /\ c.response_buffer[1] \in Nat
      /\ c.response_buffer[0] + c.response_buffer[1] =
             s.response_buffer[0] + s.response_buffer[1] + 1
  <2>1. \A i \in Color : c.response_buffer[i] =
            IF i = vote THEN s.response_buffer[i] + 1 ELSE s.response_buffer[i]
    BY <1>1, <1>4 DEF votes_with, State
  <2>2. s.response_buffer[0] \in Nat /\ s.response_buffer[1] \in Nat
    BY <1>1 DEF State, Color
  <2>3. vote = 0 \/ vote = 1
    BY DEF Color
  <2> QED
    BY <2>1, <2>2, <2>3 DEF Color
<1>8. /\ Cardinality(s.waiting_response_map) + s.response_buffer[0]
             + s.response_buffer[1] + lost = k
      /\ s.response_buffer[0] + s.response_buffer[1] < k
  BY <1>1, <1>2 DEF Accounted
<1>9. Cardinality(s.waiting_response_map) \in Nat /\ k \in Nat
  BY <1>5, FS_CardinalityType, ThresholdAssumption
<1>10. Ordered(c)
  BY <1>1, <1>4 DEF Ordered
<1>11. Deciding(c)
  BY <1>1, <1>4 DEF Deciding, current_color
<1>12. /\ c.response_buffer[0] + c.response_buffer[1] <= k
       /\ Cardinality(c.waiting_response_map) + c.response_buffer[0]
              + c.response_buffer[1] + lost = k
  BY <1>1, <1>6, <1>7, <1>8, <1>9
<1> QED
  BY <1>2, <1>4, <1>6, <1>7, <1>10, <1>11, <1>12 DEF c

\* The fields that tell blocks apart stay as they are.
SameBlocks(s, t) ==
    /\ t.id = s.id
    /\ t.seq_num = s.seq_num
    /\ t.decision_block = s.decision_block
    /\ t.convergenza = s.convergenza

\* An awaited peer is let go.
LEMMA AnsweredEffect ==
    ASSUME NEW s, NEW lost, NodeInv(s, lost), NEW p \in Peer, awaited(s, p)
    PROVE  LET t == answered_by(s, p)
           IN  /\ NodeInv(t, lost + 1)
               /\ t.phase = "Listening"
               /\ SameBlocks(s, t)
               /\ t.block_queue = s.block_queue
               /\ t.decision_map = s.decision_map
<1> DEFINE t == answered_by(s, p)
<1>1. s \in State /\ lost \in Nat /\ Ordered(s) /\ Deciding(s) /\ Accounted(s, lost)
  BY DEF NodeInv
<1>2. s.phase = "Listening" /\ p \in s.waiting_response_map
  BY DEF awaited
<1>3. /\ t \in State /\ t.phase = s.phase /\ SameBlocks(s, t)
      /\ t.block_queue = s.block_queue /\ t.decision_map = s.decision_map
      /\ t.member_ids = s.member_ids /\ t.order = s.order
      /\ t.waiting_response_map = s.waiting_response_map \ {p}
      /\ t.response_buffer = s.response_buffer
  BY <1>1 DEF answered_by, State, SameBlocks
<1> HIDE DEF t
<1>4. IsFiniteSet(s.waiting_response_map)
  BY <1>1, WaitingFinite
<1>5. /\ Cardinality(s.waiting_response_map) \in Nat
      /\ Cardinality(s.waiting_response_map \ {p}) = Cardinality(s.waiting_response_map) - 1
  BY <1>2, <1>4, FS_RemoveElement, FS_CardinalityType
<1>6. s.response_buffer[0] \in Nat /\ s.response_buffer[1] \in Nat /\ k \in Nat
  BY <1>1, ThresholdAssumption DEF State, Color
<1>7. Accounted(t, lost + 1)
  BY <1>1, <1>2, <1>3, <1>5, <1>6 DEF Accounted
<1>8. Ordered(t) /\ Deciding(t)
  BY <1>1, <1>3 DEF Ordered, Deciding, current_color, SameBlocks
<1> QED
  BY <1>1, <1>2, <1>3, <1>7, <1>8 DEF NodeInv, t

\* A vote that does not complete the round is just counted.
LEMMA VoteEffect ==
    ASSUME NEW s, NEW lost, NodeInv(s, lost), NEW p \in Peer, awaited(s, p), NEW vote \in Color,
           ~ round_complete(counted(s, p, vote))
    PROVE  LET t == counted(s, p, vote)
           IN  /\ NodeInv(t, lost)
               /\ t.phase = "Listening"
               /\ SameBlocks(s, t)
               /\ t.block_queue = s.block_queue
               /\ t.decision_map = s.decision_map
<1> DEFINE t == counted(s, p, vote)
<1>1. /\ t \in State /\ Ordered(t) /\ Deciding(t) /\ t.phase = "Listening"
      /\ SameBlocks(s, t)
      /\ t.block_queue = s.block_queue /\ t.decision_map = s.decision_map
      /\ t.response_buffer[0] \in Nat /\ t.response_buffer[1] \in Nat
      /\ t.response_buffer[0] + t.response_buffer[1] <= k
      /\ Cardinality(t.waiting_response_map) + t.response_buffer[0]
             + t.response_buffer[1] + lost = k
  BY CountedEffect DEF SameBlocks
<1>2. t.response_buffer[0] + t.response_buffer[1] # k
  BY DEF round_complete
<1> HIDE DEF t
<1>3. Accounted(t, lost)
  BY <1>1, <1>2, ThresholdAssumption DEF Accounted
<1> QED
  BY <1>1, <1>3 DEF NodeInv, t

\* The vote that completes a round finds nobody awaited and no vote lost.
LEMMA CompleteEffect ==
    ASSUME NEW s, NEW lost, NodeInv(s, lost), NEW p \in Peer, awaited(s, p), NEW vote \in Color,
           round_complete(counted(s, p, vote))
    PROVE  counted(s, p, vote).waiting_response_map = {} /\ lost = 0
<1> DEFINE c == counted(s, p, vote)
<1>1. /\ IsFiniteSet(c.waiting_response_map)
      /\ c.response_buffer[0] \in Nat /\ c.response_buffer[1] \in Nat
      /\ Cardinality(c.waiting_response_map) + c.response_buffer[0]
             + c.response_buffer[1] + lost = k
  BY CountedEffect
<1>2. c.response_buffer[0] + c.response_buffer[1] = k
  BY DEF round_complete
<1> HIDE DEF c
<1>3. lost \in Nat /\ Cardinality(c.waiting_response_map) \in Nat
  BY <1>1, FS_CardinalityType DEF NodeInv
<1>4. Cardinality(c.waiting_response_map) = 0 /\ lost = 0
  BY <1>1, <1>2, <1>3
<1> QED
  BY <1>1, <1>4, FS_EmptySet DEF c

\* A round that does not decide is followed by another one.
LEMMA NextRoundEffect ==
    ASSUME NEW c \in State, Ordered(c), Deciding(c), c.phase = "Listening",
           c.waiting_response_map = {}, ~ round_decides(c), NEW t \in on_values_ready(c)
    PROVE  /\ NodeInv(t, 0)
           /\ t.phase = "Listening"
           /\ SameBlocks(c, t)
           /\ t.block_queue = c.block_queue
           /\ \A q \in SeqNum \ {c.seq_num} : t.decision_map[q] = c.decision_map[q]
<1> DEFINE r == count_round(c)
<1>1. PICK sample \in select_node_sample(r, k) : t = prepare_and_forward_peer_requests(r, sample)
  BY DEF on_values_ready
<1>2. current_color(c) \in {"OK", "KO"}
  BY DEF Deciding
<1>3. /\ r \in State /\ r.phase = c.phase /\ SameBlocks(c, r)
      /\ r.block_queue = c.block_queue /\ r.waiting_response_map = {}
      /\ r.member_ids = c.member_ids /\ r.order = c.order
      /\ current_color(r) \in {"OK", "KO"}
      /\ \A q \in SeqNum \ {c.seq_num} : r.decision_map[q] = c.decision_map[q]
  BY <1>2, CountRoundEffect DEF SameBlocks
<1> HIDE DEF r
<1>4. Ordered(r)
  BY <1>3 DEF Ordered, SameBlocks
<1>5. k \in Nat \ {0}
  BY ThresholdAssumption
<1>6. sample \subseteq Peer /\ Cardinality(sample) = k /\ r.id \notin sample
  BY <1>3, <1>4, <1>5, SampleProperties
<1>7. t \in State
  BY <1>1, <1>3, <1>6, PrepareType
<1>8. /\ t.phase = r.phase /\ SameBlocks(r, t) /\ t.block_queue = r.block_queue
      /\ t.decision_map = r.decision_map /\ t.member_ids = r.member_ids /\ t.order = r.order
      /\ t.waiting_response_map = sample /\ t.response_buffer = Zeros
  BY <1>1, <1>3 DEF prepare_and_forward_peer_requests, add_to_waiting_set, State, SameBlocks
<1>9. Accounted(t, 0)
  BY <1>3, <1>5, <1>6, <1>8 DEF Accounted, Zeros, Color
<1>10. Ordered(t)
  BY <1>4, <1>6, <1>8 DEF Ordered, SameBlocks
<1>11. Deciding(t)
  BY <1>3, <1>8 DEF Deciding, SameBlocks, current_color
<1> QED
  BY <1>3, <1>7, <1>8, <1>9, <1>10, <1>11 DEF NodeInv, SameBlocks

\* A round that decides takes the block off the queue and ends the waiting.
LEMMA DecisionEffect ==
    ASSUME NEW c \in State, Ordered(c), Deciding(c), c.phase = "Listening",
           c.waiting_response_map = {}, round_decides(c), NEW t \in on_values_ready(c)
    PROVE  /\ NodeInv(t, 0)
           /\ t.phase = "Idle"
           /\ SameBlocks(c, t)
           /\ t.block_queue = Tail(c.block_queue)
           /\ current_color(t) \in {"OK", "KO"}
           /\ \A q \in SeqNum \ {c.seq_num} : t.decision_map[q] = c.decision_map[q]
<1> DEFINE r == count_round(c)
           u == switch_phase(r)
<1>1. t = handle_decision(u)
  BY DEF on_values_ready
<1>2. current_color(c) \in {"OK", "KO"} /\ c.block_queue # <<>>
  BY DEF Deciding
<1>3. /\ r \in State /\ r.phase = c.phase /\ SameBlocks(c, r)
      /\ r.block_queue = c.block_queue /\ r.waiting_response_map = {}
      /\ r.member_ids = c.member_ids /\ r.order = c.order
      /\ current_color(r) \in {"OK", "KO"}
      /\ \A q \in SeqNum \ {c.seq_num} : r.decision_map[q] = c.decision_map[q]
  BY <1>2, CountRoundEffect DEF SameBlocks
<1> HIDE DEF r
<1>4. /\ u \in State /\ u.phase = "Finishing" /\ SameBlocks(r, u)
      /\ u.block_queue = r.block_queue /\ u.decision_map = r.decision_map
      /\ u.waiting_response_map = {}
      /\ u.member_ids = r.member_ids /\ u.order = r.order
  BY <1>3 DEF switch_phase, next_phase, State, SnowballPhase, SameBlocks
<1> HIDE DEF u
<1>5. t \in State
  BY <1>1, <1>4, HandleDecisionType
<1>6. /\ t.phase = "Idle" /\ SameBlocks(u, t)
      /\ t.block_queue = Tail(u.block_queue) /\ t.decision_map = u.decision_map
      /\ t.waiting_response_map = {}
      /\ t.member_ids = u.member_ids /\ t.order = u.order
  BY <1>1, <1>2, <1>3, <1>4 DEF handle_decision, switch_phase, next_phase, State, SameBlocks
<1>7. Accounted(t, 0) /\ Deciding(t)
  BY <1>6 DEF Accounted, Deciding
<1>8. Ordered(t)
  BY <1>3, <1>4, <1>6 DEF Ordered, SameBlocks
<1> QED
  BY <1>3, <1>4, <1>5, <1>6, <1>7, <1>8 DEF NodeInv, SameBlocks, current_color

\* Replacing n peers that were let go restores the account of the round.
LEMMA ReplaceEffect ==
    ASSUME NEW s \in State, Ordered(s), Deciding(s), NEW lost \in Nat, NEW n \in Nat,
           Accounted(s, lost + n), s.phase = "Listening", NEW E \in extra_node_sets(s, n)
    PROVE  LET t == add_to_waiting_set(s, E)
           IN  /\ NodeInv(t, lost)
               /\ t.phase = "Listening"
               /\ SameBlocks(s, t)
               /\ t.block_queue = s.block_queue
               /\ t.decision_map = s.decision_map
<1> DEFINE t == add_to_waiting_set(s, E)
<1>1. IsFiniteSet(s.waiting_response_map)
  BY WaitingFinite
<1>2. /\ E \subseteq Peer /\ s.id \notin E
      /\ Cardinality(s.waiting_response_map \cup E) = Cardinality(s.waiting_response_map) + n
  BY <1>1, ExtraProperties
<1>3. /\ t \in State /\ t.phase = "Listening" /\ SameBlocks(s, t)
      /\ t.block_queue = s.block_queue /\ t.decision_map = s.decision_map
      /\ t.member_ids = s.member_ids /\ t.order = s.order
      /\ t.waiting_response_map = s.waiting_response_map \cup E
      /\ t.response_buffer = s.response_buffer
  BY <1>2 DEF add_to_waiting_set, State, SameBlocks
<1> HIDE DEF t
<1>4. /\ Cardinality(s.waiting_response_map) \in Nat /\ k \in Nat
      /\ s.response_buffer[0] \in Nat /\ s.response_buffer[1] \in Nat
  BY <1>1, FS_CardinalityType, ThresholdAssumption DEF State, Color
<1>5. Accounted(t, lost)
  BY <1>2, <1>3, <1>4 DEF Accounted
<1>6. Ordered(t) /\ Deciding(t)
  BY <1>2, <1>3 DEF Ordered, Deciding, current_color, SameBlocks
<1> QED
  BY <1>3, <1>5, <1>6 DEF NodeInv, t

\* on_peer_message, "unavailable".
LEMMA UnavailableEffect ==
    ASSUME NEW s, NEW lost, NodeInv(s, lost), NEW p \in Peer, NEW t \in on_unavailable(s, p)
    PROVE  /\ NodeInv(t, lost)
           /\ t.phase = s.phase
           /\ SameBlocks(s, t)
           /\ t.block_queue = s.block_queue
           /\ t.decision_map = s.decision_map
<1>1. CASE ~ awaited(s, p)
  BY <1>1 DEF on_unavailable, SameBlocks
<1>2. CASE awaited(s, p)
  <2> DEFINE a == answered_by(s, p)
  <2>1. PICK E \in extra_node_sets(a, 1) : t = add_to_waiting_set(a, E)
    BY <1>2 DEF on_unavailable
  <2>2. /\ NodeInv(a, lost + 1) /\ a.phase = "Listening" /\ SameBlocks(s, a)
        /\ a.block_queue = s.block_queue /\ a.decision_map = s.decision_map
    BY <1>2, AnsweredEffect
  <2> HIDE DEF a
  <2>3. a \in State /\ Ordered(a) /\ Deciding(a) /\ Accounted(a, lost + 1) /\ lost \in Nat
    BY <2>2 DEF NodeInv
  <2>4. /\ NodeInv(t, lost) /\ t.phase = "Listening" /\ SameBlocks(a, t)
        /\ t.block_queue = a.block_queue /\ t.decision_map = a.decision_map
    BY <2>1, <2>2, <2>3, ReplaceEffect
  <2> QED
    BY <1>2, <2>2, <2>4 DEF SameBlocks, awaited
<1> QED
  BY <1>1, <1>2

\* handle_unresponsive_peers.
LEMMA UnresponsiveEffect ==
    ASSUME NEW s, NEW lost, NodeInv(s, lost), NEW expired \in SUBSET s.waiting_response_map,
           NEW t \in handle_unresponsive_peers(s, expired)
    PROVE  /\ NodeInv(t, lost)
           /\ t.phase = s.phase
           /\ SameBlocks(s, t)
           /\ t.block_queue = s.block_queue
           /\ t.decision_map = s.decision_map
<1> DEFINE n == Cardinality(expired)
           a == [s EXCEPT !.waiting_response_map = @ \ expired]
<1>1. PICK E \in extra_node_sets(a, n) : t = add_to_waiting_set(a, E)
  BY DEF handle_unresponsive_peers
<1>2. s \in State /\ lost \in Nat /\ Ordered(s) /\ Accounted(s, lost) /\ Deciding(s)
  BY DEF NodeInv
<1>3. /\ a \in State /\ a.phase = s.phase /\ SameBlocks(s, a)
      /\ a.block_queue = s.block_queue /\ a.decision_map = s.decision_map
      /\ a.member_ids = s.member_ids /\ a.order = s.order
      /\ a.waiting_response_map = s.waiting_response_map \ expired
      /\ a.response_buffer = s.response_buffer
  BY <1>2 DEF State, SameBlocks
<1> HIDE DEF a
<1>4. IsFiniteSet(s.waiting_response_map) /\ IsFiniteSet(expired)
  <2>1. IsFiniteSet(s.waiting_response_map)
    BY <1>2, WaitingFinite
  <2> QED
    BY <2>1, FS_Subset
<1>5. /\ n \in Nat /\ Cardinality(s.waiting_response_map) \in Nat
      /\ Cardinality(s.waiting_response_map \ expired) = Cardinality(s.waiting_response_map) - n
  <2>1. Cardinality(s.waiting_response_map \ expired) =
            Cardinality(s.waiting_response_map) - Cardinality(s.waiting_response_map \cap expired)
    BY <1>4, FS_Difference
  <2>2. s.waiting_response_map \cap expired = expired
    OBVIOUS
  <2> QED
    BY <1>4, <2>1, <2>2, FS_CardinalityType
<1> HIDE DEF n
<1>6. Ordered(a) /\ Deciding(a)
  BY <1>2, <1>3 DEF Ordered, Deciding, current_color, SameBlocks
<1>7. CASE s.phase = "Listening"
  <2>1. s.response_buffer[0] \in Nat /\ s.response_buffer[1] \in Nat /\ k \in Nat
    BY <1>2, ThresholdAssumption DEF State, Color
  <2>2. Accounted(a, lost + n)
    BY <1>2, <1>3, <1>5, <1>7, <2>1 DEF Accounted
  <2>3. /\ NodeInv(t, lost) /\ t.phase = "Listening" /\ SameBlocks(a, t)
        /\ t.block_queue = a.block_queue /\ t.decision_map = a.decision_map
    BY <1>1, <1>2, <1>3, <1>5, <1>6, <1>7, <2>2, ReplaceEffect
  <2> QED
    BY <1>3, <1>7, <2>3 DEF SameBlocks
<1>8. CASE s.phase # "Listening"
  <2>1. s.waiting_response_map = {} /\ a.waiting_response_map = {} /\ n = 0
    BY <1>2, <1>3, <1>8, FS_EmptySet DEF Accounted, n
  <2>2. E \in select_node_sample(a, 0)
    BY <1>1, <2>1 DEF extra_node_sets
  <2>3. E = {}
    BY <1>3, <1>6, <2>2, SampleProperties, FS_EmptySet
  <2>4. /\ t \in State /\ t.phase = a.phase /\ SameBlocks(a, t)
        /\ t.block_queue = a.block_queue /\ t.decision_map = a.decision_map
        /\ t.member_ids = a.member_ids /\ t.order = a.order
        /\ t.waiting_response_map = {}
    BY <1>1, <1>3, <2>1, <2>3 DEF add_to_waiting_set, State, SameBlocks
  <2>5. Accounted(t, lost) /\ Ordered(t) /\ Deciding(t)
    BY <1>3, <1>6, <1>8, <2>4 DEF Accounted, Ordered, Deciding, current_color, SameBlocks
  <2> QED
    BY <1>2, <1>3, <2>4, <2>5 DEF NodeInv, SameBlocks
<1> QED
  BY <1>7, <1>8

----------------------------------------------------------------------------
\* Membership

Distinct(members) == \A i, j \in DOMAIN members : members[i] = members[j] => i = j

\* get_order_index finds a member where it is.
LEMMA OrderIndexProperties ==
    ASSUME NEW members \in Seq(Peer), Distinct(members), NEW p, IsMember(members, p)
    PROVE  /\ OrderIndex(members, p) \in 0..(Len(members) - 1)
           /\ members[OrderIndex(members, p) + 1] = p
<1> DEFINE At(i) == members[i + 1] = p /\ \A j \in 0..(i - 1) : members[j + 1] # p
<1>1. PICK n \in DOMAIN members : members[n] = p
  BY DEF IsMember
<1>2. Len(members) \in Nat /\ DOMAIN members = 1..Len(members)
  OBVIOUS
<1>3. n - 1 \in 0..(Len(members) - 1) /\ (n - 1) + 1 = n
  BY <1>2
<1>4. \A j \in 0..((n - 1) - 1) : members[j + 1] # p
  BY <1>1, <1>2 DEF Distinct
<1>5. \E i \in 0..(Len(members) - 1) : At(i)
  BY <1>1, <1>3, <1>4
<1>6. OrderIndex(members, p) = CHOOSE i \in 0..(Len(members) - 1) : At(i)
  BY DEF OrderIndex
<1> HIDE DEF At
<1>7. OrderIndex(members, p) \in 0..(Len(members) - 1) /\ At(OrderIndex(members, p))
  BY <1>5, <1>6
<1> QED
  BY <1>7 DEF At

\* Changing the members to a list that still has this node keeps order right.
LEMMA WithMembersEffect ==
    ASSUME NEW s, NEW lost, NodeInv(s, lost), NEW members \in Seq(Peer), Distinct(members),
           IsMember(members, s.id)
    PROVE  LET t == with_members(s, members)
           IN  /\ NodeInv(t, lost)
               /\ t.phase = s.phase
               /\ SameBlocks(s, t)
               /\ t.block_queue = s.block_queue
               /\ t.decision_map = s.decision_map
<1> DEFINE t == with_members(s, members)
<1>1. s \in State /\ lost \in Nat /\ Ordered(s) /\ Accounted(s, lost) /\ Deciding(s)
  BY DEF NodeInv
<1>2. /\ OrderIndex(members, s.id) \in 0..(Len(members) - 1)
      /\ members[OrderIndex(members, s.id) + 1] = s.id
  BY OrderIndexProperties
<1>3. OrderIndex(members, s.id) \in Nat /\ OrderIndex(members, s.id) < Len(members)
  BY <1>2
<1>4. /\ t \in State /\ t.phase = s.phase /\ SameBlocks(s, t)
      /\ t.block_queue = s.block_queue /\ t.decision_map = s.decision_map
      /\ t.member_ids = members /\ t.order = OrderIndex(members, s.id)
      /\ t.waiting_response_map = s.waiting_response_map
      /\ t.response_buffer = s.response_buffer
  BY <1>1, <1>3 DEF with_members, State, SameBlocks
<1> HIDE DEF t
<1>5. Ordered(t)
  BY <1>1, <1>2, <1>3, <1>4 DEF Ordered, Distinct, SameBlocks
<1>6. Accounted(t, lost) /\ Deciding(t)
  BY <1>1, <1>4 DEF Accounted, Deciding, current_color, SameBlocks
<1> QED
  BY <1>1, <1>4, <1>5, <1>6 DEF NodeInv, t

\* on_peer_connected: a newcomer is appended, a member is ignored.
LEMMA ConnectedEffect ==
    ASSUME NEW s, NEW lost, NodeInv(s, lost), NEW p \in Peer
    PROVE  LET t == on_peer_connected(s, p)
           IN  /\ NodeInv(t, lost)
               /\ t.phase = s.phase
               /\ SameBlocks(s, t)
               /\ t.block_queue = s.block_queue
               /\ t.decision_map = s.decision_map
<1>1. CASE IsMember(s.member_ids, p)
  BY <1>1 DEF on_peer_connected, SameBlocks
<1>2. CASE ~ IsMember(s.member_ids, p)
  <2> DEFINE m == s.member_ids
             members == Append(m, p)
  <2>1. m \in Seq(Peer) /\ s.order \in Nat /\ Ordered(s)
    BY DEF NodeInv, State
  <2>2. /\ members \in Seq(Peer) /\ Len(members) = Len(m) + 1 /\ Len(m) \in Nat
        /\ \A i \in 1..Len(m) : members[i] = m[i]
        /\ members[Len(m) + 1] = p
        /\ DOMAIN m = 1..Len(m) /\ DOMAIN members = 1..(Len(m) + 1)
    BY <2>1
  <2>3. \A i \in 1..Len(m) : m[i] # p
    BY <1>2, <2>2 DEF IsMember
  <2>4. Distinct(members)
    <3>1. \A i, j \in 1..Len(m) : m[i] = m[j] => i = j
      BY <2>1, <2>2 DEF Ordered
    <3> HIDE DEF members, m
    <3>2. SUFFICES ASSUME NEW i \in 1..(Len(m) + 1), NEW j \in 1..(Len(m) + 1),
                          members[i] = members[j]
                   PROVE  i = j
      BY <2>2 DEF Distinct
    <3>3. CASE i \in 1..Len(m) /\ j \in 1..Len(m)
      BY <2>2, <3>1, <3>2, <3>3
    <3>4. CASE i = Len(m) + 1 \/ j = Len(m) + 1
      BY <2>2, <2>3, <3>2, <3>4
    <3> QED
      BY <2>2, <3>3, <3>4
  <2>5. IsMember(members, s.id)
    <3>1. s.order + 1 \in 1..Len(m) /\ m[s.order + 1] = s.id
      BY <2>1, <2>2 DEF Ordered
    <3> HIDE DEF members
    <3> QED
      BY <2>2, <3>1 DEF IsMember
  <2>6. on_peer_connected(s, p) = with_members(s, members)
    BY <1>2 DEF on_peer_connected
  <2> HIDE DEF members
  <2> QED
    BY <2>2, <2>4, <2>5, <2>6, WithMembersEffect
<1> QED
  BY <1>1, <1>2

\* Removing one entry of a member list removes nobody else.
LEMMA RemoveAtProperties ==
    ASSUME NEW S, NEW m \in Seq(S), NEW n \in 1..Len(m)
    PROVE  /\ RemoveAt(m, n) \in Seq(S)
           /\ Len(RemoveAt(m, n)) = Len(m) - 1
           /\ \A i \in 1..(Len(m) - 1) :
                 RemoveAt(m, n)[i] = IF i < n THEN m[i] ELSE m[i + 1]
<1> DEFINE front == SubSeq(m, 1, n - 1)
           rest  == SubSeq(m, n + 1, Len(m))
<1>1. /\ front \in Seq(S) /\ Len(front) = n - 1
      /\ \A i \in 1..(n - 1) : front[i] = m[i]
  OBVIOUS
<1>2. /\ rest \in Seq(S) /\ Len(rest) = Len(m) - n
      /\ \A i \in 1..(Len(m) - n) : rest[i] = m[n + i]
  OBVIOUS
<1>3. RemoveAt(m, n) = front \o rest
  BY DEF RemoveAt
<1> HIDE DEF front, rest
<1>4. /\ front \o rest \in Seq(S) /\ Len(front \o rest) = Len(m) - 1
      /\ \A i \in 1..(Len(m) - 1) :
            (front \o rest)[i] = IF i <= n - 1 THEN front[i] ELSE rest[i - (n - 1)]
  <2>1. front \o rest \in Seq(S) /\ Len(front \o rest) = Len(front) + Len(rest)
    BY <1>1, <1>2, ConcatProperties
  <2>2. \A i \in 1..(Len(front) + Len(rest)) :
            (front \o rest)[i] = IF i <= Len(front) THEN front[i] ELSE rest[i - Len(front)]
    BY <1>1, <1>2
  <2>3. Len(front) + Len(rest) = Len(m) - 1
    BY <1>1, <1>2
  <2> QED
    BY <1>1, <2>1, <2>2, <2>3
<1>5. ASSUME NEW i \in 1..(Len(m) - 1)
      PROVE  (front \o rest)[i] = IF i < n THEN m[i] ELSE m[i + 1]
  <2>1. CASE i < n
    BY <1>1, <1>4, <2>1
  <2>2. CASE ~ (i < n)
    <3>1. i - (n - 1) \in 1..(Len(m) - n) /\ n + (i - (n - 1)) = i + 1
      BY <2>2
    <3> QED
      BY <1>2, <1>4, <2>2, <3>1
  <2> QED
    BY <2>1, <2>2
<1> QED
  BY <1>3, <1>4, <1>5

\* on_peer_disconnected: order is corrected when a peer before this node leaves.
LEMMA DisconnectedEffect ==
    ASSUME NEW s, NEW lost, NodeInv(s, lost), NEW p \in Peer, p # s.id, IsMember(s.member_ids, p)
    PROVE  LET t == on_peer_disconnected(s, p)
           IN  /\ NodeInv(t, lost)
               /\ t.phase = s.phase
               /\ SameBlocks(s, t)
               /\ t.block_queue = s.block_queue
               /\ t.decision_map = s.decision_map
<1> DEFINE m == s.member_ids
           n == OrderIndex(m, p) + 1
           members == RemoveAt(m, n)
<1>1. m \in Seq(Peer) /\ s.order \in Nat /\ Ordered(s) /\ Distinct(m)
  BY DEF NodeInv, State, Ordered, Distinct
<1>2. n \in 1..Len(m) /\ m[n] = p /\ Len(m) \in Nat /\ DOMAIN m = 1..Len(m)
  BY <1>1, OrderIndexProperties
<1> HIDE DEF n
<1>3. /\ members \in Seq(Peer) /\ Len(members) = Len(m) - 1
      /\ \A i \in 1..(Len(m) - 1) : members[i] = IF i < n THEN m[i] ELSE m[i + 1]
  BY <1>1, <1>2, RemoveAtProperties
<1>4. DOMAIN members = 1..(Len(m) - 1)
  BY <1>3
<1> HIDE DEF members
<1>5. Distinct(members)
  <2>1. \A i, j \in 1..Len(m) : m[i] = m[j] => i = j
    BY <1>1, <1>2 DEF Distinct
  <2> HIDE DEF m
  <2> SUFFICES ASSUME NEW i \in 1..(Len(m) - 1), NEW j \in 1..(Len(m) - 1),
                      members[i] = members[j]
               PROVE  i = j
    BY <1>4 DEF Distinct
  <2> DEFINE at(x) == IF x < n THEN x ELSE x + 1
  <2>2. at(i) \in 1..Len(m) /\ at(j) \in 1..Len(m)
    BY <1>2
  <2>3. m[at(i)] = m[at(j)]
    BY <1>2, <1>3
  <2>4. at(i) = at(j)
    BY <2>1, <2>2, <2>3
  <2> QED
    BY <1>2, <2>4
<1>6. IsMember(members, s.id)
  <2>1. s.order + 1 \in 1..Len(m) /\ m[s.order + 1] = s.id /\ s.order + 1 # n
    <3>1. s.order < Len(m) /\ m[s.order + 1] = s.id
      BY <1>1 DEF Ordered
    <3> HIDE DEF m
    <3> QED
      BY <1>1, <1>2, <3>1
  <2>2. CASE s.order + 1 < n
    <3>1. s.order + 1 \in 1..(Len(m) - 1)
      BY <1>1, <1>2, <2>1, <2>2
    <3>2. members[s.order + 1] = m[s.order + 1]
      BY <1>3, <2>2, <3>1
    <3> QED
      BY <1>4, <2>1, <3>1, <3>2 DEF IsMember
  <2>3. CASE s.order + 1 > n
    <3>1. s.order \in 1..(Len(m) - 1) /\ ~ (s.order < n)
      BY <1>1, <1>2, <2>1, <2>3
    <3> QED
      BY <1>3, <1>4, <2>1, <3>1 DEF IsMember
  <2> QED
    BY <1>1, <1>2, <2>1, <2>2, <2>3
<1>7. on_peer_disconnected(s, p) = with_members(s, members)
  BY DEF on_peer_disconnected, members, n
<1> QED
  BY <1>3, <1>5, <1>6, <1>7, WithMembersEffect

----------------------------------------------------------------------------
\* A new block only joins the queue.
LEMMA QueuedEffect ==
    ASSUME NEW s, NEW lost, NodeInv(s, lost), NEW b \in Block
    PROVE  LET t == on_block_new(s, b)
           IN  /\ NodeInv(t, lost)
               /\ t.phase = s.phase /\ t.id = s.id /\ t.seq_num = s.seq_num
               /\ t.decision_block = s.decision_block
               /\ t.decision_map = s.decision_map
               /\ t.block_queue = Append(s.block_queue, b)
               /\ t.convergenza = s.convergenza \cup {b}
<1> DEFINE t == on_block_new(s, b)
<1>1. s \in State /\ lost \in Nat /\ Ordered(s) /\ Accounted(s, lost) /\ Deciding(s)
  BY DEF NodeInv
<1>2. Append(s.block_queue, b) \in Seq(Block) /\ s.convergenza \cup {b} \in SUBSET Block
  BY <1>1 DEF State
<1>3. /\ t \in State /\ t.phase = s.phase /\ t.id = s.id /\ t.seq_num = s.seq_num
      /\ t.decision_block = s.decision_block
      /\ t.decision_map = s.decision_map
      /\ t.block_queue = Append(s.block_queue, b)
      /\ t.convergenza = s.convergenza \cup {b}
      /\ t.member_ids = s.member_ids /\ t.order = s.order
      /\ t.waiting_response_map = s.waiting_response_map
      /\ t.response_buffer = s.response_buffer
  BY <1>1, <1>2 DEF on_block_new, set_block_new_timestamp, State
<1> HIDE DEF t
<1>4. s.block_queue # <<>> => t.block_queue # <<>> /\ Head(t.block_queue) = Head(s.block_queue)
  BY <1>1, <1>3 DEF State
<1>5. Ordered(t) /\ Accounted(t, lost)
  BY <1>1, <1>3 DEF Ordered, Accounted
<1>6. Deciding(t)
  BY <1>1, <1>3, <1>4 DEF Deciding, current_color
<1> QED
  BY <1>1, <1>3, <1>5, <1>6 DEF NodeInv, t
=============================================================================
