------------------------ MODULE SnowballNetworkProofs ------------------------
(***************************************************************************)
(* Proofs about the network of nodes, for any number of members, blocks,   *)
(* faults and crashes.  What is known of one node (PeerInv) depends on no  *)
(* other node, so every handler is dealt with by a lemma about one state   *)
(* record, and the steps of the network only put these together.           *)
(***************************************************************************)
EXTENDS SnowballNetwork, SnowballNodeProofs

\* The peers a node knows of are nodes of the network.
InNetwork(s) ==
    /\ s.waiting_response_map \subseteq Node
    /\ s.member_ids \in Seq(Node)

\* The queue is a stretch of the chain that ends at height a.
Stretch(queue, a) == \A i \in 1..Len(queue) : queue[i] = Chain[a - Len(queue) + i]

\* Every block in the queue has its timestamp.
Stamped(queue, stamps) == \A i \in 1..Len(queue) : queue[i] \in stamps

\* seq_num counts the blocks opened since the last start on top of the head there was
\* then, from which sk blocks were never announced: a - Len(queue) blocks of the chain
\* have been passed, and the front of the queue is open while Listening.
Numbered(seq_num, phase, len, a, sk) ==
    /\ sk + len <= a
    /\ seq_num + sk + len = IF phase = "Listening" THEN a + 2 ELSE a + 1

Follows(s, a, sk) ==
    /\ a \in 0..Len(Chain) /\ sk \in Nat
    /\ Stretch(s.block_queue, a)
    /\ Stamped(s.block_queue, s.convergenza)
    /\ Numbered(s.seq_num, s.phase, Len(s.block_queue), a, sk)

\* Every vote of the round came from another voter, or in the place of a peer that
\* was replaced; so will the votes still awaited from those who voted already.
Fresh(s, v, r) ==
    /\ v \subseteq Node /\ r \in 0..k
    /\ s.phase = "Listening" =>
          s.response_buffer[0] + s.response_buffer[1]
              + Cardinality(s.waiting_response_map \cap v) <= Cardinality(v) + r

\* Node n is in state s, has heard of the blocks up to a, but not of sk of them, and
\* has counted the voters v and replaced r peers in this round.
PeerInv(n, s, a, sk, v, r) ==
    /\ NodeInv(s, 0) /\ s.id = n
    /\ InNetwork(s)
    /\ Follows(s, a, sk)
    /\ Fresh(s, v, r)

----------------------------------------------------------------------------
\* Nodes and blocks

LEMMA NodesArePeers ==
    /\ Node \subseteq Peer /\ IsFiniteSet(Node)
    /\ Members \in Seq(Node) /\ \A n \in Node : IsMember(Members, n)
<1>1. /\ Members \in Seq(Peer) /\ Len(Members) \in Nat
      /\ DOMAIN Members = 1..Len(Members) /\ Members \in [1..Len(Members) -> Peer]
  BY NetworkAssumption
<1>2. Node \subseteq Peer
  BY <1>1 DEF Node
<1>3. Members \in [1..Len(Members) -> Node]
  BY <1>1 DEF Node
<1>4. Members \in Seq(Node)
  BY <1>1, <1>3
<1>5. IsFiniteSet(Node)
  BY <1>2, PeerAssumption, FS_Subset
<1>6. \A n \in Node : IsMember(Members, n)
  BY DEF Node, IsMember
<1> QED
  BY <1>2, <1>4, <1>5, <1>6

LEMMA ChainType ==
    /\ Len(Chain) \in Nat /\ DOMAIN Chain = 1..Len(Chain) /\ Len(Chain) < MaxSeq
    /\ \A i \in 1..Len(Chain) : Chain[i] \in Block
BY NetworkAssumption

\* The height of a block of the chain is its place.
LEMMA HeightOfBlock ==
    ASSUME NEW i \in 1..Len(Chain)
    PROVE  Height(Chain[i]) = i
<1>1. Chain[i] # HeadBlock /\ i \in DOMAIN Chain
  BY ChainType, IdAssumption
<1>2. \A j \in DOMAIN Chain : Chain[j] = Chain[i] => j = i
  BY <1>1, NetworkAssumption
<1> QED
  BY <1>1, <1>2 DEF Height

\* What a handler draws, it draws from the members.
LEMMA SampleInNetwork ==
    ASSUME NEW s, s.member_ids \in Seq(Node), NEW n, NEW E \in select_node_sample(s, n)
    PROVE  E \subseteq Node
<1>1. PICK I \in kSubset(n, DOMAIN s.member_ids \ {s.order + 1}) : E = {s.member_ids[i] : i \in I}
  BY DEF select_node_sample
<1>2. I \subseteq DOMAIN s.member_ids
  BY <1>1 DEF kSubset
<1>3. \A i \in DOMAIN s.member_ids : s.member_ids[i] \in Node
  <2> DEFINE m == s.member_ids
  <2>1. m \in Seq(Node)
    OBVIOUS
  <2> HIDE DEF m
  <2>2. \A i \in DOMAIN m : m[i] \in Node
    BY <2>1
  <2> QED
    BY <2>2 DEF m
<1> QED
  BY <1>1, <1>2, <1>3

----------------------------------------------------------------------------
\* The queue

LEMMA QueueAppends ==
    ASSUME NEW Q \in Seq(Block), NEW a \in Nat, Stretch(Q, a), NEW S, Stamped(Q, S),
           NEW b, b = Chain[a + 1]
    PROVE  /\ Stretch(Append(Q, b), a + 1) /\ Stamped(Append(Q, b), S \cup {b})
           /\ Len(Append(Q, b)) = Len(Q) + 1
<1> DEFINE R == Append(Q, b)
           L == Len(Q)
<1>1. /\ Len(R) = L + 1 /\ L \in Nat /\ R[L + 1] = b
      /\ \A i \in 1..L : R[i] = Q[i]
  OBVIOUS
<1>2. \A i \in 1..L : Q[i] = Chain[a - L + i] /\ Q[i] \in S
  BY DEF Stretch, Stamped
<1> HIDE DEF R, L
<1>3. ASSUME NEW i \in 1..(L + 1)
      PROVE  R[i] = Chain[(a + 1) - (L + 1) + i] /\ R[i] \in S \cup {b}
  <2>1. (a + 1) - (L + 1) + i = a - L + i
    BY <1>1
  <2>2. CASE i \in 1..L
    BY <1>1, <1>2, <2>1, <2>2
  <2>3. CASE i = L + 1
    <3>1. (a + 1) - (L + 1) + i = a + 1
      BY <1>1, <2>3
    <3> QED
      BY <1>1, <2>3, <3>1
  <2> QED
    BY <1>1, <2>2, <2>3
<1>4. Stretch(R, a + 1) /\ Stamped(R, S \cup {b})
  BY <1>1, <1>3 DEF Stretch, Stamped
<1> QED
  BY <1>1, <1>4 DEF R, L

LEMMA QueueFront ==
    ASSUME NEW Q \in Seq(Block), Q # <<>>, NEW a \in Nat, Stretch(Q, a), NEW S, Stamped(Q, S)
    PROVE  /\ Len(Q) \in Nat \ {0} /\ Head(Q) \in Block /\ Head(Q) \in S
           /\ Head(Q) = Chain[a - Len(Q) + 1]
           /\ Stretch(Tail(Q), a) /\ Stamped(Tail(Q), S)
           /\ Len(Tail(Q)) = Len(Q) - 1
<1> DEFINE R == Tail(Q)
           L == Len(Q)
<1>1. /\ L \in Nat \ {0} /\ Head(Q) = Q[1] /\ Head(Q) \in Block /\ Len(R) = L - 1
      /\ \A i \in 1..(L - 1) : R[i] = Q[i + 1]
  OBVIOUS
<1>2. \A i \in 1..L : Q[i] = Chain[a - L + i] /\ Q[i] \in S
  BY DEF Stretch, Stamped
<1> HIDE DEF R, L
<1>3. ASSUME NEW i \in 1..(L - 1)
      PROVE  R[i] = Chain[a - (L - 1) + i] /\ R[i] \in S
  <2>1. a - (L - 1) + i = a - L + (i + 1) /\ i + 1 \in 1..L
    BY <1>1
  <2> QED
    BY <1>1, <1>2, <2>1
<1>4. Stretch(R, a) /\ Stamped(R, S)
  BY <1>1, <1>3 DEF Stretch, Stamped
<1>5. Q[1] = Chain[a - L + 1] /\ Q[1] \in S
  BY <1>1, <1>2
<1> QED
  BY <1>1, <1>4, <1>5 DEF R, L

----------------------------------------------------------------------------
\* Handlers, seen from the network

LEMMA AnnouncedKeeps ==
    ASSUME NEW n, NEW s, NEW a, NEW sk, NEW v, NEW r, PeerInv(n, s, a, sk, v, r), a < Len(Chain)
    PROVE  PeerInv(n, on_block_new(s, Chain[a + 1]), a + 1, sk, v, r)
<1> DEFINE b == Chain[a + 1]
           t == on_block_new(s, b)
<1>1. /\ NodeInv(s, 0) /\ s.id = n /\ InNetwork(s) /\ Follows(s, a, sk) /\ Fresh(s, v, r)
      /\ s \in State
  BY DEF PeerInv, NodeInv
<1>2. /\ s.block_queue \in Seq(Block) /\ Len(s.block_queue) \in Nat /\ s.seq_num \in Nat
  BY <1>1 DEF State, SeqNum
<1>3. /\ a \in Nat /\ sk \in Nat /\ Stretch(s.block_queue, a)
      /\ Stamped(s.block_queue, s.convergenza)
      /\ Numbered(s.seq_num, s.phase, Len(s.block_queue), a, sk)
  BY <1>1, ChainType DEF Follows
<1>4. b \in Block /\ a + 1 \in 0..Len(Chain)
  BY <1>3, ChainType
<1>5. /\ NodeInv(t, 0) /\ t.phase = s.phase /\ t.id = s.id /\ t.seq_num = s.seq_num
      /\ t.block_queue = Append(s.block_queue, b) /\ t.convergenza = s.convergenza \cup {b}
  BY <1>1, <1>4, QueuedEffect
<1>6. /\ t.member_ids = s.member_ids /\ t.waiting_response_map = s.waiting_response_map
      /\ t.response_buffer = s.response_buffer
  BY <1>1 DEF on_block_new, set_block_new_timestamp, State
<1> HIDE DEF t
<1>7. /\ Stretch(t.block_queue, a + 1) /\ Stamped(t.block_queue, t.convergenza)
      /\ Len(t.block_queue) = Len(s.block_queue) + 1
  <2> DEFINE Q == s.block_queue
             S == s.convergenza
  <2>1. Q \in Seq(Block) /\ Stretch(Q, a) /\ Stamped(Q, S) /\ b = Chain[a + 1]
    BY <1>2, <1>3
  <2> HIDE DEF Q, S, b
  <2>2. /\ Stretch(Append(Q, b), a + 1) /\ Stamped(Append(Q, b), S \cup {b})
        /\ Len(Append(Q, b)) = Len(Q) + 1
    BY <1>3, <2>1, QueueAppends
  <2>3. t.block_queue = Append(Q, b) /\ t.convergenza = S \cup {b}
    BY <1>5 DEF Q, S
  <2> QED
    BY <2>2, <2>3 DEF Q
<1>8. Numbered(t.seq_num, t.phase, Len(t.block_queue), a + 1, sk)
  <2> DEFINE L == Len(s.block_queue)
  <2> HIDE DEF L
  <2>1. L \in Nat /\ Numbered(s.seq_num, s.phase, L, a, sk)
    BY <1>2, <1>3 DEF L
  <2>2. Numbered(s.seq_num, s.phase, L + 1, a + 1, sk)
    BY <1>2, <1>3, <2>1 DEF Numbered
  <2> QED
    BY <1>5, <1>7, <2>2 DEF L
<1>9. Follows(t, a + 1, sk)
  BY <1>3, <1>4, <1>7, <1>8 DEF Follows
<1>10. InNetwork(t) /\ Fresh(t, v, r)
  BY <1>1, <1>5, <1>6 DEF InNetwork, Fresh
<1> QED
  BY <1>1, <1>5, <1>9, <1>10 DEF PeerInv, t, b

\* The front of the queue, when it is not being decided, can be opened: sequence
\* numbers last for the whole chain.
LEMMA OpeningKeeps ==
    ASSUME NEW n, NEW s, NEW a, NEW sk, NEW v, NEW r, PeerInv(n, s, a, sk, v, r),
           s.block_queue # <<>>, Head(s.block_queue) # s.decision_block,
           NEW t \in handle_block_new(s, Head(s.block_queue))
    PROVE  /\ PeerInv(n, t, a, sk, {}, 0)
           /\ t.phase = "Listening" /\ t.member_ids = s.member_ids /\ t.order = s.order
           /\ t.response_buffer = Zeros /\ s.seq_num + 1 \in SeqNum
           /\ t.decision_map = [s.decision_map EXCEPT ![s.seq_num + 1] = "OK"]
<1> DEFINE b == Head(s.block_queue)
           L == Len(s.block_queue)
<1>1. /\ NodeInv(s, 0) /\ s.id = n /\ InNetwork(s) /\ Follows(s, a, sk)
      /\ s \in State /\ Deciding(s) /\ Accounted(s, 0)
  BY DEF PeerInv, NodeInv
<1>2. s.phase = "Idle" /\ s.waiting_response_map = {}
  BY <1>1 DEF Deciding, Accounted, State, SnowballPhase
<1>3. /\ a \in Nat /\ a <= Len(Chain) /\ sk \in Nat /\ Stretch(s.block_queue, a)
      /\ Stamped(s.block_queue, s.convergenza)
      /\ Numbered(s.seq_num, s.phase, L, a, sk)
  BY <1>1, ChainType DEF Follows
<1>4. s.block_queue \in Seq(Block) /\ s.seq_num \in Nat
  BY <1>1 DEF State, SeqNum
<1>5. L \in Nat \ {0} /\ b \in Block /\ b \in s.convergenza
  BY <1>3, <1>4, QueueFront
<1> HIDE DEF L, b
<1>6. s.seq_num < MaxSeq /\ s.seq_num + 1 \in SeqNum
  <2>1. s.seq_num + sk + L = a + 1
    BY <1>2, <1>3 DEF Numbered
  <2>2. Len(Chain) \in Nat /\ Len(Chain) < MaxSeq /\ MaxSeq \in Nat
    BY ChainType, SeqAssumption
  <2>3. s.seq_num <= a
    BY <1>3, <1>4, <1>5, <2>1
  <2> QED
    BY <1>3, <1>4, <2>2, <2>3 DEF SeqNum
<1>7. /\ NodeInv(t, 0) /\ t.phase = "Listening" /\ t.id = s.id /\ t.seq_num = s.seq_num + 1
      /\ t.block_queue = s.block_queue /\ t.convergenza = s.convergenza
  BY <1>1, <1>2, <1>5, <1>6, BlockNewEffect DEF b
<1>8. PICK sample \in select_node_sample(s, k) :
          t = switch_phase(prepare_and_forward_peer_requests(opened(s, b), sample))
  BY DEF handle_block_new, b
<1>9. /\ t.member_ids = s.member_ids /\ t.order = s.order /\ t.waiting_response_map = sample
      /\ t.response_buffer = Zeros
      /\ t.decision_map = [s.decision_map EXCEPT ![s.seq_num + 1] = "OK"]
  BY <1>1, <1>2, <1>8
  DEF switch_phase, prepare_and_forward_peer_requests, add_to_waiting_set, opened, State
<1>10. InNetwork(t)
  BY <1>1, <1>8, <1>9, SampleInNetwork DEF InNetwork
<1>11. Numbered(t.seq_num, t.phase, L, a, sk)
  <2>1. s.seq_num + sk + L = a + 1 /\ sk + L <= a
    BY <1>2, <1>3 DEF Numbered
  <2>2. (s.seq_num + 1) + sk + L = a + 2
    <3>1. s.seq_num \in Nat
      BY <1>4
    <3> QED
      BY <1>3, <1>5, <2>1, <3>1
  <2>3. t.seq_num = s.seq_num + 1 /\ t.phase = "Listening"
    BY <1>7
  <2> QED
    BY <2>1, <2>2, <2>3 DEF Numbered
<1>12. Follows(t, a, sk)
  BY <1>1, <1>3, <1>7, <1>11 DEF Follows, L
<1>13. Fresh(t, {}, 0)
  BY <1>9, FS_EmptySet, ThresholdAssumption DEF Fresh, Zeros, Color
<1> QED
  BY <1>1, <1>6, <1>7, <1>9, <1>10, <1>12, <1>13 DEF PeerInv

\* Handlers that leave the blocks alone leave the place in the chain alone.
LEMMA SamePlace ==
    ASSUME NEW s, NEW t, NEW a, NEW sk, Follows(s, a, sk), SameBlocks(s, t),
           t.block_queue = s.block_queue, t.phase = s.phase
    PROVE  Follows(t, a, sk)
BY DEF Follows, SameBlocks

\* A vote that does not complete the round is counted once: its sender is a new voter
\* or one that was awaited again.
LEMMA VoteKeeps ==
    ASSUME NEW n, NEW s, NEW a, NEW sk, NEW v, NEW r, PeerInv(n, s, a, sk, v, r),
           NEW p \in Node, NEW vote \in Color, awaited(s, p),
           ~ round_complete(counted(s, p, vote))
    PROVE  PeerInv(n, counted(s, p, vote), a, sk, v \cup {p}, r)
<1> DEFINE t == counted(s, p, vote)
           W == s.waiting_response_map
<1>1. /\ NodeInv(s, 0) /\ s.id = n /\ InNetwork(s) /\ Follows(s, a, sk) /\ Fresh(s, v, r)
      /\ s \in State /\ p \in Peer
  BY NodesArePeers DEF PeerInv, NodeInv
<1>2. /\ NodeInv(t, 0) /\ t.phase = "Listening" /\ SameBlocks(s, t)
      /\ t.block_queue = s.block_queue
  BY <1>1, VoteEffect
<1>3. s.phase = "Listening" /\ p \in W
  BY DEF awaited
<1>4. /\ t.member_ids = s.member_ids /\ t.waiting_response_map = W \ {p}
      /\ t.response_buffer = votes_with(s, vote)
  BY <1>1 DEF counted, State
<1>5. /\ s.response_buffer[0] \in Nat /\ s.response_buffer[1] \in Nat
      /\ t.response_buffer[0] + t.response_buffer[1]
             = s.response_buffer[0] + s.response_buffer[1] + 1
  <2>1. s.response_buffer \in [Color -> Nat]
    BY <1>1 DEF State
  <2>2. s.response_buffer[0] \in Nat /\ s.response_buffer[1] \in Nat
    BY <2>1 DEF Color
  <2>3. \A i \in Color : t.response_buffer[i] =
            IF i = vote THEN s.response_buffer[i] + 1 ELSE s.response_buffer[i]
    BY <1>4, <2>1 DEF votes_with
  <2>4. vote = 0 \/ vote = 1
    BY DEF Color
  <2> QED
    BY <2>2, <2>3, <2>4 DEF Color
<1> HIDE DEF t
<1>6. InNetwork(t)
  BY <1>1, <1>4 DEF InNetwork
<1>7. Follows(t, a, sk)
  BY <1>1, <1>2, <1>3, SamePlace
<1>8. /\ IsFiniteSet(v) /\ IsFiniteSet(W \cap v)
      /\ Cardinality(v) \in Nat /\ Cardinality(W \cap v) \in Nat
  <2>1. IsFiniteSet(v)
    BY <1>1, NodesArePeers, FS_Subset DEF Fresh
  <2>2. IsFiniteSet(W \cap v)
    BY <2>1, FS_Subset
  <2> QED
    BY <2>1, <2>2, FS_CardinalityType
<1>9. /\ Cardinality((W \ {p}) \cap (v \cup {p})) \in Nat
      /\ Cardinality(v \cup {p}) \in Nat
      /\ 1 + Cardinality((W \ {p}) \cap (v \cup {p})) + Cardinality(v)
             = Cardinality(W \cap v) + Cardinality(v \cup {p})
  <2> DEFINE B == W \cap v
  <2>1. (W \ {p}) \cap (v \cup {p}) = B \ {p}
    OBVIOUS
  <2>2. B \ {p} = B \/ p \in v
    OBVIOUS
  <2>3. p \in v => v \cup {p} = v /\ p \in B
    BY <1>3
  <2> HIDE DEF B
  <2>4. IsFiniteSet(B) /\ IsFiniteSet(v) /\ Cardinality(B) \in Nat /\ Cardinality(v) \in Nat
    BY <1>8 DEF B
  <2>5. /\ Cardinality(B \ {p}) \in Nat
        /\ Cardinality(B \ {p}) = IF p \in B THEN Cardinality(B) - 1 ELSE Cardinality(B)
    BY <2>4, FS_RemoveElement, FS_CardinalityType
  <2>6. /\ Cardinality(v \cup {p}) \in Nat
        /\ Cardinality(v \cup {p}) = IF p \in v THEN Cardinality(v) ELSE Cardinality(v) + 1
    BY <2>4, FS_AddElement, FS_CardinalityType
  <2>7. 1 + Cardinality(B \ {p}) + Cardinality(v) = Cardinality(B) + Cardinality(v \cup {p})
    <3>1. CASE p \in v
      BY <2>3, <2>4, <2>5, <2>6, <3>1
    <3>2. CASE p \notin v
      <4>1. Cardinality(B \ {p}) = Cardinality(B)
        BY <2>2, <3>2
      <4> QED
        BY <2>4, <2>6, <3>2, <4>1
    <3> QED
      BY <3>1, <3>2
  <2> QED
    BY <2>1, <2>5, <2>6, <2>7 DEF B
<1> HIDE DEF W
<1>10. Fresh(t, v \cup {p}, r)
  <2>1. s.response_buffer[0] + s.response_buffer[1] + Cardinality(W \cap v)
            <= Cardinality(v) + r /\ r \in 0..k /\ k \in Nat
    BY <1>1, <1>3, ThresholdAssumption DEF Fresh, W
  <2>2. t.response_buffer[0] + t.response_buffer[1]
            + Cardinality((W \ {p}) \cap (v \cup {p})) <= Cardinality(v \cup {p}) + r
    BY <1>5, <1>8, <1>9, <2>1
  <2>3. v \cup {p} \subseteq Node
    BY <1>1 DEF Fresh
  <2> QED
    BY <1>4, <2>1, <2>2, <2>3 DEF Fresh
<1> QED
  BY <1>1, <1>2, <1>6, <1>7, <1>10 DEF PeerInv, t, SameBlocks

\* The vote that completes a round starts the next one or decides the front block, which
\* is a block of the chain.
LEMMA CompletionKeeps ==
    ASSUME NEW n, NEW s, NEW a, NEW sk, NEW v, NEW r, PeerInv(n, s, a, sk, v, r),
           NEW p \in Node, NEW vote \in Color, awaited(s, p),
           round_complete(counted(s, p, vote)),
           NEW t \in on_values_ready(counted(s, p, vote))
    PROVE  /\ PeerInv(n, t, a, sk, {}, 0)
           /\ t.member_ids = s.member_ids /\ t.order = s.order /\ t.seq_num = s.seq_num
           /\ t.decision_map = count_round(counted(s, p, vote)).decision_map
           /\ t.phase = "Listening" => t.response_buffer = Zeros
           /\ t.phase # "Listening" =>
                 /\ \E i \in 1..Len(Chain) : t.decision_block = Chain[i]
                 /\ current_color(t) \in {"OK", "KO"}
<1> DEFINE c == counted(s, p, vote)
           d == count_round(c)
           L == Len(s.block_queue)
<1>1. /\ NodeInv(s, 0) /\ s.id = n /\ InNetwork(s) /\ Follows(s, a, sk)
      /\ s \in State /\ Deciding(s) /\ p \in Peer
  BY NodesArePeers DEF PeerInv, NodeInv
<1>2. /\ c \in State /\ Ordered(c) /\ Deciding(c) /\ c.phase = "Listening"
      /\ c.id = s.id /\ c.seq_num = s.seq_num /\ c.block_queue = s.block_queue
      /\ c.convergenza = s.convergenza /\ c.decision_block = s.decision_block
  BY <1>1, CountedEffect
<1>3. c.waiting_response_map = {}
  BY <1>1, CompleteEffect
<1>4. c.member_ids = s.member_ids /\ c.order = s.order
  BY <1>1 DEF counted, State
<1>5. t \in on_values_ready(c)
  OBVIOUS
<1> HIDE DEF c
<1>6. current_color(c) \in {"OK", "KO"} /\ s.block_queue # <<>> /\ s.phase = "Listening"
      /\ Head(s.block_queue) = s.decision_block
  BY <1>2 DEF Deciding, awaited
<1>7. /\ d \in State /\ d.phase = "Listening" /\ d.member_ids = s.member_ids
      /\ d.order = s.order /\ d.waiting_response_map = {}
  BY <1>2, <1>3, <1>4, <1>6, CountRoundEffect
<1>8. /\ a \in Nat /\ a <= Len(Chain) /\ sk \in Nat /\ Stretch(s.block_queue, a)
      /\ Stamped(s.block_queue, s.convergenza)
      /\ Numbered(s.seq_num, s.phase, L, a, sk)
  BY <1>1, ChainType DEF Follows
<1>9. s.block_queue \in Seq(Block) /\ s.seq_num \in Nat
  BY <1>1 DEF State, SeqNum
<1> HIDE DEF d
<1>10. CASE ~ round_decides(c)
  <2>1. /\ NodeInv(t, 0) /\ t.phase = "Listening" /\ SameBlocks(c, t)
        /\ t.block_queue = c.block_queue
    BY <1>2, <1>3, <1>5, <1>10, NextRoundEffect
  <2>2. PICK sample \in select_node_sample(d, k) :
            t = prepare_and_forward_peer_requests(d, sample)
    BY <1>5, <1>10 DEF on_values_ready, d
  <2>3. /\ t.member_ids = s.member_ids /\ t.order = s.order /\ t.waiting_response_map = sample
        /\ t.response_buffer = Zeros /\ t.decision_map = d.decision_map
    BY <1>7, <2>2 DEF prepare_and_forward_peer_requests, add_to_waiting_set, State
  <2>4. InNetwork(t)
    BY <1>1, <1>7, <2>2, <2>3, SampleInNetwork DEF InNetwork
  <2>5. Follows(t, a, sk) /\ t.seq_num = s.seq_num /\ t.id = n
    BY <1>1, <1>2, <1>6, <2>1, SamePlace DEF SameBlocks
  <2>6. Fresh(t, {}, 0)
    BY <2>3, FS_EmptySet, ThresholdAssumption DEF Fresh, Zeros, Color
  <2> QED
    BY <2>1, <2>3, <2>4, <2>5, <2>6 DEF PeerInv, c, d
<1>11. CASE round_decides(c)
  <2>1. /\ NodeInv(t, 0) /\ t.phase = "Idle" /\ SameBlocks(c, t)
        /\ t.block_queue = Tail(c.block_queue) /\ current_color(t) \in {"OK", "KO"}
    BY <1>2, <1>3, <1>5, <1>11, DecisionEffect
  <2>2. t = handle_decision(switch_phase(d))
    BY <1>5, <1>11 DEF on_values_ready, d
  <2>3. /\ t.member_ids = s.member_ids /\ t.order = s.order /\ t.waiting_response_map = {}
        /\ t.decision_map = d.decision_map
    BY <1>7, <2>2 DEF handle_decision, switch_phase, State
  <2>4. InNetwork(t)
    BY <1>1, <2>3 DEF InNetwork
  <2>5. /\ L \in Nat \ {0} /\ Head(s.block_queue) = Chain[a - L + 1]
        /\ Stretch(Tail(s.block_queue), a) /\ Stamped(Tail(s.block_queue), s.convergenza)
        /\ Len(Tail(s.block_queue)) = L - 1
    BY <1>6, <1>8, <1>9, QueueFront
  <2> HIDE DEF L
  <2>6. s.seq_num + sk + L = a + 2 /\ sk + L <= a
    BY <1>6, <1>8 DEF Numbered
  <2>7. /\ s.seq_num + sk + (L - 1) = a + 1 /\ sk + (L - 1) <= a
        /\ a - L + 1 \in 1..Len(Chain)
    <3> DEFINE q == s.seq_num
               C == Len(Chain)
    <3>1. /\ q \in Nat /\ C \in Nat /\ a \in Nat /\ a <= C /\ sk \in Nat /\ L \in Nat \ {0}
          /\ q + sk + L = a + 2 /\ sk + L <= a
      BY <1>8, <1>9, <2>5, <2>6, ChainType
    <3> HIDE DEF q, C
    <3>2. q + sk + (L - 1) = a + 1 /\ sk + (L - 1) <= a /\ a - L + 1 \in 1..C
      BY <3>1
    <3> QED
      BY <3>2 DEF q, C
  <2>8. Numbered(t.seq_num, t.phase, Len(t.block_queue), a, sk)
    <3>1. t.seq_num = s.seq_num /\ t.phase = "Idle" /\ Len(t.block_queue) = L - 1
      BY <1>2, <2>1, <2>5 DEF SameBlocks
    <3> QED
      BY <2>7, <3>1 DEF Numbered
  <2>9. Follows(t, a, sk)
    BY <1>1, <1>2, <1>8, <2>1, <2>5, <2>8 DEF Follows, SameBlocks
  <2>10. Fresh(t, {}, 0)
    BY <2>1, ThresholdAssumption DEF Fresh
  <2>11. \E i \in 1..Len(Chain) : t.decision_block = Chain[i]
    BY <1>2, <1>6, <2>1, <2>5, <2>7 DEF SameBlocks
  <2> QED
    BY <1>1, <1>2, <2>1, <2>3, <2>4, <2>9, <2>10, <2>11 DEF PeerInv, SameBlocks, c, d
<1> QED
  BY <1>10, <1>11

\* Peers are given up and as many others asked in their place.
LEMMA ReplacementKeeps ==
    ASSUME NEW n, NEW s, NEW a, NEW sk, NEW v, NEW r, PeerInv(n, s, a, sk, v, r),
           NEW gone \in SUBSET s.waiting_response_map, NEW x \in State,
           x.waiting_response_map = s.waiting_response_map \ gone, Ordered(x),
           x.member_ids = s.member_ids,
           NEW m \in Nat, NEW E \in extra_node_sets(x, m), NEW t, NodeInv(t, 0),
           t.phase = s.phase, SameBlocks(s, t), t.block_queue = s.block_queue,
           t.member_ids = s.member_ids, t.response_buffer = s.response_buffer,
           t.waiting_response_map = x.waiting_response_map \cup E
    PROVE  PeerInv(n, t, a, sk, v, Min2(k, r + m))
<1> DEFINE W == s.waiting_response_map
           T == t.waiting_response_map
<1>1. /\ s.id = n /\ InNetwork(s) /\ Follows(s, a, sk) /\ Fresh(s, v, r) /\ t \in State
      /\ s \in State /\ Accounted(t, 0)
  BY DEF PeerInv, NodeInv
<1>2. E \in select_node_sample(x, m) /\ E \subseteq Node
  BY <1>1, SampleInNetwork DEF extra_node_sets, InNetwork
<1>3. IsFiniteSet(E) /\ Cardinality(E) = m
  BY <1>2, SampleProperties
<1>4. InNetwork(t)
  BY <1>1, <1>2 DEF InNetwork
<1>5. Follows(t, a, sk)
  BY <1>1, SamePlace
<1>6. /\ k \in Nat /\ v \subseteq Node /\ r \in 0..k
      /\ s.response_buffer[0] \in Nat /\ s.response_buffer[1] \in Nat
  <2>1. k \in Nat /\ v \subseteq Node /\ r \in 0..k
    BY <1>1, ThresholdAssumption DEF Fresh
  <2>2. s.response_buffer \in [Color -> Nat]
    BY <1>1 DEF State
  <2> QED
    BY <2>1, <2>2 DEF Color
<1>7. /\ IsFiniteSet(v) /\ IsFiniteSet(W) /\ IsFiniteSet(T) /\ T = (W \ gone) \cup E
  <2>1. IsFiniteSet(v)
    BY <1>6, NodesArePeers, FS_Subset
  <2>2. IsFiniteSet(W) /\ IsFiniteSet(T)
    BY <1>1, WaitingFinite
  <2> QED
    BY <2>1, <2>2
<1> HIDE DEF W, T
<1>8. /\ Cardinality(v) \in Nat /\ Cardinality(W \cap v) \in Nat /\ Cardinality(T \cap v) \in Nat
      /\ Cardinality(T) \in Nat
      /\ Cardinality(T \cap v) <= Cardinality(T)
      /\ Cardinality(T \cap v) <= Cardinality(W \cap v) + m
  <2> DEFINE B == W \cap v
             C == T \cap v
  <2>1. C \subseteq T /\ C \subseteq B \cup E /\ B \subseteq W
    BY <1>7
  <2>2. IsFiniteSet(B)
    BY <1>7, <2>1, FS_Subset
  <2> HIDE DEF B, C
  <2>3. /\ IsFiniteSet(B \cup E)
        /\ Cardinality(B \cup E) = Cardinality(B) + Cardinality(E) - Cardinality(B \cap E)
    BY <1>3, <2>2, FS_Union
  <2>4. Cardinality(B \cap E) \in Nat /\ Cardinality(B) \in Nat
    BY <1>3, <2>2, FS_Intersection, FS_CardinalityType
  <2>5. IsFiniteSet(C) /\ Cardinality(C) <= Cardinality(T) /\ Cardinality(C) <= Cardinality(B \cup E)
    BY <1>7, <2>1, <2>3, FS_Subset
  <2>6. Cardinality(C) \in Nat /\ Cardinality(T) \in Nat /\ Cardinality(v) \in Nat
    BY <1>7, <2>5, FS_CardinalityType
  <2>7. Cardinality(C) <= Cardinality(B) + m
    BY <1>3, <2>3, <2>4, <2>5, <2>6
  <2> QED
    BY <2>4, <2>5, <2>6, <2>7 DEF B, C
<1>9. Min2(k, r + m) \in 0..k
  BY <1>6 DEF Min2
<1>10. t.phase = "Listening" =>
           t.response_buffer[0] + t.response_buffer[1] + Cardinality(T \cap v)
               <= Cardinality(v) + Min2(k, r + m)
  <2> SUFFICES ASSUME t.phase = "Listening"
               PROVE  s.response_buffer[0] + s.response_buffer[1] + Cardinality(T \cap v)
                          <= Cardinality(v) + Min2(k, r + m)
    OBVIOUS
  <2>1. s.response_buffer[0] + s.response_buffer[1] + Cardinality(W \cap v) <= Cardinality(v) + r
    BY <1>1 DEF Fresh, W
  <2>2. Cardinality(T) + s.response_buffer[0] + s.response_buffer[1] + 0 = k
    BY <1>1 DEF Accounted, T
  <2>3. CASE k < r + m
    <3>1. Min2(k, r + m) = k
      BY <2>3 DEF Min2
    <3> QED
      BY <1>6, <1>8, <2>2, <3>1
  <2>4. CASE ~ (k < r + m)
    <3>1. Min2(k, r + m) = r + m
      BY <2>4 DEF Min2
    <3> QED
      BY <1>6, <1>8, <2>1, <3>1
  <2> QED
    BY <2>3, <2>4
<1>11. Fresh(t, v, Min2(k, r + m))
  BY <1>6, <1>9, <1>10 DEF Fresh, T
<1> QED
  BY <1>1, <1>4, <1>5, <1>11 DEF PeerInv, SameBlocks

\* The peers a node knows, its votes and its colours stay as they are.
SameTally(s, t) ==
    /\ t.member_ids = s.member_ids /\ t.order = s.order
    /\ t.phase = s.phase /\ t.seq_num = s.seq_num
    /\ t.decision_map = s.decision_map /\ t.response_buffer = s.response_buffer

LEMMA UnavailableKeepsPeer ==
    ASSUME NEW n, NEW s, NEW a, NEW sk, NEW v, NEW r, PeerInv(n, s, a, sk, v, r),
           NEW p \in Node, awaited(s, p), NEW t \in on_unavailable(s, p)
    PROVE  PeerInv(n, t, a, sk, v, Min2(k, r + 1)) /\ SameTally(s, t)
<1> DEFINE x == answered_by(s, p)
<1>1. NodeInv(s, 0) /\ s \in State /\ p \in Peer
  BY NodesArePeers DEF PeerInv, NodeInv
<1>2. /\ NodeInv(t, 0) /\ t.phase = s.phase /\ SameBlocks(s, t)
      /\ t.block_queue = s.block_queue /\ t.decision_map = s.decision_map
  BY <1>1, UnavailableEffect
<1>3. PICK E \in extra_node_sets(x, 1) : t = add_to_waiting_set(x, E)
  BY DEF on_unavailable
<1>4. x \in State /\ Ordered(x)
  BY <1>1, AnsweredEffect DEF NodeInv
<1>5. /\ x.waiting_response_map = s.waiting_response_map \ {p}
      /\ x.member_ids = s.member_ids /\ x.order = s.order
      /\ x.response_buffer = s.response_buffer
  BY <1>1 DEF answered_by, State
<1> HIDE DEF x
<1>6. /\ t.waiting_response_map = x.waiting_response_map \cup E
      /\ t.member_ids = x.member_ids /\ t.order = x.order
      /\ t.response_buffer = x.response_buffer
  BY <1>3, <1>4 DEF add_to_waiting_set, State
<1>7. {p} \in SUBSET s.waiting_response_map /\ 1 \in Nat
  BY DEF awaited
<1>8. PeerInv(n, t, a, sk, v, Min2(k, r + 1))
  BY <1>2, <1>3, <1>4, <1>5, <1>6, <1>7, ReplacementKeeps
<1> QED
  BY <1>2, <1>5, <1>6, <1>8 DEF SameTally, SameBlocks

LEMMA UnresponsiveKeepsPeer ==
    ASSUME NEW n, NEW s, NEW a, NEW sk, NEW v, NEW r, PeerInv(n, s, a, sk, v, r),
           NEW expired \in SUBSET s.waiting_response_map,
           NEW t \in handle_unresponsive_peers(s, expired)
    PROVE  PeerInv(n, t, a, sk, v, Min2(k, r + Cardinality(expired))) /\ SameTally(s, t)
<1> DEFINE x == [s EXCEPT !.waiting_response_map = @ \ expired]
<1>1. NodeInv(s, 0) /\ s \in State /\ Ordered(s)
  BY DEF PeerInv, NodeInv
<1>2. /\ NodeInv(t, 0) /\ t.phase = s.phase /\ SameBlocks(s, t)
      /\ t.block_queue = s.block_queue /\ t.decision_map = s.decision_map
  BY <1>1, UnresponsiveEffect
<1>3. PICK E \in extra_node_sets(x, Cardinality(expired)) : t = add_to_waiting_set(x, E)
  BY DEF handle_unresponsive_peers
<1>4. /\ x \in State /\ x.waiting_response_map = s.waiting_response_map \ expired
      /\ x.member_ids = s.member_ids /\ x.order = s.order /\ x.id = s.id
      /\ x.response_buffer = s.response_buffer
  BY <1>1 DEF State
<1> HIDE DEF x
<1>5. Ordered(x)
  BY <1>1, <1>4 DEF Ordered
<1>6. /\ t.waiting_response_map = x.waiting_response_map \cup E
      /\ t.member_ids = x.member_ids /\ t.order = x.order
      /\ t.response_buffer = x.response_buffer
  BY <1>3, <1>4 DEF add_to_waiting_set, State
<1>7. Cardinality(expired) \in Nat
  BY <1>1, WaitingFinite, FS_Subset, FS_CardinalityType
<1>8. PeerInv(n, t, a, sk, v, Min2(k, r + Cardinality(expired)))
  BY <1>2, <1>3, <1>4, <1>5, <1>6, <1>7, ReplacementKeeps
<1> QED
  BY <1>2, <1>4, <1>6, <1>8 DEF SameTally, SameBlocks

\* A member list is replaced by another list of nodes.
LEMMA MembersChange ==
    ASSUME NEW n, NEW s, NEW a, NEW sk, NEW v, NEW r, PeerInv(n, s, a, sk, v, r),
           NEW members \in Seq(Node), NEW t, t = with_members(s, members), NodeInv(t, 0),
           SameBlocks(s, t), t.block_queue = s.block_queue, t.decision_map = s.decision_map
    PROVE  /\ PeerInv(n, t, a, sk, v, r) /\ t.phase = s.phase /\ t.seq_num = s.seq_num
           /\ t.decision_map = s.decision_map /\ t.response_buffer = s.response_buffer
<1>1. /\ s.id = n /\ InNetwork(s) /\ Follows(s, a, sk) /\ Fresh(s, v, r) /\ s \in State
  BY DEF PeerInv, NodeInv
<1>2. /\ t.phase = s.phase /\ t.member_ids = members
      /\ t.waiting_response_map = s.waiting_response_map
      /\ t.response_buffer = s.response_buffer
  BY <1>1 DEF with_members, State
<1>3. InNetwork(t) /\ Fresh(t, v, r)
  BY <1>1, <1>2 DEF InNetwork, Fresh
<1>4. Follows(t, a, sk)
  BY <1>1, <1>2, SamePlace
<1> QED
  BY <1>1, <1>2, <1>3, <1>4 DEF PeerInv, SameBlocks

LEMMA ConnectedKeepsPeer ==
    ASSUME NEW n, NEW s, NEW a, NEW sk, NEW v, NEW r, PeerInv(n, s, a, sk, v, r),
           NEW p \in Node, ~ IsMember(s.member_ids, p)
    PROVE  LET t == on_peer_connected(s, p)
           IN  /\ PeerInv(n, t, a, sk, v, r) /\ t.phase = s.phase /\ t.seq_num = s.seq_num
               /\ t.decision_map = s.decision_map /\ t.response_buffer = s.response_buffer
<1> DEFINE t == on_peer_connected(s, p)
           members == Append(s.member_ids, p)
<1>1. NodeInv(s, 0) /\ p \in Peer /\ s.member_ids \in Seq(Node)
  BY NodesArePeers DEF PeerInv, InNetwork
<1>2. /\ NodeInv(t, 0) /\ SameBlocks(s, t) /\ t.block_queue = s.block_queue
      /\ t.decision_map = s.decision_map
  BY <1>1, ConnectedEffect
<1>3. members \in Seq(Node)
  BY <1>1
<1>4. t = with_members(s, members)
  BY DEF on_peer_connected
<1> HIDE DEF t, members
<1> QED
  BY <1>2, <1>3, <1>4, MembersChange DEF t

LEMMA DisconnectedKeepsPeer ==
    ASSUME NEW n, NEW s, NEW a, NEW sk, NEW v, NEW r, PeerInv(n, s, a, sk, v, r),
           NEW p \in Node, p # n, IsMember(s.member_ids, p)
    PROVE  LET t == on_peer_disconnected(s, p)
           IN  /\ PeerInv(n, t, a, sk, v, r) /\ t.phase = s.phase /\ t.seq_num = s.seq_num
               /\ t.decision_map = s.decision_map /\ t.response_buffer = s.response_buffer
<1> DEFINE t == on_peer_disconnected(s, p)
           i == OrderIndex(s.member_ids, p) + 1
           members == RemoveAt(s.member_ids, i)
<1>1. /\ NodeInv(s, 0) /\ p \in Peer /\ p # s.id /\ s.member_ids \in Seq(Node)
      /\ s.member_ids \in Seq(Peer) /\ Distinct(s.member_ids)
  BY NodesArePeers DEF PeerInv, InNetwork, NodeInv, State, Ordered, Distinct
<1>2. /\ NodeInv(t, 0) /\ SameBlocks(s, t) /\ t.block_queue = s.block_queue
      /\ t.decision_map = s.decision_map
  BY <1>1, DisconnectedEffect
<1>3. i \in 1..Len(s.member_ids)
  <2>1. OrderIndex(s.member_ids, p) \in 0..(Len(s.member_ids) - 1)
    BY <1>1, OrderIndexProperties
  <2>2. Len(s.member_ids) \in Nat
    BY <1>1
  <2> QED
    BY <2>1, <2>2
<1>4. t = with_members(s, members)
  BY DEF on_peer_disconnected
<1> HIDE DEF i
<1>5. members \in Seq(Node)
  BY <1>1, <1>3, RemoveAtProperties
<1> HIDE DEF t, members
<1> QED
  BY <1>2, <1>4, <1>5, MembersChange DEF t

\* A node that starts at the head of height h, while the validator goes on announcing
\* from height a.
LEMMA NewStateIsPeer ==
    ASSUME NEW n \in Node, NEW h \in 0..Len(Chain), NEW a \in h..Len(Chain)
    PROVE  PeerInv(n, NewState(n, Members, BlockAt(h), h), a, a - h, {}, 0)
<1> DEFINE t == NewState(n, Members, BlockAt(h), h)
           o == OrderIndex(Members, n)
<1>1. /\ Members \in Seq(Peer) /\ Members \in Seq(Node) /\ Distinct(Members)
      /\ IsMember(Members, n) /\ n \in Peer /\ Len(Members) \in Nat
  BY NetworkAssumption, NodesArePeers DEF Distinct
<1>2. o \in 0..(Len(Members) - 1) /\ Members[o + 1] = n
  BY <1>1, OrderIndexProperties
<1>3. o \in Nat /\ o < Len(Members)
  BY <1>1, <1>2
<1>4. BlockAt(h) \in BlockId
  BY ChainType DEF BlockAt, BlockId
<1>5. h + 1 \in SeqNum /\ 0 \in SeqNum /\ h \in Nat /\ a \in Nat /\ a - h \in Nat
  BY ChainType, SeqAssumption DEF SeqNum
<1> DEFINE D == [q \in SeqNum |-> IF q = 0 THEN "Undecided" ELSE "None"]
<1>6. D \in [SeqNum -> SnowballDecisionState \cup {"None"}]
  BY DEF SnowballDecisionState
<1>7. /\ Zeros \in [Color -> Nat] /\ "Undecided" \in SnowballDecisionState
      /\ NoBlock \in BlockId /\ "Idle" \in SnowballPhase /\ <<>> \in Seq(Block)
  BY DEF Zeros, Color, SnowballDecisionState, BlockId, SnowballPhase
<1>8. /\ t.id = n /\ t.order = o /\ t.seq_num = h + 1 /\ t.waiting_response_map = {}
      /\ t.phase = "Idle" /\ t.member_ids = Members /\ t.block_queue = <<>>
      /\ t.convergenza = {}
  BY DEF NewState
<1>9. t \in State
  <2> HIDE DEF D, o
  <2>1. t = [ id |-> n, order |-> o, seq_num |-> h + 1, decision_map |-> D,
              last_color |-> "Undecided", confidence_counter |-> 0, response_buffer |-> Zeros,
              decision_array |-> Zeros, waiting_response_map |-> {},
              chain_head |-> BlockAt(h), decision_block |-> NoBlock, phase |-> "Idle",
              member_ids |-> Members, convergenza |-> {}, block_queue |-> <<>> ]
    BY DEF NewState, D, o
  <2> QED
    BY <1>1, <1>3, <1>4, <1>5, <1>6, <1>7, <2>1 DEF State
<1> HIDE DEF t, o
<1>10. Ordered(t) /\ Accounted(t, 0) /\ Deciding(t)
  BY <1>1, <1>2, <1>3, <1>8 DEF Ordered, Accounted, Deciding, Distinct
<1>11. InNetwork(t)
  BY <1>1, <1>8 DEF InNetwork
<1>12. Fresh(t, {}, 0)
  BY <1>8, ThresholdAssumption DEF Fresh
<1>13. Len(<<>>) = 0
  OBVIOUS
<1>14. Stretch(<<>>, a) /\ Stamped(<<>>, {})
  BY <1>13 DEF Stretch, Stamped
<1>15. Numbered(h + 1, "Idle", 0, a, a - h)
  BY <1>5 DEF Numbered
<1>16. Follows(t, a, a - h)
  BY <1>5, <1>8, <1>13, <1>14, <1>15, ChainType DEF Follows
<1> QED
  BY <1>8, <1>9, <1>10, <1>11, <1>12, <1>16 DEF PeerInv, NodeInv, t

----------------------------------------------------------------------------
\* Messages

MessageBag(bag) == \A x \in BagToSet(bag) : x \in Message /\ bag[x] \in Nat \ {0}

\* x is what a node in state s makes of the message m that it means to send.
Rendering(s, m, x) ==
    /\ x.type = m.type /\ x.from = m.from /\ x.to = m.to
    /\ s.order \notin faults.wrong_decision_idx => x.vote = m.vote
    /\ s.order \notin faults.spurious_idx => x.seq_num = m.seq_num

\* The test switches change the number, the vote and the copies of a message, and
\* nothing else.
LEMMA SentMessages ==
    ASSUME NEW s, NEW ms \in SUBSET Message, NEW sent \in send_peer_message(s, ms)
    PROVE  /\ MessageBag(sent)
           /\ \A x \in BagToSet(sent) : \E m \in ms : Rendering(s, m, x)
<1> DEFINE seqs(m) == IF s.order \in faults.spurious_idx THEN SeqNum ELSE {m.seq_num}
           vote(m) == IF s.order \in faults.wrong_decision_idx THEN 0 ELSE m.vote
           reps    == IF s.order \in faults.duplicate_idx THEN 2 ELSE 1
           payload(m, q) == [m EXCEPT !.seq_num = q, !.vote = vote(m)]
<1>1. CASE s.order \in faults.hang_idx
  <2>1. BagToSet(sent) = {}
    BY <1>1 DEF send_peer_message, EmptyBag, SetToBag, BagToSet
  <2> QED
    BY <2>1 DEF MessageBag
<1>2. CASE s.order \notin faults.hang_idx
  <2>1. PICK f \in {g \in [ms -> SeqNum] : \A m \in ms : g[m] \in seqs(m)} :
            sent = [x \in {payload(m, f[m]) : m \in ms} |-> reps]
    BY <1>2 DEF send_peer_message
  <2>2. \A m \in ms : f[m] \in SeqNum /\ f[m] \in seqs(m)
    BY <2>1
  <2>3. reps \in Nat \ {0}
    OBVIOUS
  <2>4. ASSUME NEW m \in ms
        PROVE  payload(m, f[m]) \in Message /\ Rendering(s, m, payload(m, f[m]))
    <3>1. m \in Message /\ f[m] \in SeqNum /\ vote(m) \in Color
      BY <2>2, <2>4 DEF Message, Color
    <3>2. /\ payload(m, f[m]).type = m.type /\ payload(m, f[m]).from = m.from
          /\ payload(m, f[m]).to = m.to /\ payload(m, f[m]).vote = vote(m)
          /\ payload(m, f[m]).seq_num = f[m] /\ payload(m, f[m]) \in Message
      BY <3>1 DEF Message
    <3> QED
      BY <2>2, <2>4, <3>2 DEF Rendering
  <2> HIDE DEF payload, reps
  <2>5. /\ BagToSet(sent) = {payload(m, f[m]) : m \in ms}
        /\ \A x \in BagToSet(sent) : sent[x] = reps
    BY <2>1 DEF BagToSet
  <2> QED
    BY <2>3, <2>4, <2>5 DEF MessageBag
<1> QED
  BY <1>1, <1>2

\* Taking a message out of the bag, and putting others in.
LEMMA RestOfMessages ==
    ASSUME MessageBag(msgs), NEW m
    PROVE  MessageBag(Rest(m)) /\ BagToSet(Rest(m)) \subseteq BagToSet(msgs)
BY DEF MessageBag, Rest, BagToSet, SetToBag, (-)

LEMMA MoreMessages ==
    ASSUME NEW rest, MessageBag(rest), NEW sent, MessageBag(sent)
    PROVE  /\ MessageBag(rest (+) sent)
           /\ BagToSet(rest (+) sent) = BagToSet(rest) \cup BagToSet(sent)
BY DEF MessageBag, BagToSet, (+)

LEMMA LeaveEffect ==
    ASSUME NEW n, NEW t, NEW ms \in SUBSET Message, NEW rest, MessageBag(rest),
           Leave(n, t, ms, rest)
    PROVE  /\ node' = [node EXCEPT ![n] = t] /\ MessageBag(msgs')
           /\ \A x \in BagToSet(msgs') :
                 x \in BagToSet(rest) \/ \E m \in ms : Rendering(t, m, x)
<1>1. PICK sent \in send_peer_message(t, ms) : msgs' = rest (+) sent
  BY DEF Leave
<1>2. node' = [node EXCEPT ![n] = t]
  BY DEF Leave
<1>3. MessageBag(sent) /\ \A x \in BagToSet(sent) : \E m \in ms : Rendering(t, m, x)
  BY SentMessages
<1>4. MessageBag(rest (+) sent) /\ BagToSet(rest (+) sent) = BagToSet(rest) \cup BagToSet(sent)
  BY <1>3, MoreMessages
<1> QED
  BY <1>1, <1>2, <1>3, <1>4

\* What the handlers send.
LEMMA RequestsAreMessages ==
    ASSUME NEW n \in Node, NEW kept, NEW t \in State, t.waiting_response_map \subseteq Node
    PROVE  /\ Requests(n, kept, t) \in SUBSET Message
           /\ \A m \in Requests(n, kept, t) :
                 m.type = "request" /\ m.from = n /\ m.seq_num = t.seq_num
<1>1. t.seq_num \in SeqNum /\ 0 \in Color
  BY DEF State, Color
<1> QED
  BY <1>1 DEF Requests, Request, Asked, Message

LEMMA RepliesAreMessages ==
    ASSUME NEW s \in State, NEW m \in Message
    PROVE  /\ Reply(s, m) \in SUBSET Message
           /\ \A x \in Reply(s, m) :
                 /\ x.type \in {"response", "unavailable"} /\ x.from = m.to /\ x.to = m.from
                 /\ x.type = "response" =>
                       s.decision_map[m.seq_num] # "None" /\ x.vote = vote_for(s, m.seq_num)
<1> DEFINE kind  == on_request(s, m.seq_num)
           reply == [type |-> kind, from |-> m.to, to |-> m.from,
                     seq_num |-> IF kind = "response" THEN s.seq_num ELSE m.seq_num,
                     vote |-> IF kind = "response" THEN vote_for(s, m.seq_num) ELSE 0]
<1>1. Reply(s, m) = IF kind = "nothing" THEN {} ELSE {reply}
  BY DEF Reply
<1>2. kind \in {"unavailable", "nothing", "response"}
  BY DEF on_request
<1>3. s.seq_num \in SeqNum /\ m.seq_num \in SeqNum /\ m.to \in Node /\ m.from \in Node
  BY DEF State, Message
<1>4. vote_for(s, m.seq_num) \in Color /\ 0 \in Color
  BY DEF vote_for, Color
<1>5. kind = "response" => s.decision_map[m.seq_num] # "None"
  BY DEF on_request
<1> HIDE DEF kind
<1>6. kind # "nothing" => reply \in Message
  BY <1>2, <1>3, <1>4 DEF Message
<1>7. /\ reply.type = kind /\ reply.from = m.to /\ reply.to = m.from
      /\ kind = "response" => reply.vote = vote_for(s, m.seq_num)
  OBVIOUS
<1> HIDE DEF reply
<1> QED
  BY <1>1, <1>2, <1>5, <1>6, <1>7

----------------------------------------------------------------------------
\* The network

Peers ==
    \A n \in Node : PeerInv(n, node[n], announced[n], skipped[n], voters[n], replaced[n])

\* A node never loses the connection to itself.
LinkInv ==
    /\ status \in [Node -> {"up", "down", "spinning"}]
    /\ broken \in [Node -> SUBSET Node] /\ \A n \in Node : n \notin broken[n]
    /\ crashed \subseteq Node

ChainInv ==
    /\ announced \in [Node -> 0..Len(Chain)] /\ head \in [Node -> 0..Len(Chain)]
    /\ committing \in [Node -> Seq(DOMAIN Chain)]
    /\ skipped \in [Node -> 0..Len(Chain)]
    /\ decided \in [Node -> Seq([block : Block, color : {"OK", "KO"}])]

RoundInv ==
    voters \in [Node -> SUBSET Node] /\ replaced \in [Node -> 0..k] /\ repeated \in Nat

NetInv ==
    /\ faults \in Scenarios
    /\ node \in [Node -> State]
    /\ MessageBag(msgs)
    /\ LinkInv /\ ChainInv /\ RoundInv
    /\ Peers

\* One node moves; it is enough to look at that node.
LEMMA OneMoves ==
    ASSUME node \in [Node -> State], Peers, NEW n \in Node, NEW t,
           node' = [node EXCEPT ![n] = t],
           \A m \in Node \ {n} : /\ announced'[m] = announced[m] /\ skipped'[m] = skipped[m]
                                 /\ voters'[m] = voters[m] /\ replaced'[m] = replaced[m],
           PeerInv(n, t, announced'[n], skipped'[n], voters'[n], replaced'[n])
    PROVE  Peers' /\ node' \in [Node -> State] /\ node'[n] = t
<1>1. t \in State
  BY DEF PeerInv, NodeInv
<1>2. node' \in [Node -> State] /\ node'[n] = t /\ \A m \in Node \ {n} : node'[m] = node[m]
  BY <1>1
<1>3. ASSUME NEW m \in Node
      PROVE  PeerInv(m, node'[m], announced'[m], skipped'[m], voters'[m], replaced'[m])
  <2>1. CASE m = n
    BY <1>2, <2>1
  <2>2. CASE m # n
    BY <1>2, <2>2 DEF Peers
  <2> QED
    BY <2>1, <2>2
<1> QED
  BY <1>2, <1>3 DEF Peers

\* No node moves.
LEMMA NobodyMoves ==
    ASSUME Peers, UNCHANGED <<node, announced, skipped, voters, replaced>>
    PROVE  Peers'
BY DEF Peers

LEMMA SpinKeeps ==
    ASSUME NetInv, NEW n \in Node, Spin(n)
    PROVE  NetInv'
<1>1. UNCHANGED <<faults, node, msgs, broken, crashed, chainVars, roundVars>>
      /\ status' = [status EXCEPT ![n] = "spinning"]
  BY DEF Spin
<1>2. Peers'
  BY <1>1, NobodyMoves DEF NetInv, chainVars, roundVars
<1>3. LinkInv'
  BY <1>1 DEF NetInv, LinkInv
<1> QED
  BY <1>1, <1>2, <1>3 DEF NetInv, ChainInv, RoundInv, chainVars, roundVars, MessageBag

LEMMA AnnounceKeeps ==
    ASSUME NetInv, NEW n \in Node, Announce(n)
    PROVE  NetInv'
<1> DEFINE t == on_block_new(node[n], Chain[announced[n] + 1])
<1>1. /\ announced[n] < Len(Chain) /\ node' = [node EXCEPT ![n] = t]
      /\ announced' = [announced EXCEPT ![n] = @ + 1]
      /\ UNCHANGED <<faults, msgs, head, committing, skipped, decided, linkVars, roundVars>>
  <2>1. node' = [node EXCEPT ![n] = on_block_new(@, Chain[announced[n] + 1])]
    BY DEF Announce
  <2>2. node \in [Node -> State]
    BY DEF NetInv
  <2>3. node' = [node EXCEPT ![n] = t]
    BY <2>1, <2>2
  <2> QED
    BY <2>3 DEF Announce
<1>2. announced \in [Node -> 0..Len(Chain)] /\ node \in [Node -> State] /\ Peers
  BY DEF NetInv, ChainInv
<1>3. /\ announced' \in [Node -> 0..Len(Chain)] /\ announced'[n] = announced[n] + 1
      /\ \A m \in Node \ {n} : announced'[m] = announced[m]
  BY <1>1, <1>2, ChainType
<1>4. PeerInv(n, t, announced[n] + 1, skipped[n], voters[n], replaced[n])
  BY <1>1, <1>2, AnnouncedKeeps DEF Peers
<1> HIDE DEF t
<1>5. skipped' = skipped /\ voters' = voters /\ replaced' = replaced
  BY <1>1 DEF roundVars
<1>6. Peers' /\ node' \in [Node -> State]
  BY <1>1, <1>2, <1>3, <1>4, <1>5, OneMoves
<1> QED
  BY <1>1, <1>3, <1>6 DEF NetInv, LinkInv, ChainInv, RoundInv, linkVars, roundVars, MessageBag

LEMMA HandleQueueKeeps ==
    ASSUME NetInv, NEW n \in Node, handle_queue(n)
    PROVE  NetInv'
<1> DEFINE s == node[n]
<1>1. s.block_queue # <<>> /\ Head(s.block_queue) # s.decision_block
  BY DEF handle_queue
<1>2. CASE Spin(n)
  BY <1>2, SpinKeeps
<1>3. ASSUME NEW t \in handle_block_new(s, Head(s.block_queue)),
             Leave(n, t, Requests(n, {}, t), msgs),
             voters' = [voters EXCEPT ![n] = {}], replaced' = [replaced EXCEPT ![n] = 0],
             UNCHANGED <<faults, repeated, linkVars, chainVars>>
      PROVE  NetInv'
  <2>1. /\ node \in [Node -> State] /\ Peers /\ MessageBag(msgs) /\ RoundInv
        /\ PeerInv(n, s, announced[n], skipped[n], voters[n], replaced[n])
    BY DEF NetInv, Peers
  <2>2. PeerInv(n, t, announced[n], skipped[n], {}, 0)
    BY <1>1, <1>3, <2>1, OpeningKeeps
  <2>3. t \in State /\ t.waiting_response_map \subseteq Node
    BY <2>2 DEF PeerInv, NodeInv, InNetwork
  <2>4. node' = [node EXCEPT ![n] = t] /\ MessageBag(msgs')
    BY <1>3, <2>1, <2>3, RequestsAreMessages, LeaveEffect
  <2>5. /\ voters'[n] = {} /\ replaced'[n] = 0 /\ announced' = announced /\ skipped' = skipped
        /\ \A m \in Node \ {n} : voters'[m] = voters[m] /\ replaced'[m] = replaced[m]
        /\ voters' \in [Node -> SUBSET Node] /\ replaced' \in [Node -> 0..k]
    BY <1>3, <2>1, ThresholdAssumption DEF RoundInv, chainVars
  <2>6. Peers' /\ node' \in [Node -> State]
    BY <2>1, <2>2, <2>4, <2>5, OneMoves
  <2> QED
    BY <1>3, <2>4, <2>5, <2>6 DEF NetInv, LinkInv, ChainInv, RoundInv, linkVars, chainVars
<1> QED
  BY <1>2, <1>3 DEF handle_queue

LEMMA CommitKeeps ==
    ASSUME NetInv, NEW n \in Node, Commit(n)
    PROVE  NetInv'
<1>1. /\ committing[n] # <<>> /\ head' = [head EXCEPT ![n] = Head(committing[n])]
      /\ committing' = [committing EXCEPT ![n] = Tail(@)]
      /\ UNCHANGED <<faults, node, msgs, announced, skipped, decided, linkVars, roundVars>>
  BY DEF Commit
<1>2. /\ committing \in [Node -> Seq(DOMAIN Chain)] /\ head \in [Node -> 0..Len(Chain)]
  BY DEF NetInv, ChainInv
<1>3. Head(committing[n]) \in 0..Len(Chain) /\ Tail(committing[n]) \in Seq(DOMAIN Chain)
  <2> DEFINE c == committing[n]
  <2>1. c \in Seq(DOMAIN Chain) /\ c # <<>>
    BY <1>1, <1>2
  <2> HIDE DEF c
  <2>2. Head(c) \in DOMAIN Chain /\ Tail(c) \in Seq(DOMAIN Chain)
    BY <2>1
  <2> QED
    BY <2>2, ChainType DEF c
<1>4. head' \in [Node -> 0..Len(Chain)] /\ committing' \in [Node -> Seq(DOMAIN Chain)]
  BY <1>1, <1>2, <1>3
<1>5. Peers'
  BY <1>1, NobodyMoves DEF NetInv, roundVars
<1> QED
  BY <1>1, <1>4, <1>5 DEF NetInv, LinkInv, ChainInv, RoundInv, linkVars, roundVars, MessageBag

LEMMA CrashKeeps ==
    ASSUME NetInv, NEW n \in Node, Crash(n)
    PROVE  NetInv'
<1>1. /\ crashed' = crashed \cup {n} /\ status' = [status EXCEPT ![n] = "down"]
      /\ broken' = [m \in Node |-> IF m = n THEN broken[m] ELSE broken[m] \cup {n}]
      /\ UNCHANGED <<faults, node, msgs, chainVars, roundVars>>
  BY DEF Crash
<1>2. Peers'
  BY <1>1, NobodyMoves DEF NetInv, chainVars, roundVars
<1>3. LinkInv'
  BY <1>1 DEF NetInv, LinkInv
<1> QED
  BY <1>1, <1>2, <1>3 DEF NetInv, ChainInv, RoundInv, chainVars, roundVars, MessageBag

LEMMA RestartKeeps ==
    ASSUME NetInv, NEW n \in Node, Restart(n)
    PROVE  NetInv'
<1>1. PICK h \in head[n]..announced[n] :
          /\ announced' = [announced EXCEPT ![n] = h]
          /\ skipped' = [skipped EXCEPT ![n] = h - head[n]]
  BY DEF Restart
<1>2. /\ status' = [status EXCEPT ![n] = "up"]
      /\ node' = [node EXCEPT ![n] = NewStateAtHead(n)]
      /\ msgs' = [m \in {x \in BagToSet(msgs) : x.to # n} |-> msgs[m]]
      /\ broken' = [broken EXCEPT ![n] = {}]
      /\ voters' = [voters EXCEPT ![n] = {}] /\ replaced' = [replaced EXCEPT ![n] = 0]
      /\ UNCHANGED <<faults, head, committing, crashed, decided, repeated>>
  BY DEF Restart
<1>3. /\ node \in [Node -> State] /\ Peers /\ MessageBag(msgs)
      /\ announced \in [Node -> 0..Len(Chain)] /\ head \in [Node -> 0..Len(Chain)]
      /\ skipped \in [Node -> 0..Len(Chain)]
      /\ voters \in [Node -> SUBSET Node] /\ replaced \in [Node -> 0..k]
  BY DEF NetInv, ChainInv, RoundInv
<1>4. /\ head[n] \in 0..Len(Chain) /\ h \in head[n]..Len(Chain) /\ h \in 0..Len(Chain)
      /\ h - head[n] \in 0..Len(Chain)
  <2>1. head[n] \in 0..Len(Chain) /\ announced[n] \in 0..Len(Chain) /\ Len(Chain) \in Nat
    BY <1>3, ChainType
  <2> QED
    BY <1>1, <2>1
<1>5. PeerInv(n, NewStateAtHead(n), h, h - head[n], {}, 0)
  BY <1>4, NewStateIsPeer DEF NewStateAtHead
<1>6. /\ announced' \in [Node -> 0..Len(Chain)] /\ skipped' \in [Node -> 0..Len(Chain)]
      /\ voters' \in [Node -> SUBSET Node] /\ replaced' \in [Node -> 0..k]
      /\ announced'[n] = h /\ skipped'[n] = h - head[n] /\ voters'[n] = {} /\ replaced'[n] = 0
      /\ \A m \in Node \ {n} : /\ announced'[m] = announced[m] /\ skipped'[m] = skipped[m]
                               /\ voters'[m] = voters[m] /\ replaced'[m] = replaced[m]
  BY <1>1, <1>2, <1>3, <1>4, ThresholdAssumption
<1>7. Peers' /\ node' \in [Node -> State]
  <2> DEFINE t == NewStateAtHead(n)
  <2>1. PeerInv(n, t, announced'[n], skipped'[n], voters'[n], replaced'[n])
    BY <1>5, <1>6
  <2>2. node' = [node EXCEPT ![n] = t]
    BY <1>2
  <2> HIDE DEF t
  <2> QED
    BY <1>3, <1>6, <2>1, <2>2, OneMoves
<1>8. MessageBag(msgs')
  BY <1>2, <1>3 DEF MessageBag, BagToSet
<1>9. LinkInv'
  BY <1>2 DEF NetInv, LinkInv
<1> QED
  BY <1>2, <1>6, <1>7, <1>8, <1>9 DEF NetInv, ChainInv, RoundInv

LEMMA ReceiveRequestKeeps ==
    ASSUME NetInv, NEW m \in BagToSet(msgs), ReceiveRequest(m)
    PROVE  NetInv'
<1> DEFINE n == m.to
           s == node[n]
<1>1. /\ node \in [Node -> State] /\ Peers /\ MessageBag(msgs) /\ m \in Message
  BY DEF NetInv, MessageBag
<1>2. n \in Node /\ s \in State
  BY <1>1 DEF Message
<1>3. Leave(n, s, Reply(s, m), Rest(m)) /\ UNCHANGED <<faults, linkVars, chainVars, roundVars>>
  BY DEF ReceiveRequest
<1>4. node' = [node EXCEPT ![n] = s] /\ MessageBag(msgs')
  BY <1>1, <1>2, <1>3, RestOfMessages, RepliesAreMessages, LeaveEffect
<1>5. node' = node
  BY <1>1, <1>2, <1>4
<1>6. Peers'
  BY <1>1, <1>3, <1>5, NobodyMoves DEF chainVars, roundVars
<1> QED
  BY <1>3, <1>4, <1>5, <1>6
  DEF NetInv, LinkInv, ChainInv, RoundInv, linkVars, chainVars, roundVars

\* What a response does to the node it reaches, and to the history of its round.
LEMMA ResponseCases ==
    ASSUME NetInv, NEW m \in BagToSet(msgs), ReceiveResponse(m), ~ Spin(m.to)
    PROVE  LET n == m.to
               s == node[n]
               c == counted(s, m.from, m.vote)
           IN  \E t \in State :
                 /\ node' = [node EXCEPT ![n] = t]
                 /\ UNCHANGED <<faults, announced, head, skipped, linkVars>>
                 /\ \/ /\ ~ awaited(s, m.from) /\ t = s
                       /\ Leave(n, t, {}, Rest(m))
                       /\ UNCHANGED <<roundVars, decided, committing>>
                    \/ /\ awaited(s, m.from) /\ ~ round_complete(c) /\ t = c
                       /\ Leave(n, t, {}, Rest(m))
                       /\ CountVoter(n, m.from, FALSE)
                       /\ UNCHANGED <<decided, committing>>
                    \/ /\ awaited(s, m.from) /\ round_complete(c) /\ t \in on_values_ready(c)
                       /\ Leave(n, t, Requests(n, {}, t), Rest(m))
                       /\ CountVoter(n, m.from, TRUE)
                       /\ IF t.phase # "Listening" THEN Decide(n, t)
                          ELSE UNCHANGED <<decided, committing>>
<1> DEFINE n == m.to
           s == node[n]
           c == counted(s, m.from, m.vote)
           complete == awaited(s, m.from) /\ round_complete(c)
<1>1. /\ node \in [Node -> State] /\ Peers /\ m \in Message
  BY DEF NetInv, MessageBag
<1>2. n \in Node /\ m.from \in Node /\ m.vote \in Color /\ m.from \in Peer
  BY <1>1, NodesArePeers DEF Message
<1>3. PeerInv(n, s, announced[n], skipped[n], voters[n], replaced[n])
  BY <1>1, <1>2 DEF Peers
<1>4. PICK t \in on_response(s, m.from, m.vote) :
          /\ Leave(n, t, IF complete THEN Requests(n, {}, t) ELSE {}, Rest(m))
          /\ IF awaited(s, m.from) THEN CountVoter(n, m.from, complete) ELSE UNCHANGED roundVars
          /\ IF complete /\ t.phase # "Listening" THEN Decide(n, t)
             ELSE UNCHANGED <<decided, committing>>
          /\ UNCHANGED <<faults, announced, head, skipped, linkVars>>
  BY DEF ReceiveResponse
<1>5. node' = [node EXCEPT ![n] = t]
  BY <1>4 DEF Leave
<1>6. CASE ~ awaited(s, m.from)
  <2>1. t = s /\ t \in State
    BY <1>1, <1>2, <1>4, <1>6 DEF on_response
  <2> QED
    BY <1>4, <1>5, <1>6, <2>1
<1>7. CASE awaited(s, m.from) /\ ~ round_complete(c)
  <2>1. t = c
    BY <1>2, <1>4, <1>7 DEF on_response
  <2>2. t \in State
    BY <1>2, <1>3, <1>7, <2>1, VoteKeeps DEF PeerInv, NodeInv
  <2>3. complete = FALSE
    BY <1>7
  <2> QED
    BY <1>4, <1>5, <1>7, <2>1, <2>2, <2>3
<1>8. CASE awaited(s, m.from) /\ round_complete(c)
  <2>1. t \in on_values_ready(c)
    BY <1>2, <1>4, <1>8 DEF on_response
  <2>2. t \in State
    BY <1>2, <1>3, <1>8, <2>1, CompletionKeeps DEF PeerInv, NodeInv
  <2>3. complete = TRUE
    BY <1>8 DEF awaited, round_complete
  <2> QED
    BY <1>4, <1>5, <1>8, <2>1, <2>2, <2>3
<1> QED
  BY <1>6, <1>7, <1>8

\* The decision a node leaves behind is about a block of the chain, and so is the
\* height that goes to its validator.
LEMMA DecideKeeps ==
    ASSUME ChainInv, UNCHANGED <<announced, head, skipped>>, NEW n \in Node, NEW t,
           \E i \in 1..Len(Chain) : t.decision_block = Chain[i],
           current_color(t) \in {"OK", "KO"}, Decide(n, t)
    PROVE  ChainInv'
<1> DEFINE e == [block |-> t.decision_block, color |-> current_color(t)]
           h == Height(t.decision_block)
           D == decided[n]
           C == committing[n]
<1>1. /\ decided \in [Node -> Seq([block : Block, color : {"OK", "KO"}])]
      /\ committing \in [Node -> Seq(DOMAIN Chain)]
  BY DEF ChainInv
<1>2. e \in [block : Block, color : {"OK", "KO"}] /\ h \in DOMAIN Chain
  BY HeightOfBlock, ChainType
<1>3. /\ decided' = [decided EXCEPT ![n] = Append(D, e)]
      /\ committing' = [committing EXCEPT ![n] =
             IF current_color(t) = "OK" THEN Append(C, h) ELSE C]
  BY <1>1 DEF Decide
<1>4. D \in Seq([block : Block, color : {"OK", "KO"}]) /\ C \in Seq(DOMAIN Chain)
  BY <1>1
<1> HIDE DEF e, h, D, C
<1>5. Append(D, e) \in Seq([block : Block, color : {"OK", "KO"}]) /\ Append(C, h) \in Seq(DOMAIN Chain)
  BY <1>2, <1>4
<1>6. /\ decided' \in [Node -> Seq([block : Block, color : {"OK", "KO"}])]
      /\ committing' \in [Node -> Seq(DOMAIN Chain)]
  BY <1>1, <1>3, <1>4, <1>5
<1> QED
  BY <1>6 DEF ChainInv

\* The votes of the round with that of p, less the peers they come from, are no more
\* than what `repeated` becomes.
LEMMA CountVoterKeeps ==
    ASSUME RoundInv, node \in [Node -> State], NEW n \in Node, NEW p \in Node,
           NEW complete \in BOOLEAN, CountVoter(n, p, complete)
    PROVE  /\ RoundInv'
           /\ \A m \in Node \ {n} : voters'[m] = voters[m] /\ replaced'[m] = replaced[m]
           /\ voters'[n] = IF complete THEN {} ELSE voters[n] \cup {p}
           /\ replaced'[n] = IF complete THEN 0 ELSE replaced[n]
           /\ repeated <= repeated'
           /\ node[n].response_buffer[0] + node[n].response_buffer[1] + 1
                  <= Cardinality(voters[n] \cup {p}) + repeated'
<1> DEFINE a == node[n].response_buffer[0]
           b == node[n].response_buffer[1]
           c == Cardinality(voters[n] \cup {p})
<1>1. a \in Nat /\ b \in Nat
  <2>1. node[n].response_buffer \in [Color -> Nat]
    BY DEF State
  <2> QED
    BY <2>1 DEF Color
<1>2. c \in Nat
  <2>1. voters[n] \cup {p} \in SUBSET Node
    BY DEF RoundInv
  <2> QED
    BY <2>1, NodesArePeers, FS_Subset, FS_CardinalityType
<1>3. repeated \in Nat /\ repeated' = Max2(repeated, (a + b + 1) - c)
  <2>1. repeated \in Nat
    BY DEF RoundInv
  <2>2. repeated' = Max2(repeated, (a + b + 1) - c)
    BY DEF CountVoter
  <2> QED
    BY <2>1, <2>2
<1> HIDE DEF a, b, c
<1>4. repeated' \in Nat /\ repeated <= repeated' /\ a + b + 1 <= c + repeated'
  BY <1>1, <1>2, <1>3 DEF Max2
<1>5. /\ voters' \in [Node -> SUBSET Node] /\ replaced' \in [Node -> 0..k]
      /\ \A m \in Node \ {n} : voters'[m] = voters[m] /\ replaced'[m] = replaced[m]
      /\ voters'[n] = IF complete THEN {} ELSE voters[n] \cup {p}
      /\ replaced'[n] = IF complete THEN 0 ELSE replaced[n]
  BY ThresholdAssumption DEF RoundInv, CountVoter
<1> QED
  BY <1>4, <1>5 DEF RoundInv, a, b, c

LEMMA ReceiveResponseKeeps ==
    ASSUME NetInv, NEW m \in BagToSet(msgs), ReceiveResponse(m)
    PROVE  NetInv'
<1> DEFINE n == m.to
           s == node[n]
           c == counted(s, m.from, m.vote)
<1>1. /\ node \in [Node -> State] /\ Peers /\ m \in Message /\ MessageBag(Rest(m)) /\ RoundInv
      /\ ChainInv /\ LinkInv
  BY RestOfMessages DEF NetInv, MessageBag
<1>2. n \in Node /\ m.from \in Node /\ m.vote \in Color /\ {} \in SUBSET Message
  BY <1>1 DEF Message
<1>3. PeerInv(n, s, announced[n], skipped[n], voters[n], replaced[n])
  BY <1>1, <1>2 DEF Peers
<1>4. CASE Spin(n)
  BY <1>2, <1>4, SpinKeeps
<1>5. CASE ~ Spin(n)
  <2>1. PICK t \in State :
            /\ node' = [node EXCEPT ![n] = t]
            /\ UNCHANGED <<faults, announced, head, skipped, linkVars>>
            /\ \/ /\ ~ awaited(s, m.from) /\ t = s
                  /\ Leave(n, t, {}, Rest(m))
                  /\ UNCHANGED <<roundVars, decided, committing>>
               \/ /\ awaited(s, m.from) /\ ~ round_complete(c) /\ t = c
                  /\ Leave(n, t, {}, Rest(m))
                  /\ CountVoter(n, m.from, FALSE)
                  /\ UNCHANGED <<decided, committing>>
               \/ /\ awaited(s, m.from) /\ round_complete(c) /\ t \in on_values_ready(c)
                  /\ Leave(n, t, Requests(n, {}, t), Rest(m))
                  /\ CountVoter(n, m.from, TRUE)
                  /\ IF t.phase # "Listening" THEN Decide(n, t)
                     ELSE UNCHANGED <<decided, committing>>
    BY <1>5, ResponseCases
  <2> SUFFICES MessageBag(msgs') /\ ChainInv' /\ RoundInv'
               /\ PeerInv(n, t, announced[n], skipped[n], voters'[n], replaced'[n])
               /\ \A q \in Node \ {n} : voters'[q] = voters[q] /\ replaced'[q] = replaced[q]
    <3>1. announced' = announced /\ skipped' = skipped
      BY <2>1
    <3>2. Peers' /\ node' \in [Node -> State]
      BY <1>1, <1>2, <2>1, <3>1, OneMoves
    <3> QED
      BY <1>1, <2>1, <3>2 DEF NetInv, LinkInv, linkVars
  <2>2. CASE ~ awaited(s, m.from) /\ t = s /\ Leave(n, t, {}, Rest(m))
             /\ UNCHANGED <<roundVars, decided, committing>>
    <3>1. MessageBag(msgs')
      BY <1>1, <1>2, <2>2, LeaveEffect
    <3> QED
      BY <1>1, <1>3, <2>1, <2>2, <3>1 DEF ChainInv, RoundInv, roundVars
  <2>3. CASE /\ awaited(s, m.from) /\ ~ round_complete(c) /\ t = c /\ Leave(n, t, {}, Rest(m))
             /\ CountVoter(n, m.from, FALSE) /\ UNCHANGED <<decided, committing>>
    <3>1. MessageBag(msgs')
      BY <1>1, <1>2, <2>3, LeaveEffect
    <3>2. PeerInv(n, t, announced[n], skipped[n], voters[n] \cup {m.from}, replaced[n])
      BY <1>2, <1>3, <2>3, VoteKeeps
    <3>3. /\ RoundInv' /\ voters'[n] = voters[n] \cup {m.from} /\ replaced'[n] = replaced[n]
          /\ \A q \in Node \ {n} : voters'[q] = voters[q] /\ replaced'[q] = replaced[q]
      BY <1>1, <1>2, <2>3, CountVoterKeeps
    <3>4. ChainInv'
      BY <1>1, <2>1, <2>3 DEF ChainInv
    <3> QED
      BY <3>1, <3>2, <3>3, <3>4
  <2>4. CASE /\ awaited(s, m.from) /\ round_complete(c) /\ t \in on_values_ready(c)
             /\ Leave(n, t, Requests(n, {}, t), Rest(m)) /\ CountVoter(n, m.from, TRUE)
             /\ IF t.phase # "Listening" THEN Decide(n, t) ELSE UNCHANGED <<decided, committing>>
    <3>1. /\ PeerInv(n, t, announced[n], skipped[n], {}, 0)
          /\ t.phase # "Listening" =>
                /\ \E i \in 1..Len(Chain) : t.decision_block = Chain[i]
                /\ current_color(t) \in {"OK", "KO"}
      BY <1>2, <1>3, <2>4, CompletionKeeps
    <3>2. t.waiting_response_map \subseteq Node
      BY <3>1 DEF PeerInv, InNetwork
    <3>3. MessageBag(msgs')
      BY <1>1, <1>2, <2>4, <3>2, RequestsAreMessages, LeaveEffect
    <3>4. /\ RoundInv' /\ voters'[n] = {} /\ replaced'[n] = 0
          /\ \A q \in Node \ {n} : voters'[q] = voters[q] /\ replaced'[q] = replaced[q]
      BY <1>1, <1>2, <2>4, CountVoterKeeps
    <3>5. ChainInv'
      <4>1. CASE t.phase # "Listening"
        BY <1>1, <1>2, <2>1, <2>4, <3>1, <4>1, DecideKeeps
      <4>2. CASE t.phase = "Listening"
        BY <1>1, <2>1, <2>4, <4>2 DEF ChainInv
      <4> QED
        BY <4>1, <4>2
    <3> QED
      BY <3>1, <3>3, <3>4, <3>5
  <2> QED
    BY <2>1, <2>2, <2>3, <2>4
<1> QED
  BY <1>4, <1>5

\* A handler that replaces peers of node n ends in state t.
LEMMA ReplacingKeeps ==
    ASSUME NetInv, NEW n \in Node, NEW t, NEW kept, NEW rest, MessageBag(rest), NEW r \in 0..k,
           Leave(n, t, Requests(n, kept, t), rest),
           PeerInv(n, t, announced[n], skipped[n], voters[n], r),
           replaced' = [replaced EXCEPT ![n] = r],
           UNCHANGED <<faults, voters, repeated, linkVars, chainVars>>
    PROVE  NetInv'
<1>1. node \in [Node -> State] /\ Peers /\ RoundInv
  BY DEF NetInv
<1>2. t \in State /\ t.waiting_response_map \subseteq Node
  BY DEF PeerInv, NodeInv, InNetwork
<1>3. node' = [node EXCEPT ![n] = t] /\ MessageBag(msgs')
  BY <1>2, RequestsAreMessages, LeaveEffect
<1>4. /\ replaced' \in [Node -> 0..k] /\ replaced'[n] = r
      /\ \A m \in Node \ {n} : replaced'[m] = replaced[m]
      /\ voters' = voters /\ announced' = announced /\ skipped' = skipped
  BY <1>1 DEF RoundInv, chainVars
<1>5. Peers' /\ node' \in [Node -> State]
  BY <1>1, <1>3, <1>4, OneMoves
<1> QED
  BY <1>3, <1>4, <1>5 DEF NetInv, LinkInv, ChainInv, RoundInv, linkVars, chainVars

LEMMA ReceiveUnavailableKeeps ==
    ASSUME NetInv, NEW m \in BagToSet(msgs), ReceiveUnavailable(m)
    PROVE  NetInv'
<1> DEFINE n == m.to
           s == node[n]
           counts == awaited(s, m.from)
           kept == s.waiting_response_map \ {m.from}
<1>1. /\ node \in [Node -> State] /\ Peers /\ m \in Message /\ MessageBag(Rest(m)) /\ RoundInv
      /\ MessageBag(msgs)
  BY RestOfMessages DEF NetInv, MessageBag
<1>2. n \in Node /\ m.from \in Node /\ {} \in SUBSET Message
  BY <1>1 DEF Message
<1>3. PeerInv(n, s, announced[n], skipped[n], voters[n], replaced[n])
  BY <1>1, <1>2 DEF Peers
<1>4. CASE Spin(n)
  BY <1>2, <1>4, SpinKeeps
<1>5. ASSUME NEW t \in on_unavailable(s, m.from),
             Leave(n, t, IF counts THEN Requests(n, kept, t) ELSE {}, Rest(m)),
             replaced' = IF counts THEN [replaced EXCEPT ![n] = Min2(k, @ + 1)] ELSE replaced,
             UNCHANGED <<faults, voters, repeated, linkVars, chainVars>>
      PROVE  NetInv'
  <2>1. CASE counts
    <3>1. PeerInv(n, t, announced[n], skipped[n], voters[n], Min2(k, replaced[n] + 1))
      BY <1>2, <1>3, <1>5, <2>1, UnavailableKeepsPeer
    <3>2. Min2(k, replaced[n] + 1) \in 0..k
      BY <3>1 DEF PeerInv, Fresh
    <3>3. replaced' = [replaced EXCEPT ![n] = Min2(k, replaced[n] + 1)]
      BY <1>1, <1>5, <2>1 DEF RoundInv
    <3>4. Leave(n, t, Requests(n, kept, t), Rest(m))
      BY <1>5, <2>1
    <3> HIDE DEF n, s, kept
    <3> QED
      BY <1>1, <1>2, <1>5, <3>1, <3>2, <3>3, <3>4, ReplacingKeeps
  <2>2. CASE ~ counts
    <3>1. t = s /\ replaced' = replaced /\ Leave(n, s, {}, Rest(m))
      BY <1>5, <2>2 DEF on_unavailable
    <3>2. node' = [node EXCEPT ![n] = s] /\ MessageBag(msgs')
      BY <1>1, <1>2, <3>1, LeaveEffect
    <3>3. node' = node
      BY <1>1, <1>2, <3>2
    <3>4. Peers'
      BY <1>1, <1>5, <3>1, <3>3, NobodyMoves DEF chainVars
    <3> QED
      BY <1>5, <3>1, <3>2, <3>3, <3>4 DEF NetInv, LinkInv, ChainInv, RoundInv, linkVars, chainVars
  <2> QED
    BY <2>1, <2>2
<1> QED
  BY <1>4, <1>5 DEF ReceiveUnavailable

LEMMA ExpireKeeps ==
    ASSUME NetInv, NEW n \in Node, NEW expired \in SUBSET node[n].waiting_response_map,
           Expire(n, expired)
    PROVE  NetInv'
<1> DEFINE s == node[n]
           r == Min2(k, replaced[n] + Cardinality(expired))
<1>1. node \in [Node -> State] /\ Peers /\ MessageBag(msgs) /\ RoundInv
  BY DEF NetInv
<1>2. PeerInv(n, s, announced[n], skipped[n], voters[n], replaced[n])
  BY <1>1 DEF Peers
<1>3. CASE Spin(n)
  BY <1>3, SpinKeeps
<1>4. ASSUME NEW t \in handle_unresponsive_peers(s, expired),
             Leave(n, t, Requests(n, s.waiting_response_map \ expired, t), msgs),
             replaced' = [replaced EXCEPT ![n] = Min2(k, @ + Cardinality(expired))],
             UNCHANGED <<faults, voters, repeated, linkVars, chainVars>>
      PROVE  NetInv'
  <2>1. PeerInv(n, t, announced[n], skipped[n], voters[n], r)
    BY <1>2, <1>4, UnresponsiveKeepsPeer
  <2>2. r \in 0..k
    BY <2>1 DEF PeerInv, Fresh
  <2>3. replaced' = [replaced EXCEPT ![n] = r]
    BY <1>1, <1>4 DEF RoundInv
  <2> HIDE DEF r, s
  <2> QED
    BY <1>1, <1>4, <2>1, <2>2, <2>3, ReplacingKeeps
<1> QED
  BY <1>3, <1>4 DEF Expire

LEMMA NoticeDownKeeps ==
    ASSUME NetInv, NEW n \in Node, NEW p \in Node, NoticeDown(n, p)
    PROVE  NetInv'
<1> DEFINE t == on_peer_disconnected(node[n], p)
<1>1. node \in [Node -> State] /\ Peers /\ LinkInv
  BY DEF NetInv
<1>2. /\ node' = [node EXCEPT ![n] = t] /\ broken' = [broken EXCEPT ![n] = @ \ {p}]
      /\ UNCHANGED <<faults, status, msgs, crashed, chainVars, roundVars>>
      /\ p \in broken[n] /\ IsMember(node[n].member_ids, p)
  <2>1. node' = [node EXCEPT ![n] = on_peer_disconnected(@, p)]
    BY DEF NoticeDown
  <2>2. node' = [node EXCEPT ![n] = t]
    BY <1>1, <2>1
  <2> QED
    BY <2>2 DEF NoticeDown
<1>3. p # n
  BY <1>1, <1>2 DEF LinkInv
<1>4. PeerInv(n, t, announced[n], skipped[n], voters[n], replaced[n])
  BY <1>1, <1>2, <1>3, DisconnectedKeepsPeer DEF Peers
<1> HIDE DEF t
<1>5. /\ announced' = announced /\ skipped' = skipped /\ voters' = voters
      /\ replaced' = replaced
  BY <1>2 DEF chainVars, roundVars
<1>6. Peers' /\ node' \in [Node -> State]
  BY <1>1, <1>2, <1>4, <1>5, OneMoves
<1>7. LinkInv'
  BY <1>1, <1>2 DEF LinkInv
<1> QED
  BY <1>2, <1>6, <1>7 DEF NetInv, ChainInv, RoundInv, chainVars, roundVars, MessageBag

LEMMA NoticeUpKeeps ==
    ASSUME NetInv, NEW n \in Node, NEW p \in Node, NoticeUp(n, p)
    PROVE  NetInv'
<1> DEFINE t == on_peer_connected(node[n], p)
<1>1. node \in [Node -> State] /\ Peers
  BY DEF NetInv
<1>2. /\ node' = [node EXCEPT ![n] = t] /\ ~ IsMember(node[n].member_ids, p)
      /\ UNCHANGED <<faults, msgs, linkVars, chainVars, roundVars>>
  <2>1. node' = [node EXCEPT ![n] = on_peer_connected(@, p)]
    BY DEF NoticeUp
  <2>2. node' = [node EXCEPT ![n] = t]
    BY <1>1, <2>1
  <2> QED
    BY <2>2 DEF NoticeUp
<1>3. PeerInv(n, t, announced[n], skipped[n], voters[n], replaced[n])
  BY <1>1, <1>2, ConnectedKeepsPeer DEF Peers
<1> HIDE DEF t
<1>4. /\ announced' = announced /\ skipped' = skipped /\ voters' = voters
      /\ replaced' = replaced
  BY <1>2 DEF chainVars, roundVars
<1>5. Peers' /\ node' \in [Node -> State]
  BY <1>1, <1>2, <1>3, <1>4, OneMoves
<1> QED
  BY <1>2, <1>5
  DEF NetInv, LinkInv, ChainInv, RoundInv, linkVars, chainVars, roundVars, MessageBag

----------------------------------------------------------------------------
\* The invariant

LEMMA NetInit == Init => NetInv
<1> SUFFICES ASSUME Init
             PROVE  NetInv
  OBVIOUS
<1>1. Len(Chain) \in Nat /\ k \in Nat
  BY ChainType, ThresholdAssumption
<1>2. ASSUME NEW n \in Node
      PROVE  /\ PeerInv(n, node[n], announced[n], skipped[n], voters[n], replaced[n])
             /\ node[n] \in State
  <2>1. PeerInv(n, NewState(n, Members, BlockAt(0), 0), 0, 0 - 0, {}, 0)
    BY <1>1, NewStateIsPeer
  <2>2. BlockAt(0) = HeadBlock /\ 0 - 0 = 0
    BY DEF BlockAt
  <2>3. PeerInv(n, NewState(n, Members, HeadBlock, 0), 0, 0, {}, 0)
    BY <2>1, <2>2
  <2>4. /\ node[n] = NewState(n, Members, HeadBlock, 0) /\ announced[n] = 0 /\ skipped[n] = 0
        /\ voters[n] = {} /\ replaced[n] = 0
    BY DEF Init
  <2>5. PeerInv(n, node[n], announced[n], skipped[n], voters[n], replaced[n])
    BY <2>3, <2>4
  <2> QED
    BY <2>5 DEF PeerInv, NodeInv
<1>3. node \in [Node -> State] /\ Peers
  BY <1>2 DEF Init, Peers
<1>4. MessageBag(msgs)
  BY DEF Init, MessageBag, BagToSet, EmptyBag, SetToBag
<1>5. LinkInv /\ RoundInv
  <2>1. LinkInv
    BY DEF Init, LinkInv
  <2>2. 0 \in 0..k
    BY <1>1
  <2>3. repeated \in Nat
    BY DEF Init
  <2>4. voters \in [Node -> SUBSET Node] /\ replaced \in [Node -> 0..k]
    BY <2>2 DEF Init
  <2> QED
    BY <2>1, <2>3, <2>4 DEF RoundInv
<1>6. ChainInv
  <2>1. <<>> \in Seq(DOMAIN Chain) /\ <<>> \in Seq([block : Block, color : {"OK", "KO"}])
    OBVIOUS
  <2> QED
    BY <1>1, <2>1 DEF Init, ChainInv
<1> QED
  BY <1>3, <1>4, <1>5, <1>6 DEF Init, NetInv

LEMMA NetStep == NetInv /\ [Next]_vars => NetInv'
<1> SUFFICES ASSUME NetInv, [Next]_vars
             PROVE  NetInv'
  OBVIOUS
<1>1. ASSUME NEW n \in Node, Announce(n) \/ handle_queue(n) \/ Commit(n) \/ Crash(n) \/ Restart(n)
      PROVE  NetInv'
  BY <1>1, AnnounceKeeps, HandleQueueKeeps, CommitKeeps, CrashKeeps, RestartKeeps
<1>2. ASSUME NEW m \in BagToSet(msgs), Deliver(m)
      PROVE  NetInv'
  BY <1>2, ReceiveRequestKeeps, ReceiveResponseKeeps, ReceiveUnavailableKeeps DEF Deliver
<1>3. ASSUME NEW n \in Node, NEW expired \in SUBSET node[n].waiting_response_map,
             Expire(n, expired)
      PROVE  NetInv'
  BY <1>3, ExpireKeeps
<1>4. ASSUME NEW n \in Node, NEW p \in Node, NoticeDown(n, p) \/ NoticeUp(n, p)
      PROVE  NetInv'
  BY <1>4, NoticeDownKeeps, NoticeUpKeeps
<1>5. CASE UNCHANGED vars
  BY <1>5, NobodyMoves
  DEF vars, NetInv, LinkInv, ChainInv, RoundInv, linkVars, chainVars, roundVars, MessageBag
<1> QED
  BY <1>1, <1>2, <1>3, <1>4, <1>5 DEF Next

LEMMA NetInvariance == Spec => []NetInv
BY NetInit, NetStep, PTL DEF Spec

----------------------------------------------------------------------------
\* Theorems

\* Every variable of the network keeps its type: no handler leaves a node in a state
\* that is no State record, whatever messages reach it in whatever order, and only
\* blocks of the chain are decided or committed.
THEOREM NetworkTypes == Spec => []TypeOK
<1>1. NetInv => TypeOK
  <2> SUFFICES ASSUME NetInv
               PROVE  TypeOK
    OBVIOUS
  <2>1. BagToSet(msgs) \subseteq Message /\ \A m \in BagToSet(msgs) : msgs[m] > 0
    BY DEF NetInv, MessageBag
  <2> QED
    BY <2>1 DEF NetInv, LinkInv, ChainInv, RoundInv, TypeOK
<1> QED
  BY <1>1, NetInvariance, PTL

\* The votes of a round (response_buffer) come from different peers, up to one for each
\* peer that was replaced: for any number of nodes, copies of messages and late answers.
THEOREM VotersAreDistinct == Spec => []DistinctVoters
<1>1. NetInv => DistinctVoters
  BY DEF NetInv, Peers, PeerInv, Fresh, DistinctVoters
<1> QED
  BY <1>1, NetInvariance, PTL

\* While a round is open, the block it is about is the one at the height its number
\* stands for.
LEMMA OpenBlock ==
    ASSUME NEW n, NEW s, NEW a, NEW sk, NEW v, NEW r, PeerInv(n, s, a, sk, v, r),
           s.phase = "Listening"
    PROVE  s.decision_block = Chain[s.seq_num + sk - 1] /\ s.seq_num \in Nat /\ sk \in Nat
<1> DEFINE L == Len(s.block_queue)
<1>1. /\ s \in State /\ Deciding(s) /\ Follows(s, a, sk)
  BY DEF PeerInv, NodeInv
<1>2. s.block_queue # <<>> /\ s.decision_block = Head(s.block_queue)
  BY <1>1 DEF Deciding
<1>3. s.block_queue \in Seq(Block) /\ s.seq_num \in Nat
  BY <1>1 DEF State, SeqNum
<1>4. /\ a \in Nat /\ sk \in Nat /\ Stretch(s.block_queue, a)
      /\ Stamped(s.block_queue, s.convergenza)
      /\ Numbered(s.seq_num, s.phase, L, a, sk)
  BY <1>1, ChainType DEF Follows
<1>5. L \in Nat /\ Head(s.block_queue) = Chain[a - L + 1]
  BY <1>2, <1>3, <1>4, QueueFront
<1> HIDE DEF L
<1>6. s.seq_num + sk + L = a + 2
  BY <1>4 DEF Numbered
<1>7. a - L + 1 = s.seq_num + sk - 1
  <2>1. s.seq_num \in Nat
    BY <1>3
  <2> QED
    BY <1>4, <1>5, <1>6, <2>1
<1> QED
  BY <1>2, <1>3, <1>4, <1>5, <1>7

\* Two nodes that are asking about one sequence number are asking about one block, for
\* any chain and any number of crashes, unless blocks were not announced again to one
\* of them after a restart.
THEOREM NumbersMeanBlocks == Spec => []SameNumberSameBlock
<1>1. NetInv => SameNumberSameBlock
  <2> SUFFICES ASSUME NetInv, NEW m \in Node, NEW n \in Node,
                      node[m].phase = "Listening", node[n].phase = "Listening",
                      node[m].seq_num = node[n].seq_num, skipped[m] = skipped[n]
               PROVE  node[m].decision_block = node[n].decision_block
    BY DEF SameNumberSameBlock
  <2>1. /\ PeerInv(m, node[m], announced[m], skipped[m], voters[m], replaced[m])
        /\ PeerInv(n, node[n], announced[n], skipped[n], voters[n], replaced[n])
    BY DEF NetInv, Peers
  <2>2. /\ node[m].decision_block = Chain[node[m].seq_num + skipped[m] - 1]
        /\ node[n].decision_block = Chain[node[n].seq_num + skipped[n] - 1]
    BY <2>1, OpenBlock
  <2> QED
    BY <2>2
<1> QED
  BY <1>1, NetInvariance, PTL
=============================================================================
