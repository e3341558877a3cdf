------------------------- MODULE SnowballVoteProofs -------------------------
(***************************************************************************)
(* Wrong votes cannot turn a block down when fewer than alfa of them can   *)
(* be cast in a round: proofs for any number of nodes, any of the test     *)
(* switches, crashes and restarts.  And nobody waits for an answer that is *)
(* not on its way.                                                         *)
(*                                                                         *)
(* The argument is about a set G of good nodes, whose positions no switch  *)
(* marks.  In one case G is everybody, in the other it is everybody who    *)
(* votes as the code says; the same step lemmas serve both.                *)
(***************************************************************************)
EXTENDS SnowballNetworkProofs

\* A good node in state s that has counted the voters v has never seen a KO majority,
\* and has an OK vote of every good voter.
GoodNode(s, v, G) ==
    /\ s.decision_map[0] = "Undecided"
    /\ \A q \in SeqNum \ {0} : s.decision_map[q] \in {"OK", "None"}
    /\ s.phase = "Listening" =>
          /\ Cardinality(v \cap G) <= s.response_buffer[1]
          /\ G = Node => s.response_buffer[0] = 0

GoodDecisions(d) == \A i \in DOMAIN d : d[i].color = "OK"

\* Good nodes ask about blocks only, not about number 0, and vote OK among themselves.
\* Number 0 has the colour Undecided, which goes out as a vote for KO.
GoodMessage(m, G) ==
    m.from \in G =>
        /\ m.type = "request" => m.seq_num # 0
        /\ m.type = "response" /\ m.to \in G => m.vote = 1

GoodInv(G) ==
    /\ \A n \in G : GoodNode(node[n], voters[n], G) /\ GoodDecisions(decided[n])
    /\ \A m \in BagToSet(msgs) : GoodMessage(m, G)

\* What a step may rely on.
Unmarked(s) == s.order \notin faults.wrong_decision_idx \cup faults.spurious_idx

\* Those outside G, and r votes that come from peers counted before, are no majority.
Few(G, r) ==
    /\ G \in SUBSET Node /\ r \in Nat
    /\ G = Node \/ Cardinality(Node \ G) + r < alfa

----------------------------------------------------------------------------
\* Handlers of a good node

LEMMA VotersCount ==
    ASSUME NEW G \in SUBSET Node, NEW v \in SUBSET Node
    PROVE  /\ IsFiniteSet(v \cap G) /\ Cardinality(v \cap G) \in Nat
           /\ Cardinality(v) \in Nat /\ Cardinality(Node \ G) \in Nat
           /\ Cardinality(v) <= Cardinality(v \cap G) + Cardinality(Node \ G)
<1>1. IsFiniteSet(v) /\ IsFiniteSet(Node \ G) /\ IsFiniteSet(v \cap G)
  BY NodesArePeers, FS_Subset
<1>2. v \ G \subseteq Node \ G /\ v \ G = v \ (v \cap G)
  OBVIOUS
<1>3. IsFiniteSet(v \ G) /\ Cardinality(v \ G) <= Cardinality(Node \ G)
  BY <1>1, <1>2, FS_Subset
<1>4. Cardinality(v \ G) = Cardinality(v) - Cardinality(v \cap (v \cap G))
  BY <1>1, <1>2, FS_Difference
<1>5. v \cap (v \cap G) = v \cap G
  OBVIOUS
<1>6. /\ Cardinality(v) \in Nat /\ Cardinality(v \cap G) \in Nat
      /\ Cardinality(Node \ G) \in Nat /\ Cardinality(v \ G) \in Nat
  BY <1>1, <1>3, FS_CardinalityType
<1>7. Cardinality(v \ G) = Cardinality(v) - Cardinality(v \cap G)
  BY <1>4, <1>5
<1> QED
  BY <1>1, <1>3, <1>6, <1>7

\* With fewer good nodes there is less to say.
LEMMA FewerGood ==
    ASSUME NEW G \in SUBSET Node, NEW H \in SUBSET G, NEW v \in SUBSET Node, NEW s \in State,
           GoodNode(s, v, G)
    PROVE  GoodNode(s, v, H)
<1>1. /\ Cardinality(v \cap H) \in Nat /\ Cardinality(v \cap G) \in Nat
      /\ Cardinality(v \cap H) <= Cardinality(v \cap G)
  <2>1. IsFiniteSet(v \cap G) /\ v \cap H \subseteq v \cap G
    BY VotersCount
  <2> QED
    BY <2>1, FS_Subset, FS_CardinalityType
<1>2. H = Node => G = Node
  OBVIOUS
<1>3. s.response_buffer[1] \in Nat
  <2>1. s.response_buffer \in [Color -> Nat]
    BY DEF State
  <2> QED
    BY <2>1 DEF Color
<1> QED
  BY <1>1, <1>2, <1>3 DEF GoodNode

\* The sequence numbers in use begin at 1.
LEMMA NumbersBeginAtOne ==
    ASSUME NEW n, NEW s, NEW a, NEW sk, NEW v, NEW r, PeerInv(n, s, a, sk, v, r)
    PROVE  s.seq_num \in SeqNum \ {0}
<1> DEFINE L == Len(s.block_queue)
<1>1. s \in State /\ Follows(s, a, sk)
  BY DEF PeerInv, NodeInv
<1>2. s.seq_num \in SeqNum /\ L \in Nat
  BY <1>1 DEF State
<1>3. a \in Nat /\ sk \in Nat /\ Numbered(s.seq_num, s.phase, L, a, sk)
  BY <1>1, ChainType DEF Follows
<1> HIDE DEF L
<1>4. s.seq_num # 0
  BY <1>2, <1>3 DEF Numbered
<1> QED
  BY <1>2, <1>4

LEMMA NoVotesYet ==
    ASSUME NEW G
    PROVE  Cardinality({} \cap G) <= Zeros[1] /\ Zeros[0] = 0
<1>1. {} \cap G = {}
  OBVIOUS
<1> QED
  BY <1>1, FS_EmptySet DEF Zeros, Color

\* A block is opened with the colour OK and no votes.
LEMMA OpeningIsGood ==
    ASSUME NEW G, NEW v, NEW s \in State, GoodNode(s, v, G), NEW t, s.seq_num + 1 \in SeqNum,
           t.decision_map = [s.decision_map EXCEPT ![s.seq_num + 1] = "OK"],
           t.response_buffer = Zeros
    PROVE  GoodNode(t, {}, G)
<1>1. s.decision_map \in [SeqNum -> SnowballDecisionState \cup {"None"}] /\ s.seq_num \in Nat
  BY DEF State, SeqNum
<1>2. s.seq_num + 1 # 0 /\ 0 \in SeqNum
  BY <1>1, SeqAssumption DEF SeqNum
<1>3. t.decision_map[0] = "Undecided"
  BY <1>1, <1>2 DEF GoodNode
<1>4. \A q \in SeqNum \ {0} : t.decision_map[q] \in {"OK", "None"}
  BY <1>1 DEF GoodNode
<1>5. Cardinality({} \cap G) <= t.response_buffer[1] /\ t.response_buffer[0] = 0
  BY NoVotesYet
<1> QED
  BY <1>3, <1>4, <1>5 DEF GoodNode

\* A vote adds one to its colour.
LEMMA OneVoteMore ==
    ASSUME NEW s \in State, NEW p, NEW vote \in Color
    PROVE  LET a == s.response_buffer
               b == counted(s, p, vote).response_buffer
           IN  /\ a[0] \in Nat /\ a[1] \in Nat
               /\ b[0] = IF vote = 0 THEN a[0] + 1 ELSE a[0]
               /\ b[1] = IF vote = 1 THEN a[1] + 1 ELSE a[1]
               /\ b[0] + b[1] = a[0] + a[1] + 1
<1> DEFINE a == s.response_buffer
           b == counted(s, p, vote).response_buffer
<1>1. a \in [Color -> Nat]
  BY DEF State
<1>2. b = votes_with(s, vote)
  BY DEF counted, State
<1>3. a[0] \in Nat /\ a[1] \in Nat
  BY <1>1 DEF Color
<1>4. \A i \in Color : b[i] = IF i = vote THEN a[i] + 1 ELSE a[i]
  BY <1>1, <1>2 DEF votes_with
<1> HIDE DEF a, b
<1>5. /\ b[0] = IF vote = 0 THEN a[0] + 1 ELSE a[0]
      /\ b[1] = IF vote = 1 THEN a[1] + 1 ELSE a[1]
  BY <1>4 DEF Color
<1>6. vote = 0 \/ vote = 1
  BY DEF Color
<1>7. b[0] + b[1] = a[0] + a[1] + 1
  BY <1>3, <1>5, <1>6
<1> QED
  BY <1>3, <1>5, <1>7 DEF a, b

\* A vote that counts: that of a good node is OK.
LEMMA VoteIsGood ==
    ASSUME NEW G \in SUBSET Node, NEW s \in State, NEW v \in SUBSET Node, GoodNode(s, v, G),
           NEW p \in Node, NEW vote \in Color, awaited(s, p), p \in G => vote = 1
    PROVE  GoodNode(counted(s, p, vote), v \cup {p}, G)
<1> DEFINE t == counted(s, p, vote)
           a == s.response_buffer
           b == t.response_buffer
           A == v \cap G
           B == (v \cup {p}) \cap G
<1>1. t.decision_map = s.decision_map /\ s.phase = "Listening"
  BY DEF counted, State, awaited
<1>2. /\ a[0] \in Nat /\ a[1] \in Nat
      /\ b[0] = IF vote = 0 THEN a[0] + 1 ELSE a[0]
      /\ b[1] = IF vote = 1 THEN a[1] + 1 ELSE a[1]
  BY OneVoteMore
<1>3. Cardinality(A) <= a[1] /\ (G = Node => a[0] = 0)
  BY <1>1 DEF GoodNode
<1>4. IsFiniteSet(A) /\ Cardinality(A) \in Nat
  BY VotersCount
<1>5. B = IF p \in G THEN A \cup {p} ELSE A
  OBVIOUS
<1> HIDE DEF a, b, t, A, B
<1>6. /\ Cardinality(A \cup {p}) \in Nat
      /\ Cardinality(A \cup {p}) = IF p \in A THEN Cardinality(A) ELSE Cardinality(A) + 1
  BY <1>4, FS_AddElement, FS_CardinalityType
<1>7. Cardinality(B) <= b[1]
  BY <1>2, <1>3, <1>4, <1>5, <1>6
<1>8. G = Node => b[0] = 0
  BY <1>2, <1>3
<1> QED
  BY <1>1, <1>7, <1>8 DEF GoodNode, t, b, B

\* Too few votes for a KO majority: on_values_ready leaves the colours alone.
LEMMA RoundIsGood ==
    ASSUME NEW G, NEW r, Few(G, r), NEW s \in State, NEW v \in SUBSET Node, GoodNode(s, v, G),
           s.phase = "Listening", current_color(s) = "OK",
           s.response_buffer[0] + s.response_buffer[1] <= Cardinality(v) + r
    PROVE  count_round(s).decision_map = s.decision_map
<1> DEFINE a == s.response_buffer
<1>1. a \in [Color -> Nat] /\ alfa \in Nat /\ alfa > 0
  BY ThresholdAssumption DEF State
<1>2. a[0] \in Nat /\ a[1] \in Nat
  BY <1>1 DEF Color
<1>3. ~ a[0] >= alfa
  <2>1. Cardinality(v \cap G) <= a[1] /\ (G = Node => a[0] = 0)
    BY DEF GoodNode
  <2>2. G \in SUBSET Node /\ r \in Nat /\ (G = Node \/ Cardinality(Node \ G) + r < alfa)
    BY DEF Few
  <2>3. /\ Cardinality(v \cap G) \in Nat /\ Cardinality(v) \in Nat
        /\ Cardinality(Node \ G) \in Nat
        /\ Cardinality(v) <= Cardinality(v \cap G) + Cardinality(Node \ G)
    BY <2>2, VotersCount
  <2>4. a[0] + a[1] <= Cardinality(v) + r
    OBVIOUS
  <2>5. alfa \in Nat /\ alfa > 0
    BY <1>1
  <2> HIDE DEF a
  <2> QED
    BY <1>2, <2>1, <2>2, <2>3, <2>4, <2>5
<1>4. /\ s.decision_map \in [SeqNum -> SnowballDecisionState \cup {"None"}]
      /\ s.seq_num \in SeqNum
  BY DEF State
<1>5. CASE s.response_buffer[1] >= alfa
  <2>1. majority_color(s, 1) = "OK"
    BY DEF majority_color, usize_to_decision_state
  <2>2. count_round(s) = count_majority(s, 1)
    BY <1>3, <1>5 DEF count_round
  <2>3. count_majority(s, 1).decision_map = [s.decision_map EXCEPT ![s.seq_num] = "OK"]
    BY <2>1 DEF count_majority, State
  <2>4. [s.decision_map EXCEPT ![s.seq_num] = "OK"] = s.decision_map
    BY <1>4 DEF current_color
  <2> QED
    BY <2>2, <2>3, <2>4
<1>6. CASE ~ s.response_buffer[1] >= alfa
  <2>1. count_round(s) = [s EXCEPT !.confidence_counter = 0]
    BY <1>3, <1>6 DEF count_round
  <2> QED
    BY <2>1 DEF State
<1> QED
  BY <1>5, <1>6

LEMMA CompletionIsGood ==
    ASSUME NEW G, NEW again, Few(G, again), NEW n, NEW s, NEW a, NEW sk,
           NEW v \in SUBSET Node, NEW r, PeerInv(n, s, a, sk, v, r), GoodNode(s, v, G),
           NEW p \in Node, NEW vote \in Color, awaited(s, p), p \in G => vote = 1,
           s.response_buffer[0] + s.response_buffer[1] + 1 <= Cardinality(v \cup {p}) + again,
           round_complete(counted(s, p, vote)),
           NEW t \in on_values_ready(counted(s, p, vote))
    PROVE  GoodNode(t, {}, G) /\ (t.phase # "Listening" => current_color(t) = "OK")
<1> DEFINE c == counted(s, p, vote)
<1>1. NodeInv(s, 0) /\ s \in State /\ p \in Peer /\ G \in SUBSET Node
  BY NodesArePeers DEF PeerInv, NodeInv, Few
<1>2. c \in State /\ Deciding(c) /\ c.phase = "Listening" /\ c.decision_map = s.decision_map
      /\ c.seq_num = s.seq_num
  BY <1>1, CountedEffect
<1>3. GoodNode(c, v \cup {p}, G) /\ v \cup {p} \in SUBSET Node
  BY <1>1, VoteIsGood
<1>4. s.seq_num \in SeqNum \ {0}
  BY NumbersBeginAtOne
<1>5. current_color(c) = "OK"
  BY <1>2, <1>3, <1>4 DEF GoodNode, Deciding, current_color
<1>6. count_round(c).decision_map = s.decision_map
  <2>1. c.response_buffer[0] + c.response_buffer[1] <= Cardinality(v \cup {p}) + again
    BY <1>1, OneVoteMore
  <2> HIDE DEF c
  <2>2. count_round(c).decision_map = c.decision_map
    BY <1>2, <1>3, <1>5, <2>1, RoundIsGood
  <2> QED
    BY <1>2, <2>2
<1>7. /\ t.decision_map = s.decision_map /\ t.seq_num = s.seq_num
      /\ t.phase = "Listening" => t.response_buffer = Zeros
  BY <1>6, CompletionKeeps
<1>8. t.phase = "Listening" =>
          Cardinality({} \cap G) <= t.response_buffer[1] /\ t.response_buffer[0] = 0
  BY <1>7, NoVotesYet
<1>9. current_color(t) = "OK"
  BY <1>2, <1>5, <1>7 DEF current_color
<1> QED
  BY <1>7, <1>8, <1>9 DEF GoodNode

\* A start with empty votes.
LEMMA NewStateIsGood ==
    ASSUME NEW G, NEW n, NEW members, NEW b, NEW h
    PROVE  GoodNode(NewState(n, members, b, h), {}, G)
BY SeqAssumption DEF GoodNode, NewState, SeqNum

\* Handlers that count nothing.
LEMMA SameVotesGood ==
    ASSUME NEW G, NEW v, NEW s, GoodNode(s, v, G), NEW t, t.decision_map = s.decision_map,
           t.phase = s.phase, t.response_buffer = s.response_buffer
    PROVE  GoodNode(t, v, G)
BY DEF GoodNode

----------------------------------------------------------------------------
\* Steps

LEMMA NobodyGood ==
    ASSUME NEW G, GoodInv(G), UNCHANGED <<node, msgs, voters, decided>>
    PROVE  GoodInv(G)'
BY DEF GoodInv

\* One node moves, and what it adds to the messages is good.
LEMMA GoodMoves ==
    ASSUME NetInv, NEW G \in SUBSET Node, GoodInv(G), NEW n \in Node, NEW t,
           node' = [node EXCEPT ![n] = t],
           \A m \in Node \ {n} : voters'[m] = voters[m] /\ decided'[m] = decided[m],
           n \in G => GoodNode(t, voters'[n], G) /\ GoodDecisions(decided'[n]),
           \A x \in BagToSet(msgs') : x \in BagToSet(msgs) \/ GoodMessage(x, G)
    PROVE  GoodInv(G)'
<1>1. node'[n] = t /\ \A m \in Node \ {n} : node'[m] = node[m]
  BY DEF NetInv
<1>2. ASSUME NEW m \in G
      PROVE  GoodNode(node'[m], voters'[m], G) /\ GoodDecisions(decided'[m])
  <2>1. CASE m = n
    BY <1>1, <1>2, <2>1
  <2>2. CASE m # n
    <3>1. node'[m] = node[m] /\ voters'[m] = voters[m] /\ decided'[m] = decided[m]
      BY <1>1, <1>2, <2>2
    <3> QED
      BY <1>2, <3>1 DEF GoodInv
  <2> QED
    BY <2>1, <2>2
<1>3. \A x \in BagToSet(msgs') : GoodMessage(x, G)
  BY DEF GoodInv
<1> QED
  BY <1>2, <1>3 DEF GoodInv

\* The questions of a good node that no switch marks are good; other nodes' messages
\* are nobody's concern.
LEMMA RequestsAreGood ==
    ASSUME NEW G, NEW n \in Node, NEW t, NEW a, NEW sk, NEW v, NEW r,
           PeerInv(n, t, a, sk, v, r), n \in G => Unmarked(t), NEW kept,
           NEW rest, MessageBag(rest), BagToSet(rest) \subseteq BagToSet(msgs),
           Leave(n, t, Requests(n, kept, t), rest)
    PROVE  \A x \in BagToSet(msgs') : x \in BagToSet(msgs) \/ GoodMessage(x, G)
<1>1. t \in State /\ t.waiting_response_map \subseteq Node
  BY DEF PeerInv, NodeInv, InNetwork
<1>2. /\ Requests(n, kept, t) \in SUBSET Message
      /\ \A m \in Requests(n, kept, t) :
            m.type = "request" /\ m.from = n /\ m.seq_num = t.seq_num
  BY <1>1, RequestsAreMessages
<1>3. t.seq_num # 0
  BY NumbersBeginAtOne
<1>4. ASSUME NEW x \in BagToSet(msgs'), x \notin BagToSet(msgs)
      PROVE  GoodMessage(x, G)
  <2>1. PICK m \in Requests(n, kept, t) : Rendering(t, m, x)
    BY <1>2, <1>4, LeaveEffect
  <2>2. x.type = "request" /\ x.from = n
    BY <1>2, <2>1 DEF Rendering
  <2>3. n \in G => x.seq_num # 0
    BY <1>2, <1>3, <2>1 DEF Rendering, Unmarked
  <2> QED
    BY <2>2, <2>3 DEF GoodMessage
<1> QED
  BY <1>4

\* A handler that sends nothing adds no message.
LEMMA SilenceIsGood ==
    ASSUME NEW n, NEW t, NEW rest, MessageBag(rest), BagToSet(rest) \subseteq BagToSet(msgs),
           Leave(n, t, {}, rest)
    PROVE  BagToSet(msgs') \subseteq BagToSet(msgs)
<1>1. {} \in SUBSET Message
  OBVIOUS
<1> QED
  BY <1>1, LeaveEffect

LEMMA GoodAnnounce ==
    ASSUME NetInv, NEW G \in SUBSET Node, GoodInv(G), NEW n \in Node, Announce(n)
    PROVE  GoodInv(G)'
<1> DEFINE s == node[n]
           t == on_block_new(s, Chain[announced[n] + 1])
<1>1. node \in [Node -> State]
  BY DEF NetInv
<1>2. node' = [node EXCEPT ![n] = t] /\ UNCHANGED <<msgs, decided, voters>>
  <2>1. node' = [node EXCEPT ![n] = on_block_new(@, Chain[announced[n] + 1])]
    BY DEF Announce
  <2> QED
    BY <1>1, <2>1 DEF Announce, roundVars
<1>3. /\ t.decision_map = s.decision_map /\ t.phase = s.phase
      /\ t.response_buffer = s.response_buffer
  BY <1>1 DEF on_block_new, set_block_new_timestamp, State
<1> HIDE DEF t
<1>4. n \in G => GoodNode(t, voters[n], G) /\ GoodDecisions(decided[n])
  BY <1>3, SameVotesGood DEF GoodInv
<1> QED
  BY <1>2, <1>4, GoodMoves

LEMMA GoodQueue ==
    ASSUME NetInv, NEW G \in SUBSET Node, GoodInv(G), \A g \in G : Unmarked(node'[g]),
           NEW n \in Node, handle_queue(n)
    PROVE  GoodInv(G)'
<1> DEFINE s == node[n]
<1>1. s.block_queue # <<>> /\ Head(s.block_queue) # s.decision_block
  BY DEF handle_queue
<1>2. CASE Spin(n)
  BY <1>2, NobodyGood DEF Spin, chainVars, roundVars
<1>3. ASSUME NEW t \in handle_block_new(s, Head(s.block_queue)),
             Leave(n, t, Requests(n, {}, t), msgs),
             voters' = [voters EXCEPT ![n] = {}], UNCHANGED chainVars
      PROVE  GoodInv(G)'
  <2>1. /\ node \in [Node -> State] /\ MessageBag(msgs) /\ s \in State
        /\ PeerInv(n, s, announced[n], skipped[n], voters[n], replaced[n])
        /\ voters \in [Node -> SUBSET Node]
    BY DEF NetInv, Peers, RoundInv
  <2>2. /\ PeerInv(n, t, announced[n], skipped[n], {}, 0)
        /\ t.response_buffer = Zeros /\ s.seq_num + 1 \in SeqNum
        /\ t.decision_map = [s.decision_map EXCEPT ![s.seq_num + 1] = "OK"]
    BY <1>1, <1>3, <2>1, OpeningKeeps
  <2>3. node' = [node EXCEPT ![n] = t]
    BY <1>3 DEF Leave
  <2>4. node'[n] = t
    BY <2>1, <2>3
  <2>5. n \in G => Unmarked(t)
    BY <2>4
  <2>6. \A x \in BagToSet(msgs') : x \in BagToSet(msgs) \/ GoodMessage(x, G)
    BY <1>3, <2>1, <2>2, <2>5, RequestsAreGood
  <2>7. /\ voters'[n] = {} /\ decided' = decided
        /\ \A m \in Node \ {n} : voters'[m] = voters[m]
    BY <1>3, <2>1 DEF chainVars
  <2>8. n \in G => GoodNode(t, {}, G) /\ GoodDecisions(decided[n])
    BY <2>1, <2>2, OpeningIsGood DEF GoodInv
  <2> QED
    BY <2>3, <2>6, <2>7, <2>8, GoodMoves
<1> QED
  BY <1>2, <1>3 DEF handle_queue

\* Among good nodes the answer is OK: the question is about a block, and the node
\* answers only when that block has a colour.
LEMMA GoodRequest ==
    ASSUME NetInv, NEW G \in SUBSET Node, GoodInv(G), \A g \in G : Unmarked(node'[g]),
           NEW m \in BagToSet(msgs), ReceiveRequest(m)
    PROVE  GoodInv(G)'
<1> DEFINE n == m.to
           s == node[n]
<1>1. /\ node \in [Node -> State] /\ m \in Message /\ MessageBag(Rest(m))
      /\ BagToSet(Rest(m)) \subseteq BagToSet(msgs)
  BY RestOfMessages DEF NetInv, MessageBag
<1>2. n \in Node /\ s \in State /\ m.seq_num \in SeqNum
  BY <1>1 DEF Message
<1>3. /\ Leave(n, s, Reply(s, m), Rest(m)) /\ m.type = "request"
      /\ UNCHANGED <<chainVars, roundVars>>
  BY DEF ReceiveRequest, Receives
<1>4. /\ Reply(s, m) \in SUBSET Message
      /\ \A x \in Reply(s, m) :
            /\ x.type \in {"response", "unavailable"} /\ x.from = m.to /\ x.to = m.from
            /\ x.type = "response" =>
                  s.decision_map[m.seq_num] # "None" /\ x.vote = vote_for(s, m.seq_num)
  BY <1>1, <1>2, RepliesAreMessages
<1>5. node' = [node EXCEPT ![n] = s]
  BY <1>3 DEF Leave
<1>6. node' = node
  BY <1>1, <1>2, <1>5
<1>7. ASSUME NEW x \in BagToSet(msgs'), x \notin BagToSet(msgs)
      PROVE  GoodMessage(x, G)
  <2>1. PICK y \in Reply(s, m) : Rendering(s, y, x)
    BY <1>1, <1>3, <1>4, <1>7, LeaveEffect
  <2>2. x.type = y.type /\ x.from = n /\ x.to = m.from /\ x.type # "request"
    BY <1>4, <2>1 DEF Rendering
  <2>3. ASSUME n \in G, m.from \in G, x.type = "response"
        PROVE  x.vote = 1
    <3>1. Unmarked(s) /\ GoodNode(s, voters[n], G)
      BY <1>6, <2>3 DEF GoodInv
    <3>2. x.vote = y.vote
      BY <2>1, <3>1 DEF Rendering, Unmarked
    <3>3. m.seq_num # 0
      BY <1>3, <2>3 DEF GoodInv, GoodMessage
    <3>4. s.decision_map[m.seq_num] # "None" /\ y.vote = vote_for(s, m.seq_num)
      BY <1>4, <2>1, <2>2, <2>3
    <3>5. s.decision_map[m.seq_num] = "OK"
      BY <1>2, <3>1, <3>3, <3>4 DEF GoodNode
    <3> QED
      BY <3>2, <3>4, <3>5 DEF vote_for
  <2> QED
    BY <2>2, <2>3 DEF GoodMessage
<1>8. voters' = voters /\ decided' = decided
  BY <1>3 DEF chainVars, roundVars
<1> QED
  BY <1>6, <1>7, <1>8 DEF GoodInv

\* The decision of a good node is OK.
LEMMA GoodDecide ==
    ASSUME NetInv, NEW n \in Node, NEW t, current_color(t) = "OK", Decide(n, t),
           GoodDecisions(decided[n])
    PROVE  GoodDecisions(decided'[n])
<1> DEFINE e == [block |-> t.decision_block, color |-> "OK"]
           D == decided[n]
<1>1. decided \in [Node -> Seq([block : Block, color : {"OK", "KO"}])]
  BY DEF NetInv, ChainInv
<1>2. decided'[n] = Append(D, e)
  BY <1>1 DEF Decide
<1>3. D \in Seq([block : Block, color : {"OK", "KO"}]) /\ e.color = "OK" /\ GoodDecisions(D)
  BY <1>1
<1> HIDE DEF D, e
<1>4. \A i \in DOMAIN Append(D, e) : Append(D, e)[i] = e \/ (i \in DOMAIN D /\ Append(D, e)[i] = D[i])
  BY <1>3
<1> QED
  BY <1>2, <1>3, <1>4 DEF GoodDecisions

LEMMA GoodResponse ==
    ASSUME NetInv, NEW G, Few(G, repeated'), GoodInv(G), \A g \in G : Unmarked(node'[g]),
           NEW m \in BagToSet(msgs), ReceiveResponse(m)
    PROVE  GoodInv(G)'
<1> DEFINE n == m.to
           s == node[n]
           c == counted(s, m.from, m.vote)
<1>1. /\ node \in [Node -> State] /\ Peers /\ m \in Message /\ MessageBag(Rest(m)) /\ RoundInv
      /\ BagToSet(Rest(m)) \subseteq BagToSet(msgs) /\ ChainInv /\ G \in SUBSET Node
  BY RestOfMessages DEF NetInv, MessageBag, Few
<1>2. n \in Node /\ m.from \in Node /\ m.vote \in Color /\ s \in State
      /\ voters[n] \in SUBSET Node
  BY <1>1 DEF Message, RoundInv
<1>3. PeerInv(n, s, announced[n], skipped[n], voters[n], replaced[n])
  BY <1>1, <1>2 DEF Peers
<1>4. n \in G => GoodNode(s, voters[n], G) /\ GoodDecisions(decided[n])
  BY DEF GoodInv
<1>5. n \in G /\ m.from \in G => m.vote = 1
  BY DEF GoodInv, GoodMessage, ReceiveResponse, Receives
<1>6. CASE Spin(n)
  BY <1>6, NobodyGood DEF Spin, chainVars, roundVars
<1>7. CASE ~ Spin(n)
  <2>1. PICK t \in State :
            /\ node' = [node EXCEPT ![n] = t]
            /\ UNCHANGED <<faults, announced, head, skipped, linkVars>>
            /\ \/ /\ ~ awaited(s, m.from) /\ t = s
                  /\ Leave(n, t, {}, Rest(m))
                  /\ UNCHANGED <<roundVars, decided, committing>>
               \/ /\ awaited(s, m.from) /\ ~ round_complete(c) /\ t = c
                  /\ Leave(n, t, {}, Rest(m))
                  /\ CountVoter(n, m.from, FALSE)
                  /\ UNCHANGED <<decided, committing>>
               \/ /\ awaited(s, m.from) /\ round_complete(c) /\ t \in on_values_ready(c)
                  /\ Leave(n, t, Requests(n, {}, t), Rest(m))
                  /\ CountVoter(n, m.from, TRUE)
                  /\ IF t.phase # "Listening" THEN Decide(n, t)
                     ELSE UNCHANGED <<decided, committing>>
    BY <1>7, ResponseCases
  <2>2. node' = [node EXCEPT ![n] = t] /\ node'[n] = t /\ (n \in G => Unmarked(t))
    BY <1>1, <1>2, <2>1
  <2>3. CASE ~ awaited(s, m.from) /\ t = s /\ Leave(n, t, {}, Rest(m))
             /\ UNCHANGED <<roundVars, decided, committing>>
    <3>1. BagToSet(msgs') \subseteq BagToSet(msgs)
      BY <1>1, <2>3, SilenceIsGood
    <3>2. voters' = voters /\ decided' = decided
      BY <2>3 DEF roundVars
    <3>3. n \in G => GoodNode(t, voters'[n], G) /\ GoodDecisions(decided'[n])
      BY <1>4, <2>3, <3>2
    <3> HIDE DEF n, s, c
    <3> QED
      BY <1>1, <1>2, <2>2, <3>1, <3>2, <3>3, GoodMoves
  <2>4. CASE /\ awaited(s, m.from) /\ ~ round_complete(c) /\ t = c /\ Leave(n, t, {}, Rest(m))
             /\ CountVoter(n, m.from, FALSE) /\ UNCHANGED <<decided, committing>>
    <3>1. BagToSet(msgs') \subseteq BagToSet(msgs)
      BY <1>1, <2>4, SilenceIsGood
    <3>2. /\ voters'[n] = voters[n] \cup {m.from} /\ decided' = decided
          /\ \A q \in Node \ {n} : voters'[q] = voters[q]
      BY <1>1, <1>2, <2>4, CountVoterKeeps
    <3>3. n \in G => GoodNode(t, voters[n] \cup {m.from}, G)
      BY <1>1, <1>2, <1>4, <1>5, <2>4, VoteIsGood
    <3>4. n \in G => GoodNode(t, voters'[n], G) /\ GoodDecisions(decided'[n])
      BY <1>4, <3>2, <3>3
    <3> HIDE DEF n, s, c
    <3> QED
      BY <1>1, <1>2, <2>2, <3>1, <3>2, <3>4, GoodMoves
  <2>5. CASE /\ awaited(s, m.from) /\ round_complete(c) /\ t \in on_values_ready(c)
             /\ Leave(n, t, Requests(n, {}, t), Rest(m)) /\ CountVoter(n, m.from, TRUE)
             /\ IF t.phase # "Listening" THEN Decide(n, t) ELSE UNCHANGED <<decided, committing>>
    <3>1. PeerInv(n, t, announced[n], skipped[n], {}, 0)
      BY <1>2, <1>3, <2>5, CompletionKeeps
    <3>2. \A x \in BagToSet(msgs') : x \in BagToSet(msgs) \/ GoodMessage(x, G)
      BY <1>1, <1>2, <2>2, <2>5, <3>1, RequestsAreGood
    <3>3. /\ voters'[n] = {} /\ \A q \in Node \ {n} : voters'[q] = voters[q]
          /\ s.response_buffer[0] + s.response_buffer[1] + 1
                 <= Cardinality(voters[n] \cup {m.from}) + repeated'
      BY <1>1, <1>2, <2>5, CountVoterKeeps
    <3>4. \A q \in Node \ {n} : decided'[q] = decided[q]
      BY <1>1, <2>5 DEF ChainInv, Decide
    <3>5. n \in G => GoodNode(t, {}, G) /\ (t.phase # "Listening" => current_color(t) = "OK")
      BY <1>2, <1>3, <1>4, <1>5, <2>5, <3>3, CompletionIsGood
    <3>6. n \in G => GoodDecisions(decided'[n])
      <4>1. CASE t.phase # "Listening"
        BY <1>2, <1>4, <2>5, <3>5, <4>1, GoodDecide
      <4>2. CASE t.phase = "Listening"
        BY <1>4, <2>5, <4>2
      <4> QED
        BY <4>1, <4>2
    <3>7. n \in G => GoodNode(t, voters'[n], G)
      BY <3>3, <3>5
    <3> HIDE DEF n, s, c
    <3> QED
      BY <1>1, <1>2, <2>2, <3>2, <3>3, <3>4, <3>6, <3>7, GoodMoves
  <2> QED
    BY <2>1, <2>3, <2>4, <2>5
<1> QED
  BY <1>6, <1>7

LEMMA GoodUnavailable ==
    ASSUME NetInv, NEW G \in SUBSET Node, GoodInv(G), \A g \in G : Unmarked(node'[g]),
           NEW m \in BagToSet(msgs), ReceiveUnavailable(m)
    PROVE  GoodInv(G)'
<1> DEFINE n == m.to
           s == node[n]
           counts == awaited(s, m.from)
           kept == s.waiting_response_map \ {m.from}
<1>1. /\ node \in [Node -> State] /\ Peers /\ m \in Message /\ MessageBag(Rest(m))
      /\ BagToSet(Rest(m)) \subseteq BagToSet(msgs)
  BY RestOfMessages DEF NetInv, MessageBag
<1>2. n \in Node /\ m.from \in Node
  BY <1>1 DEF Message
<1>3. PeerInv(n, s, announced[n], skipped[n], voters[n], replaced[n])
  BY <1>1, <1>2 DEF Peers
<1>4. CASE Spin(n)
  BY <1>4, NobodyGood DEF Spin, chainVars, roundVars
<1>5. ASSUME NEW t \in on_unavailable(s, m.from),
             Leave(n, t, IF counts THEN Requests(n, kept, t) ELSE {}, Rest(m)),
             UNCHANGED <<voters, chainVars>>
      PROVE  GoodInv(G)'
  <2>1. node' = [node EXCEPT ![n] = t] /\ decided' = decided /\ voters' = voters
    BY <1>5 DEF Leave, chainVars
  <2>2. n \in G => Unmarked(t)
    BY <1>1, <1>2, <2>1
  <2>3. CASE counts
    <3>1. /\ PeerInv(n, t, announced[n], skipped[n], voters[n], Min2(k, replaced[n] + 1))
          /\ SameTally(s, t)
      BY <1>2, <1>3, <1>5, <2>3, UnavailableKeepsPeer
    <3>2. Leave(n, t, Requests(n, kept, t), Rest(m))
      BY <1>5, <2>3
    <3>3. n \in G => GoodNode(t, voters[n], G) /\ GoodDecisions(decided[n])
      BY <3>1, SameVotesGood DEF SameTally, GoodInv
    <3> HIDE DEF kept, s
    <3>4. \A x \in BagToSet(msgs') : x \in BagToSet(msgs) \/ GoodMessage(x, G)
      BY <1>1, <1>2, <2>2, <3>1, <3>2, RequestsAreGood
    <3> QED
      BY <1>2, <2>1, <3>3, <3>4, GoodMoves
  <2>4. CASE ~ counts
    <3>1. t = s /\ Leave(n, t, {}, Rest(m))
      BY <1>5, <2>4 DEF on_unavailable
    <3>2. BagToSet(msgs') \subseteq BagToSet(msgs)
      BY <1>1, <3>1, SilenceIsGood
    <3>3. n \in G => GoodNode(t, voters[n], G) /\ GoodDecisions(decided[n])
      BY <3>1 DEF GoodInv
    <3> QED
      BY <1>2, <2>1, <3>2, <3>3, GoodMoves
  <2> QED
    BY <2>3, <2>4
<1> QED
  BY <1>4, <1>5 DEF ReceiveUnavailable

LEMMA GoodExpire ==
    ASSUME NetInv, NEW G \in SUBSET Node, GoodInv(G), \A g \in G : Unmarked(node'[g]),
           NEW n \in Node, NEW expired \in SUBSET node[n].waiting_response_map,
           Expire(n, expired)
    PROVE  GoodInv(G)'
<1> DEFINE s == node[n]
           kept == s.waiting_response_map \ expired
<1>1. /\ node \in [Node -> State] /\ MessageBag(msgs)
      /\ PeerInv(n, s, announced[n], skipped[n], voters[n], replaced[n])
  BY DEF NetInv, Peers
<1>2. CASE Spin(n)
  BY <1>2, NobodyGood DEF Spin, chainVars, roundVars
<1>3. ASSUME NEW t \in handle_unresponsive_peers(s, expired),
             Leave(n, t, Requests(n, kept, t), msgs), UNCHANGED <<voters, chainVars>>
      PROVE  GoodInv(G)'
  <2>1. node' = [node EXCEPT ![n] = t] /\ decided' = decided /\ voters' = voters
    BY <1>3 DEF Leave, chainVars
  <2>2. n \in G => Unmarked(t)
    BY <1>1, <2>1
  <2>3. /\ PeerInv(n, t, announced[n], skipped[n], voters[n],
                   Min2(k, replaced[n] + Cardinality(expired)))
        /\ SameTally(s, t)
    BY <1>1, <1>3, UnresponsiveKeepsPeer
  <2>4. n \in G => GoodNode(t, voters[n], G) /\ GoodDecisions(decided[n])
    BY <2>3, SameVotesGood DEF SameTally, GoodInv
  <2> HIDE DEF kept, s
  <2>5. \A x \in BagToSet(msgs') : x \in BagToSet(msgs) \/ GoodMessage(x, G)
    BY <1>1, <1>3, <2>2, <2>3, RequestsAreGood
  <2> QED
    BY <2>1, <2>4, <2>5, GoodMoves
<1> QED
  BY <1>2, <1>3 DEF Expire

LEMMA GoodRestart ==
    ASSUME NetInv, NEW G \in SUBSET Node, GoodInv(G), NEW n \in Node, Restart(n)
    PROVE  GoodInv(G)'
<1> DEFINE t == NewStateAtHead(n)
<1>1. /\ node' = [node EXCEPT ![n] = t] /\ decided' = decided
      /\ msgs' = [m \in {x \in BagToSet(msgs) : x.to # n} |-> msgs[m]]
      /\ voters' = [voters EXCEPT ![n] = {}]
  BY DEF Restart
<1>2. voters'[n] = {} /\ \A m \in Node \ {n} : voters'[m] = voters[m]
  BY <1>1 DEF NetInv, RoundInv
<1>3. BagToSet(msgs') \subseteq BagToSet(msgs)
  BY <1>1 DEF BagToSet
<1>4. n \in G => GoodNode(t, {}, G) /\ GoodDecisions(decided[n])
  BY NewStateIsGood DEF NewStateAtHead, GoodInv
<1> HIDE DEF t
<1> QED
  BY <1>1, <1>2, <1>3, <1>4, GoodMoves

LEMMA GoodNotice ==
    ASSUME NetInv, NEW G \in SUBSET Node, GoodInv(G), NEW n \in Node, NEW p \in Node,
           NoticeDown(n, p) \/ NoticeUp(n, p)
    PROVE  GoodInv(G)'
<1> DEFINE s == node[n]
<1>1. /\ node \in [Node -> State] /\ LinkInv
      /\ PeerInv(n, s, announced[n], skipped[n], voters[n], replaced[n])
  BY DEF NetInv, Peers
<1>2. UNCHANGED <<msgs, voters, decided>>
  BY DEF NoticeDown, NoticeUp, chainVars, roundVars
<1>3. ASSUME NEW t, node' = [node EXCEPT ![n] = t], t.phase = s.phase,
             t.decision_map = s.decision_map, t.response_buffer = s.response_buffer
      PROVE  GoodInv(G)'
  <2>1. n \in G => GoodNode(t, voters[n], G) /\ GoodDecisions(decided[n])
    BY <1>3, SameVotesGood DEF GoodInv
  <2> QED
    BY <1>2, <1>3, <2>1, GoodMoves
<1>4. CASE NoticeDown(n, p)
  <2> DEFINE t == on_peer_disconnected(s, p)
  <2>1. node' = [node EXCEPT ![n] = on_peer_disconnected(@, p)] /\ IsMember(s.member_ids, p)
        /\ p # n
    BY <1>1, <1>4 DEF NoticeDown, LinkInv
  <2>2. node' = [node EXCEPT ![n] = t]
    BY <1>1, <2>1
  <2>3. /\ t.phase = s.phase /\ t.decision_map = s.decision_map
        /\ t.response_buffer = s.response_buffer
    BY <1>1, <2>1, DisconnectedKeepsPeer
  <2> HIDE DEF t
  <2> QED
    BY <1>3, <2>2, <2>3
<1>5. CASE NoticeUp(n, p)
  <2> DEFINE t == on_peer_connected(s, p)
  <2>1. node' = [node EXCEPT ![n] = on_peer_connected(@, p)] /\ ~ IsMember(s.member_ids, p)
    BY <1>5 DEF NoticeUp
  <2>2. node' = [node EXCEPT ![n] = t]
    BY <1>1, <2>1
  <2>3. /\ t.phase = s.phase /\ t.decision_map = s.decision_map
        /\ t.response_buffer = s.response_buffer
    BY <1>1, <2>1, ConnectedKeepsPeer
  <2> HIDE DEF t
  <2> QED
    BY <1>3, <2>2, <2>3
<1> QED
  BY <1>4, <1>5

\* Every step of the network, when those outside G are few.
LEMMA GoodStep ==
    ASSUME NetInv, NEW G, Few(G, repeated'), GoodInv(G), \A g \in G : Unmarked(node'[g]),
           [Next]_vars
    PROVE  GoodInv(G)'
<1>1. G \in SUBSET Node
  BY DEF Few
<1>2. ASSUME NEW n \in Node, Commit(n) \/ Crash(n)
      PROVE  GoodInv(G)'
  BY <1>2, NobodyGood DEF Commit, Crash, chainVars, roundVars
<1>3. ASSUME NEW n \in Node, Announce(n) \/ handle_queue(n) \/ Restart(n)
      PROVE  GoodInv(G)'
  BY <1>1, <1>3, GoodAnnounce, GoodQueue, GoodRestart
<1>4. ASSUME NEW m \in BagToSet(msgs), Deliver(m)
      PROVE  GoodInv(G)'
  BY <1>1, <1>4, GoodRequest, GoodResponse, GoodUnavailable DEF Deliver
<1>5. ASSUME NEW n \in Node, NEW expired \in SUBSET node[n].waiting_response_map,
             Expire(n, expired)
      PROVE  GoodInv(G)'
  BY <1>1, <1>5, GoodExpire
<1>6. ASSUME NEW n \in Node, NEW p \in Node, NoticeDown(n, p) \/ NoticeUp(n, p)
      PROVE  GoodInv(G)'
  BY <1>1, <1>6, GoodNotice
<1>7. CASE UNCHANGED vars
  BY <1>7, NobodyGood DEF vars, chainVars, roundVars
<1> QED
  BY <1>2, <1>3, <1>4, <1>5, <1>6, <1>7 DEF Next

LEMMA GoodInit ==
    ASSUME Init, NEW G \in SUBSET Node
    PROVE  GoodInv(G)
<1>1. ASSUME NEW n \in G
      PROVE  GoodNode(node[n], voters[n], G) /\ GoodDecisions(decided[n])
  <2>1. /\ node[n] = NewState(n, Members, HeadBlock, 0) /\ voters[n] = {} /\ decided[n] = <<>>
    BY <1>1 DEF Init
  <2>2. GoodDecisions(<<>>)
    BY DEF GoodDecisions
  <2> QED
    BY <2>1, <2>2, NewStateIsGood
<1>2. BagToSet(msgs) = {}
  BY DEF Init, BagToSet, EmptyBag, SetToBag
<1> QED
  BY <1>1, <1>2 DEF GoodInv

\* What no step takes back.
LEMMA NothingIsForgotten ==
    ASSUME NetInv, [Next]_vars
    PROVE  faults' = faults /\ crashed \subseteq crashed' /\ repeated <= repeated'
<1> USE DEF NetInv, RoundInv
<1>1. ASSUME NEW n \in Node, Announce(n) \/ handle_queue(n) \/ Commit(n) \/ Crash(n) \/ Restart(n)
      PROVE  faults' = faults /\ crashed \subseteq crashed' /\ repeated <= repeated'
  BY <1>1
  DEF Announce, handle_queue, Commit, Crash, Restart, Spin, linkVars, chainVars, roundVars
<1>2. ASSUME NEW m \in BagToSet(msgs), Deliver(m)
      PROVE  faults' = faults /\ crashed \subseteq crashed' /\ repeated <= repeated'
  <2>1. CASE ReceiveRequest(m) \/ ReceiveUnavailable(m) \/ Spin(m.to)
    BY <2>1
    DEF ReceiveRequest, ReceiveUnavailable, Spin, linkVars, chainVars, roundVars
  <2>2. CASE ReceiveResponse(m) /\ ~ Spin(m.to)
    <3>1. faults' = faults /\ crashed' = crashed
      BY <2>2 DEF ReceiveResponse, linkVars
    <3>2. repeated' = repeated \/ \E complete \in BOOLEAN : CountVoter(m.to, m.from, complete)
      BY <2>2, ResponseCases DEF roundVars
    <3>3. m.to \in Node /\ m.from \in Node
      BY DEF MessageBag, Message
    <3>4. ASSUME NEW complete \in BOOLEAN, CountVoter(m.to, m.from, complete)
          PROVE  repeated <= repeated'
      BY <3>3, <3>4, CountVoterKeeps
    <3> QED
      BY <3>1, <3>2, <3>4
  <2> QED
    BY <1>2, <2>1, <2>2 DEF Deliver
<1>3. ASSUME NEW n \in Node, NEW expired \in SUBSET node[n].waiting_response_map,
             Expire(n, expired)
      PROVE  faults' = faults /\ crashed \subseteq crashed' /\ repeated <= repeated'
  BY <1>3 DEF Expire, Spin, linkVars, chainVars, roundVars
<1>4. ASSUME NEW n \in Node, NEW p \in Node, NoticeDown(n, p) \/ NoticeUp(n, p)
      PROVE  faults' = faults /\ crashed \subseteq crashed' /\ repeated <= repeated'
  BY <1>4 DEF NoticeDown, NoticeUp, linkVars, chainVars, roundVars
<1>5. CASE UNCHANGED vars
  BY <1>5 DEF vars, linkVars, roundVars
<1> QED
  BY <1>1, <1>2, <1>3, <1>4, <1>5 DEF Next

----------------------------------------------------------------------------
\* Positions

\* A list of different nodes is no longer than the member list.
LEMMA FewMembers ==
    ASSUME NEW members \in Seq(Node), Distinct(members)
    PROVE  Len(members) <= Len(Members)
<1>1. /\ Len(members) \in Nat /\ Len(Members) \in Nat
      /\ members \in [1..Len(members) -> Node] /\ Members \in [1..Len(Members) -> Node]
      /\ DOMAIN members = 1..Len(members) /\ DOMAIN Members = 1..Len(Members)
  BY NodesArePeers
<1> DEFINE a == Len(members)
           b == Len(Members)
<1>2. members \in Injection(1..a, Node)
  BY <1>1 DEF Injection, IsInjective, Distinct
<1>3. Members \in Surjection(1..b, Node)
  BY <1>1 DEF Surjection, Node
<1>4. IsFiniteSet(1..b) /\ Cardinality(1..b) = b /\ Cardinality(1..a) = a
  <2>1. a \in Nat /\ b \in Nat
    BY <1>1
  <2> HIDE DEF a, b
  <2>2. /\ IsFiniteSet(1..b) /\ Cardinality(1..b) = IF 1 > b THEN 0 ELSE b - 1 + 1
        /\ Cardinality(1..a) = IF 1 > a THEN 0 ELSE a - 1 + 1
    BY <2>1, FS_Interval
  <2> QED
    BY <2>1, <2>2
<1>5. Cardinality(Node) <= Cardinality(1..b)
  BY <1>3, <1>4, FS_Surjection
<1>6. Cardinality(1..a) <= Cardinality(Node) /\ Cardinality(Node) \in Nat
  BY <1>2, NodesArePeers, FS_Injection, FS_CardinalityType
<1> QED
  BY <1>1, <1>4, <1>5, <1>6

LEMMA PlaceInMembers ==
    ASSUME NEW i \in Nat, i < Len(Members)
    PROVE  Members[i + 1] \in Node /\ OrderIndex(Members, Members[i + 1]) = i
<1>1. /\ Members \in Seq(Peer) /\ Len(Members) \in Nat /\ DOMAIN Members = 1..Len(Members)
      /\ Distinct(Members)
  BY NetworkAssumption DEF Distinct
<1>2. i + 1 \in 1..Len(Members)
  BY <1>1
<1> DEFINE p == Members[i + 1]
           o == OrderIndex(Members, p)
<1>3. p \in Node /\ IsMember(Members, p)
  BY <1>1, <1>2 DEF Node, IsMember
<1>4. o \in 0..(Len(Members) - 1) /\ Members[o + 1] = p
  BY <1>1, <1>3, OrderIndexProperties
<1> HIDE DEF o
<1>5. o + 1 \in 1..Len(Members)
  BY <1>1, <1>4
<1>6. o + 1 = i + 1
  BY <1>1, <1>2, <1>4, <1>5 DEF Distinct
<1> QED
  BY <1>3, <1>4, <1>6 DEF o

\* Whatever its list of members has become, a node's position is that of some node in
\* the on-chain list.
LEMMA PositionOfSomeNode ==
    ASSUME NEW n, NEW s, NEW a, NEW sk, NEW v, NEW r, PeerInv(n, s, a, sk, v, r)
    PROVE  \E p \in Node : s.order = OrderIndex(Members, p)
<1>1. s.order \in Nat /\ Ordered(s) /\ s.member_ids \in Seq(Node)
  BY DEF PeerInv, NodeInv, State, InNetwork
<1> DEFINE members == s.member_ids
<1>2. Distinct(members) /\ s.order < Len(members) /\ members \in Seq(Node)
  BY <1>1 DEF Ordered, Distinct
<1> HIDE DEF members
<1>3. Len(members) <= Len(Members) /\ Len(members) \in Nat /\ Len(Members) \in Nat
  BY <1>2, FewMembers, NodesArePeers
<1>4. s.order < Len(Members)
  <2>1. s.order \in Nat
    BY <1>1
  <2>2. s.order < Len(members)
    BY <1>2
  <2> QED
    BY <1>3, <2>1, <2>2
<1> QED
  BY <1>1, <1>4, PlaceInMembers

\* While the list is the on-chain one, it is the node's own.
LEMMA OwnPosition ==
    ASSUME NEW n, NEW s, NEW a, NEW sk, NEW v, NEW r, PeerInv(n, s, a, sk, v, r),
           s.member_ids = Members
    PROVE  s.order = OrderIndex(Members, n)
<1>1. s.order \in Nat /\ s.order < Len(Members) /\ Members[s.order + 1] = n
  BY DEF PeerInv, NodeInv, State, Ordered
<1> QED
  BY <1>1, PlaceInMembers

LEMMA OwnPlace ==
    ASSUME NEW n \in Node
    PROVE  OrderIndex(Members, n) \in Nat
<1>1. Members \in Seq(Peer) /\ Distinct(Members) /\ IsMember(Members, n) /\ Len(Members) \in Nat
  BY NetworkAssumption, NodesArePeers DEF Distinct
<1>2. OrderIndex(Members, n) \in 0..(Len(Members) - 1)
  BY <1>1, OrderIndexProperties
<1> QED
  BY <1>1, <1>2

\* The place in the settings is always possible, and places only come in addition.
LEMMA OwnIsPossible ==
    ASSUME NEW n \in Node
    PROVE  OrderIndex(Members, n) \in Positions(n) /\ OrderIndex(Members, n) \in Positions(n)'
BY OwnPlace DEF Positions

LEMMA PlacesStayPossible ==
    ASSUME NEW n \in Node, crashed \subseteq crashed', faults' = faults
    PROVE  Positions(n) \subseteq Positions(n)' /\ (Faulty(n) => Faulty(n)')
<1>1. Positions(n) \subseteq Positions(n)'
  BY OwnPlace DEF Positions
<1> QED
  BY <1>1 DEF Faulty

----------------------------------------------------------------------------
\* Nobody votes KO

HonestInv ==
    /\ NetInv
    /\ (\A n \in Node : ~ Faulty(n)) => GoodInv(Node)

LEMMA HonestInit == Init => HonestInv
BY NetInit, GoodInit DEF HonestInv

LEMMA HonestStep == HonestInv /\ [Next]_vars => HonestInv'
<1> SUFFICES ASSUME HonestInv, [Next]_vars, (\A n \in Node : ~ Faulty(n))'
             PROVE  NetInv' /\ GoodInv(Node)'
  BY NetStep DEF HonestInv
<1>1. NetInv /\ NetInv'
  BY NetStep DEF HonestInv
<1>2. faults' = faults /\ crashed \subseteq crashed'
  BY <1>1, NothingIsForgotten
<1>3. \A n \in Node : ~ Faulty(n)
  BY <1>2, PlacesStayPossible
<1>4. ASSUME NEW g \in Node
      PROVE  Unmarked(node'[g])
  <2>1. PeerInv(g, node'[g], announced'[g], skipped'[g], voters'[g], replaced'[g])
    BY <1>1 DEF NetInv, Peers
  <2>2. PICK p \in Node : node'[g].order = OrderIndex(Members, p)
    BY <2>1, PositionOfSomeNode
  <2>3. node'[g].order \in Positions(p)'
    BY <2>2, OwnIsPossible
  <2> QED
    BY <1>2, <2>3 DEF Faulty, Unmarked
<1>5. GoodInv(Node)
  BY <1>3 DEF HonestInv
<1>6. Few(Node, repeated')
  BY <1>1 DEF Few, NetInv, RoundInv
<1> QED
  BY <1>1, <1>4, <1>5, <1>6, GoodStep

\* When no switch makes a node vote wrongly, no node ever sends or decides KO: late and
\* repeated answers, hung nodes, crashes and restarts cannot turn a block down, for any
\* number of nodes and any thresholds.
THEOREM NobodyVotesKO == Spec => []HonestNetworkAccepts
<1>1. HonestInv => HonestNetworkAccepts
  <2> SUFFICES ASSUME HonestInv, \A n \in Node : ~ Faulty(n)
               PROVE  /\ \A m \in BagToSet(msgs) : m.type = "response" => m.vote = 1
                      /\ \A n \in Node : \A i \in DOMAIN decided[n] : decided[n][i].color = "OK"
    BY DEF HonestNetworkAccepts
  <2>1. GoodInv(Node) /\ \A m \in BagToSet(msgs) : m.from \in Node /\ m.to \in Node
    BY DEF HonestInv, NetInv, MessageBag, Message
  <2> QED
    BY <2>1 DEF GoodInv, GoodMessage, GoodDecisions
<1> QED
  BY <1>1, HonestInit, HonestStep, PTL DEF Spec

----------------------------------------------------------------------------
\* Who changes its list of members

SameMembers == \A n \in Node : node'[n].member_ids = node[n].member_ids

LEMMA OneKeepsMembers ==
    ASSUME NetInv, NEW n \in Node, NEW t, node' = [node EXCEPT ![n] = t],
           t.member_ids = node[n].member_ids
    PROVE  SameMembers
<1>1. node'[n] = t /\ \A m \in Node \ {n} : node'[m] = node[m]
  BY DEF NetInv
<1> QED
  BY <1>1 DEF SameMembers

LEMMA OpeningKeepsMembers ==
    ASSUME NEW s \in State, NEW b, NEW t \in handle_block_new(s, b)
    PROVE  t.member_ids = s.member_ids
<1>1. PICK sample \in select_node_sample(s, k) :
          t = switch_phase(prepare_and_forward_peer_requests(opened(s, b), sample))
  BY DEF handle_block_new
<1> QED
  BY <1>1 DEF switch_phase, prepare_and_forward_peer_requests, add_to_waiting_set, opened, State

LEMMA DeliverKeepsMembers ==
    ASSUME NetInv, NEW m \in BagToSet(msgs), Deliver(m)
    PROVE  SameMembers
<1> DEFINE n == m.to
           s == node[n]
           c == counted(s, m.from, m.vote)
<1>1. /\ node \in [Node -> State] /\ m \in Message /\ Peers
  BY DEF NetInv, MessageBag
<1>2. n \in Node /\ m.from \in Node /\ m.vote \in Color /\ s \in State
  BY <1>1 DEF Message
<1>3. PeerInv(n, s, announced[n], skipped[n], voters[n], replaced[n])
  BY <1>1, <1>2 DEF Peers
<1>4. CASE Spin(n)
  BY <1>4 DEF Spin, SameMembers
<1>5. CASE ReceiveRequest(m)
  BY <1>2, <1>5, OneKeepsMembers DEF ReceiveRequest, Leave
<1>6. CASE ReceiveUnavailable(m) /\ ~ Spin(n)
  <2>1. PICK t \in on_unavailable(s, m.from) : node' = [node EXCEPT ![n] = t]
    BY <1>6 DEF ReceiveUnavailable, Leave
  <2>2. t.member_ids = s.member_ids
    <3>1. CASE awaited(s, m.from)
      BY <1>2, <1>3, <2>1, <3>1, UnavailableKeepsPeer DEF SameTally
    <3>2. CASE ~ awaited(s, m.from)
      BY <2>1, <3>2 DEF on_unavailable
    <3> QED
      BY <3>1, <3>2
  <2> QED
    BY <1>2, <2>1, <2>2, OneKeepsMembers
<1>7. CASE ReceiveResponse(m) /\ ~ Spin(n)
  <2>1. PICK t \in State :
            /\ node' = [node EXCEPT ![n] = t]
            /\ \/ t = s
               \/ t = c
               \/ awaited(s, m.from) /\ round_complete(c) /\ t \in on_values_ready(c)
    BY <1>7, ResponseCases
  <2>2. c.member_ids = s.member_ids
    BY <1>2 DEF counted, State
  <2>3. t.member_ids = s.member_ids
    BY <1>2, <1>3, <2>1, <2>2, CompletionKeeps
  <2> QED
    BY <1>2, <2>1, <2>3, OneKeepsMembers
<1> QED
  BY <1>4, <1>5, <1>6, <1>7 DEF Deliver

\* Only a restart, or noticing that a peer came or went, changes a list.
LEMMA MembersStay ==
    ASSUME NetInv, [Next]_vars, ~ \E n \in Node : Restart(n),
           ~ \E n, p \in Node : NoticeDown(n, p) \/ NoticeUp(n, p)
    PROVE  SameMembers
<1>1. ASSUME NEW n \in Node, Announce(n)
      PROVE  SameMembers
  <2> DEFINE t == on_block_new(node[n], Chain[announced[n] + 1])
  <2>1. node' = [node EXCEPT ![n] = on_block_new(@, Chain[announced[n] + 1])]
    BY <1>1 DEF Announce
  <2>2. node' = [node EXCEPT ![n] = t] /\ node[n] \in State
    BY <2>1 DEF NetInv
  <2>3. t.member_ids = node[n].member_ids
    BY <2>2 DEF on_block_new, set_block_new_timestamp, State
  <2> HIDE DEF t
  <2> QED
    BY <2>1, <2>2, <2>3, OneKeepsMembers
<1>2. ASSUME NEW n \in Node, Spin(n) \/ Commit(n) \/ Crash(n)
      PROVE  SameMembers
  BY <1>2 DEF Spin, Commit, Crash, SameMembers
<1>3. ASSUME NEW n \in Node, handle_queue(n), ~ Spin(n)
      PROVE  SameMembers
  <2>1. PICK t \in handle_block_new(node[n], Head(node[n].block_queue)) :
            node' = [node EXCEPT ![n] = t]
    BY <1>3 DEF handle_queue, Leave
  <2>2. node[n] \in State
    BY DEF NetInv
  <2>3. t.member_ids = node[n].member_ids
    BY <2>1, <2>2, OpeningKeepsMembers
  <2> QED
    BY <2>1, <2>3, OneKeepsMembers
<1>4. ASSUME NEW m \in BagToSet(msgs), Deliver(m)
      PROVE  SameMembers
  BY <1>4, DeliverKeepsMembers
<1>5. ASSUME NEW n \in Node, NEW expired \in SUBSET node[n].waiting_response_map,
             Expire(n, expired), ~ Spin(n)
      PROVE  SameMembers
  <2>1. PICK t \in handle_unresponsive_peers(node[n], expired) : node' = [node EXCEPT ![n] = t]
    BY <1>5 DEF Expire, Leave
  <2>2. PeerInv(n, node[n], announced[n], skipped[n], voters[n], replaced[n])
    BY DEF NetInv, Peers
  <2>3. t.member_ids = node[n].member_ids
    BY <2>1, <2>2, UnresponsiveKeepsPeer DEF SameTally
  <2> QED
    BY <2>1, <2>3, OneKeepsMembers
<1>6. CASE UNCHANGED vars
  BY <1>6 DEF vars, SameMembers
<1> QED
  BY <1>1, <1>2, <1>3, <1>4, <1>5, <1>6 DEF Next

\* Connections change with crashes and restarts only, and by being noticed.
LEMMA LinksStay ==
    ASSUME NetInv, [Next]_vars, ~ \E n \in Node : Crash(n) \/ Restart(n),
           ~ \E n, p \in Node : NoticeDown(n, p) \/ NoticeUp(n, p)
    PROVE  broken' = broken /\ \A n \in Node : status'[n] \in {status[n], "spinning"}
<1>1. ASSUME NEW n \in Node, Spin(n)
      PROVE  broken' = broken /\ \A m \in Node : status'[m] \in {status[m], "spinning"}
  BY <1>1 DEF Spin, NetInv, LinkInv
<1>2. ASSUME UNCHANGED linkVars
      PROVE  broken' = broken /\ \A m \in Node : status'[m] \in {status[m], "spinning"}
  BY <1>2 DEF linkVars
<1>3. ASSUME NEW n \in Node, Announce(n) \/ handle_queue(n) \/ Commit(n)
      PROVE  UNCHANGED linkVars \/ Spin(n)
  BY <1>3 DEF Announce, handle_queue, Commit
<1>4. ASSUME NEW m \in BagToSet(msgs), Deliver(m)
      PROVE  m.to \in Node /\ (UNCHANGED linkVars \/ Spin(m.to))
  BY <1>4
  DEF Deliver, ReceiveRequest, ReceiveResponse, ReceiveUnavailable, NetInv, MessageBag, Message
<1>5. ASSUME NEW n \in Node, NEW expired \in SUBSET node[n].waiting_response_map,
             Expire(n, expired)
      PROVE  UNCHANGED linkVars \/ Spin(n)
  BY <1>5 DEF Expire
<1>6. CASE UNCHANGED vars
  BY <1>2, <1>6 DEF vars
<1> QED
  BY <1>1, <1>2, <1>3, <1>4, <1>5, <1>6 DEF Next

\* Before the first crash every node has the on-chain list of members.
Calm ==
    \A n \in Node : status[n] # "down" /\ broken[n] = {} /\ node[n].member_ids = Members

LEMMA CalmStep ==
    ASSUME NetInv, Calm, [Next]_vars, crashed' = {}
    PROVE  Calm'
<1>1. ~ \E n \in Node : Crash(n) \/ Restart(n)
  BY DEF Crash, Restart, Calm
<1>2. ~ \E n, p \in Node : NoticeDown(n, p) \/ NoticeUp(n, p)
  BY NodesArePeers DEF NoticeDown, NoticeUp, Calm
<1>3. SameMembers
  BY <1>1, <1>2, MembersStay
<1>4. broken' = broken /\ \A n \in Node : status'[n] \in {status[n], "spinning"}
  BY <1>1, <1>2, LinksStay
<1> QED
  BY <1>3, <1>4 DEF Calm, SameMembers

----------------------------------------------------------------------------
\* A node's position only goes down from its place in the settings

\* The position is where the node is in its own list.
LEMMA PositionIsWhere ==
    ASSUME NEW n, NEW s, NEW a, NEW sk, NEW v, NEW r, PeerInv(n, s, a, sk, v, r),
           NEW j \in Nat, j < Len(s.member_ids), s.member_ids[j + 1] = n
    PROVE  s.order = j
<1> DEFINE m == s.member_ids
           o == s.order
<1>1. /\ m \in Seq(Peer) /\ o \in Nat /\ Distinct(m) /\ o < Len(m) /\ m[o + 1] = n
  BY DEF PeerInv, NodeInv, State, Ordered, Distinct
<1>2. Len(m) \in Nat /\ DOMAIN m = 1..Len(m) /\ j < Len(m) /\ m[j + 1] = n
  BY <1>1
<1> HIDE DEF m, o
<1>3. \A x, y \in 1..Len(m) : m[x] = m[y] => x = y
  BY <1>1, <1>2 DEF Distinct
<1>4. o + 1 \in 1..Len(m) /\ j + 1 \in 1..Len(m)
  BY <1>1, <1>2
<1>5. o + 1 = j + 1
  BY <1>1, <1>2, <1>3, <1>4
<1>6. o = j
  BY <1>1, <1>5
<1> QED
  BY <1>6 DEF o

LEMMA SameListSamePosition ==
    ASSUME NEW n, NEW s, NEW a, NEW sk, NEW v, NEW r, PeerInv(n, s, a, sk, v, r),
           NEW t, NEW a2, NEW sk2, NEW v2, NEW r2, PeerInv(n, t, a2, sk2, v2, r2),
           t.member_ids = s.member_ids
    PROVE  t.order = s.order
<1>1. s.order \in Nat /\ s.order < Len(t.member_ids) /\ t.member_ids[s.order + 1] = n
  BY DEF PeerInv, NodeInv, State, Ordered
<1> QED
  BY <1>1, PositionIsWhere

\* A newcomer goes to the end of the list.
LEMMA ConnectedKeepsPosition ==
    ASSUME NEW n, NEW s, NEW a, NEW sk, NEW v, NEW r, PeerInv(n, s, a, sk, v, r),
           NEW p \in Node, ~ IsMember(s.member_ids, p)
    PROVE  on_peer_connected(s, p).order = s.order
<1> DEFINE t == on_peer_connected(s, p)
           m == s.member_ids
           o == s.order
<1>1. PeerInv(n, t, a, sk, v, r)
  BY ConnectedKeepsPeer
<1>2. m \in Seq(Peer) /\ o \in Nat /\ o < Len(m) /\ m[o + 1] = n /\ p \in Peer
  BY NodesArePeers DEF PeerInv, NodeInv, State, Ordered
<1>3. t.member_ids = Append(m, p)
  BY <1>2 DEF on_peer_connected, with_members, PeerInv, NodeInv, State
<1>4. o < Len(Append(m, p)) /\ Append(m, p)[o + 1] = n
  <2> HIDE DEF m, o
  <2>1. Len(m) \in Nat /\ Len(Append(m, p)) = Len(m) + 1
    BY <1>2
  <2>2. \A i \in 1..Len(m) : Append(m, p)[i] = m[i]
    BY <1>2
  <2>3. o + 1 \in 1..Len(m) /\ o < Len(m) + 1
    BY <1>2, <2>1
  <2> QED
    BY <1>2, <2>1, <2>2, <2>3
<1>5. o < Len(t.member_ids) /\ t.member_ids[o + 1] = n
  BY <1>3, <1>4
<1> HIDE DEF t
<1>6. t.order = o
  BY <1>1, <1>2, <1>5, PositionIsWhere
<1> QED
  BY <1>6 DEF t

\* A peer that leaves moves those behind it one place to the front.
LEMMA DisconnectedLowersPosition ==
    ASSUME NEW n, NEW s, NEW a, NEW sk, NEW v, NEW r, PeerInv(n, s, a, sk, v, r),
           NEW p \in Node, p # n, IsMember(s.member_ids, p)
    PROVE  on_peer_disconnected(s, p).order <= s.order
<1> DEFINE t == on_peer_disconnected(s, p)
           m == s.member_ids
           o == s.order
           i == OrderIndex(m, p) + 1
           members == RemoveAt(m, i)
<1>1. PeerInv(n, t, a, sk, v, r)
  BY DisconnectedKeepsPeer
<1>2. /\ m \in Seq(Peer) /\ o \in Nat /\ Distinct(m) /\ o < Len(m) /\ m[o + 1] = n
      /\ Len(m) \in Nat
  BY DEF PeerInv, NodeInv, State, Ordered, Distinct
<1>3. i \in 1..Len(m) /\ m[i] = p
  BY <1>2, OrderIndexProperties
<1>4. t.member_ids = members
  BY DEF on_peer_disconnected, with_members, PeerInv, NodeInv, State
<1> HIDE DEF i
<1>5. /\ Len(members) = Len(m) - 1
      /\ \A x \in 1..(Len(m) - 1) : members[x] = IF x < i THEN m[x] ELSE m[x + 1]
  BY <1>2, <1>3, RemoveAtProperties
<1> HIDE DEF t, m, o, members
<1>6. o + 1 # i
  BY <1>2, <1>3
<1>7. CASE o + 1 < i
  <2>1. o + 1 \in 1..(Len(m) - 1)
    BY <1>2, <1>3, <1>7
  <2>2. members[o + 1] = n /\ o < Len(members)
    BY <1>2, <1>5, <1>7, <2>1
  <2>3. t.order = o
    BY <1>1, <1>2, <1>4, <2>2, PositionIsWhere
  <2> QED
    BY <1>2, <2>3 DEF t, o
<1>8. CASE i < o + 1
  <2>1. o \in 1..(Len(m) - 1) /\ ~ (o < i)
    BY <1>2, <1>3, <1>8
  <2>2. members[o] = m[o + 1]
    BY <1>5, <2>1
  <2>3. o - 1 \in Nat /\ (o - 1) + 1 = o /\ o - 1 < Len(members)
    BY <1>2, <1>5, <2>1
  <2>4. members[(o - 1) + 1] = n
    BY <1>2, <2>2, <2>3
  <2>5. t.order = o - 1
    BY <1>1, <1>4, <2>3, <2>4, PositionIsWhere
  <2>6. t.order <= o
    BY <1>2, <2>5
  <2> QED
    BY <2>6 DEF t, o
<1> QED
  BY <1>2, <1>3, <1>6, <1>7, <1>8

LowOrder == \A n \in Node : node[n].order <= OrderIndex(Members, n)

\* One node moves and does not go up.
LEMMA OneStaysLow ==
    ASSUME NetInv, NetInv', LowOrder, NEW n \in Node, NEW t, node' = [node EXCEPT ![n] = t],
           t.order <= node[n].order \/ t.order = OrderIndex(Members, n)
    PROVE  LowOrder'
<1>1. node'[n] = t /\ \A m \in Node \ {n} : node'[m] = node[m]
  BY DEF NetInv
<1>2. node[n].order \in Nat /\ t.order \in Nat /\ OrderIndex(Members, n) \in Nat
  BY <1>1, OwnPlace DEF NetInv, State
<1>3. node[n].order <= OrderIndex(Members, n)
  BY DEF LowOrder
<1>4. t.order <= OrderIndex(Members, n)
  BY <1>2, <1>3
<1> QED
  BY <1>1, <1>4 DEF LowOrder

LEMMA LowOrderStep ==
    ASSUME NetInv, NetInv', LowOrder, [Next]_vars
    PROVE  LowOrder'
<1>1. ASSUME NEW n \in Node
      PROVE  /\ PeerInv(n, node[n], announced[n], skipped[n], voters[n], replaced[n])
             /\ PeerInv(n, node'[n], announced'[n], skipped'[n], voters'[n], replaced'[n])
             /\ node[n] \in State
  BY DEF NetInv, Peers
<1>2. ASSUME NEW n \in Node, Restart(n)
      PROVE  LowOrder'
  <2> DEFINE t == NewStateAtHead(n)
  <2>1. node' = [node EXCEPT ![n] = t] /\ t.order = OrderIndex(Members, n)
    BY <1>2 DEF Restart, NewStateAtHead, NewState
  <2> HIDE DEF t
  <2> QED
    BY <2>1, OneStaysLow
<1>3. ASSUME NEW n \in Node, NEW p \in Node, NoticeDown(n, p)
      PROVE  LowOrder'
  <2> DEFINE t == on_peer_disconnected(node[n], p)
  <2>1. node' = [node EXCEPT ![n] = t] /\ IsMember(node[n].member_ids, p)
    BY <1>3 DEF NoticeDown, NetInv
  <2>2. p # n
    BY <1>3 DEF NoticeDown, NetInv, LinkInv
  <2>3. t.order <= node[n].order
    BY <1>1, <2>1, <2>2, DisconnectedLowersPosition
  <2> HIDE DEF t
  <2> QED
    BY <2>1, <2>3, OneStaysLow
<1>4. ASSUME NEW n \in Node, NEW p \in Node, NoticeUp(n, p)
      PROVE  LowOrder'
  <2> DEFINE t == on_peer_connected(node[n], p)
  <2>1. node' = [node EXCEPT ![n] = t] /\ ~ IsMember(node[n].member_ids, p)
    BY <1>4 DEF NoticeUp, NetInv
  <2>2. t.order = node[n].order /\ node[n].order \in Nat
    BY <1>1, <2>1, ConnectedKeepsPosition DEF State
  <2>3. t.order <= node[n].order
    BY <2>2
  <2> HIDE DEF t
  <2> QED
    BY <2>1, <2>3, OneStaysLow
<1>5. CASE /\ ~ \E n \in Node : Restart(n)
           /\ ~ \E n, p \in Node : NoticeDown(n, p) \/ NoticeUp(n, p)
  <2>1. SameMembers
    BY <1>5, MembersStay
  <2>2. ASSUME NEW n \in Node
        PROVE  node'[n].order = node[n].order
    <3>1. node'[n].member_ids = node[n].member_ids
      BY <2>1 DEF SameMembers
    <3> QED
      BY <1>1, <3>1, SameListSamePosition
  <2> QED
    BY <2>2 DEF LowOrder
<1> QED
  BY <1>2, <1>3, <1>4, <1>5

\* Where the nodes are: at the positions that MinorityCannotFlip takes for possible.
PlaceInv ==
    /\ NetInv
    /\ crashed = {} => Calm
    /\ LowOrder

LEMMA PlaceInit == Init => PlaceInv
<1> SUFFICES ASSUME Init
             PROVE  PlaceInv
  OBVIOUS
<1>1. NetInv
  BY NetInit
<1>2. Calm
  BY DEF Init, Calm, NewState
<1>3. \A n \in Node : node[n].order = OrderIndex(Members, n) /\ node[n].order \in Nat
  BY OwnPlace DEF Init, NewState
<1>4. LowOrder
  BY <1>3 DEF LowOrder
<1> QED
  BY <1>1, <1>2, <1>4 DEF PlaceInv

LEMMA PlaceStep == PlaceInv /\ [Next]_vars => PlaceInv'
<1> SUFFICES ASSUME PlaceInv, [Next]_vars
             PROVE  PlaceInv'
  OBVIOUS
<1>1. NetInv /\ NetInv' /\ LowOrder
  BY NetStep DEF PlaceInv
<1>2. crashed \subseteq crashed'
  BY <1>1, NothingIsForgotten
<1>3. ASSUME crashed' = {}
      PROVE  Calm'
  BY <1>1, <1>2, <1>3, CalmStep DEF PlaceInv
<1>4. LowOrder'
  BY <1>1, LowOrderStep
<1> QED
  BY <1>1, <1>3, <1>4 DEF PlaceInv

LEMMA PositionsArePossible == PlaceInv => \A n \in Node : node[n].order \in Positions(n)
<1> SUFFICES ASSUME PlaceInv, NEW n \in Node
             PROVE  node[n].order \in Positions(n)
  OBVIOUS
<1>1. /\ node[n].order \in Nat /\ OrderIndex(Members, n) \in Nat
      /\ node[n].order <= OrderIndex(Members, n)
  BY OwnPlace DEF PlaceInv, NetInv, State, LowOrder
<1>2. CASE crashed = {}
  <2>1. /\ PeerInv(n, node[n], announced[n], skipped[n], voters[n], replaced[n])
        /\ node[n].member_ids = Members
    BY <1>2 DEF PlaceInv, NetInv, Peers, Calm
  <2>2. node[n].order = OrderIndex(Members, n)
    BY <2>1, OwnPosition
  <2> QED
    BY <1>2, <2>2 DEF Positions
<1>3. CASE crashed # {}
  BY <1>1, <1>3 DEF Positions
<1> QED
  BY <1>2, <1>3

----------------------------------------------------------------------------
\* A minority of wrong votes

Trusted == {n \in Node : ~ Faulty(n)}

FewFaulty == Cardinality({n \in Node : Faulty(n)}) + repeated < alfa

MinorityInv == PlaceInv /\ (FewFaulty => GoodInv(Trusted))

LEMMA MinorityInit == Init => MinorityInv
<1> SUFFICES ASSUME Init
             PROVE  MinorityInv
  OBVIOUS
<1>1. PICK G \in SUBSET Node : G = Trusted
  BY DEF Trusted
<1> QED
  BY <1>1, PlaceInit, GoodInit DEF MinorityInv

\* A good set of nodes stays good when some are taken out of it.
LEMMA FewerAreGood ==
    ASSUME NetInv, NEW G \in SUBSET Node, NEW H \in SUBSET G, GoodInv(G)
    PROVE  GoodInv(H)
<1>1. ASSUME NEW n \in H
      PROVE  GoodNode(node[n], voters[n], H) /\ GoodDecisions(decided[n])
  <2>1. node[n] \in State /\ voters[n] \in SUBSET Node
    BY DEF NetInv, RoundInv
  <2>2. GoodNode(node[n], voters[n], G) /\ GoodDecisions(decided[n])
    BY DEF GoodInv
  <2> QED
    BY <2>1, <2>2, FewerGood
<1>2. \A m \in BagToSet(msgs) : GoodMessage(m, H)
  BY DEF GoodInv, GoodMessage
<1> QED
  BY <1>1, <1>2 DEF GoodInv

LEMMA MinorityStep == MinorityInv /\ [Next]_vars => MinorityInv'
<1> SUFFICES ASSUME MinorityInv, [Next]_vars
             PROVE  MinorityInv'
  OBVIOUS
<1>1. PlaceInv /\ PlaceInv' /\ NetInv /\ NetInv'
  BY PlaceStep DEF MinorityInv, PlaceInv
<1>2. faults' = faults /\ crashed \subseteq crashed' /\ repeated <= repeated'
  BY <1>1, NothingIsForgotten
<1>3. repeated \in Nat /\ repeated' \in Nat /\ alfa \in Nat
  BY <1>1, ThresholdAssumption DEF NetInv, RoundInv
<1>4. (PlaceInv => \A n \in Node : node[n].order \in Positions(n))'
  BY PositionsArePossible, PTL
<1>5. ASSUME FewFaulty'
      PROVE  GoodInv(Trusted)'
  <2>1. PICK G \in SUBSET Node : G = Trusted
    BY DEF Trusted
  <2>2. PICK H \in SUBSET Node : H = Trusted'
    BY DEF Trusted
  <2>3. H \subseteq G
    BY <1>2, <2>1, <2>2, PlacesStayPossible DEF Trusted
  <2>4. /\ Node \ G = {n \in Node : Faulty(n)}
        /\ Node \ H = {n \in Node : Faulty(n)}'
    BY <2>1, <2>2 DEF Trusted
  <2>5. Cardinality(Node \ H) + repeated' < alfa
    BY <1>5, <2>4 DEF FewFaulty
  <2>6. /\ Cardinality(Node \ G) \in Nat /\ Cardinality(Node \ H) \in Nat
        /\ Cardinality(Node \ G) <= Cardinality(Node \ H)
    <3>1. IsFiniteSet(Node \ H) /\ Node \ G \subseteq Node \ H
      BY <2>3, NodesArePeers, FS_Subset
    <3> QED
      BY <3>1, FS_Subset, FS_CardinalityType
  <2>7. Cardinality(Node \ G) + repeated < alfa
    BY <1>2, <1>3, <2>5, <2>6
  <2>8. GoodInv(G)
    BY <2>1, <2>4, <2>7 DEF MinorityInv, FewFaulty
  <2>9. GoodInv(H)
    BY <1>1, <2>3, <2>8, FewerAreGood
  <2>10. Few(H, repeated')
    BY <1>3, <2>5 DEF Few
  <2>11. ASSUME NEW g \in H
         PROVE  Unmarked(node'[g])
    <3>1. node'[g].order \in Positions(g)' /\ ~ Faulty(g)'
      BY <1>1, <1>4, <2>2 DEF Trusted
    <3> QED
      BY <1>2, <3>1 DEF Faulty, Unmarked
  <2>12. GoodInv(H)'
    BY <1>1, <2>9, <2>10, <2>11, GoodStep
  <2> QED
    BY <2>2, <2>12 DEF GoodInv
<1> QED
  BY <1>1, <1>5 DEF MinorityInv

\* Nodes that vote KO, or that make up sequence numbers, never make another node see a
\* KO majority as long as they, and the votes counted twice in a round, are fewer than
\* alfa together: for any number of nodes, any thresholds and any crashes.
THEOREM MinorityIsOutvoted == Spec => []MinorityCannotFlip
<1>1. MinorityInv => MinorityCannotFlip
  <2> SUFFICES ASSUME MinorityInv, FewFaulty, NEW n \in Node, ~ Faulty(n)
               PROVE  "KO" \notin Range(node[n].decision_map)
    BY DEF MinorityCannotFlip, FewFaulty
  <2>1. GoodNode(node[n], voters[n], Trusted) /\ node[n] \in State
    BY DEF MinorityInv, GoodInv, Trusted, PlaceInv, NetInv
  <2>2. DOMAIN node[n].decision_map = SeqNum
    BY <2>1 DEF State
  <2>3. \A q \in SeqNum : node[n].decision_map[q] # "KO"
    BY <2>1 DEF GoodNode
  <2> QED
    BY <2>2, <2>3 DEF Range
<1> QED
  BY <1>1, MinorityInit, MinorityStep, PTL DEF Spec

----------------------------------------------------------------------------
\* Nobody waits in vain

Asks(n) ==
    n \notin crashed /\ Positions(n) \cap (faults.hang_idx \cup faults.spurious_idx) = {}

Answers(n) == n \notin crashed /\ Positions(n) \cap faults.hang_idx = {}

\* x is a question of n to p, or an answer to one.
Between(x, n, p) ==
    \/ x.from = n /\ x.to = p /\ x.type = "request"
    \/ x.from = p /\ x.to = n /\ x.type # "request"

UnderWay(n, p) == \E x \in BagToSet(msgs) : Between(x, n, p)

AwaitedInv ==
    \A n \in Node : \A p \in node[n].waiting_response_map :
        Asks(n) /\ Answers(p) => UnderWay(n, p)

\* Only a crash stops a node.
DownHasCrashed == \A n \in Node : status[n] = "down" => n \in crashed

\* The blocks have the numbers from 2 on.  A node that never restarted has a colour for
\* each of them up to its own number, and questions are about blocks.
Coloured(s) == \A q \in 2..s.seq_num : s.decision_map[q] # "None"

AboutBlock(m) ==
    m.type = "request" /\ Positions(m.from) \cap faults.spurious_idx = {} => m.seq_num >= 2

\* What the messages and those who wait for them keep.
TalkInv ==
    /\ \A n \in Node \ crashed : Coloured(node[n])
    /\ \A m \in BagToSet(msgs) : AboutBlock(m)
    /\ AwaitedInv

WaitInv == PlaceInv /\ DownHasCrashed /\ TalkInv

\* A message that is not handled stays, and what a node means to send is sent.
LEMMA OthersStay ==
    ASSUME MessageBag(msgs), NEW m, NEW x \in BagToSet(msgs), x # m
    PROVE  x \in BagToSet(Rest(m))
BY DEF MessageBag, Rest, BagToSet, SetToBag, (-)

LEMMA SentIsUnderWay ==
    ASSUME NEW s, NEW ms \in SUBSET Message, NEW sent \in send_peer_message(s, ms),
           s.order \notin faults.hang_idx
    PROVE  \A m \in ms : \E x \in BagToSet(sent) :
               x.type = m.type /\ x.from = m.from /\ x.to = m.to
<1> DEFINE seqs(m) == IF s.order \in faults.spurious_idx THEN SeqNum ELSE {m.seq_num}
           vote(m) == IF s.order \in faults.wrong_decision_idx THEN 0 ELSE m.vote
           reps    == IF s.order \in faults.duplicate_idx THEN 2 ELSE 1
           payload(m, q) == [m EXCEPT !.seq_num = q, !.vote = vote(m)]
<1>1. PICK f \in {g \in [ms -> SeqNum] : \A m \in ms : g[m] \in seqs(m)} :
          sent = [x \in {payload(m, f[m]) : m \in ms} |-> reps]
  BY DEF send_peer_message
<1>2. ASSUME NEW m \in ms
      PROVE  /\ payload(m, f[m]).type = m.type /\ payload(m, f[m]).from = m.from
             /\ payload(m, f[m]).to = m.to
  BY DEF Message
<1> HIDE DEF payload, reps
<1>3. BagToSet(sent) = {payload(m, f[m]) : m \in ms}
  BY <1>1 DEF BagToSet
<1> QED
  BY <1>2, <1>3

LEMMA LeaveKeepsAndSends ==
    ASSUME NEW n, NEW t, NEW ms \in SUBSET Message, NEW rest, MessageBag(rest),
           Leave(n, t, ms, rest)
    PROVE  /\ BagToSet(rest) \subseteq BagToSet(msgs')
           /\ t.order \notin faults.hang_idx =>
                 \A m \in ms : \E x \in BagToSet(msgs') :
                     x.type = m.type /\ x.from = m.from /\ x.to = m.to
<1>1. PICK sent \in send_peer_message(t, ms) : msgs' = rest (+) sent
  BY DEF Leave
<1>2. MessageBag(sent)
  BY SentMessages
<1>3. BagToSet(msgs') = BagToSet(rest) \cup BagToSet(sent)
  BY <1>1, <1>2, MoreMessages
<1> QED
  BY <1>3, SentIsUnderWay

\* Who asks and answers after a step has done so before it.
LEMMA AskedBefore ==
    ASSUME NEW n \in Node, crashed \subseteq crashed', faults' = faults
    PROVE  /\ Asks(n)' => Asks(n)
           /\ Answers(n)' => Answers(n)
           /\ (Positions(n) \cap faults.spurious_idx = {})'
                 => Positions(n) \cap faults.spurious_idx = {}
BY PlacesStayPossible DEF Asks, Answers

\* A node c goes on to state t: it has asked those it awaits now, apart from the ones it
\* has kept, and what it took out of the bag is no answer of these.
LEMMA AskerMoves ==
    ASSUME NetInv, AwaitedInv, crashed \subseteq crashed', faults' = faults,
           NEW c \in Node, NEW t \in State, t.waiting_response_map \subseteq Node,
           NEW kept \in SUBSET node[c].waiting_response_map,
           NEW rest, MessageBag(rest), Leave(c, t, Requests(c, kept, t), rest),
           \A x \in BagToSet(msgs) \ BagToSet(rest) :
               x.to = c /\ x.type # "request" /\ x.from \notin kept,
           Asks(c)' => t.order \notin faults.hang_idx
    PROVE  AwaitedInv'
<1>1. node'[c] = t /\ \A n \in Node \ {c} : node'[n] = node[n]
  BY DEF NetInv, Leave
<1>2. Requests(c, kept, t) \in SUBSET Message
  BY RequestsAreMessages
<1>3. /\ BagToSet(rest) \subseteq BagToSet(msgs')
      /\ t.order \notin faults.hang_idx =>
            \A m \in Requests(c, kept, t) : \E x \in BagToSet(msgs') :
                x.type = m.type /\ x.from = m.from /\ x.to = m.to
  BY <1>2, LeaveKeepsAndSends
<1> SUFFICES ASSUME NEW n \in Node, NEW p \in node'[n].waiting_response_map, Asks(n)', Answers(p)'
             PROVE  \E x \in BagToSet(msgs') : Between(x, n, p)
  BY DEF AwaitedInv, UnderWay, Between
<1>4. p \in Node
  BY <1>1 DEF NetInv, Peers, PeerInv, InNetwork
<1>5. Asks(n) /\ Answers(p)
  BY <1>4, AskedBefore
<1>6. CASE n = c /\ p \notin kept
  <2>1. Request(c, t, p) \in Requests(c, kept, t)
    BY <1>1, <1>6 DEF Requests, Asked
  <2>2. PICK x \in BagToSet(msgs') : x.type = "request" /\ x.from = c /\ x.to = p
    BY <1>3, <1>6, <2>1 DEF Request
  <2> QED
    BY <1>6, <2>2 DEF Between
<1>7. CASE n # c \/ p \in kept
  <2>1. p \in node[n].waiting_response_map
    BY <1>1, <1>7
  <2>2. PICK x \in BagToSet(msgs) : Between(x, n, p)
    BY <1>5, <2>1 DEF AwaitedInv, UnderWay
  <2>3. x \in BagToSet(rest)
    BY <1>7, <2>2 DEF Between
  <2> QED
    BY <1>3, <2>2, <2>3
<1> QED
  BY <1>6, <1>7

\* A block that is open has a number from 2 on.
LEMMA OpenNumbers ==
    ASSUME NEW n, NEW s, NEW a, NEW sk, NEW v, NEW r, PeerInv(n, s, a, sk, v, r),
           s.waiting_response_map # {}
    PROVE  s.seq_num >= 2
<1> DEFINE L == Len(s.block_queue)
           q == s.seq_num
<1>1. s \in State /\ Follows(s, a, sk) /\ s.phase = "Listening"
  BY DEF PeerInv, NodeInv, Accounted
<1>2. q \in Nat /\ L \in Nat
  BY <1>1 DEF State, SeqNum
<1>3. a \in Nat /\ sk \in Nat /\ sk + L <= a /\ q + sk + L = a + 2
  BY <1>1, ChainType DEF Follows, Numbered
<1> HIDE DEF L, q
<1>4. q >= 2
  BY <1>2, <1>3
<1> QED
  BY <1>4 DEF q

\* One node asks and goes on.
LEMMA AskerKeeps ==
    ASSUME PlaceInv, PlaceInv', TalkInv, [Next]_vars,
           NEW c \in Node, NEW t \in State, NEW kept \in SUBSET node[c].waiting_response_map,
           NEW rest, MessageBag(rest), BagToSet(rest) \subseteq BagToSet(msgs),
           Leave(c, t, Requests(c, kept, t), rest),
           \A x \in BagToSet(msgs) \ BagToSet(rest) :
               x.to = c /\ x.type # "request" /\ x.from \notin kept,
           Coloured(node[c]) => Coloured(t)
    PROVE  TalkInv'
<1>1. NetInv /\ NetInv' /\ (PlaceInv => \A n \in Node : node[n].order \in Positions(n))'
  <2>1. (PlaceInv => \A n \in Node : node[n].order \in Positions(n))'
    BY PositionsArePossible, PTL
  <2> QED
    BY <2>1 DEF PlaceInv
<1>2. faults' = faults /\ crashed \subseteq crashed'
  BY <1>1, NothingIsForgotten
<1>3. node'[c] = t /\ \A n \in Node \ {c} : node'[n] = node[n]
  BY <1>1 DEF NetInv, Leave
<1>4. PeerInv(c, t, announced'[c], skipped'[c], voters'[c], replaced'[c])
  BY <1>1, <1>3 DEF NetInv, Peers
<1>5. t.waiting_response_map \subseteq Node /\ t.order \in Positions(c)'
  BY <1>1, <1>3, <1>4 DEF PeerInv, InNetwork
<1>6. ASSUME NEW n \in Node \ crashed'
      PROVE  Coloured(node'[n])
  BY <1>2, <1>3, <1>6 DEF TalkInv
<1>7. ASSUME NEW x \in BagToSet(msgs')
      PROVE  AboutBlock(x)'
  <2>1. x.from \in Node
    BY <1>1, <1>7 DEF NetInv, MessageBag, Message
  <2>2. CASE x \in BagToSet(msgs)
    BY <1>2, <2>1, <2>2, AskedBefore DEF TalkInv, AboutBlock
  <2>3. CASE x \notin BagToSet(msgs)
    <3>1. /\ Requests(c, kept, t) \in SUBSET Message
          /\ \A m \in Requests(c, kept, t) :
                m.type = "request" /\ m.from = c /\ m.seq_num = t.seq_num
      BY <1>5, RequestsAreMessages
    <3>2. PICK m \in Requests(c, kept, t) : Rendering(t, m, x)
      BY <1>7, <2>3, <3>1, LeaveEffect
    <3>3. t.waiting_response_map # {}
      BY <3>2 DEF Requests, Asked
    <3>4. t.seq_num >= 2
      BY <1>4, <3>3, OpenNumbers
    <3>5. x.from = c
      BY <3>1, <3>2 DEF Rendering
    <3>6. Positions(c)' \cap faults'.spurious_idx = {} => x.seq_num = t.seq_num
      BY <1>2, <1>5, <3>1, <3>2 DEF Rendering
    <3> QED
      BY <3>4, <3>5, <3>6 DEF AboutBlock
  <2> QED
    BY <2>2, <2>3
<1>8. AwaitedInv'
  <2>1. Asks(c)' => t.order \notin faults.hang_idx
    BY <1>2, <1>5 DEF Asks
  <2> QED
    BY <1>1, <1>2, <1>5, <2>1, AskerMoves DEF TalkInv
<1> QED
  BY <1>6, <1>7, <1>8 DEF TalkInv

\* Nobody asks or is asked.
LEMMA SilenceKeeps ==
    ASSUME NetInv, TalkInv, [Next]_vars, msgs' = msgs,
           \A n \in Node : /\ node'[n].waiting_response_map = node[n].waiting_response_map
                           /\ node'[n].seq_num = node[n].seq_num
                           /\ node'[n].decision_map = node[n].decision_map
    PROVE  TalkInv'
<1>1. faults' = faults /\ crashed \subseteq crashed'
  BY NothingIsForgotten
<1>2. ASSUME NEW n \in Node \ crashed'
      PROVE  Coloured(node'[n])
  BY <1>1, <1>2 DEF TalkInv, Coloured
<1>3. ASSUME NEW x \in BagToSet(msgs')
      PROVE  AboutBlock(x)'
  <2>1. x.from \in Node
    BY <1>3 DEF NetInv, MessageBag, Message
  <2> QED
    BY <1>1, <1>3, <2>1, AskedBefore DEF TalkInv, AboutBlock
<1>4. AwaitedInv'
  <2> SUFFICES ASSUME NEW n \in Node, NEW p \in node'[n].waiting_response_map,
                      Asks(n)', Answers(p)'
               PROVE  UnderWay(n, p)'
    BY DEF AwaitedInv
  <2>1. p \in node[n].waiting_response_map /\ p \in Node
    BY DEF NetInv, Peers, PeerInv, InNetwork
  <2>2. UnderWay(n, p)
    BY <1>1, <2>1, AskedBefore DEF TalkInv, AwaitedInv
  <2> QED
    BY <2>2 DEF UnderWay, Between
<1> QED
  BY <1>2, <1>3, <1>4 DEF TalkInv

\* Colours of blocks that are opened or counted.
LEMMA OpeningColours ==
    ASSUME NEW s \in State, NEW b, s.seq_num + 1 \in SeqNum, NEW t \in handle_block_new(s, b)
    PROVE  Coloured(s) => Coloured(t)
<1>1. PICK sample \in select_node_sample(s, k) :
          t = switch_phase(prepare_and_forward_peer_requests(opened(s, b), sample))
  BY DEF handle_block_new
<1>2. /\ s.decision_map \in [SeqNum -> SnowballDecisionState \cup {"None"}]
      /\ s.seq_num \in Nat /\ s.seq_num <= MaxSeq /\ MaxSeq \in Nat
  BY SeqAssumption DEF State, SeqNum
<1>3. /\ t.seq_num = s.seq_num + 1
      /\ t.decision_map = [s.decision_map EXCEPT ![s.seq_num + 1] = "OK"]
  BY <1>1 DEF switch_phase, prepare_and_forward_peer_requests, add_to_waiting_set, opened, State
<1>4. ASSUME Coloured(s), NEW q \in 2..(s.seq_num + 1)
      PROVE  t.decision_map[q] # "None"
  <2>1. CASE q = s.seq_num + 1
    BY <1>2, <1>3, <2>1
  <2>2. CASE q # s.seq_num + 1
    <3>1. q \in 2..s.seq_num /\ q \in SeqNum
      BY <1>2, <2>2 DEF SeqNum
    <3> QED
      BY <1>2, <1>3, <1>4, <2>2, <3>1 DEF Coloured
  <2> QED
    BY <2>1, <2>2
<1> QED
  BY <1>3, <1>4 DEF Coloured

LEMMA CompletionColours ==
    ASSUME NEW n, NEW s, NEW a, NEW sk, NEW v, NEW r, PeerInv(n, s, a, sk, v, r),
           NEW p \in Node, NEW vote \in Color, awaited(s, p),
           round_complete(counted(s, p, vote)),
           NEW t \in on_values_ready(counted(s, p, vote))
    PROVE  Coloured(s) => Coloured(t)
<1> DEFINE c == counted(s, p, vote)
<1>1. NodeInv(s, 0) /\ s \in State /\ p \in Peer
  BY NodesArePeers DEF PeerInv, NodeInv
<1>2. c \in State /\ Deciding(c) /\ c.phase = "Listening" /\ c.decision_map = s.decision_map
      /\ c.seq_num = s.seq_num
  BY <1>1, CountedEffect
<1>3. t.seq_num = s.seq_num /\ t.decision_map = count_round(c).decision_map
  BY CompletionKeeps
<1> HIDE DEF c
<1>4. current_color(c) \in {"OK", "KO"}
  BY <1>2 DEF Deciding
<1>5. /\ current_color(count_round(c)) \in {"OK", "KO"}
      /\ count_round(c).seq_num = c.seq_num
      /\ \A q \in SeqNum \ {c.seq_num} : count_round(c).decision_map[q] = c.decision_map[q]
  BY <1>2, <1>4, CountRoundEffect
<1>6. s.seq_num \in Nat /\ s.seq_num <= MaxSeq /\ MaxSeq \in Nat
  BY <1>1, SeqAssumption DEF State, SeqNum
<1>7. ASSUME Coloured(s), NEW q \in 2..s.seq_num
      PROVE  t.decision_map[q] # "None"
  <2>1. CASE q = s.seq_num
    BY <1>2, <1>3, <1>5, <2>1 DEF current_color
  <2>2. CASE q # s.seq_num
    <3>1. q \in SeqNum
      BY <1>6 DEF SeqNum
    <3> QED
      BY <1>2, <1>3, <1>5, <1>7, <2>2, <3>1 DEF Coloured
  <2> QED
    BY <2>1, <2>2
<1> QED
  BY <1>3, <1>7 DEF Coloured

\* Who asks nobody new sends no question.
LEMMA NothingToAsk ==
    ASSUME NEW n, NEW t
    PROVE  Requests(n, t.waiting_response_map, t) = {}
BY DEF Requests, Asked

\* A question about a block is always answered, by a node that never restarted.
LEMMA BlocksAreAnswered ==
    ASSUME NEW s \in State, Coloured(s), NEW m \in Message, m.seq_num >= 2
    PROVE  \E x \in Reply(s, m) : x.type # "request" /\ x.from = m.to /\ x.to = m.from
<1> DEFINE kind  == on_request(s, m.seq_num)
           reply == [type |-> kind, from |-> m.to, to |-> m.from,
                     seq_num |-> IF kind = "response" THEN s.seq_num ELSE m.seq_num,
                     vote |-> IF kind = "response" THEN vote_for(s, m.seq_num) ELSE 0]
<1>1. s.seq_num \in Nat /\ m.seq_num \in Nat
  BY DEF State, Message, SeqNum
<1>2. m.seq_num <= s.seq_num => s.decision_map[m.seq_num] # "None"
  BY <1>1 DEF Coloured
<1>3. kind \in {"unavailable", "response"}
  BY <1>1, <1>2 DEF on_request
<1>4. Reply(s, m) = {reply}
  BY <1>3 DEF Reply
<1>5. reply.type = kind /\ reply.from = m.to /\ reply.to = m.from
  OBVIOUS
<1> HIDE DEF reply
<1> QED
  BY <1>3, <1>4, <1>5

LEMMA RequestTalks ==
    ASSUME PlaceInv, PlaceInv', TalkInv, [Next]_vars, NEW m \in BagToSet(msgs), ReceiveRequest(m)
    PROVE  TalkInv'
<1> DEFINE c == m.to
           s == node[c]
<1>1. NetInv /\ NetInv' /\ MessageBag(Rest(m)) /\ m \in Message
  BY RestOfMessages DEF PlaceInv, NetInv, MessageBag
<1>2. c \in Node /\ m.from \in Node /\ s \in State /\ m.type = "request"
  BY <1>1 DEF NetInv, Message, ReceiveRequest, Receives
<1>3. faults' = faults /\ crashed \subseteq crashed'
  BY <1>1, NothingIsForgotten
<1>4. Leave(c, s, Reply(s, m), Rest(m))
  BY DEF ReceiveRequest
<1>5. node' = node
  BY <1>1, <1>4 DEF Leave, NetInv
<1>6. /\ Reply(s, m) \in SUBSET Message
      /\ \A x \in Reply(s, m) : x.type \in {"response", "unavailable"}
  BY <1>1, <1>2, RepliesAreMessages
<1>7. /\ BagToSet(Rest(m)) \subseteq BagToSet(msgs')
      /\ s.order \notin faults.hang_idx =>
            \A y \in Reply(s, m) : \E x \in BagToSet(msgs') :
                x.type = y.type /\ x.from = y.from /\ x.to = y.to
  <2> HIDE DEF c, s
  <2> QED
    BY <1>1, <1>4, <1>6, LeaveKeepsAndSends
<1>8. ASSUME NEW n \in Node \ crashed'
      PROVE  Coloured(node'[n])
  BY <1>3, <1>5, <1>8 DEF TalkInv
<1>9. ASSUME NEW x \in BagToSet(msgs')
      PROVE  AboutBlock(x)'
  <2>1. x.from \in Node
    BY <1>1, <1>9 DEF NetInv, MessageBag, Message
  <2>2. x \in BagToSet(msgs) \/ x.type # "request"
    <3>1. x \in BagToSet(Rest(m)) \/ \E y \in Reply(s, m) : Rendering(s, y, x)
      <4> HIDE DEF c, s
      <4> QED
        BY <1>1, <1>4, <1>6, <1>9, LeaveEffect
    <3>2. BagToSet(Rest(m)) \subseteq BagToSet(msgs)
      BY <1>1, RestOfMessages DEF NetInv
    <3> QED
      BY <1>6, <3>1, <3>2 DEF Rendering
  <2> QED
    BY <1>3, <2>1, <2>2, AskedBefore DEF TalkInv, AboutBlock
<1>10. AwaitedInv'
  <2> SUFFICES ASSUME NEW n \in Node, NEW p \in node'[n].waiting_response_map,
                      Asks(n)', Answers(p)'
               PROVE  \E x \in BagToSet(msgs') : Between(x, n, p)
    BY DEF AwaitedInv, UnderWay, Between
  <2>1. p \in node[n].waiting_response_map /\ p \in Node
    BY <1>1, <1>5 DEF NetInv, Peers, PeerInv, InNetwork
  <2>2. Asks(n) /\ Answers(p)
    BY <1>3, <2>1, AskedBefore
  <2>3. PICK x \in BagToSet(msgs) : Between(x, n, p)
    BY <2>1, <2>2 DEF TalkInv, AwaitedInv, UnderWay
  <2>4. CASE x # m
    <3>1. x \in BagToSet(Rest(m))
      BY <1>1, <2>4, OthersStay DEF NetInv
    <3> QED
      BY <1>7, <2>3, <3>1
  <2>5. CASE x = m
    <3>1. n = m.from /\ p = c
      BY <1>2, <2>3, <2>5 DEF Between
    <3>2. m.seq_num >= 2
      BY <1>2, <2>2, <3>1 DEF TalkInv, AboutBlock, Asks
    <3>3. Coloured(s)
      BY <1>2, <2>2, <3>1 DEF TalkInv, Answers
    <3>4. PICK y \in Reply(s, m) : y.type # "request" /\ y.from = c /\ y.to = m.from
      <4> HIDE DEF s
      <4> QED
        BY <1>1, <1>2, <3>2, <3>3, BlocksAreAnswered
    <3>5. s.order \notin faults.hang_idx
      BY <2>1, <2>2, <3>1, PositionsArePossible DEF Answers
    <3>6. PICK z \in BagToSet(msgs') : z.type = y.type /\ z.from = y.from /\ z.to = y.to
      BY <1>7, <3>5
    <3> QED
      BY <3>1, <3>4, <3>6 DEF Between
  <2> QED
    BY <2>4, <2>5
<1> QED
  BY <1>8, <1>9, <1>10 DEF TalkInv

LEMMA ResponseTalks ==
    ASSUME PlaceInv, PlaceInv', TalkInv, [Next]_vars, NEW m \in BagToSet(msgs),
           ReceiveResponse(m), ~ Spin(m.to)
    PROVE  TalkInv'
<1> DEFINE n == m.to
           s == node[n]
           d == counted(s, m.from, m.vote)
           W == s.waiting_response_map
<1>1. /\ NetInv /\ m \in Message /\ MessageBag(Rest(m)) /\ MessageBag(msgs)
      /\ BagToSet(Rest(m)) \subseteq BagToSet(msgs)
  BY RestOfMessages DEF PlaceInv, NetInv, MessageBag
<1>2. n \in Node /\ m.from \in Node /\ m.vote \in Color /\ s \in State /\ m.type # "request"
  BY <1>1 DEF NetInv, Message, ReceiveResponse, Receives
<1>3. PeerInv(n, s, announced[n], skipped[n], voters[n], replaced[n])
  BY <1>1, <1>2 DEF NetInv, Peers
<1>4. ASSUME NEW kept, m.from \notin kept
      PROVE  \A x \in BagToSet(msgs) \ BagToSet(Rest(m)) :
                 x.to = n /\ x.type # "request" /\ x.from \notin kept
  <2>1. \A x \in BagToSet(msgs) \ BagToSet(Rest(m)) : x = m
    BY <1>1, OthersStay
  <2> QED
    BY <1>2, <1>4, <2>1
<1>5. PICK t \in State :
          \/ ~ awaited(s, m.from) /\ t = s /\ Leave(n, t, {}, Rest(m))
          \/ awaited(s, m.from) /\ t = d /\ Leave(n, t, {}, Rest(m))
          \/ /\ awaited(s, m.from) /\ round_complete(d) /\ t \in on_values_ready(d)
             /\ Leave(n, t, Requests(n, {}, t), Rest(m))
  BY <1>1, ResponseCases
<1>6. CASE ~ awaited(s, m.from) /\ t = s /\ Leave(n, t, {}, Rest(m))
  <2>1. m.from \notin W
    BY <1>3, <1>6 DEF awaited, PeerInv, NodeInv, Accounted
  <2>2. Leave(n, t, Requests(n, W, t), Rest(m)) /\ (Coloured(s) => Coloured(t))
    BY <1>6, NothingToAsk
  <2> HIDE DEF n
  <2> QED
    BY <1>1, <1>2, <1>4, <2>1, <2>2, AskerKeeps
<1>7. CASE awaited(s, m.from) /\ t = d /\ Leave(n, t, {}, Rest(m))
  <2>1. /\ t.waiting_response_map = W \ {m.from} /\ t.seq_num = s.seq_num
        /\ t.decision_map = s.decision_map
    BY <1>2, <1>7 DEF counted, State
  <2>2. Leave(n, t, Requests(n, W \ {m.from}, t), Rest(m)) /\ (Coloured(s) => Coloured(t))
    BY <1>7, <2>1, NothingToAsk DEF Coloured
  <2>3. W \ {m.from} \in SUBSET W /\ m.from \notin W \ {m.from}
    OBVIOUS
  <2> HIDE DEF n
  <2> QED
    BY <1>1, <1>2, <1>4, <2>2, <2>3, AskerKeeps
<1>8. CASE /\ awaited(s, m.from) /\ round_complete(d) /\ t \in on_values_ready(d)
           /\ Leave(n, t, Requests(n, {}, t), Rest(m))
  <2>1. Coloured(s) => Coloured(t)
    BY <1>2, <1>3, <1>8, CompletionColours
  <2>2. {} \in SUBSET W /\ m.from \notin {}
    OBVIOUS
  <2> HIDE DEF n
  <2> QED
    BY <1>1, <1>2, <1>4, <1>8, <2>1, <2>2, AskerKeeps
<1> QED
  BY <1>5, <1>6, <1>7, <1>8

LEMMA UnavailableTalks ==
    ASSUME PlaceInv, PlaceInv', TalkInv, [Next]_vars, NEW m \in BagToSet(msgs),
           ReceiveUnavailable(m), ~ Spin(m.to)
    PROVE  TalkInv'
<1> DEFINE n == m.to
           s == node[n]
           W == s.waiting_response_map
<1>1. /\ NetInv /\ m \in Message /\ MessageBag(Rest(m)) /\ MessageBag(msgs)
      /\ BagToSet(Rest(m)) \subseteq BagToSet(msgs)
  BY RestOfMessages DEF PlaceInv, NetInv, MessageBag
<1>2. n \in Node /\ m.from \in Node /\ s \in State /\ m.type # "request"
  BY <1>1 DEF NetInv, Message, ReceiveUnavailable, Receives
<1>3. PeerInv(n, s, announced[n], skipped[n], voters[n], replaced[n])
  BY <1>1, <1>2 DEF NetInv, Peers
<1>4. ASSUME NEW kept, m.from \notin kept
      PROVE  \A x \in BagToSet(msgs) \ BagToSet(Rest(m)) :
                 x.to = n /\ x.type # "request" /\ x.from \notin kept
  <2>1. \A x \in BagToSet(msgs) \ BagToSet(Rest(m)) : x = m
    BY <1>1, OthersStay
  <2> QED
    BY <1>2, <1>4, <2>1
<1>5. PICK t \in on_unavailable(s, m.from) :
          Leave(n, t, IF awaited(s, m.from) THEN Requests(n, W \ {m.from}, t) ELSE {}, Rest(m))
  BY DEF ReceiveUnavailable
<1>6. CASE ~ awaited(s, m.from)
  <2>1. m.from \notin W
    BY <1>3, <1>6 DEF awaited, PeerInv, NodeInv, Accounted
  <2>2. t = s
    BY <1>5, <1>6 DEF on_unavailable
  <2>3. Leave(n, s, Requests(n, W, s), Rest(m)) /\ (Coloured(s) => Coloured(s))
    BY <1>5, <1>6, <2>2, NothingToAsk
  <2> HIDE DEF n
  <2> QED
    BY <1>1, <1>2, <1>4, <2>1, <2>3, AskerKeeps
<1>7. CASE awaited(s, m.from)
  <2>1. SameTally(s, t) /\ t \in State
    BY <1>2, <1>3, <1>5, <1>7, UnavailableKeepsPeer DEF PeerInv, NodeInv
  <2>2. Leave(n, t, Requests(n, W \ {m.from}, t), Rest(m)) /\ (Coloured(s) => Coloured(t))
    BY <1>5, <1>7, <2>1 DEF SameTally, Coloured
  <2>3. W \ {m.from} \in SUBSET W /\ m.from \notin W \ {m.from}
    OBVIOUS
  <2> HIDE DEF n
  <2> QED
    BY <1>1, <1>2, <1>4, <2>1, <2>2, <2>3, AskerKeeps
<1> QED
  BY <1>6, <1>7

LEMMA RestartTalks ==
    ASSUME NetInv, DownHasCrashed, TalkInv, [Next]_vars, NEW c \in Node, Restart(c)
    PROVE  TalkInv'
<1>1. faults' = faults /\ crashed' = crashed /\ c \in crashed
  <2>1. faults' = faults
    BY NothingIsForgotten
  <2> QED
    BY <2>1 DEF Restart, DownHasCrashed
<1>2. /\ \A n \in Node \ {c} : node'[n] = node[n]
      /\ \A x \in BagToSet(msgs') : x \in BagToSet(msgs)
      /\ \A x \in BagToSet(msgs) : x.to # c => x \in BagToSet(msgs')
  BY DEF Restart, NetInv, BagToSet
<1>3. ASSUME NEW n \in Node \ crashed'
      PROVE  Coloured(node'[n])
  <2>1. n # c /\ n \in Node \ crashed
    BY <1>1, <1>3
  <2>2. node'[n] = node[n]
    BY <1>2, <2>1
  <2> QED
    BY <2>1, <2>2 DEF TalkInv
<1>4. ASSUME NEW x \in BagToSet(msgs')
      PROVE  AboutBlock(x)'
  <2>1. x \in BagToSet(msgs) /\ x.from \in Node
    BY <1>2, <1>4 DEF NetInv, MessageBag, Message
  <2> QED
    BY <1>1, <2>1, AskedBefore DEF TalkInv, AboutBlock
<1>5. AwaitedInv'
  <2> SUFFICES ASSUME NEW n \in Node, NEW p \in node'[n].waiting_response_map,
                      Asks(n)', Answers(p)'
               PROVE  \E x \in BagToSet(msgs') : Between(x, n, p)
    BY DEF AwaitedInv, UnderWay, Between
  <2>1. n # c /\ p # c
    BY <1>1 DEF Asks, Answers
  <2>2. p \in node[n].waiting_response_map /\ p \in Node
    BY <1>2, <2>1 DEF NetInv, Peers, PeerInv, InNetwork
  <2>3. PICK x \in BagToSet(msgs) : Between(x, n, p)
    BY <1>1, <2>2, AskedBefore DEF TalkInv, AwaitedInv, UnderWay
  <2>4. x \in BagToSet(msgs')
    BY <1>2, <2>1, <2>3 DEF Between
  <2> QED
    BY <2>3, <2>4
<1> QED
  BY <1>3, <1>4, <1>5 DEF TalkInv

LEMMA DownStep ==
    ASSUME NetInv, DownHasCrashed, [Next]_vars
    PROVE  DownHasCrashed'
<1>1. crashed \subseteq crashed'
  BY NothingIsForgotten
<1>2. ASSUME NEW n \in Node, Crash(n) \/ Restart(n)
      PROVE  DownHasCrashed'
  BY <1>1, <1>2 DEF Crash, Restart, DownHasCrashed, NetInv, LinkInv
<1>3. ASSUME NEW n \in Node, NEW p \in Node, NoticeDown(n, p) \/ NoticeUp(n, p)
      PROVE  DownHasCrashed'
  BY <1>1, <1>3 DEF NoticeDown, NoticeUp, linkVars, DownHasCrashed
<1>4. CASE /\ ~ \E n \in Node : Crash(n) \/ Restart(n)
           /\ ~ \E n, p \in Node : NoticeDown(n, p) \/ NoticeUp(n, p)
  BY <1>1, <1>4, LinksStay DEF DownHasCrashed
<1> QED
  BY <1>2, <1>3, <1>4

LEMMA TalkStep ==
    ASSUME PlaceInv, PlaceInv', DownHasCrashed, TalkInv, [Next]_vars
    PROVE  TalkInv'
<1>1. NetInv /\ node \in [Node -> State] /\ MessageBag(msgs)
  BY DEF PlaceInv, NetInv
<1>2. ASSUME NEW n \in Node
      PROVE  PeerInv(n, node[n], announced[n], skipped[n], voters[n], replaced[n])
  BY <1>1 DEF NetInv, Peers
<1>3. ASSUME node' = node, msgs' = msgs
      PROVE  TalkInv'
  BY <1>1, <1>3, SilenceKeeps
<1>4. ASSUME NEW n \in Node, NEW t, node' = [node EXCEPT ![n] = t], msgs' = msgs,
             t.waiting_response_map = node[n].waiting_response_map,
             t.seq_num = node[n].seq_num, t.decision_map = node[n].decision_map
      PROVE  TalkInv'
  <2>1. node'[n] = t /\ \A m \in Node \ {n} : node'[m] = node[m]
    BY <1>1, <1>4
  <2>2. ASSUME NEW m \in Node
        PROVE  /\ node'[m].waiting_response_map = node[m].waiting_response_map
               /\ node'[m].seq_num = node[m].seq_num
               /\ node'[m].decision_map = node[m].decision_map
    BY <1>4, <2>1
  <2> QED
    BY <1>1, <1>4, <2>2, SilenceKeeps
<1>5. ASSUME NEW n \in Node, Announce(n)
      PROVE  TalkInv'
  <2> DEFINE t == on_block_new(node[n], Chain[announced[n] + 1])
  <2>1. node' = [node EXCEPT ![n] = on_block_new(@, Chain[announced[n] + 1])] /\ msgs' = msgs
    BY <1>5 DEF Announce
  <2>2. node' = [node EXCEPT ![n] = t] /\ node[n] \in State
    BY <1>1, <2>1
  <2>3. /\ t.waiting_response_map = node[n].waiting_response_map
        /\ t.seq_num = node[n].seq_num /\ t.decision_map = node[n].decision_map
    BY <2>2 DEF on_block_new, set_block_new_timestamp, State
  <2> HIDE DEF t
  <2> QED
    BY <1>4, <2>1, <2>2, <2>3
<1>6. ASSUME NEW n \in Node, Spin(n) \/ Commit(n) \/ Crash(n)
      PROVE  TalkInv'
  BY <1>3, <1>6 DEF Spin, Commit, Crash
<1>7. ASSUME NEW n \in Node, handle_queue(n), ~ Spin(n)
      PROVE  TalkInv'
  <2> DEFINE s == node[n]
             b == Head(s.block_queue)
  <2>1. PICK t \in handle_block_new(s, b) : Leave(n, t, Requests(n, {}, t), msgs)
    BY <1>7 DEF handle_queue
  <2>2. s.block_queue # <<>> /\ b # s.decision_block
    BY <1>7 DEF handle_queue
  <2>3. t \in State /\ s.seq_num + 1 \in SeqNum
    <3>1. PeerInv(n, t, announced[n], skipped[n], {}, 0) /\ s.seq_num + 1 \in SeqNum
      BY <1>2, <2>1, <2>2, OpeningKeeps
    <3> QED
      BY <3>1 DEF PeerInv, NodeInv
  <2>4. Coloured(s) => Coloured(t)
    BY <1>1, <2>1, <2>3, OpeningColours
  <2>5. {} \in SUBSET node[n].waiting_response_map
    OBVIOUS
  <2> HIDE DEF b
  <2> QED
    BY <1>1, <2>1, <2>3, <2>4, <2>5, AskerKeeps
<1>8. ASSUME NEW n \in Node, Restart(n)
      PROVE  TalkInv'
  BY <1>1, <1>8, RestartTalks
<1>9. ASSUME NEW m \in BagToSet(msgs), Deliver(m), ~ Spin(m.to)
      PROVE  TalkInv'
  BY <1>9, RequestTalks, ResponseTalks, UnavailableTalks DEF Deliver
<1>10. ASSUME NEW m \in BagToSet(msgs)
       PROVE  m.to \in Node
  BY <1>1 DEF MessageBag, Message
<1>11. ASSUME NEW n \in Node, NEW expired \in SUBSET node[n].waiting_response_map,
              Expire(n, expired), ~ Spin(n)
       PROVE  TalkInv'
  <2> DEFINE kept == node[n].waiting_response_map \ expired
  <2>1. PICK t \in handle_unresponsive_peers(node[n], expired) :
            Leave(n, t, Requests(n, kept, t), msgs)
    BY <1>11 DEF Expire
  <2>2. SameTally(node[n], t) /\ t \in State
    BY <1>2, <2>1, UnresponsiveKeepsPeer DEF PeerInv, NodeInv
  <2>3. (Coloured(node[n]) => Coloured(t)) /\ kept \in SUBSET node[n].waiting_response_map
    BY <2>2 DEF SameTally, Coloured
  <2> HIDE DEF kept
  <2> QED
    BY <1>1, <2>1, <2>2, <2>3, AskerKeeps
<1>12. ASSUME NEW n \in Node, NEW p \in Node, NoticeDown(n, p)
       PROVE  TalkInv'
  <2> DEFINE t == on_peer_disconnected(node[n], p)
  <2>1. node' = [node EXCEPT ![n] = t] /\ msgs' = msgs
    BY <1>1, <1>12 DEF NoticeDown
  <2>2. /\ t.waiting_response_map = node[n].waiting_response_map
        /\ t.seq_num = node[n].seq_num /\ t.decision_map = node[n].decision_map
    BY <1>1 DEF on_peer_disconnected, with_members, State
  <2> HIDE DEF t
  <2> QED
    BY <1>4, <2>1, <2>2
<1>13. ASSUME NEW n \in Node, NEW p \in Node, NoticeUp(n, p)
       PROVE  TalkInv'
  <2> DEFINE t == on_peer_connected(node[n], p)
  <2>1. node' = [node EXCEPT ![n] = t] /\ msgs' = msgs
    BY <1>1, <1>13 DEF NoticeUp
  <2>2. /\ t.waiting_response_map = node[n].waiting_response_map
        /\ t.seq_num = node[n].seq_num /\ t.decision_map = node[n].decision_map
    BY <1>1 DEF on_peer_connected, with_members, State
  <2> HIDE DEF t
  <2> QED
    BY <1>4, <2>1, <2>2
<1>14. CASE UNCHANGED vars
  BY <1>3, <1>14 DEF vars
<1> QED
  BY <1>5, <1>6, <1>7, <1>8, <1>9, <1>10, <1>11, <1>12, <1>13, <1>14 DEF Next

LEMMA WaitInit == Init => WaitInv
<1> SUFFICES ASSUME Init
             PROVE  WaitInv
  OBVIOUS
<1>1. PlaceInv
  BY PlaceInit
<1>2. BagToSet(msgs) = {} /\ DownHasCrashed
  BY DEF Init, BagToSet, EmptyBag, SetToBag, DownHasCrashed
<1>3. \A n \in Node : node[n].seq_num = 1 /\ node[n].waiting_response_map = {}
  BY DEF Init, NewState
<1>4. TalkInv
  BY <1>2, <1>3 DEF TalkInv, Coloured, AwaitedInv
<1> QED
  BY <1>1, <1>2, <1>4 DEF WaitInv

LEMMA WaitStep == WaitInv /\ [Next]_vars => WaitInv'
<1> SUFFICES ASSUME WaitInv, [Next]_vars
             PROVE  WaitInv'
  OBVIOUS
<1>1. PlaceInv /\ PlaceInv' /\ NetInv /\ DownHasCrashed /\ TalkInv
  BY PlaceStep DEF WaitInv, PlaceInv
<1> QED
  BY <1>1, DownStep, TalkStep DEF WaitInv

\* Whatever messages are late, overtaken or sent twice, and whoever else crashes, a peer
\* that a node waits for still has its question or has answered it: no node passes over a
\* question about a block that it has no colour for, for any number of nodes and blocks.
THEOREM NobodyWaitsInVain == Spec => []AwaitedIsUnderWay
<1>1. WaitInv => AwaitedIsUnderWay
  BY DEF WaitInv, TalkInv, AwaitedInv, Asks, Answers, UnderWay, Between, AwaitedIsUnderWay
<1> QED
  BY <1>1, WaitInit, WaitStep, PTL DEF Spec
=============================================================================
