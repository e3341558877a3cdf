------------------------ MODULE SnowballEngineProofs ------------------------
(***************************************************************************)
(* Theorems about SnowballEngine, for any peers, blocks and parameters.    *)
(***************************************************************************)
EXTENDS SnowballEngine, SnowballNodeProofs

\* The blocks decided, followed by those in the queue, are the blocks that arrived;
\* between blocks decision_block is the block decided last.
QueueHistory ==
    /\ Len(arrived) = Len(decided) + Len(state.block_queue)
    /\ Len(arrived) <= MaxBlocks
    /\ \A i \in 1..Len(decided) : decided[i].block = arrived[i]
    /\ \A i \in 1..Len(state.block_queue) : state.block_queue[i] = arrived[Len(decided) + i]
    /\ \A i, j \in 1..Len(arrived) : arrived[i] = arrived[j] => i = j
    /\ \A i \in 1..Len(arrived) : arrived[i] \in state.convergenza
    /\ state.phase = "Idle" =>
          state.decision_block = IF Len(decided) = 0 THEN NoBlock ELSE arrived[Len(decided)]

\* The inductive invariant.  TypeOK needs SeqCountsBlocks and QueueHistory to see
\* that seq_num stays within MaxSeq; RoundAccounting, a part of NodeInv, needs the
\* members to be distinct and a block to be opened only when nobody is awaited,
\* which is what Deciding says.
IInv ==
    /\ TypeOK
    /\ NodeInv(state, dropped)
    /\ state.id = self
    /\ SeqCountsBlocks
    /\ QueueHistory

----------------------------------------------------------------------------
\* Facts about the constants.
LEMMA HeadHeight ==
    /\ block_num[HeadBlock] \in Nat
    /\ MaxSeq \in Nat
    /\ block_num[HeadBlock] < MaxSeq
    /\ MaxBlocks \in Nat
BY HeightAssumption, SeqAssumption DEF MaxBlocks

\* The value of answer when no request is handled has the type of an answer.
LEMMA NoAnswerType ==
    NoAnswer \in [kind : {"none", "unavailable", "nothing", "response"},
                  seq  : SeqNum, vote : Color]
BY HeadHeight DEF NoAnswer, SeqNum, Color

\* engine.start leaves a state that satisfies the invariant.
LEMMA InitInv == Init => IInv
<1> SUFFICES ASSUME Init PROVE IInv
  OBVIOUS
<1>1. /\ Members \in Seq(Peer) /\ Distinct(Members) /\ IsMember(Members, self)
  BY MemberAssumption DEF Distinct
<1>2. /\ OrderIndex(Members, self) \in 0..(Len(Members) - 1)
      /\ Members[OrderIndex(Members, self) + 1] = self
  BY <1>1, OrderIndexProperties
<1>3. self \in Peer
  BY <1>1 DEF IsMember
<1>4. OrderIndex(Members, self) \in Nat /\ OrderIndex(Members, self) < Len(Members)
  BY <1>1, <1>2
<1>5. block_num[HeadBlock] + 1 \in SeqNum
  BY HeadHeight DEF SeqNum
<1>6. [q \in SeqNum |-> IF q = 0 THEN "Undecided" ELSE "None"]
          \in [SeqNum -> SnowballDecisionState \cup {"None"}]
  BY DEF SnowballDecisionState
<1>7. Zeros \in [Color -> Nat] /\ "Undecided" \in SnowballDecisionState
  BY DEF Zeros, SnowballDecisionState
<1>8. state \in State
  BY <1>1, <1>3, <1>4, <1>5, <1>6, <1>7 DEF Init, NewState, State, BlockId, SnowballPhase
<1>9. /\ state.id = self /\ state.member_ids = Members
      /\ state.order = OrderIndex(Members, self) /\ state.waiting_response_map = {}
      /\ state.phase = "Idle" /\ state.block_queue = <<>> /\ state.decision_block = NoBlock
      /\ state.seq_num = block_num[HeadBlock] + 1
  BY DEF Init, NewState
<1>10. TypeOK
  <2>1. candidate \in BOOLEAN
    BY Zenon DEF Init
  <2>2. verdict \in [Block -> {"None", "Valid", "Invalid"}]
    BY DEF Init
  <2>3. /\ committing \in Seq(Block) /\ arrived \in Seq(Block)
        /\ decided \in Seq([block : Block, color : {"OK", "KO"}])
        /\ rounds \in Seq(Color \cup {NoMajority})
    BY DEF Init
  <2>4. /\ pc = "queue" /\ status = "running" /\ answer = NoAnswer /\ head = HeadBlock
        /\ failed = {} /\ dropped = 0
    BY DEF Init
  <2> QED
    BY <1>8, <2>1, <2>2, <2>3, <2>4, NoAnswerType DEF TypeOK
<1>11. NodeInv(state, dropped)
  <2>1. Ordered(state)
    BY <1>1, <1>2, <1>4, <1>9 DEF Ordered, Distinct
  <2>2. Accounted(state, dropped) /\ Deciding(state)
    BY <1>9 DEF Accounted, Deciding
  <2> QED
    BY <1>8, <2>1, <2>2 DEF NodeInv, Init
<1>12. Len(decided) = 0 /\ Len(arrived) = 0 /\ Len(state.block_queue) = 0
  BY <1>9 DEF Init
<1>13. SeqCountsBlocks
  BY <1>9, <1>12, HeadHeight DEF SeqCountsBlocks, DecisionSeq
<1>14. QueueHistory
  BY <1>9, <1>12, HeadHeight DEF QueueHistory
<1> QED
  BY <1>9, <1>10, <1>11, <1>13, <1>14 DEF IInv

----------------------------------------------------------------------------
\* A step that leaves the blocks and the histories of them alone.
LEMMA SameBlocksInv ==
    ASSUME IInv, TypeOK', NodeInv(state', dropped'), state'.phase = state.phase,
           SameBlocks(state, state'), state'.block_queue = state.block_queue,
           UNCHANGED <<arrived, decided>>
    PROVE  IInv'
<1>1. state'.id = self
  BY DEF IInv, SameBlocks
<1>2. SeqCountsBlocks'
  BY DEF IInv, SeqCountsBlocks, DecisionSeq, SameBlocks
<1>3. QueueHistory'
  BY DEF IInv, QueueHistory, MaxBlocks, SameBlocks
<1> QED
  BY <1>1, <1>2, <1>3 DEF IInv

\* A step that leaves the whole state record alone.
LEMMA SameStateInv ==
    ASSUME IInv, TypeOK', UNCHANGED <<state, arrived, decided, dropped>>
    PROVE  IInv'
<1>1. NodeInv(state', dropped')
  BY DEF IInv
<1> QED
  BY <1>1, SameBlocksInv DEF SameBlocks

\* The end of the engine, whatever its reason.
LEMMA HaltInv ==
    ASSUME IInv, NEW why \in Ending, Halt(why)
    PROVE  IInv'
<1>1. TypeOK'
  BY DEF Halt, IInv, TypeOK, validatorVars, historyVars
<1> QED
  BY <1>1, SameStateInv DEF Halt, historyVars

\* handle_queue.
LEMMA HandleQueueInv ==
    ASSUME IInv, HandleQueue
    PROVE  IInv'
<1>1. CASE NothingToConsider
  <2>1. TypeOK'
    BY <1>1, NoAnswerType
       DEF NothingToConsider, Loop, IInv, TypeOK, validatorVars, historyVars
  <2> QED
    BY <1>1, <2>1, SameStateInv DEF NothingToConsider, historyVars
<1>2. CASE FailStaleBlock
  <2>1. Head(state.block_queue) \in Block
    BY <1>2 DEF FailStaleBlock, FrontIsNew, IInv, TypeOK, State
  <2>2. TypeOK'
    BY <1>2, <2>1, NoAnswerType DEF FailStaleBlock, Loop, IInv, TypeOK, historyVars
  <2> QED
    BY <1>2, <2>2, SameStateInv DEF FailStaleBlock, historyVars
<1>3. CASE ConsiderBlock
  <2> DEFINE b == Head(state.block_queue)
             q == state.block_queue
  <2>1. CASE Halt("spinning")
    BY <2>1, HaltInv DEF Ending
  <2>2. CASE /\ Loop("queue", "update")
             /\ state' \in handle_block_new(state, b)
             /\ rounds' = <<>> /\ dropped' = 0 /\ answer' = NoAnswer
             /\ UNCHANGED <<validatorVars, arrived, decided>>
    <3>1. /\ TypeOK /\ NodeInv(state, dropped) /\ state.id = self
          /\ SeqCountsBlocks /\ QueueHistory
      BY DEF IInv
    <3>2. q \in Seq(Block) /\ q # <<>> /\ b # state.decision_block
      BY <1>3, <3>1 DEF ConsiderBlock, FrontIsNew, TypeOK, State
    <3>3. b \in Block /\ Len(q) \in Nat /\ Len(q) >= 1 /\ b = q[1]
      BY <3>2
    <3>4. arrived \in Seq(Block) /\ Len(arrived) \in Nat /\ Len(decided) \in Nat
      BY <3>1 DEF TypeOK
    <3>5. state.phase = "Idle"
      BY <3>1, <3>2 DEF NodeInv, Deciding, State, SnowballPhase
    <3>6. state.seq_num < MaxSeq
      BY <3>1, <3>3, <3>4, <3>5, HeadHeight
         DEF SeqCountsBlocks, DecisionSeq, QueueHistory, MaxBlocks
    <3>7. b \in state.convergenza
      <4>1. q[1] = arrived[Len(decided) + 1] /\ Len(decided) + 1 \in 1..Len(arrived)
        BY <3>1, <3>3, <3>4 DEF QueueHistory
      <4> QED
        BY <3>1, <3>3, <4>1 DEF QueueHistory
    <3>8. /\ NodeInv(state', 0) /\ state'.phase = "Listening" /\ state'.id = state.id
          /\ state'.seq_num = state.seq_num + 1 /\ state'.block_queue = q
          /\ state'.convergenza = state.convergenza
      <4>1. b \in Block /\ state.block_queue # <<>> /\ Head(state.block_queue) = b
        BY <3>2, <3>3
      <4>2. state' \in handle_block_new(state, b)
        BY <2>2
      <4> HIDE DEF b
      <4> QED
        BY <3>1, <3>5, <3>6, <3>7, <4>1, <4>2, BlockNewEffect
    <3>9. TypeOK'
      <4>1. state' \in State /\ rounds' \in Seq(Color \cup {NoMajority}) /\ dropped' \in Nat
        BY <2>2, <3>8 DEF NodeInv
      <4> QED
        BY <2>2, <3>1, <4>1, NoAnswerType DEF Loop, TypeOK, validatorVars
    <3>10. SeqCountsBlocks'
      <4>1. state.seq_num = block_num[HeadBlock] + 1 + Len(decided)
        BY <3>1, <3>4, <3>5, HeadHeight DEF SeqCountsBlocks, DecisionSeq
      <4>2. state'.seq_num = block_num[HeadBlock] + 1 + (Len(decided') + 1)
        BY <2>2, <3>4, <3>8, <4>1, HeadHeight
      <4> QED
        BY <3>8, <4>2 DEF SeqCountsBlocks, DecisionSeq
    <3>11. QueueHistory'
      BY <2>2, <3>1, <3>8 DEF QueueHistory, MaxBlocks
    <3> QED
      BY <2>2, <3>1, <3>8, <3>9, <3>10, <3>11 DEF IInv
  <2> QED
    BY <1>3, <2>1, <2>2 DEF ConsiderBlock
<1> QED
  BY <1>1, <1>2, <1>3 DEF HandleQueue

\* on_block_new: the block is new, and there is a sequence number for it.
LEMMA OnBlockNewInv ==
    ASSUME IInv, NEW b \in Block, OnBlockNew(b)
    PROVE  IInv'
<1> DEFINE q == state.block_queue
<1>1. /\ TypeOK /\ NodeInv(state, dropped) /\ state.id = self
      /\ SeqCountsBlocks /\ QueueHistory
  BY DEF IInv
<1>2. /\ state' = on_block_new(state, b) /\ arrived' = Append(arrived, b)
      /\ Len(arrived) < MaxBlocks /\ \A i \in DOMAIN arrived : arrived[i] # b
      /\ UNCHANGED <<decided, dropped>>
  BY DEF OnBlockNew
<1>3. /\ NodeInv(state', dropped) /\ state'.phase = state.phase /\ state'.id = state.id
      /\ state'.seq_num = state.seq_num /\ state'.decision_block = state.decision_block
      /\ state'.block_queue = Append(q, b) /\ state'.convergenza = state.convergenza \cup {b}
  BY <1>1, <1>2, QueuedEffect
<1>4. /\ arrived \in Seq(Block) /\ q \in Seq(Block)
      /\ Len(arrived) \in Nat /\ Len(q) \in Nat /\ Len(decided) \in Nat
      /\ DOMAIN arrived = 1..Len(arrived)
  BY <1>1 DEF TypeOK, State
<1>5. /\ arrived' \in Seq(Block) /\ Len(arrived') = Len(arrived) + 1
      /\ \A i \in 1..Len(arrived) : arrived'[i] = arrived[i]
      /\ arrived'[Len(arrived) + 1] = b
  BY <1>2, <1>4
<1>6. /\ Len(state'.block_queue) = Len(q) + 1
      /\ \A i \in 1..Len(q) : state'.block_queue[i] = q[i]
      /\ state'.block_queue[Len(q) + 1] = b
  BY <1>3, <1>4
<1>7. TypeOK'
  <2>1. state' \in State
    BY <1>3 DEF NodeInv
  <2> QED
    BY <1>1, <1>5, <2>1 DEF OnBlockNew, Loop, TypeOK, validatorVars
<1>8. SeqCountsBlocks'
  BY <1>1, <1>2, <1>3 DEF SeqCountsBlocks, DecisionSeq
<1>9. QueueHistory'
  <2> HIDE DEF q
  <2>1. Len(arrived') = Len(decided') + Len(state'.block_queue) /\ Len(arrived') <= MaxBlocks'
    BY <1>1, <1>2, <1>4, <1>5, <1>6, HeadHeight DEF QueueHistory, MaxBlocks, q
  <2>2. \A i \in 1..Len(decided') : decided'[i].block = arrived'[i]
    BY <1>1, <1>2, <1>4, <1>5 DEF QueueHistory
  <2>3. ASSUME NEW i \in 1..Len(state'.block_queue)
        PROVE  state'.block_queue[i] = arrived'[Len(decided') + i]
    <3>1. Len(arrived) = Len(decided) + Len(q)
      BY <1>1 DEF QueueHistory, q
    <3>2. CASE i \in 1..Len(q)
      <4>1. q[i] = arrived[Len(decided) + i]
        BY <1>1, <3>2 DEF QueueHistory, q
      <4>2. Len(decided) + i \in 1..Len(arrived)
        BY <1>4, <3>1, <3>2
      <4> QED
        BY <1>2, <1>5, <1>6, <3>2, <4>1, <4>2
    <3>3. CASE i = Len(q) + 1
      <4>1. Len(decided) + i = Len(arrived) + 1
        BY <1>4, <3>1, <3>3
      <4> QED
        BY <1>2, <1>5, <1>6, <3>3, <4>1
    <3> QED
      BY <1>4, <1>6, <3>2, <3>3
  <2>4. ASSUME NEW i \in 1..Len(arrived'), NEW j \in 1..Len(arrived'), arrived'[i] = arrived'[j]
        PROVE  i = j
    <3>1. CASE i \in 1..Len(arrived) /\ j \in 1..Len(arrived)
      BY <1>1, <1>5, <2>4, <3>1 DEF QueueHistory
    <3>2. CASE i = Len(arrived) + 1 \/ j = Len(arrived) + 1
      BY <1>2, <1>4, <1>5, <2>4, <3>2
    <3> QED
      BY <1>4, <1>5, <3>1, <3>2
  <2>5. \A i \in 1..Len(arrived') : arrived'[i] \in state'.convergenza
    <3>1. \A i \in 1..Len(arrived) : arrived[i] \in state.convergenza
      BY <1>1 DEF QueueHistory
    <3> QED
      BY <1>3, <1>4, <1>5, <3>1
  <2>6. state'.phase = "Idle" =>
            state'.decision_block =
                IF Len(decided') = 0 THEN NoBlock ELSE arrived'[Len(decided')]
    BY <1>1, <1>2, <1>3, <1>4, <1>5 DEF QueueHistory
  <2> QED
    BY <2>1, <2>2, <2>3, <2>4, <2>5, <2>6 DEF QueueHistory
<1> QED
  BY <1>1, <1>2, <1>3, <1>7, <1>8, <1>9 DEF IInv

\* on_peer_message, "request", does not touch the state.
LEMMA OnRequestInv ==
    ASSUME IInv, NEW q \in SeqNum, OnRequest(q)
    PROVE  IInv'
<1>1. on_request(state, q) \in {"unavailable", "nothing", "response"}
  BY DEF on_request
<1>2. vote_for(state, q) \in Color /\ 0 \in Color
  BY DEF vote_for, Color
<1>3. answer' \in [kind : {"none", "unavailable", "nothing", "response"},
                   seq  : SeqNum, vote : Color]
  BY <1>1, <1>2 DEF OnRequest
<1>4. TypeOK'
  BY <1>3 DEF OnRequest, Loop, IInv, TypeOK, validatorVars, historyVars
<1> QED
  BY <1>4, SameStateInv DEF OnRequest, historyVars

\* on_peer_message, "response": the vote is ignored, lost or counted.
LEMMA VoteInv ==
    ASSUME IInv, NEW p \in Peer, NEW vote \in Votes, ~ CompletesRound(p, vote),
           Loop("update", "timers"), state' \in on_response(state, p, vote),
           dropped' = IF awaited(state, p) /\ vote \notin Color THEN dropped + 1 ELSE dropped,
           UNCHANGED <<answer, validatorVars, arrived, decided, rounds>>
    PROVE  IInv'
<1>1. TypeOK /\ NodeInv(state, dropped) /\ dropped \in Nat
  BY DEF IInv, NodeInv
<1>2. /\ NodeInv(state', dropped') /\ state'.phase = state.phase
      /\ SameBlocks(state, state') /\ state'.block_queue = state.block_queue
  <2>1. CASE ~ awaited(state, p)
    <3>1. state' = state /\ dropped' = dropped
      BY <2>1 DEF on_response
    <3> QED
      BY <1>1, <3>1 DEF SameBlocks
  <2>2. CASE awaited(state, p) /\ vote \notin Color
    <3>1. state' = answered_by(state, p) /\ dropped' = dropped + 1
      BY <2>2 DEF on_response
    <3>2. state.phase = "Listening"
      BY <2>2 DEF awaited
    <3> QED
      BY <1>1, <2>2, <3>1, <3>2, AnsweredEffect
  <2>3. CASE awaited(state, p) /\ vote \in Color
    <3>1. ~ round_complete(counted(state, p, vote))
      BY <2>3 DEF CompletesRound
    <3>2. state' = counted(state, p, vote) /\ dropped' = dropped
      BY <2>3, <3>1 DEF on_response
    <3>3. state.phase = "Listening"
      BY <2>3 DEF awaited
    <3> QED
      BY <1>1, <2>3, <3>1, <3>2, <3>3, VoteEffect
  <2> QED
    BY <2>1, <2>2, <2>3
<1>3. TypeOK'
  <2>1. state' \in State /\ dropped' \in Nat
    BY <1>2 DEF NodeInv
  <2> QED
    BY <1>1, <2>1 DEF Loop, TypeOK, validatorVars
<1> QED
  BY <1>2, <1>3, SameBlocksInv

\* A round has one of three results.
LEMMA RoundResultType ==
    ASSUME NEW s
    PROVE  RoundResult(s) \in Color \cup {NoMajority}
BY DEF RoundResult, Color

\* The vote completes the round.
LEMMA RoundInv ==
    ASSUME IInv, NEW p \in Peer, NEW vote \in Votes, CompletesRound(p, vote),
           Loop("update", "timers"), state' \in on_response(state, p, vote), UNCHANGED answer,
           rounds' = Append(rounds, RoundResult(counted(state, p, vote))), dropped' = 0,
           IF round_decides(counted(state, p, vote))
           THEN Directive(state') ELSE UNCHANGED <<validatorVars, arrived, decided>>
    PROVE  IInv'
<1> DEFINE c == counted(state, p, vote)
           q == state.block_queue
<1>1. /\ TypeOK /\ NodeInv(state, dropped) /\ state.id = self
      /\ SeqCountsBlocks /\ QueueHistory
  BY DEF IInv
<1>2. awaited(state, p) /\ vote \in Color /\ round_complete(c) /\ state.phase = "Listening"
  BY DEF CompletesRound, awaited
<1>3. state' \in on_values_ready(c)
  BY <1>2 DEF on_response
<1>4. /\ c \in State /\ Ordered(c) /\ Deciding(c) /\ c.phase = "Listening"
      /\ SameBlocks(state, c) /\ c.block_queue = q
  BY <1>1, <1>2, CountedEffect DEF SameBlocks
<1>5. c.waiting_response_map = {}
  BY <1>1, <1>2, CompleteEffect
<1>6. rounds' \in Seq(Color \cup {NoMajority})
  BY <1>1, RoundResultType DEF TypeOK
<1>7. Len(decided) \in Nat /\ Len(arrived) \in Nat /\ q \in Seq(Block) /\ Len(q) \in Nat
  BY <1>1 DEF TypeOK, State
<1>8. CASE ~ round_decides(c)
  <2>0. UNCHANGED <<validatorVars, arrived, decided>>
    BY <1>8
  <2> HIDE DEF c
  <2>1. /\ NodeInv(state', 0) /\ state'.phase = "Listening" /\ SameBlocks(c, state')
        /\ state'.block_queue = c.block_queue
    BY <1>3, <1>4, <1>5, <1>8, NextRoundEffect
  <2>2. SameBlocks(state, state') /\ state'.block_queue = q
    BY <1>4, <2>1 DEF SameBlocks
  <2>3. TypeOK'
    <3>1. state' \in State /\ dropped' \in Nat
      BY <2>1 DEF NodeInv
    <3> QED
      BY <1>1, <1>6, <2>0, <3>1 DEF Loop, TypeOK, validatorVars
  <2> QED
    BY <1>2, <2>0, <2>1, <2>2, <2>3, SameBlocksInv
<1>9. CASE round_decides(c)
  <2>0. Directive(state')
    BY <1>9
  <2> HIDE DEF c
  <2>1. /\ NodeInv(state', 0) /\ state'.phase = "Idle" /\ SameBlocks(c, state')
        /\ state'.block_queue = Tail(c.block_queue)
        /\ current_color(state') \in {"OK", "KO"}
    BY <1>3, <1>4, <1>5, <1>9, DecisionEffect
  <2>2. SameBlocks(state, state') /\ state'.block_queue = Tail(q)
    BY <1>4, <2>1 DEF SameBlocks
  <2>3. q # <<>> /\ Head(q) = state.decision_block
    BY <1>1, <1>2 DEF NodeInv, Deciding
  <2>4. /\ Head(q) \in Block /\ Head(q) = q[1] /\ Len(q) >= 1
        /\ Len(Tail(q)) = Len(q) - 1
        /\ \A i \in 1..(Len(q) - 1) : Tail(q)[i] = q[i + 1]
    BY <1>7, <2>3
  <2>5. state'.decision_block \in Block /\ state'.decision_block = q[1]
    BY <2>2, <2>3, <2>4 DEF SameBlocks
  <2> DEFINE entry == [block |-> state'.decision_block, color |-> current_color(state')]
  <2>6. entry \in [block : Block, color : {"OK", "KO"}] /\ entry.block = q[1]
    BY <2>1, <2>5
  <2>7. decided' = Append(decided, entry) /\ UNCHANGED <<head, verdict, arrived>>
    BY <2>0 DEF Directive
  <2> HIDE DEF entry
  <2>8. /\ decided' \in Seq([block : Block, color : {"OK", "KO"}])
        /\ Len(decided') = Len(decided) + 1
        /\ \A i \in 1..Len(decided) : decided'[i] = decided[i]
        /\ decided'[Len(decided) + 1] = entry
    BY <1>1, <2>6, <2>7 DEF TypeOK
  <2>9. TypeOK'
    <3>1. state' \in State /\ dropped' \in Nat
      BY <2>1 DEF NodeInv
    <3>2. committing' \in Seq(Block) /\ failed' \subseteq Block
      <4> DEFINE b == state'.decision_block
      <4>1. committing \in Seq(Block) /\ failed \subseteq Block /\ b \in Block
        BY <1>1, <2>5 DEF TypeOK
      <4>2. \/ committing' = Append(committing, b) /\ failed' = failed
            \/ committing' = committing /\ failed' = failed \cup {b}
        BY <2>0 DEF Directive
      <4> HIDE DEF b
      <4> QED
        BY <4>1, <4>2
    <3>3. candidate' \in BOOLEAN
      <4>1. candidate \in BOOLEAN
        BY <1>1 DEF TypeOK
      <4>2. candidate' \in {candidate, TRUE} \/ candidate' \in {candidate}
        BY <2>0, Zenon DEF Directive
      <4> QED
        BY <4>1, <4>2
    <3> QED
      BY <1>1, <1>6, <2>7, <2>8, <3>1, <3>2, <3>3 DEF Loop, TypeOK
  <2>10. SeqCountsBlocks'
    <3>1. state.seq_num = block_num[HeadBlock] + 1 + (Len(decided) + 1)
      BY <1>1, <1>2 DEF SeqCountsBlocks, DecisionSeq
    <3>2. state'.seq_num = state.seq_num
      BY <2>2 DEF SameBlocks
    <3>3. Len(decided') + 0 = Len(decided) + 1
      BY <1>7, <2>8
    <3> QED
      BY <2>1, <3>1, <3>2, <3>3 DEF SeqCountsBlocks, DecisionSeq
  <2>11. QueueHistory'
    <3> HIDE DEF q
    <3>1. /\ Len(arrived) = Len(decided) + Len(q) /\ Len(arrived) <= MaxBlocks
          /\ \A i \in 1..Len(decided) : decided[i].block = arrived[i]
          /\ \A i \in 1..Len(q) : q[i] = arrived[Len(decided) + i]
          /\ \A i, j \in 1..Len(arrived) : arrived[i] = arrived[j] => i = j
          /\ \A i \in 1..Len(arrived) : arrived[i] \in state.convergenza
      BY <1>1 DEF QueueHistory, q
    <3>2. q[1] = arrived[Len(decided) + 1]
      BY <1>7, <2>4, <3>1
    <3>3. Len(arrived') = Len(decided') + Len(state'.block_queue)
      <4>1. Len(state'.block_queue) = Len(q) - 1
        BY <2>2, <2>4
      <4> QED
        BY <1>7, <2>7, <2>8, <3>1, <4>1
    <3>4. ASSUME NEW i \in 1..Len(decided')
          PROVE  decided'[i].block = arrived'[i]
      <4>1. CASE i \in 1..Len(decided)
        BY <2>7, <2>8, <3>1, <4>1
      <4>2. CASE i = Len(decided) + 1
        BY <2>6, <2>7, <2>8, <3>2, <4>2
      <4> QED
        BY <1>7, <2>8, <4>1, <4>2
    <3>5. ASSUME NEW i \in 1..Len(state'.block_queue)
          PROVE  state'.block_queue[i] = arrived'[Len(decided') + i]
      <4>1. i \in 1..(Len(q) - 1) /\ i + 1 \in 1..Len(q)
        BY <1>7, <2>2, <2>4
      <4>2. state'.block_queue[i] = q[i + 1]
        BY <2>2, <2>4, <4>1
      <4>3. Len(decided') + i = Len(decided) + (i + 1)
        BY <1>7, <2>8, <4>1
      <4> QED
        BY <2>7, <3>1, <4>1, <4>2, <4>3
    <3>6. Len(decided') # 0 /\ state'.decision_block = arrived'[Len(decided')]
      BY <1>7, <2>5, <2>7, <2>8, <3>2
    <3>7. state'.convergenza = state.convergenza /\ MaxBlocks' = MaxBlocks
      BY <2>2 DEF SameBlocks, MaxBlocks
    <3> QED
      BY <2>7, <3>1, <3>3, <3>4, <3>5, <3>6, <3>7 DEF QueueHistory
  <2>12. state'.id = self
    BY <1>1, <2>2 DEF SameBlocks
  <2> QED
    BY <2>1, <2>9, <2>10, <2>11, <2>12 DEF IInv
<1> QED
  BY <1>8, <1>9

\* on_peer_message, "response": its cases, the two that end the engine included.
LEMMA OnResponseInv ==
    ASSUME IInv, NEW p \in Peer, NEW vote \in Votes, OnResponse(p, vote)
    PROVE  IInv'
<1>1. CASE Halt("spinning") \/ Halt("service_error")
  BY <1>1, HaltInv DEF Ending
<1>2. CASE ~ Halt("spinning") /\ ~ Halt("service_error")
  <2>1. CASE CompletesRound(p, vote)
    BY <1>2, <2>1, RoundInv DEF OnResponse
  <2>2. CASE ~ CompletesRound(p, vote)
    BY <1>2, <2>2, VoteInv DEF OnResponse
  <2> QED
    BY <2>1, <2>2
<1> QED
  BY <1>1, <1>2

\* A handler that may change whom the node knows and awaits, and nothing else.
LEMMA PeersInv ==
    ASSUME IInv, NodeInv(state', dropped), state'.phase = state.phase,
           SameBlocks(state, state'), state'.block_queue = state.block_queue,
           status' = status, pc' \in {"timers", "tick"},
           UNCHANGED <<answer, validatorVars, historyVars>>
    PROVE  IInv'
<1>1. state' \in State
  BY DEF NodeInv
<1>2. TypeOK'
  BY <1>1 DEF IInv, TypeOK, validatorVars, historyVars
<1> QED
  BY <1>2, SameBlocksInv DEF historyVars

\* handle_update, one case for every kind of update.
LEMMA HandleUpdateInv ==
    ASSUME IInv, HandleUpdate
    PROVE  IInv'
<1>0. NodeInv(state, dropped) /\ state.id = self /\ Mobile \subseteq Peer \ {self}
  BY MemberAssumption DEF IInv
<1>1. CASE \E b \in Block : OnBlockNew(b)
  BY <1>1, OnBlockNewInv
<1>2. CASE OnNotice
  <2>1. TypeOK'
    BY <1>2 DEF OnNotice, Loop, IInv, TypeOK, validatorVars, historyVars
  <2> QED
    BY <1>2, <2>1, SameStateInv DEF OnNotice, historyVars
<1>3. CASE \E q \in SeqNum : OnRequest(q)
  BY <1>3, OnRequestInv
<1>4. CASE \E p \in Peer, vote \in Votes : OnResponse(p, vote)
  BY <1>4, OnResponseInv
<1>5. CASE \E p \in Peer : OnUnavailable(p)
  <2>1. PICK p \in Peer : OnUnavailable(p)
    BY <1>5
  <2>2. CASE Halt("spinning")
    BY <2>2, HaltInv DEF Ending
  <2>3. CASE ~ Halt("spinning")
    <3>1. /\ Loop("update", "timers") /\ state' \in on_unavailable(state, p)
          /\ UNCHANGED <<answer, validatorVars, historyVars>>
      BY <2>1, <2>3 DEF OnUnavailable
    <3>2. /\ NodeInv(state', dropped) /\ state'.phase = state.phase
          /\ SameBlocks(state, state') /\ state'.block_queue = state.block_queue
      BY <1>0, <3>1, UnavailableEffect
    <3> QED
      BY <3>1, <3>2, PeersInv DEF Loop
  <2> QED
    BY <2>2, <2>3
<1>6. CASE \E p \in Mobile : OnPeerConnected(p)
  <2>1. PICK p \in Mobile : OnPeerConnected(p)
    BY <1>6
  <2>2. p \in Peer
    BY <1>0
  <2>3. /\ NodeInv(state', dropped) /\ state'.phase = state.phase
        /\ SameBlocks(state, state') /\ state'.block_queue = state.block_queue
    BY <1>0, <2>1, <2>2, ConnectedEffect DEF OnPeerConnected
  <2> QED
    BY <2>1, <2>3, PeersInv DEF OnPeerConnected, Loop
<1>7. CASE \E p \in Mobile : OnPeerDisconnected(p)
  <2>1. PICK p \in Mobile : OnPeerDisconnected(p)
    BY <1>7
  <2>2. p \in Peer /\ p # state.id
    BY <1>0
  <2>3. CASE Halt("unknown_peer")
    BY <2>3, HaltInv DEF Ending
  <2>4. CASE ~ Halt("unknown_peer")
    <3>1. /\ Loop("update", "timers") /\ IsMember(state.member_ids, p)
          /\ state' = on_peer_disconnected(state, p)
          /\ UNCHANGED <<answer, validatorVars, historyVars>>
      BY <2>1, <2>4 DEF OnPeerDisconnected
    <3>2. /\ NodeInv(state', dropped) /\ state'.phase = state.phase
          /\ SameBlocks(state, state') /\ state'.block_queue = state.block_queue
      BY <1>0, <2>2, <3>1, DisconnectedEffect
    <3> QED
      BY <3>1, <3>2, PeersInv DEF Loop
  <2> QED
    BY <2>3, <2>4
<1> QED
  BY <1>1, <1>2, <1>3, <1>4, <1>5, <1>6, <1>7 DEF HandleUpdate

\* The end of an iteration: handle_unresponsive_peers and try_publish.
LEMMA HandleTimersInv ==
    ASSUME IInv, HandleTimers
    PROVE  IInv'
<1>0. NodeInv(state, dropped)
  BY DEF IInv
<1>1. CASE \E expired \in SUBSET state.waiting_response_map : HandleUnresponsivePeers(expired)
  <2>1. PICK expired \in SUBSET state.waiting_response_map : HandleUnresponsivePeers(expired)
    BY <1>1
  <2>2. CASE Halt("spinning")
    BY <2>2, HaltInv DEF Ending
  <2>3. CASE ~ Halt("spinning")
    <3>1. /\ Loop("timers", "tick") /\ state' \in handle_unresponsive_peers(state, expired)
          /\ UNCHANGED <<answer, validatorVars, historyVars>>
      BY <2>1, <2>3 DEF HandleUnresponsivePeers
    <3>2. /\ NodeInv(state', dropped) /\ state'.phase = state.phase
          /\ SameBlocks(state, state') /\ state'.block_queue = state.block_queue
      BY <1>0, <2>1, <3>1, UnresponsiveEffect
    <3> QED
      BY <3>1, <3>2, PeersInv DEF Loop
  <2> QED
    BY <2>2, <2>3
<1>2. CASE NoPublish
  <2>1. TypeOK'
    BY <1>2 DEF NoPublish, Loop, IInv, TypeOK, validatorVars, historyVars
  <2> QED
    BY <1>2, <2>1, SameStateInv DEF NoPublish, historyVars
<1>3. CASE TryPublish
  <2>1. CASE Halt("no_candidate")
    BY <2>1, HaltInv DEF Ending
  <2>2. CASE ~ Halt("no_candidate")
    <3>1. /\ Loop("tick", "queue") /\ candidate' = FALSE
          /\ UNCHANGED <<state, answer, head, verdict, committing, failed, historyVars>>
      BY <1>3, <2>2 DEF TryPublish
    <3>2. candidate' \in BOOLEAN
      BY <3>1
    <3>3. TypeOK'
      BY <3>1, <3>2 DEF Loop, IInv, TypeOK, historyVars
    <3> QED
      BY <3>1, <3>3, SameStateInv DEF historyVars
  <2> QED
    BY <2>1, <2>2
<1> QED
  BY <1>1, <1>2, <1>3 DEF HandleTimers

\* The steps of the validator do not touch the state of the engine.
LEMMA ValidatorInv ==
    ASSUME IInv, Validator
    PROVE  IInv'
<1>1. ASSUME NEW b \in Block, NEW result \in {"Valid", "Invalid"}, ValidatorChecks(b, result)
      PROVE  IInv'
  <2>1. verdict' \in [Block -> {"None", "Valid", "Invalid"}]
    BY <1>1 DEF ValidatorChecks, IInv, TypeOK
  <2>2. TypeOK'
    BY <1>1, <2>1 DEF ValidatorChecks, IInv, TypeOK, historyVars
  <2> QED
    BY <1>1, <2>2, SameStateInv DEF ValidatorChecks, historyVars
<1>2. CASE ValidatorCommits
  <2>1. committing \in Seq(Block) /\ committing # <<>> /\ candidate \in BOOLEAN
        /\ head \in Block \cup {HeadBlock}
    BY <1>2 DEF ValidatorCommits, IInv, TypeOK
  <2>2. committing' \in Seq(Block) /\ Head(committing) \in Block
    BY <1>2, <2>1 DEF ValidatorCommits
  <2>3. head' \in Block \cup {HeadBlock}
    BY <1>2, <2>1, <2>2 DEF ValidatorCommits
  <2>4. candidate' \in BOOLEAN
    BY <1>2, <2>1, Zenon DEF ValidatorCommits
  <2>5. TypeOK'
    BY <1>2, <2>2, <2>3, <2>4 DEF ValidatorCommits, IInv, TypeOK, historyVars
  <2> QED
    BY <1>2, <2>5, SameStateInv DEF ValidatorCommits, historyVars
<1> QED
  BY <1>1, <1>2 DEF Validator

\* IInv is inductive.
LEMMA NextInv == IInv /\ [Next]_vars => IInv'
<1> SUFFICES ASSUME IInv, [Next]_vars PROVE IInv'
  OBVIOUS
<1>1. CASE HandleQueue
  BY <1>1, HandleQueueInv
<1>2. CASE HandleUpdate
  BY <1>2, HandleUpdateInv
<1>3. CASE HandleTimers
  BY <1>3, HandleTimersInv
<1>4. CASE Stop
  BY <1>4, HaltInv DEF Stop, Ending
<1>5. CASE ServiceError
  BY <1>5, HaltInv DEF ServiceError, Ending
<1>6. CASE Validator
  BY <1>6, ValidatorInv
<1>7. CASE UNCHANGED vars
  <2>1. TypeOK'
    BY <1>7 DEF vars, IInv, TypeOK, validatorVars, historyVars
  <2> QED
    BY <1>7, <2>1, SameStateInv DEF vars, historyVars
<1> QED
  BY <1>1, <1>2, <1>3, <1>4, <1>5, <1>6, <1>7 DEF Next

----------------------------------------------------------------------------
\* IInv holds in every reachable state.
THEOREM Invariance == Spec => []IInv
BY InitInv, NextInv, PTL DEF Spec

\* The variables keep their types; in particular seq_num never runs out of numbers
\* for the blocks it is given.
THEOREM TypeCorrect == Spec => []TypeOK
<1>1. IInv => TypeOK
  BY DEF IInv
<1> QED
  BY <1>1, Invariance, PTL

\* Every question of a round is awaited, counted or lost, so that a round ends
\* exactly when the k-th vote comes in and nobody is awaited between blocks.
THEOREM RoundsAccounted == Spec => []RoundAccounting
<1>1. IInv => RoundAccounting
  BY DEF IInv, NodeInv, Accounted, RoundAccounting
<1> QED
  BY <1>1, Invariance, PTL

\* The block being decided is the front of the queue, and a block that waits in the
\* queue is never the one decided last.
THEOREM FrontIsDecided == Spec => []DecisionBlockIsFront
<1>1. IInv => DecisionBlockIsFront
  <2> SUFFICES ASSUME IInv PROVE DecisionBlockIsFront
    OBVIOUS
  <2>1. TypeOK /\ NodeInv(state, dropped) /\ QueueHistory
    BY DEF IInv
  <2>2. /\ state.phase # "Finishing"
        /\ state.phase = "Listening" =>
              state.block_queue # <<>> /\ Head(state.block_queue) = state.decision_block
    BY <2>1 DEF NodeInv, Deciding
  <2>3. ASSUME state.phase = "Idle", NEW i \in DOMAIN state.block_queue
        PROVE  state.block_queue[i] # state.decision_block
    <3> DEFINE q == state.block_queue
    <3>1. q \in Seq(Block) /\ arrived \in Seq(Block) /\ Len(decided) \in Nat
      BY <2>1 DEF TypeOK, State
    <3>2. i \in 1..Len(q) /\ Len(q) \in Nat /\ q[i] \in Block
      BY <3>1, <2>3
    <3>3. q[i] = arrived[Len(decided) + i] /\ Len(decided) + i \in 1..Len(arrived)
      BY <2>1, <3>1, <3>2 DEF QueueHistory
    <3>4. CASE Len(decided) = 0
      BY <2>1, <2>3, <3>2, <3>4, IdAssumption DEF QueueHistory
    <3>5. CASE Len(decided) # 0
      <4>1. state.decision_block = arrived[Len(decided)]
        BY <2>1, <2>3, <3>5 DEF QueueHistory
      <4>2. Len(decided) \in 1..Len(arrived) /\ Len(decided) # Len(decided) + i
        BY <3>1, <3>2, <3>3, <3>5
      <4> QED
        BY <2>1, <3>3, <4>1, <4>2 DEF QueueHistory
    <3> QED
      BY <3>4, <3>5
  <2> QED
    BY <2>2, <2>3 DEF DecisionBlockIsFront
<1> QED
  BY <1>1, Invariance, PTL

\* order follows the changes of member_ids, and the node never asks itself.
THEOREM MembersStayConsistent == Spec => []MembersConsistent
<1>1. IInv => MembersConsistent
  BY DEF IInv, NodeInv, Ordered, MembersConsistent
<1> QED
  BY <1>1, Invariance, PTL

\* The colour and the arrival time of the block being decided can be unwrapped.
THEOREM UnwrapsAreSafe == Spec => []UnwrapsSafe
<1>1. IInv => UnwrapsSafe
  BY DEF IInv, NodeInv, Deciding, UnwrapsSafe
<1> QED
  BY <1>1, Invariance, PTL

\* A sequence number is given to one block only, and tells how many were considered
\* before it; the numbers last for all the blocks that are announced.
THEOREM SeqNumbersCount == Spec => []SeqCountsBlocks
<1>1. IInv => SeqCountsBlocks
  BY DEF IInv
<1> QED
  BY <1>1, Invariance, PTL
=============================================================================
