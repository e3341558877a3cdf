----------------------- MODULE SnowballDecisionProofs -----------------------
(***************************************************************************)
(* Theorems about the decisions of SnowballEngine: how rounds add up to a  *)
(* decision, what becomes of the decided blocks, and what peers are told   *)
(* about them.  They rest on the inductive invariant of                    *)
(* SnowballEngineProofs, and on a view of the engine in which every step   *)
(* opens a block, ends a round, or leaves the count of the rounds alone.   *)
(***************************************************************************)
EXTENDS SnowballEngineProofs

\* The fields that the rounds of a block are counted in stay as they are.
SameTally(s, t) ==
    /\ t.phase = s.phase
    /\ t.seq_num = s.seq_num
    /\ t.decision_block = s.decision_block
    /\ t.decision_map = s.decision_map
    /\ t.last_color = s.last_color
    /\ t.confidence_counter = s.confidence_counter
    /\ t.decision_array = s.decision_array

----------------------------------------------------------------------------
\* The handlers, and the tally of the rounds

\* A handler that changes whom the node awaits, or which votes it has, counts no round.
LEMMA AwaitingKeepsTally ==
    ASSUME NEW s \in State
    PROVE  /\ \A p : SameTally(s, answered_by(s, p))
           /\ \A p, vote : SameTally(s, counted(s, p, vote))
           /\ \A E : SameTally(s, add_to_waiting_set(s, E))
           /\ \A members : SameTally(s, with_members(s, members))
           /\ \A b : SameTally(s, on_block_new(s, b))
BY DEF SameTally, State, answered_by, counted, add_to_waiting_set, with_members,
       on_block_new, set_block_new_timestamp

\* on_peer_message, "response", before the round is complete.
LEMMA VoteKeepsTally ==
    ASSUME NEW s \in State, NEW p, NEW vote, NEW t \in on_response(s, p, vote),
           ~ (awaited(s, p) /\ vote \in Color /\ round_complete(counted(s, p, vote)))
    PROVE  SameTally(s, t)
<1>1. t = s \/ t = answered_by(s, p) \/ t = counted(s, p, vote)
  BY DEF on_response
<1> QED
  BY <1>1, AwaitingKeepsTally DEF SameTally

\* on_peer_message, "unavailable".
LEMMA UnavailableKeepsTally ==
    ASSUME NEW s, NEW lost, NodeInv(s, lost), NEW p \in Peer, NEW t \in on_unavailable(s, p)
    PROVE  SameTally(s, t)
<1>1. s \in State
  BY DEF NodeInv
<1>2. CASE ~ awaited(s, p)
  BY <1>2 DEF on_unavailable, SameTally
<1>3. CASE awaited(s, p)
  <2>1. PICK E : t = add_to_waiting_set(answered_by(s, p), E)
    BY <1>3 DEF on_unavailable
  <2>2. answered_by(s, p) \in State
    BY <1>3, AnsweredEffect DEF NodeInv
  <2>3. SameTally(s, answered_by(s, p)) /\ SameTally(answered_by(s, p), t)
    BY <1>1, <2>1, <2>2, AwaitingKeepsTally
  <2> QED
    BY <2>3 DEF SameTally
<1> QED
  BY <1>2, <1>3

\* handle_unresponsive_peers.
LEMMA UnresponsiveKeepsTally ==
    ASSUME NEW s \in State, NEW expired, NEW t \in handle_unresponsive_peers(s, expired)
    PROVE  SameTally(s, t)
<1> DEFINE a == [s EXCEPT !.waiting_response_map = @ \ expired]
<1>1. PICK E : t = add_to_waiting_set(a, E)
  BY DEF handle_unresponsive_peers
<1>2. a \in State /\ SameTally(s, a)
  BY DEF State, SameTally
<1> HIDE DEF a
<1>3. SameTally(a, t)
  BY <1>1, <1>2, AwaitingKeepsTally
<1> QED
  BY <1>2, <1>3 DEF SameTally

\* Peers that come and go.
LEMMA MembersKeepTally ==
    ASSUME NEW s \in State, NEW p
    PROVE  SameTally(s, on_peer_connected(s, p)) /\ SameTally(s, on_peer_disconnected(s, p))
BY AwaitingKeepsTally DEF on_peer_connected, on_peer_disconnected, SameTally

\* handle_block_new starts the count anew, and enters the colour OK.
LEMMA OpeningTally ==
    ASSUME NEW s \in State, NEW b, NEW t \in handle_block_new(s, b)
    PROVE  /\ t.decision_map = [s.decision_map EXCEPT ![s.seq_num + 1] = "OK"]
           /\ t.last_color = "OK"
           /\ t.confidence_counter = 0
           /\ t.decision_array = Zeros
BY DEF handle_block_new, opened, prepare_and_forward_peer_requests, add_to_waiting_set,
       switch_phase, State

\* What on_values_ready leaves of the count does not depend on the decision.
LEMMA RoundTally ==
    ASSUME NEW c \in State, current_color(c) \in {"OK", "KO"}, NEW t \in on_values_ready(c)
    PROVE  LET r == count_round(c)
           IN  /\ t.decision_map = r.decision_map
               /\ t.last_color = r.last_color
               /\ t.confidence_counter = r.confidence_counter
               /\ t.decision_array = r.decision_array
<1> DEFINE r == count_round(c)
<1>1. r \in State
  BY CountRoundEffect
<1>2. \/ t = handle_decision(switch_phase(r))
      \/ \E sample : t = prepare_and_forward_peer_requests(r, sample)
  BY DEF on_values_ready
<1> HIDE DEF r
<1> QED
  BY <1>1, <1>2 DEF handle_decision, switch_phase, prepare_and_forward_peer_requests,
                    add_to_waiting_set, State, r

\* The result of a round tells what on_values_ready counts.
LEMMA CountTally ==
    ASSUME NEW c \in State
    PROVE  LET r == count_round(c)
               v == RoundResult(c)
           IN  /\ v \in Color =>
                     /\ r.confidence_counter = majority_confidence(c, v)
                     /\ r.last_color = usize_to_decision_state(v)
                     /\ r.decision_array = majority_array(c, v)
                     /\ r.decision_map =
                            [c.decision_map EXCEPT ![c.seq_num] = majority_color(c, v)]
               /\ v = NoMajority =>
                     /\ r.confidence_counter = 0
                     /\ r.last_color = c.last_color
                     /\ r.decision_array = c.decision_array
                     /\ r.decision_map = c.decision_map
               /\ round_decides(c) <=> v \in Color /\ r.confidence_counter >= beta
<1> DEFINE v == RoundResult(c)
<1>1. v = 0 \/ v = 1 \/ v = 2
  BY DEF RoundResult, NoMajority
<1>2. v \in Color => count_round(c) = count_majority(c, v)
  BY DEF RoundResult, count_round, Color, NoMajority
<1>3. v = NoMajority => count_round(c) = [c EXCEPT !.confidence_counter = 0]
  BY DEF RoundResult, count_round, NoMajority
<1>4. v \in Color <=> \E i \in Color : c.response_buffer[i] >= alfa
  BY DEF RoundResult, Color, NoMajority
<1> HIDE DEF v
<1>5. v \in Color =>
          /\ count_majority(c, v).confidence_counter = majority_confidence(c, v)
          /\ count_majority(c, v).last_color = usize_to_decision_state(v)
          /\ count_majority(c, v).decision_array = majority_array(c, v)
          /\ count_majority(c, v).decision_map =
                 [c.decision_map EXCEPT ![c.seq_num] = majority_color(c, v)]
  BY DEF count_majority, State
<1>6. LET r == [c EXCEPT !.confidence_counter = 0]
      IN  /\ r.confidence_counter = 0
          /\ r.last_color = c.last_color
          /\ r.decision_array = c.decision_array
          /\ r.decision_map = c.decision_map
  BY DEF State
<1>7. round_decides(c) <=> v \in Color /\ count_round(c).confidence_counter >= beta
  BY <1>4 DEF round_decides
<1> QED
  BY <1>2, <1>3, <1>5, <1>6, <1>7 DEF v

----------------------------------------------------------------------------
\* Three kinds of steps

\* What an answer can become, and that no answer is left from an earlier iteration
\* when an update is handled.
AnswerStep ==
    /\ \/ answer' = NoAnswer
       \/ UNCHANGED answer
       \/ \E q \in SeqNum :
             /\ answer' = [kind |-> on_request(state, q), seq |-> q,
                           vote |-> IF on_request(state, q) = "response"
                                    THEN vote_for(state, q) ELSE 0]
             /\ UNCHANGED state
    /\ pc' = "update" => answer' = NoAnswer \/ UNCHANGED <<pc, answer>>

\* The rounds and the decisions stay; a block may arrive, or the front be failed.
Keeps ==
    /\ SameTally(state, state')
    /\ UNCHANGED <<decided, rounds>>
    /\ \/ state'.block_queue = state.block_queue
       \/ \E b \in Block :
             /\ \A i \in DOMAIN arrived : arrived[i] # b
             /\ state'.block_queue = Append(state.block_queue, b)
    /\ \/ failed' = failed
       \/ state.block_queue # <<>> /\ failed' = failed \cup {Head(state.block_queue)}
    /\ AnswerStep

\* handle_block_new takes up the front of the queue.
Opens ==
    /\ state.phase = "Idle" /\ state'.phase = "Listening"
    /\ state'.block_queue = state.block_queue
    /\ state'.decision_block = Head(state.block_queue)
    /\ state'.seq_num = state.seq_num + 1
    /\ state'.decision_map = [state.decision_map EXCEPT ![state.seq_num + 1] = "OK"]
    /\ state'.last_color = "OK"
    /\ state'.confidence_counter = 0
    /\ state'.decision_array = Zeros
    /\ rounds' = <<>>
    /\ answer' = NoAnswer
    /\ UNCHANGED <<decided, failed>>

\* on_values_ready takes the block off the queue, and passes on its colour.
Decides ==
    /\ state'.phase = "Idle"
    /\ state.block_queue # <<>>
    /\ Head(state.block_queue) = state.decision_block
    /\ state'.block_queue = Tail(state.block_queue)
    /\ current_color(state') \in {"OK", "KO"}
    /\ decided' = Append(decided, [block |-> state.decision_block,
                                   color |-> current_color(state')])
    /\ failed' = IF current_color(state') = "OK" THEN failed
                 ELSE failed \cup {state.decision_block}

\* on_values_ready for the votes in c.
EndsRound(c) ==
    /\ SameTally(state, c)
    /\ state.phase = "Listening"
    /\ state'.seq_num = state.seq_num
    /\ state'.decision_block = state.decision_block
    /\ state'.decision_map = count_round(c).decision_map
    /\ state'.last_color = count_round(c).last_color
    /\ state'.confidence_counter = count_round(c).confidence_counter
    /\ state'.decision_array = count_round(c).decision_array
    /\ rounds' = Append(rounds, RoundResult(c))
    /\ pc = "update"
    /\ pc' = "timers"
    /\ UNCHANGED answer
    /\ round_decides(c) => Decides
    /\ ~ round_decides(c) =>
          /\ state'.phase = "Listening"
          /\ state'.block_queue = state.block_queue
          /\ UNCHANGED <<decided, failed>>

\* A step that leaves the state record alone, and the histories with it.
LEMMA SameStateKeeps ==
    ASSUME UNCHANGED <<state, answer, failed, decided, rounds>>,
           pc' # "update" \/ UNCHANGED pc
    PROVE  Keeps
BY DEF Keeps, SameTally, AnswerStep

\* handle_queue keeps the rounds or opens a block.
LEMMA HandleQueueKind ==
    ASSUME IInv, HandleQueue
    PROVE  Keeps \/ Opens
<1>1. CASE NothingToConsider
  BY <1>1 DEF NothingToConsider, Loop, Keeps, SameTally, AnswerStep, validatorVars, historyVars
<1>2. CASE FailStaleBlock
  BY <1>2 DEF FailStaleBlock, FrontIsNew, Loop, Keeps, SameTally, AnswerStep, historyVars
<1>3. CASE ConsiderBlock
  <2> DEFINE b == Head(state.block_queue)
  <2>1. CASE Halt("spinning")
    BY <2>1, SameStateKeeps DEF Halt, validatorVars, historyVars
  <2>2. CASE /\ Loop("queue", "update")
             /\ state' \in handle_block_new(state, b)
             /\ rounds' = <<>> /\ dropped' = 0 /\ answer' = NoAnswer
             /\ UNCHANGED <<validatorVars, arrived, decided>>
    <3>1. IInv' /\ TypeOK /\ NodeInv(state, dropped) /\ state \in State
      BY HandleQueueInv DEF IInv, NodeInv
    <3>2. state.block_queue # <<>> /\ b # state.decision_block
      BY <1>3 DEF ConsiderBlock, FrontIsNew
    <3>3. state.phase = "Idle"
      BY <3>1, <3>2 DEF NodeInv, Deciding, State, SnowballPhase
    <3>4. /\ state'.phase = "Listening" /\ state'.block_queue = state.block_queue
          /\ state'.seq_num = state.seq_num + 1 /\ state'.decision_block = b
      BY <2>2, <3>1, <3>3
         DEF handle_block_new, opened, prepare_and_forward_peer_requests, add_to_waiting_set,
             switch_phase, next_phase, State
    <3>5. /\ state'.decision_map = [state.decision_map EXCEPT ![state.seq_num + 1] = "OK"]
          /\ state'.last_color = "OK" /\ state'.confidence_counter = 0
          /\ state'.decision_array = Zeros
      BY <2>2, <3>1, OpeningTally
    <3> QED
      BY <2>2, <3>3, <3>4, <3>5 DEF Opens, validatorVars
  <2> QED
    BY <1>3, <2>1, <2>2 DEF ConsiderBlock
<1> QED
  BY <1>1, <1>2, <1>3 DEF HandleQueue

\* The vote that completes a round ends it.
LEMMA RoundKind ==
    ASSUME IInv, NEW p \in Peer, NEW vote \in Votes, CompletesRound(p, vote),
           Loop("update", "timers"), state' \in on_response(state, p, vote), UNCHANGED answer,
           rounds' = Append(rounds, RoundResult(counted(state, p, vote))),
           IF round_decides(counted(state, p, vote))
           THEN Directive(state') ELSE UNCHANGED <<validatorVars, arrived, decided>>
    PROVE  \E c \in State : EndsRound(c)
<1> DEFINE c == counted(state, p, vote)
<1>1. TypeOK /\ NodeInv(state, dropped) /\ state \in State
  BY DEF IInv, NodeInv
<1>2. awaited(state, p) /\ vote \in Color /\ round_complete(c) /\ state.phase = "Listening"
  BY DEF CompletesRound, awaited
<1>3. state' \in on_values_ready(c)
  BY <1>2 DEF on_response
<1>4. /\ c \in State /\ Ordered(c) /\ Deciding(c) /\ c.phase = "Listening"
      /\ c.block_queue = state.block_queue
  BY <1>1, <1>2, CountedEffect
<1>5. c.waiting_response_map = {}
  BY <1>1, <1>2, CompleteEffect
<1>6. SameTally(state, c)
  BY <1>1, AwaitingKeepsTally
<1>7. rounds' = Append(rounds, RoundResult(c))
  OBVIOUS
<1>8. /\ round_decides(c) => Directive(state')
      /\ ~ round_decides(c) => UNCHANGED <<validatorVars, arrived, decided>>
  OBVIOUS
<1> HIDE DEF c
<1>9. current_color(c) \in {"OK", "KO"} /\ c.block_queue # <<>>
      /\ Head(c.block_queue) = c.decision_block
  BY <1>4 DEF Deciding
<1>10. /\ state'.decision_map = count_round(c).decision_map
       /\ state'.last_color = count_round(c).last_color
       /\ state'.confidence_counter = count_round(c).confidence_counter
       /\ state'.decision_array = count_round(c).decision_array
  BY <1>3, <1>4, <1>9, RoundTally
<1>11. CASE round_decides(c)
  <2>1. /\ state'.phase = "Idle" /\ SameBlocks(c, state')
        /\ state'.block_queue = Tail(c.block_queue)
        /\ current_color(state') \in {"OK", "KO"}
    BY <1>3, <1>4, <1>5, <1>11, DecisionEffect
  <2>2. state'.decision_block = state.decision_block /\ state'.seq_num = state.seq_num
    BY <1>6, <2>1 DEF SameBlocks, SameTally
  <2>3. Decides
    BY <1>4, <1>6, <1>8, <1>9, <1>11, <2>1, <2>2 DEF Decides, Directive, SameTally
  <2> QED
    BY <1>2, <1>4, <1>6, <1>7, <1>10, <1>11, <2>2, <2>3 DEF EndsRound, Loop
<1>12. CASE ~ round_decides(c)
  <2>1. /\ state'.phase = "Listening" /\ SameBlocks(c, state')
        /\ state'.block_queue = c.block_queue
    BY <1>3, <1>4, <1>5, <1>12, NextRoundEffect
  <2>2. state'.decision_block = state.decision_block /\ state'.seq_num = state.seq_num
    BY <1>6, <2>1 DEF SameBlocks, SameTally
  <2> QED
    BY <1>2, <1>4, <1>6, <1>7, <1>8, <1>10, <1>12, <2>1, <2>2
       DEF EndsRound, Loop, validatorVars
<1> QED
  BY <1>11, <1>12

\* handle_update keeps the rounds, unless a vote completes one.
LEMMA HandleUpdateKind ==
    ASSUME IInv, HandleUpdate
    PROVE  Keeps \/ \E c \in State : EndsRound(c)
<1>0. NodeInv(state, dropped) /\ state \in State /\ state.id = self
      /\ Mobile \subseteq Peer \ {self}
  BY MemberAssumption DEF IInv, NodeInv
<1>1. ASSUME SameTally(state, state'), state'.block_queue = state.block_queue,
             Loop("update", "timers"), UNCHANGED <<answer, failed, decided, rounds>>
      PROVE  Keeps
  BY <1>1 DEF Keeps, Loop, AnswerStep
<1>2. ASSUME NEW b \in Block, OnBlockNew(b) PROVE Keeps
  <2>1. SameTally(state, state')
    BY <1>0, <1>2, AwaitingKeepsTally DEF OnBlockNew
  <2>2. state'.block_queue = Append(state.block_queue, b)
    BY <1>0, <1>2, QueuedEffect DEF OnBlockNew
  <2> QED
    BY <1>2, <2>1, <2>2 DEF OnBlockNew, Loop, Keeps, AnswerStep, validatorVars
<1>3. CASE OnNotice
  BY <1>3, SameStateKeeps DEF OnNotice, Loop, validatorVars, historyVars
<1>4. ASSUME NEW q \in SeqNum, OnRequest(q) PROVE Keeps
  BY <1>4 DEF OnRequest, Loop, Keeps, SameTally, AnswerStep, validatorVars, historyVars
<1>5. ASSUME NEW p \in Peer, NEW vote \in Votes, OnResponse(p, vote)
      PROVE  Keeps \/ \E c \in State : EndsRound(c)
  <2>1. CASE Halt("spinning") \/ Halt("service_error")
    BY <2>1, SameStateKeeps DEF Halt, validatorVars, historyVars
  <2>2. CASE ~ Halt("spinning") /\ ~ Halt("service_error") /\ CompletesRound(p, vote)
    BY <1>5, <2>2, RoundKind DEF OnResponse
  <2>3. CASE ~ Halt("spinning") /\ ~ Halt("service_error") /\ ~ CompletesRound(p, vote)
    <3>1. /\ Loop("update", "timers") /\ state' \in on_response(state, p, vote)
          /\ UNCHANGED <<answer, validatorVars, decided, rounds>>
      BY <1>5, <2>3 DEF OnResponse
    <3>2. SameTally(state, state')
      BY <1>0, <2>3, <3>1, VoteKeepsTally DEF CompletesRound
    <3>3. state' = state \/ state' = answered_by(state, p) \/ state' = counted(state, p, vote)
      BY <2>3, <3>1 DEF CompletesRound, on_response
    <3>4. state'.block_queue = state.block_queue
      BY <1>0, <3>3 DEF answered_by, counted, State
    <3> QED
      BY <1>1, <3>1, <3>2, <3>4 DEF validatorVars
  <2> QED
    BY <2>1, <2>2, <2>3
<1>6. ASSUME NEW p \in Peer, OnUnavailable(p) PROVE Keeps
  <2>1. CASE Halt("spinning")
    BY <2>1, SameStateKeeps DEF Halt, validatorVars, historyVars
  <2>2. CASE ~ Halt("spinning")
    <3>1. /\ Loop("update", "timers") /\ state' \in on_unavailable(state, p)
          /\ UNCHANGED <<answer, validatorVars, historyVars>>
      BY <1>6, <2>2 DEF OnUnavailable
    <3>2. SameTally(state, state') /\ state'.block_queue = state.block_queue
      BY <1>0, <3>1, UnavailableKeepsTally, UnavailableEffect
    <3> QED
      BY <1>1, <3>1, <3>2 DEF validatorVars, historyVars
  <2> QED
    BY <2>1, <2>2
<1>7. ASSUME NEW p \in Mobile, OnPeerConnected(p) PROVE Keeps
  <2>1. SameTally(state, state') /\ state'.block_queue = state.block_queue
    BY <1>0, <1>7, MembersKeepTally, ConnectedEffect DEF OnPeerConnected
  <2> QED
    BY <1>1, <1>7, <2>1 DEF OnPeerConnected, validatorVars, historyVars
<1>8. ASSUME NEW p \in Mobile, OnPeerDisconnected(p) PROVE Keeps
  <2>1. CASE Halt("unknown_peer")
    BY <2>1, SameStateKeeps DEF Halt, validatorVars, historyVars
  <2>2. CASE ~ Halt("unknown_peer")
    <3>1. /\ Loop("update", "timers") /\ IsMember(state.member_ids, p)
          /\ state' = on_peer_disconnected(state, p)
          /\ UNCHANGED <<answer, validatorVars, historyVars>>
      BY <1>8, <2>2 DEF OnPeerDisconnected
    <3>2. SameTally(state, state') /\ state'.block_queue = state.block_queue
      BY <1>0, <3>1, MembersKeepTally, DisconnectedEffect
    <3> QED
      BY <1>1, <3>1, <3>2 DEF validatorVars, historyVars
  <2> QED
    BY <2>1, <2>2
<1> QED
  BY <1>2, <1>3, <1>4, <1>5, <1>6, <1>7, <1>8 DEF HandleUpdate

\* The end of an iteration keeps the rounds.
LEMMA HandleTimersKind ==
    ASSUME IInv, HandleTimers
    PROVE  Keeps
<1>0. NodeInv(state, dropped) /\ state \in State
  BY DEF IInv, NodeInv
<1>1. ASSUME NEW expired \in SUBSET state.waiting_response_map, HandleUnresponsivePeers(expired)
      PROVE  Keeps
  <2>1. CASE Halt("spinning")
    BY <2>1, SameStateKeeps DEF Halt, validatorVars, historyVars
  <2>2. CASE ~ Halt("spinning")
    <3>1. /\ Loop("timers", "tick") /\ state' \in handle_unresponsive_peers(state, expired)
          /\ UNCHANGED <<answer, validatorVars, historyVars>>
      BY <1>1, <2>2 DEF HandleUnresponsivePeers
    <3>2. SameTally(state, state') /\ state'.block_queue = state.block_queue
      BY <1>0, <3>1, UnresponsiveKeepsTally, UnresponsiveEffect
    <3> QED
      BY <3>1, <3>2 DEF Keeps, Loop, AnswerStep, validatorVars, historyVars
  <2> QED
    BY <2>1, <2>2
<1>2. CASE NoPublish
  BY <1>2, SameStateKeeps DEF NoPublish, Loop, validatorVars, historyVars
<1>3. CASE TryPublish
  <2>1. CASE Halt("no_candidate")
    BY <2>1, SameStateKeeps DEF Halt, validatorVars, historyVars
  <2>2. CASE ~ Halt("no_candidate")
    BY <1>3, <2>2, SameStateKeeps DEF TryPublish, Loop, historyVars
  <2> QED
    BY <2>1, <2>2
<1> QED
  BY <1>1, <1>2, <1>3 DEF HandleTimers

\* Every step is of one of the three kinds.
LEMMA StepKinds ==
    ASSUME IInv, [Next]_vars
    PROVE  Keeps \/ Opens \/ \E c \in State : EndsRound(c)
<1>1. CASE Stop \/ ServiceError
  BY <1>1, SameStateKeeps DEF Stop, ServiceError, Halt, validatorVars, historyVars
<1>2. CASE Validator
  BY <1>2, SameStateKeeps
     DEF Validator, ValidatorChecks, ValidatorCommits, historyVars
<1>3. CASE UNCHANGED vars
  BY <1>3, SameStateKeeps DEF vars, validatorVars, historyVars
<1> QED
  BY <1>1, <1>2, <1>3, HandleQueueKind, HandleUpdateKind, HandleTimersKind DEF Next

----------------------------------------------------------------------------
\* Decided blocks

\* A vote that was once given on a decided block stays what it is: opening a block
\* and counting a round write to decision_map only under the block's own number.
THEOREM DecidedVotesAreFinal == Spec => DecidedVoteFinal
<1> DEFINE Final == \A q \in SeqNum :
               q < state.seq_num \/ (q = state.seq_num /\ state.phase = "Idle") =>
                   state.decision_map'[q] = state.decision_map[q]
<1>1. IInv /\ [Next]_vars => [Final]_vars
  <2> SUFFICES ASSUME IInv, [Next]_vars, NEW q \in SeqNum,
                      q < state.seq_num \/ (q = state.seq_num /\ state.phase = "Idle")
               PROVE  state'.decision_map[q] = state.decision_map[q]
    OBVIOUS
  <2>1. /\ state \in State /\ state.seq_num \in Nat /\ q \in Nat
        /\ state.decision_map \in [SeqNum -> SnowballDecisionState \cup {"None"}]
    BY SeqAssumption DEF IInv, TypeOK, State, SeqNum
  <2>2. CASE Keeps
    BY <2>2 DEF Keeps, SameTally
  <2>3. CASE Opens
    BY <2>1, <2>3 DEF Opens
  <2>4. ASSUME NEW c \in State, EndsRound(c)
        PROVE  state'.decision_map[q] = state.decision_map[q]
    <3>1. /\ c.decision_map = state.decision_map /\ c.seq_num = state.seq_num
          /\ q # c.seq_num
      BY <2>1, <2>4 DEF EndsRound, SameTally
    <3>2. RoundResult(c) \in Color \cup {NoMajority}
      BY RoundResultType
    <3>3. \/ state'.decision_map = c.decision_map
          \/ state'.decision_map =
                 [c.decision_map EXCEPT ![c.seq_num] = majority_color(c, RoundResult(c))]
      BY <2>4, <3>2, CountTally DEF EndsRound
    <3> QED
      BY <2>1, <3>1, <3>3
  <2> QED
    BY <2>2, <2>3, <2>4, StepKinds
<1> QED
  BY <1>1, Invariance, PTL DEF Spec, DecidedVoteFinal

\* The engine implements BlockDecisions: each block gets one decision, in the order
\* of arrival, that is never taken back.
THEOREM Refinement == Spec => ImplementsDecisions
<1>1. Init => Decisions!Init
  BY DEF Init, NewState, Decisions!Init
<1>2. IInv /\ [Next]_vars => [Decisions!Next]_<<state.block_queue, decided>>
  <2> SUFFICES ASSUME IInv, [Next]_vars
               PROVE  \/ Decisions!Next
                      \/ UNCHANGED <<state.block_queue, decided>>
    OBVIOUS
  <2>1. TypeOK /\ QueueHistory
    BY DEF IInv
  <2>2. CASE Keeps
    <3>1. CASE state'.block_queue = state.block_queue
      BY <2>2, <3>1 DEF Keeps
    <3>2. ASSUME NEW b \in Block, \A i \in DOMAIN arrived : arrived[i] # b,
                 state'.block_queue = Append(state.block_queue, b)
          PROVE  Decisions!Announce(b)
      <4>1. /\ DOMAIN arrived = 1..Len(arrived) /\ Len(arrived) \in Nat
            /\ DOMAIN decided = 1..Len(decided) /\ Len(decided) \in Nat
            /\ DOMAIN state.block_queue = 1..Len(state.block_queue)
            /\ Len(state.block_queue) \in Nat
        BY <2>1 DEF TypeOK, State
      <4>2. \A i \in DOMAIN decided : decided[i].block # b
        <5> SUFFICES ASSUME NEW i \in 1..Len(decided) PROVE decided[i].block # b
          BY <4>1
        <5>1. i \in 1..Len(arrived) /\ decided[i].block = arrived[i]
          BY <2>1, <4>1 DEF QueueHistory
        <5> QED
          BY <3>2, <4>1, <5>1
      <4>3. \A i \in DOMAIN state.block_queue : state.block_queue[i] # b
        <5> SUFFICES ASSUME NEW i \in 1..Len(state.block_queue) PROVE state.block_queue[i] # b
          BY <4>1
        <5>1. /\ Len(decided) + i \in 1..Len(arrived)
              /\ state.block_queue[i] = arrived[Len(decided) + i]
          BY <2>1, <4>1 DEF QueueHistory
        <5> QED
          BY <3>2, <4>1, <5>1
      <4> QED
        BY <2>2, <3>2, <4>2, <4>3 DEF Keeps, Decisions!Announce, Decisions!Known
    <3> QED
      BY <2>2, <3>1, <3>2 DEF Keeps, Decisions!Next
  <2>3. CASE Opens
    BY <2>3 DEF Opens
  <2>4. ASSUME NEW c \in State, EndsRound(c), ~ round_decides(c)
        PROVE  UNCHANGED <<state.block_queue, decided>>
    BY <2>4 DEF EndsRound
  <2>5. ASSUME NEW c \in State, EndsRound(c), round_decides(c)
        PROVE  Decisions!Next
    <3>1. Decides
      BY <2>5 DEF EndsRound
    <3>2. Decisions!Decide(current_color(state'))
      BY <3>1 DEF Decides, Decisions!Decide
    <3> QED
      BY <3>1, <3>2 DEF Decides, Decisions!Next
  <2> QED
    BY <2>2, <2>3, <2>4, <2>5, StepKinds
<1> QED
  BY <1>1, <1>2, Invariance, PTL DEF Spec, ImplementsDecisions, Decisions!Spec

\* What peers are told about a decided block, and that no answer is left over when an
\* update is handled: without it a decision could overtake the answer of a request.
AnswerInv ==
    /\ AnswersMatchDecisions
    /\ pc = "update" => answer = NoAnswer

\* The colours of the decided blocks stay in decision_map, under their own numbers.
LEMMA AnswerNext ==
    ASSUME IInv, AnswerInv, [Next]_vars
    PROVE  AnswerInv'
<1>1. /\ TypeOK /\ SeqCountsBlocks /\ state \in State
      /\ Len(decided) \in Nat /\ DOMAIN decided = 1..Len(decided)
  BY DEF IInv, TypeOK
<1>2. /\ state.seq_num \in Nat /\ state.seq_num \in SeqNum /\ block_num[HeadBlock] \in Nat
      /\ state.decision_map \in [SeqNum -> SnowballDecisionState \cup {"None"}]
  BY <1>1, HeadHeight DEF State, SeqNum
<1>3. \A i \in 1..Len(decided) :
          /\ DecisionSeq(i) \in SeqNum
          /\ DecisionSeq(i) <= state.seq_num
          /\ state.phase = "Listening" => DecisionSeq(i) < state.seq_num
  BY <1>1, <1>2, HeadHeight DEF SeqCountsBlocks, DecisionSeq, SeqNum
<1>4. \A i \in 1..Len(decided) :
          /\ decided[i].color \in {"OK", "KO"}
          /\ state.decision_map[DecisionSeq(i)] = decided[i].color
  <2>1. decided \in Seq([block : Block, color : {"OK", "KO"}])
    BY <1>1 DEF TypeOK
  <2>2. \A i \in 1..Len(decided) : decided[i] \in [block : Block, color : {"OK", "KO"}]
    BY <2>1, ElementOfSeq
  <2> QED
    BY <1>1, <2>2 DEF AnswerInv, AnswersMatchDecisions
<1>5. CASE Keeps
  <2>1. pc' = "update" => answer' = NoAnswer
    BY <1>5 DEF Keeps, AnswerStep, AnswerInv
  <2>2. decided' = decided /\ state'.decision_map = state.decision_map
    BY <1>5 DEF Keeps, SameTally
  <2>3. ASSUME NEW i \in 1..Len(decided), answer'.seq = DecisionSeq(i), answer'.kind # "none"
        PROVE  /\ answer'.kind = "response"
               /\ answer'.vote = decision_state_to_u8(decided[i].color)
    <3>1. CASE answer' = NoAnswer
      BY <2>3, <3>1 DEF NoAnswer
    <3>2. CASE UNCHANGED answer
      BY <1>1, <2>3, <3>2 DEF AnswerInv, AnswersMatchDecisions
    <3>3. ASSUME NEW q \in SeqNum,
                 answer' = [kind |-> on_request(state, q), seq |-> q,
                            vote |-> IF on_request(state, q) = "response"
                                     THEN vote_for(state, q) ELSE 0]
          PROVE  /\ answer'.kind = "response"
                 /\ answer'.vote = decision_state_to_u8(decided[i].color)
      <4>1. q = DecisionSeq(i)
        BY <2>3, <3>3
      <4>2. q \in Nat /\ ~ (q > state.seq_num)
        BY <1>2, <1>3, <4>1, HeadHeight DEF SeqNum
      <4>3. state.decision_map[q] = decided[i].color /\ decided[i].color \in {"OK", "KO"}
        BY <1>4, <4>1
      <4>4. on_request(state, q) = "response"
        BY <4>2, <4>3 DEF on_request
      <4> QED
        BY <3>3, <4>3, <4>4 DEF vote_for, decision_state_to_u8
    <3> QED
      BY <1>5, <3>1, <3>2, <3>3 DEF Keeps, AnswerStep
  <2> QED
    BY <1>1, <1>4, <2>1, <2>2, <2>3 DEF AnswerInv, AnswersMatchDecisions, DecisionSeq
<1>6. CASE Opens
  <2>1. answer' = NoAnswer /\ decided' = decided
    BY <1>6 DEF Opens
  <2>2. \A i \in 1..Len(decided) : state'.decision_map[DecisionSeq(i)] = decided[i].color
    BY <1>2, <1>3, <1>4, <1>6 DEF Opens
  <2> QED
    BY <1>1, <2>1, <2>2 DEF AnswerInv, AnswersMatchDecisions, DecisionSeq, NoAnswer
<1>7. ASSUME NEW c \in State, EndsRound(c)
      PROVE  AnswerInv'
  <2>1. answer' = NoAnswer /\ pc' # "update" /\ state.phase = "Listening"
    BY <1>7 DEF EndsRound, AnswerInv
  <2>2. c.decision_map = state.decision_map /\ c.seq_num = state.seq_num
        /\ state'.seq_num = state.seq_num
    BY <1>7 DEF EndsRound, SameTally
  <2>3. \/ state'.decision_map = c.decision_map
        \/ state'.decision_map =
               [c.decision_map EXCEPT ![c.seq_num] = majority_color(c, RoundResult(c))]
    BY <1>7, RoundResultType, CountTally DEF EndsRound
  <2>4. \A i \in 1..Len(decided) : state'.decision_map[DecisionSeq(i)] = decided[i].color
    BY <1>2, <1>3, <1>4, <2>1, <2>2, <2>3
  <2>5. CASE ~ round_decides(c)
    <3>1. decided' = decided
      BY <1>7, <2>5 DEF EndsRound
    <3> QED
      BY <1>1, <2>1, <2>4, <3>1 DEF AnswerInv, AnswersMatchDecisions, DecisionSeq, NoAnswer
  <2>6. CASE round_decides(c)
    <3> DEFINE entry == [block |-> state.decision_block, color |-> current_color(state')]
    <3>1. decided' = Append(decided, entry)
      BY <1>7, <2>6 DEF EndsRound, Decides
    <3>2. entry.color = state'.decision_map[state.seq_num]
      BY <2>2 DEF current_color
    <3>3. state.seq_num = DecisionSeq(Len(decided) + 1)
      BY <1>1, <2>1 DEF SeqCountsBlocks
    <3> HIDE DEF entry
    <3>4. /\ DOMAIN decided' = 1..(Len(decided) + 1)
          /\ \A i \in 1..Len(decided) : decided'[i] = decided[i]
          /\ decided'[Len(decided) + 1] = entry
      BY <1>1, <3>1 DEF TypeOK
    <3>5. \A i \in 1..(Len(decided) + 1) :
              state'.decision_map[DecisionSeq(i)] = decided'[i].color
      BY <1>1, <2>4, <3>2, <3>3, <3>4
    <3> QED
      BY <2>1, <3>4, <3>5 DEF AnswerInv, AnswersMatchDecisions, DecisionSeq, NoAnswer
  <2> QED
    BY <2>5, <2>6
<1> QED
  BY <1>5, <1>6, <1>7, StepKinds

\* A peer that asks about a decided block is told the decision, always.
THEOREM AnswersAreDecisions == Spec => []AnswersMatchDecisions
<1>1. Init => AnswerInv
  BY DEF Init, AnswerInv, AnswersMatchDecisions
<1>2. IInv /\ AnswerInv /\ [Next]_vars => AnswerInv'
  BY AnswerNext
<1>3. AnswerInv => AnswersMatchDecisions
  BY DEF AnswerInv
<1> QED
  BY <1>1, <1>2, <1>3, Invariance, PTL DEF Spec

\* handle_queue and handle_decision are the only ones to fail a block, and both do it
\* to the front of the queue.
THEOREM FailedBlockHoldsQueue == Spec => []StaleBlockHoldsQueue
<1>1. Init => StaleBlockHoldsQueue
  BY DEF Init, StaleBlockHoldsQueue
<1>2. IInv /\ StaleBlockHoldsQueue /\ [Next]_vars => StaleBlockHoldsQueue'
  <2> SUFFICES ASSUME IInv, StaleBlockHoldsQueue, [Next]_vars
               PROVE  StaleBlockHoldsQueue'
    OBVIOUS
  <2> DEFINE q == state.block_queue
  <2>1. /\ q \in Seq(Block) /\ Len(decided) \in Nat /\ DOMAIN decided = 1..Len(decided)
        /\ decided \in Seq([block : Block, color : {"OK", "KO"}])
    BY DEF IInv, TypeOK, State
  <2>2. CASE Keeps
    <3>1. decided' = decided
      BY <2>2 DEF Keeps
    <3>2. q # <<>> => state'.block_queue # <<>> /\ Head(state'.block_queue) = Head(q)
      BY <2>1, <2>2 DEF Keeps
    <3>3. failed' = failed \/ (q # <<>> /\ failed' = failed \cup {Head(q)})
      BY <2>2 DEF Keeps
    <3> HIDE DEF q
    <3> QED
      BY <3>1, <3>2, <3>3 DEF StaleBlockHoldsQueue, q
  <2>3. CASE Opens
    BY <2>3 DEF Opens, StaleBlockHoldsQueue
  <2>4. ASSUME NEW c \in State, EndsRound(c), ~ round_decides(c)
        PROVE  StaleBlockHoldsQueue'
    BY <2>4 DEF EndsRound, StaleBlockHoldsQueue
  <2>5. ASSUME NEW c \in State, EndsRound(c), round_decides(c)
        PROVE  StaleBlockHoldsQueue'
    <3> DEFINE entry == [block |-> state.decision_block, color |-> current_color(state')]
    <3>1. /\ decided' = Append(decided, entry) /\ entry.color \in {"OK", "KO"}
          /\ q # <<>> /\ Head(q) = entry.block
          /\ failed' = IF entry.color = "OK" THEN failed ELSE failed \cup {entry.block}
      BY <2>5 DEF EndsRound, Decides
    <3> HIDE DEF entry, q
    <3>2. /\ DOMAIN decided' = 1..(Len(decided) + 1)
          /\ \A i \in 1..Len(decided) : decided'[i] = decided[i]
          /\ decided'[Len(decided) + 1] = entry
      BY <2>1, <3>1
    <3>3. \A b \in failed' : \E i \in DOMAIN decided' : decided'[i].block = b
      <4> SUFFICES ASSUME NEW b \in failed'
                   PROVE  \E i \in DOMAIN decided' : decided'[i].block = b
        OBVIOUS
      <4>1. CASE b = entry.block
        <5>1. Len(decided) + 1 \in DOMAIN decided'
          BY <2>1, <3>2
        <5> QED
          BY <3>2, <4>1, <5>1
      <4>2. CASE b # entry.block
        <5>1. b \in failed
          BY <3>1, <4>2
        <5>2. \E i \in DOMAIN decided : decided[i].block = b
          BY <3>1, <4>2, <5>1 DEF StaleBlockHoldsQueue, q
        <5> QED
          BY <2>1, <3>2, <5>2
      <4> QED
        BY <4>1, <4>2
    <3>4. \A i \in DOMAIN decided' : decided'[i].color = "KO" => decided'[i].block \in failed'
      <4>1. \A i \in 1..Len(decided) : decided[i].color = "KO" => decided[i].block \in failed
        BY <2>1 DEF StaleBlockHoldsQueue
      <4>2. failed \subseteq failed' /\ (entry.color = "KO" => entry.block \in failed')
        BY <3>1
      <4> QED
        BY <2>1, <3>2, <4>1, <4>2
    <3> QED
      BY <3>3, <3>4 DEF StaleBlockHoldsQueue
  <2> QED
    BY <2>2, <2>3, <2>4, <2>5, StepKinds
<1> QED
  BY <1>1, <1>2, Invariance, PTL DEF Spec
=============================================================================
