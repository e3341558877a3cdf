--------------------------- MODULE SnowballEngine ---------------------------
(***************************************************************************)
(* One Snowball engine (engine.rs): the loop that takes an update from the *)
(* validator, and the handlers of SnowballNode it calls.  An iteration of  *)
(* the loop is four steps, and pc names the next one:                      *)
(*                                                                         *)
(*     "queue"   node.handle_queue                                         *)
(*     "update"  handle_update, on the update received or on a time-out    *)
(*     "timers"  node.handle_unresponsive_peers                            *)
(*     "tick"    block_publishing_ticker.tick(try_publish)                 *)
(*                                                                         *)
(* The environment is as wide as the code lets it be.  Any peer may send   *)
(* any request, response or "unavailable" at any time, so lost, delayed,   *)
(* repeated, reordered and made-up messages are all included, and with     *)
(* them what the Byzantine test switches of the peers do.  The validator   *)
(* checks and commits blocks in its own time.  Any call to it may fail.    *)
(***************************************************************************)
EXTENDS SnowballNode

CONSTANTS
    self,       \* local_peer_info.peer_id
    Members,    \* the member list of the on-chain settings
    Mobile,     \* the peers whose connections come and go
    Votes,      \* the values of the vote byte found in responses
    block_num   \* the height of each block

ASSUME MemberAssumption ==
    /\ Members \in Seq(Peer)
    /\ \A i, j \in DOMAIN Members : Members[i] = Members[j] => i = j
    /\ IsMember(Members, self)
    /\ Mobile \subseteq Peer \ {self}

ASSUME VoteAssumption == Votes \subseteq 0..255

ASSUME HeightAssumption ==
    /\ block_num \in [Block \cup {HeadBlock} -> Nat]
    /\ block_num[HeadBlock] < MaxSeq

VARIABLES
    state,      \* snowball_state, and the node's block_queue
    pc,         \* the next step of the loop
    status,     \* "running", or how the engine ended
    answer,     \* the answer to the request handled last
    head,       \* the validator's chain head
    candidate,  \* the validator is building a block for this node
    verdict,    \* the validator's result for a block it was asked to check
    committing, \* blocks the validator was told to commit and has not yet
    failed,     \* blocks the validator was told to fail
    arrived,    \* history: the blocks announced, in order
    decided,    \* history: the decisions taken, in order
    rounds,     \* history: the results of the rounds of the latest block
    dropped     \* history: invalid votes met in the current round

validatorVars == <<head, candidate, verdict, committing, failed>>

historyVars == <<arrived, decided, rounds, dropped>>

vars == <<state, pc, status, answer, validatorVars, historyVars>>

----------------------------------------------------------------------------
\* How the engine can end: Shutdown, a closed channel or the churn test switch;
\* a sampling loop that never ends; an expect() on a failed service call; a
\* summarize_block without a block; an unwrap() on a peer that is no member.
Ending == {"exited", "spinning", "service_error", "no_candidate", "unknown_peer"}

NoAnswer == [kind |-> "none", seq |-> 0, vote |-> 0]

\* The result of a round: the colour with a majority, or 2 when there is none.
NoMajority == 2

RoundResult(s) ==
    IF s.response_buffer[0] >= alfa THEN 0
    ELSE IF s.response_buffer[1] >= alfa THEN 1 ELSE NoMajority

\* The number of blocks that fit below MaxSeq.
MaxBlocks == MaxSeq - block_num[HeadBlock] - 1

\* The sequence number under which the i-th decision is taken.
DecisionSeq(i) == block_num[HeadBlock] + 1 + i

----------------------------------------------------------------------------
\* engine.start: the state is made and, on the first member, a block begun.
Init ==
    /\ state      = NewState(self, Members, HeadBlock, block_num[HeadBlock])
    /\ pc         = "queue"
    /\ status     = "running"
    /\ answer     = NoAnswer
    /\ head       = HeadBlock
    /\ candidate \in (IF state.order = 0 THEN BOOLEAN ELSE {FALSE})
    /\ verdict    = [b \in Block |-> "None"]
    /\ committing = <<>>
    /\ failed     = {}
    /\ arrived    = <<>>
    /\ decided    = <<>>
    /\ rounds     = <<>>
    /\ dropped    = 0

\* One step of the loop, from the place `from` to the place `to`.
Loop(from, to) ==
    /\ status = "running"
    /\ pc = from
    /\ pc' = to
    /\ UNCHANGED status

Halt(why) ==
    /\ status = "running"
    /\ status' = why
    /\ UNCHANGED <<state, pc, answer, validatorVars, historyVars>>

----------------------------------------------------------------------------
\* node.handle_queue

\* The front of the queue is a block that has not been considered yet.
FrontIsNew ==
    /\ state.block_queue # <<>>
    /\ Head(state.block_queue) # state.decision_block

Stale(b) == block_num[b] < block_num[head]

NothingToConsider ==
    /\ Loop("queue", "update")
    /\ ~ FrontIsNew
    /\ answer' = NoAnswer
    /\ UNCHANGED <<state, validatorVars, historyVars>>

\* An old block is failed, and stays in the queue.  This call alone may fail
\* without ending the engine.
FailStaleBlock ==
    /\ Loop("queue", "update")
    /\ FrontIsNew
    /\ Stale(Head(state.block_queue))
    /\ failed' \in {failed, failed \cup {Head(state.block_queue)}}
    /\ answer' = NoAnswer
    /\ UNCHANGED <<state, head, candidate, verdict, committing, historyVars>>

ConsiderBlock ==
    /\ FrontIsNew
    /\ ~ Stale(Head(state.block_queue))
    /\ LET outcomes == handle_block_new(state, Head(state.block_queue))
       IN  \/ /\ pc = "queue"
              /\ outcomes = {}
              /\ Halt("spinning")
           \/ /\ Loop("queue", "update")
              /\ state' \in outcomes
              /\ rounds' = <<>>
              /\ dropped' = 0
              /\ answer' = NoAnswer
              /\ UNCHANGED <<validatorVars, arrived, decided>>

----------------------------------------------------------------------------
\* handle_update

\* The validator announces a block once, and after a block it can build on.
OnBlockNew(b) ==
    /\ Loop("update", "timers")
    /\ \A i \in DOMAIN arrived : arrived[i] # b
    /\ \E c \in {HeadBlock} \cup {arrived[i] : i \in DOMAIN arrived} :
           block_num[b] = block_num[c] + 1
    /\ Len(arrived) < MaxBlocks
    /\ state' = on_block_new(state, b)
    /\ arrived' = Append(arrived, b)
    /\ UNCHANGED <<answer, validatorVars, decided, rounds, dropped>>

\* on_block_valid, on_block_invalid and on_block_commit only log, and so does a
\* recv_timeout that times out.
OnNotice ==
    /\ Loop("update", "timers")
    /\ UNCHANGED <<state, answer, validatorVars, historyVars>>

OnRequest(q) ==
    /\ Loop("update", "timers")
    /\ answer' = [kind |-> on_request(state, q), seq |-> q,
                  vote |-> IF on_request(state, q) = "response"
                           THEN vote_for(state, q) ELSE 0]
    /\ UNCHANGED <<state, validatorVars, historyVars>>

\* The validator refuses to commit a block that it has not checked yet.
CommitRefused(t) ==
    /\ current_color(t) = "OK"
    /\ verdict[t.decision_block] = "None"

\* Mutant: the arms of handle_decision are swapped.
DirectiveSwapped(t) ==
    /\ IF current_color(t) = "OK"
       THEN /\ failed' = failed \cup {t.decision_block}
            /\ UNCHANGED committing
       ELSE /\ committing' = Append(committing, t.decision_block)
            /\ UNCHANGED failed
    /\ candidate' \in (IF t.order = 0 THEN {candidate, TRUE} ELSE {candidate})
    /\ decided' = Append(decided, [block |-> t.decision_block, color |-> current_color(t)])
    /\ UNCHANGED <<head, verdict, arrived>>

\* What handle_decision asks of the validator for the decision left in t.
Directive(t) ==
    /\ ~ CommitRefused(t)
    /\ IF current_color(t) = "OK"
       THEN /\ committing' = Append(committing, t.decision_block)
            /\ UNCHANGED failed
       ELSE /\ failed' = failed \cup {t.decision_block}
            /\ UNCHANGED committing
    /\ candidate' \in (IF t.order = 0 THEN {candidate, TRUE} ELSE {candidate})
    /\ decided' = Append(decided, [block |-> t.decision_block, color |-> current_color(t)])
    /\ UNCHANGED <<head, verdict, arrived>>

\* The vote completes a round; it may decide the block.
CompletesRound(p, vote) ==
    /\ awaited(state, p)
    /\ vote \in Color
    /\ round_complete(counted(state, p, vote))

OnResponse(p, vote) ==
    LET outcomes == on_response(state, p, vote)
        c        == counted(state, p, vote)
    IN  \/ /\ pc = "update"
           /\ outcomes = {}
           /\ Halt("spinning")
        \/ /\ pc = "update"
           /\ CompletesRound(p, vote)
           /\ round_decides(c)
           /\ CommitRefused(count_round(c))
           /\ Halt("service_error")
        \/ /\ Loop("update", "timers")
           /\ state' \in outcomes
           /\ UNCHANGED answer
           /\ IF CompletesRound(p, vote)
              THEN /\ rounds' = Append(rounds, RoundResult(c))
                   /\ dropped' = 0
                   /\ IF round_decides(c)
                      THEN Directive(state')
                      ELSE UNCHANGED <<validatorVars, arrived, decided>>
              ELSE /\ dropped' = IF awaited(state, p) /\ vote \notin Color
                                 THEN dropped + 1 ELSE dropped
                   /\ UNCHANGED <<validatorVars, arrived, decided, rounds>>

OnUnavailable(p) ==
    LET outcomes == on_unavailable(state, p)
    IN  \/ /\ pc = "update"
           /\ outcomes = {}
           /\ Halt("spinning")
        \/ /\ Loop("update", "timers")
           /\ state' \in outcomes
           /\ UNCHANGED <<answer, validatorVars, historyVars>>

OnPeerConnected(p) ==
    /\ Loop("update", "timers")
    /\ state' = on_peer_connected(state, p)
    /\ UNCHANGED <<answer, validatorVars, historyVars>>

OnPeerDisconnected(p) ==
    \/ /\ pc = "update"
       /\ ~ IsMember(state.member_ids, p)
       /\ Halt("unknown_peer")
    \/ /\ Loop("update", "timers")
       /\ IsMember(state.member_ids, p)
       /\ state' = on_peer_disconnected(state, p)
       /\ UNCHANGED <<answer, validatorVars, historyVars>>

----------------------------------------------------------------------------
\* The end of an iteration

HandleUnresponsivePeers(expired) ==
    LET outcomes == handle_unresponsive_peers(state, expired)
    IN  \/ /\ pc = "timers"
           /\ outcomes = {}
           /\ Halt("spinning")
        \/ /\ Loop("timers", "tick")
           /\ state' \in outcomes
           /\ UNCHANGED <<answer, validatorVars, historyVars>>

\* The ticker's period is not over, or try_publish returns early.
NoPublish ==
    /\ Loop("tick", "queue")
    /\ UNCHANGED <<state, answer, validatorVars, historyVars>>

\* try_publish with finalize_block.  Waiting for a block that is not ready keeps
\* the engine here.
TryPublish ==
    /\ state.phase = "Idle"
    /\ state.order = 0
    /\ \/ /\ Loop("tick", "queue")
          /\ candidate
          /\ candidate' = FALSE
          /\ UNCHANGED <<state, answer, head, verdict, committing, failed, historyVars>>
       \/ /\ pc = "tick"
          /\ ~ candidate
          /\ Halt("no_candidate")

\* Shutdown, a closed channel, the churn test switch.
Stop == pc \in {"queue", "update"} /\ Halt("exited")

\* Every step of the loop calls the service, and expects the calls to succeed.
ServiceError == Halt("service_error")

----------------------------------------------------------------------------
\* The validator

BeingChecked(b) ==
    \/ \E i \in DOMAIN decided : decided[i].block = b
    \/ state.decision_block = b

ValidatorChecks(b, result) ==
    /\ BeingChecked(b)
    /\ verdict[b] = "None"
    /\ verdict' = [verdict EXCEPT ![b] = result]
    /\ UNCHANGED <<state, pc, status, answer, head, candidate, committing, failed, historyVars>>

\* Commits are carried out in the order they were asked for, valid blocks only.
\* A block under construction may be dropped when the head moves.
ValidatorCommits ==
    /\ committing # <<>>
    /\ committing' = Tail(committing)
    /\ IF verdict[Head(committing)] = "Valid"
       THEN /\ head' = Head(committing)
            /\ candidate' \in {candidate, FALSE}
       ELSE UNCHANGED <<head, candidate>>
    /\ UNCHANGED <<state, pc, status, answer, verdict, failed, historyVars>>

----------------------------------------------------------------------------
HandleQueue == NothingToConsider \/ FailStaleBlock \/ ConsiderBlock

HandleUpdate ==
    \/ \E b \in Block : OnBlockNew(b)
    \/ OnNotice
    \/ \E q \in SeqNum : OnRequest(q)
    \/ \E p \in Peer, vote \in Votes : OnResponse(p, vote)
    \/ \E p \in Peer : OnUnavailable(p)
    \/ \E p \in Mobile : OnPeerConnected(p) \/ OnPeerDisconnected(p)

HandleTimers ==
    \/ \E expired \in SUBSET state.waiting_response_map : HandleUnresponsivePeers(expired)
    \/ NoPublish
    \/ TryPublish

Validator ==
    \/ \E b \in Block, result \in {"Valid", "Invalid"} : ValidatorChecks(b, result)
    \/ ValidatorCommits

Next == HandleQueue \/ HandleUpdate \/ HandleTimers \/ Stop \/ ServiceError \/ Validator

Spec == Init /\ [][Next]_vars

----------------------------------------------------------------------------
\* Properties

\* Types of all the variables, and the fields of SnowballState in particular.
TypeOK ==
    /\ state \in State
    /\ pc \in {"queue", "update", "timers", "tick"}
    /\ status \in Ending \cup {"running"}
    /\ answer \in [kind : {"none", "unavailable", "nothing", "response"},
                   seq  : SeqNum, vote : Color]
    /\ head \in Block \cup {HeadBlock}
    /\ candidate \in BOOLEAN
    /\ verdict \in [Block -> {"None", "Valid", "Invalid"}]
    /\ committing \in Seq(Block)
    /\ failed \subseteq Block
    /\ arrived \in Seq(Block)
    /\ decided \in Seq([block : Block, color : {"OK", "KO"}])
    /\ rounds \in Seq(Color \cup {NoMajority})
    /\ dropped \in Nat

\* While a block is being decided, every one of the k questions of the round is
\* accounted for: awaited, counted, or lost to an invalid vote.  So the test
\* `== state.k` of on_peer_message is met exactly when nobody is awaited and no
\* vote was lost, the sum never steps over k, and no answer is awaited between
\* blocks.  An invalid vote leaves the round short for good.
RoundAccounting ==
    /\ state.phase = "Listening" =>
          /\ Cardinality(state.waiting_response_map) + state.response_buffer[0]
                 + state.response_buffer[1] + dropped = k
          /\ state.response_buffer[0] + state.response_buffer[1] < k
    /\ state.phase # "Listening" => state.waiting_response_map = {}

\* handle_queue looks at the queue and not at the phase, and switch_phase turns
\* whatever phase there is.  That is safe because the block being decided is the
\* front of the queue, from handle_block_new to the pop of handle_decision.
DecisionBlockIsFront ==
    /\ state.phase # "Finishing"
    /\ state.phase = "Listening" =>
          /\ state.block_queue # <<>>
          /\ Head(state.block_queue) = state.decision_block
    /\ state.phase = "Idle" =>
          \A i \in DOMAIN state.block_queue : state.block_queue[i] # state.decision_block

\* confidence_counter is the length of the run of equal majorities that ends the
\* rounds of the block, whatever no-majority rounds and changes of colour came
\* before, although last_color survives a round without a majority.
ConfidenceIsStreak ==
    LET n == Len(rounds)
        c == state.confidence_counter
    IN  /\ c <= n
        /\ c > 0 => rounds[n] # NoMajority
        /\ \A i \in (n - c + 1)..n : rounds[i] = rounds[n]
        /\ 0 < c /\ c < n => rounds[n - c] # rounds[n]
        /\ c = 0 /\ n > 0 => rounds[n] = NoMajority

\* decision_array counts the majorities of each colour over all the rounds of the
\* block, and the colour in decision_map, which is the one that gets decided, is
\* never behind the other one.
ColorIsPlurality ==
    state.decision_block # NoBlock =>
        /\ \A i \in Color :
              state.decision_array[i] = Cardinality({j \in DOMAIN rounds : rounds[j] = i})
        /\ LET c == decision_state_to_u8(current_color(state))
           IN  state.decision_array[c] >= state.decision_array[1 - c]

\* A block is decided by the beta-th consecutive majority of one colour, neither
\* earlier nor later, and with the colour of decision_map.
DecidesAtBeta ==
    /\ state.phase = "Listening" => state.confidence_counter < beta
    /\ state.phase = "Idle" /\ decided # <<>> =>
          /\ state.confidence_counter = beta
          /\ decided[Len(decided)].block = state.decision_block
          /\ decided[Len(decided)].color = current_color(state)

\* A sequence number belongs to one block: it counts the blocks considered since
\* start-up from the height of the head, a failed block like a committed one.
SeqCountsBlocks ==
    state.seq_num = DecisionSeq(Len(decided) + (IF state.phase = "Listening" THEN 1 ELSE 0))

\* What on_peer_message tells peers about a block this node has decided is the
\* decision, however many blocks were decided since.
AnswersMatchDecisions ==
    \A i \in DOMAIN decided :
        /\ state.decision_map[DecisionSeq(i)] = decided[i].color
        /\ answer.seq = DecisionSeq(i) /\ answer.kind # "none" =>
               /\ answer.kind = "response"
               /\ answer.vote = decision_state_to_u8(decided[i].color)

\* The values the handlers unwrap() or convert are there: the colour of the block
\* being decided (on_values_ready, handle_decision, decision_state_to_u8 panics on
\* Undecided) and its arrival time (set_block_commit_timestamp).
UnwrapsSafe ==
    state.phase = "Listening" =>
        /\ current_color(state) \in {"OK", "KO"}
        /\ state.decision_block \in state.convergenza

\* The sampling loops draw until they have found enough peers.  They can only go
\* on for ever when there are no k members besides this node.
SpinsOnlyWhenTooFew ==
    status = "spinning" => Len(state.member_ids) <= k

\* order is this node's index in member_ids whatever members came and went, the
\* list has no duplicates, and the node never waits for itself.
MembersConsistent ==
    /\ \A i, j \in DOMAIN state.member_ids :
           state.member_ids[i] = state.member_ids[j] => i = j
    /\ state.order < Len(state.member_ids)
    /\ state.member_ids[state.order + 1] = self
    /\ self \notin state.waiting_response_map

\* handle_queue fails an old block without taking it out of the queue: a block that
\* was failed and is not decided is the front of the queue, and holds up the rest; a
\* block decided KO is failed.  A block failed for its age may still be considered,
\* and be decided OK, when the validator's head moves back to a lower block.
StaleBlockHoldsQueue ==
    /\ \A b \in failed :
          \/ \E i \in DOMAIN decided : decided[i].block = b
          \/ state.block_queue # <<>> /\ Head(state.block_queue) = b
    /\ \A i \in DOMAIN decided : decided[i].color = "KO" => decided[i].block \in failed

\* A vote on a block this node is done with never changes.
DecidedVoteFinal ==
    [][\A q \in SeqNum :
          q < state.seq_num \/ (q = state.seq_num /\ state.phase = "Idle") =>
              state.decision_map'[q] = state.decision_map[q]]_vars

\* Every block is decided once, in the order of arrival, and for good.
Decisions == INSTANCE BlockDecisions WITH pending <- state.block_queue, log <- decided

ImplementsDecisions == Decisions!Spec

\* node.rs:106 says that try_publish finalizes a block "when the primary is ready".
PublishesWhenReady == status # "no_candidate"

\* consensus.proto:354 says that the engine must listen for notifications to learn
\* if a block would commit; a block is then committed after its BlockValid.
CommitsOnlyValid == \A i \in DOMAIN committing : verdict[committing[i]] = "Valid"

\* node.rs:189 says that only future blocks are considered since committed blocks
\* are final: the head is only replaced by a higher block.
CommittedBlocksAreFinal == [][head' # head => block_num[head'] > block_num[head]]_head
=============================================================================
