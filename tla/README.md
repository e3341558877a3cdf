# A TLA+ development of the Sawtooth Snowball engine

The repository is a consensus engine for Hyperledger Sawtooth that runs the
Snowball algorithm: for every block it is told about, a node asks `k` random
members whether they would accept it, takes `alfa` equal answers as a majority,
and decides after `beta` consecutive majorities of one colour (OK or KO). This
directory holds TLA+ modules that model the engine, TLC configurations that
check them on small instances, and TLAPS proofs. Paths below are relative to
the repository root.

## 1. The system

| Part | State | Operations | Interaction |
|---|---|---|---|
| Consensus state, `src/state.rs` | `SnowballState`: sequence number, colour per sequence number, counters, waiting set, phase, members | `new`, `switch_phase`, `add_to_waiting_set`, `get_order_index`, timestamps | passed by `&mut` to every handler |
| Node handlers, `src/node.rs` | `block_queue`, random generator | `handle_queue`, `on_block_new`, `on_peer_message` (request, response, unavailable), `on_values_ready`, `handle_block_new`, `handle_decision`, `handle_unresponsive_peers`, `on_peer_connected/disconnected`, `try_publish` | called by the loop; call the validator's `Service`, which also carries messages to peers |
| Engine loop, `src/engine.rs` | the state, the ticker, the churn time-out | `start`, `handle_update` | one thread; takes updates from a channel, waiting 10 ms at most |
| Validator (external; `protos/consensus.proto`) | chain head, block under construction, check results | check, commit, fail, initialize, summarize and finalize a block | answers calls; works on its own and reports through updates |
| Messages, `src/message.rs` | vote, seq_num, nonce, type | JSON | between nodes, through their validators |
| Configuration, `src/config.rs` | settings | defaults, on-chain settings, member list | read once at start, with retries |
| Timing, `src/timing.rs` | Ticker, Timeout, retry with backoff | `tick`, `start`, `check_expired`, `retry_until_ok` | looked at once per iteration of the loop |
| Storage, `src/storage/` | a value behind guards, in memory or on disk | `get_storage`, guards, write on drop | one write guard per iteration; `main` only asks for memory |
| Command line, log collector: `src/main.rs`, `collector.py` | none of the protocol's | | |

The engine has one thread, so its handlers are atomic with respect to each
other. What is hard is what happens between them: answers come late, twice, or
from peers that were replaced; members leave in the middle of a round; several
blocks arrive while one is decided; the validator checks and commits at its own
pace while the loop goes on; and every piece of bookkeeping (the phase, the
waiting set, the counters, the queue, the sequence number) is kept in step with
the others by convention only. Between nodes it is harder still: a request names
a block by a sequence number only, an answer is matched to a round by its sender
only, and a node that restarts has forgotten its votes and may number blocks
anew. What makes the parts correct:

* rounds: a round ends exactly when `k` votes are in; confidence, majorities
  and colour follow the rounds that really took place; the decision is taken at
  `beta`;
* queue: one block at a time, in the order of arrival, each decided once, each
  with its own sequence number;
* answers: what a node tells its peers about a decided block is the decision;
* members: the node's own index stays right, it never asks itself;
* loop: it neither panics nor hangs, or one knows exactly when it does;
* progress: with enough answers every block gets decided;
* network: nodes that use one number mean one block, votes of a round come from
  different peers, a minority of wrong votes does not turn a decision, and nobody
  waits for an answer that is not on its way;
* time: a peer is given up after `hang_timeout` and not before, publishing holds
  up no round, the ticker keeps firing;
* process: bad settings stop the start, the file follows the state, settings
  take effect.

`PROJECT.json` lists under "hazards" the places where each of these could break.

## 2. Modules

| Module | What it is |
|---|---|
| `SnowballState` | `state.rs` as a record set `State`, `NewState` and the methods; the CONSTANTS and their assumptions |
| `SnowballNode` | the handlers of `node.rs` as operators from a `State` to the set of `State`s they can leave behind |
| `SnowballEngine` | the state machine: the loop of `engine.rs`, the validator, the properties |
| `BlockDecisions` | the abstract specification: blocks announced once are decided once, in order, for good |
| `MCSnowballEngine` | instances for TLC |
| `SnowballNetwork` | several nodes that run `SnowballNode` and ask each other: messages, test switches, crashes |
| `SnowballTiming` | the loop against a clock: `timing.rs` and its uses |
| `SnowballConfig` | `config.rs` and the backoff of `retry_until_ok` as operators |
| `SnowballProcess` | start-up, storage, end and restart of an engine process; uses `SnowballConfig` |
| `MCSnowballNetwork`, `MCSnowballTiming`, `MCSnowballProcess` | instances for TLC |
| `SnowballNodeProofs` | lemmas: what each handler does to the invariant of one state record |
| `SnowballEngineProofs` | one engine: the inductive invariant `IInv` and the theorems about rounds, queue and members |
| `SnowballDecisionProofs` | one engine: decisions, answers, and the refinement of `BlockDecisions` |
| `SnowballRoundProofs` | one engine: the history of rounds, and when draws can end |
| `SnowballNetworkProofs` | the network: types, voters, numbers and blocks |
| `SnowballVoteProofs` | the network: what wrong votes can and cannot do, where positions move, who is waited for |
| `SnowballTimingProofs`, `SnowballProcessProofs` | the loop against the clock; start-up, storage and settings |

### One engine: `SnowballState`, `SnowballNode`, `SnowballEngine`

**State.** `state` is `SnowballState` together with the node's `block_queue`.
`waiting_response_map` is the set of its keys: a timeout can only be running, and
whether it has expired is the environment's choice. `decision_map` is a function
with "None" where the hash map has no entry. The measurements keep only which
blocks have a timestamp (`convergenza`), because the handlers `expect()` it.

**Handlers.** Random draws become sets of outcomes. A sampling loop that cannot
find enough peers has an empty set of outcomes and the engine's `status` becomes
"spinning". Since the code draws indexes until it has the number it wants,
`select_node_sample` is the set of all draws of that size, and the replacement
loops draw peers that are not yet awaited. The requests that are sent go
exactly to the peers added to the waiting set, so they need no variable.

**Loop.** One iteration is four steps and `pc` says which is next: `handle_queue`,
`handle_update`, `handle_unresponsive_peers`, the ticker. Between any two of
them the validator may act. An update is received before `handle_queue` runs and
used after it; since nothing else depends on it, it is chosen when it is used.

| Action | Code |
|---|---|
| `NothingToConsider`, `FailStaleBlock`, `ConsiderBlock` | `handle_queue` with `handle_block_new` |
| `OnBlockNew`, `OnNotice` | `on_block_new`; `on_block_valid/invalid/commit` and a receive time-out, which change nothing |
| `OnRequest`, `OnResponse`, `OnUnavailable` | the arms of `on_peer_message`, with `on_values_ready` and `handle_decision` inside `OnResponse` |
| `OnPeerConnected`, `OnPeerDisconnected` | the handlers of these names |
| `HandleUnresponsivePeers`, `NoPublish`, `TryPublish` | the end of an iteration |
| `Stop`, `ServiceError` | leaving the loop; an `expect()` on a failed call |
| `ValidatorChecks`, `ValidatorCommits` | the validator (external) |

**Environment.** Any peer may send any request, response or "unavailable" at any
time, with any vote of `Votes`; so messages may be lost, late, repeated,
reordered or invented. `on_peer_message` does not compare sequence numbers, it
only logs a difference, so the number on a response is not part of the action.
The validator announces each block once, and only after a block it can be built
on. It refuses to commit a block it has not checked
(`protos/consensus.proto:377`), and commits in the order it was asked. A call to
`fail_block` for a stale block and to `initialize_block` may fail with a log
entry only; any other failing call ends the engine.

**History variables.** `arrived`, `decided`, `rounds` and `dropped` record what
happened and are read by properties only (`arrived` also by the environment).

### The network: `SnowballNetwork`

`node` holds a `SnowballState` per node. The steps of the loop are not kept apart
here: since any update may come next, each handler is an action that any node can
take. Messages are a bag; one that is never delivered is a lost one.

| Action | Code |
|---|---|
| `Announce`, `handle_queue` | `on_block_new`; `handle_queue` with `handle_block_new` and the requests of the first round |
| `ReceiveRequest`, `ReceiveResponse`, `ReceiveUnavailable` | the arms of `on_peer_message`, with the answer, the next round's requests or the replacement's |
| `Expire` | `handle_unresponsive_peers` when timeouts have run out |
| `NoticeDown`, `NoticeUp` | `on_peer_disconnected`, `on_peer_connected` |
| `Crash`, `Restart` | the end of the process for any reason; `start` with `SnowballState::new` at the validator's head |
| `Commit` | the validator (external) |

`send_peer_message` applies the Byzantine test switches to whatever a handler
sends: nothing (`hang_idx`), vote 0 (`wrong_decision_idx`), any sequence number
(`spurious_idx`), twice (`duplicate_idx`). As in the code they go by the node's
current position in its own member list. A delay (`sleep_idx`) is a message that
takes long; the churn switch and the panics of failing calls are crashes. After a
restart the validator announces blocks again from some height above its head on;
`skipped` remembers how many it left out. Each node crashes at most once.
`voters` and `replaced` record the votes of the current round, and `repeated` the most
votes that a round has had of peers it had counted before.

### Time: `SnowballTiming`

One tick is the 10 ms the loop waits for an update at most. An `Instant` is the
time that has passed since it. Of the algorithm the module keeps who is awaited,
so that it can follow every `Timeout` from `add_to_waiting_set` to its expiry. A
replacement draws single peers until a new one is found; every awaited peer it
draws on the way gets a new `Timeout` without being asked again (`Await` with
`again`). `finalize_block` sleeps in the loop's thread while the validator is not
ready (`NotReady`).

### The process: `SnowballConfig`, `SnowballProcess`

On-chain settings are a function from the keys that are set to a value or to "does
not parse". A required one that is missing or unreadable ends the start with a
panic, any other keeps its default. The storage is memory, a disk file, or a
location that `get_storage` refuses. Each iteration ends with the drop of the
write guard; for the disk storage this writes the file, at once or not at all, or
panics. `has_block` stands for the maps with byte-string keys: from the first
announced block on they have entries, which `serde_json` refuses to write. A kill
may come at any moment, and a restart may find other settings.

## 3. Runs

| Run | Instance | Shows |
|---|---|---|
| `engine_rounds` | 4 members, 1 block, k = alfa = beta = 2, at most 6 rounds | rounds, confidence, colour, decision |
| `engine_queue` | 3 members, 3 blocks (two siblings and a child), k = alfa = beta = 1 | queue, sequence numbers, answers, `BlockDecisions` |
| `engine_churn` | 3 members of which one leaves, one peer that joins, votes 0, 1 and an invalid one, k = alfa = 2, beta = 1, node in second place | accounts under churn, spinning, order |
| `network_votes` | 3 nodes, 1 block; k = alfa = 2, beta = 1; one node votes KO, or duplicates beside a hung one, or is spurious, or votes KO while another crashes | who is counted in a round, what a minority can reach, that nobody waits in vain |
| `network_restart` | 2 nodes, 2 blocks, k = alfa = beta = 1, one crash | votes and numbers over a restart |
| `network_live` | 3 nodes, the third hung, 2 blocks, k = alfa = beta = 1, answers in time | every other node decides |
| `timing` | 3 peers, k = 2, `hang_timeout` 2 ticks, ticker 3, sleep 2 | time-outs, publishing, ticker |
| `process` | 6 settings, 4 storage locations, the default backoff | start-up, storage, settings |
| `claim_publish`, `claim_commit`, `claim_final` | as `engine_queue` | three statements of the repository that the code does not keep |
| `claim_proposer` | as `network_restart`, 1 block | a fourth one |

**Bounds.** `MaxRounds` bounds the rounds explored for a block (a CONSTRAINT). Six rounds with beta = 2 are enough for
all the ways confidence can be reset and for a colour that is overtaken: OK, none,
OK, none, KO, KO leaves the colour OK at the decision although the streak is KO.
`MaxSeq` bounds sequence numbers and so the blocks announced (`MaxBlocks`); three
blocks allow one to be decided, one to be decided next and one to wait, and the
fork gives a stale block and a sibling of the head. `Votes` is 0, 1 and 2, the
last standing for every invalid byte. k = 2 out of 4 members leaves one peer to
replace another. alfa > k/2 is assumed (`ThresholdAssumption`); `config.rs` does
not check it.


In the network, `max_in_flight` bounds the messages under way at one time: 3 or 4
let two nodes ask at the same time while an old answer is still on its way, 6 leave
room for duplicates; 2 suffices for the spurious node, whose sequence numbers
multiply the states. `UntilRepeated` follows wrong votes up to the first peer that
is counted twice: with alfa = 2 and one faulty node `MinorityCannotFlip` says nothing
from there on. `AfterCrash` lets the second node crash, so that the third, which votes
KO, moves up and a node in between may get the marked position; the rest of that
scenario goes on with three messages at a time and one replacement in a round. One
crash of any node at any moment, in `network_restart`, includes those between a
decision, its commit and the next announcement. Its VIEW leaves out who was counted,
which no action reads. `max_in_flight` is 9 in `network_live`, which no state reaches. In
`SnowballTiming`, `MaxElapsed` stops the clocks where more time changes no
comparison. In `SnowballProcess`, `MaxFailures` counts past the failure at which
the delay reaches its maximum (the tenth).

**Deadlock** is checked for `process`, which can always be started again, and not
for the others: the engine may end (exit, panic, endless loop), and a network has
nothing to do when all is decided.

**Fairness.** `network_live`: weak fairness of announcing and considering blocks,
and of handling requests and answers per sender and receiver, because
`recv_timeout` returns after 10 ms at most, the loop keeps running, and updates
are a queue in which nothing is overtaken for ever. Strong fairness of drawing any
given peer as a replacement (`Draws`): draws are uniform and independent. The run
also assumes answers in time (`timely`): a peer is given up only when nothing is
under way between the two nodes, that is, `hang_timeout` is longer than a question
and its answer take. Without this a node may give up every answer just before it
arrives. Nothing is assumed of crashes or of the validator's commits. There is no
claim about liveness after a crash: with a hung node and a node that restarted and
forgot its vote, an asker of a number below the restarted node's own gets no answer
from either (`node.rs:302`).

`timing`: the loop runs, an update is not waiting at every single turn (time
passes), and the validator finishes the block it builds in the end; without the
last `finalize_block` would sleep for ever.

**What the violations show.** `claim_publish`: `try_publish` summarizes a block
whether or not one is under construction, and panics. `claim_commit`:
`handle_decision` commits a block that the validator reported invalid, because
`on_block_invalid` only logs. `claim_final`: the test `block_num < head` lets a
sibling of the committed head through, which then replaces it. `claim_proposer`:
the first node restarts with order 0 from the settings, while the second node has
removed it from its own list and has order 0 too. The findings in
`PROJECT.json` quote the lines.

**What else the runs show.** `LateOnlyIfRefreshed`: a peer is awaited for longer
than `hang_timeout` only if a replacement happened to draw it again; then without
bound. `MinorityCannotFlip` has to count the votes of peers counted before:
replacing a silent peer may ask a faulty one again and double its weight. It also has
to count as faulty every node that may come to a marked position, since the switches
go by the position in the node's own list, and a crash of another moves it up.
`DiskStopsAtFirstBlock`: the disk storage cannot carry anything about a block over
a restart; it stops the engine instead (a finding; `main` uses memory).
`ThresholdsInForce`: with a file, changed on-chain thresholds are ignored.

**Mutants.** Definitions marked "Mutant" beside the code they alter are not used
by the specification. Each stands for a plausible mistake, and with it in place
of the original TLC finds the property it is paired with violated.

## 4. Proofs

Every safety property that a passing run checks is also a theorem:
proved by TLAPS for every finite set of peers, every set of blocks, every scenario
and all parameters that meet the named assumptions. These say that `k`, `beta` and
`alfa` are positive with `alfa <= k < 2 * alfa` (`ThresholdAssumption`), peers are
finite and ids distinct (`PeerAssumption`, `IdAssumption`), sequence numbers last for
the blocks there are (`SeqAssumption`, `NetworkAssumption`), the member list has no
duplicates (`MemberAssumption`, `NetworkAssumption`), every block has a height
(`HeightAssumption`), votes are bytes (`VoteAssumption`), time-outs are numbers
(`TimingAssumption`), the base of the backoff is not above its maximum
(`RetryAssumption`), and the bound `MaxFailures` is not reached before that maximum
(`FailuresAssumption`; `config.rs:76` fixes both at 100 ms and 60 s). TLC evaluates all of them.

| Theorem | Statement (`Spec =>`) | Module |
|---|---|---|
| `TypeCorrect` | `[]TypeOK` | `SnowballEngineProofs` |
| `RoundsAccounted` | `[]RoundAccounting` | |
| `FrontIsDecided` | `[]DecisionBlockIsFront` | |
| `SeqNumbersCount` | `[]SeqCountsBlocks` | |
| `MembersStayConsistent` | `[]MembersConsistent` | |
| `UnwrapsAreSafe` | `[]UnwrapsSafe` | |
| `Refinement` | `ImplementsDecisions` | `SnowballDecisionProofs` |
| `DecidedVotesAreFinal` | `DecidedVoteFinal` | |
| `AnswersAreDecisions` | `[]AnswersMatchDecisions` | |
| `FailedBlockHoldsQueue` | `[]StaleBlockHoldsQueue` | |
| `DecisionAtBeta` | `[]DecidesAtBeta` | `SnowballRoundProofs` |
| `ConfidenceCountsStreak` | `[]ConfidenceIsStreak` | |
| `ColorFollowsPlurality` | `[]ColorIsPlurality` | |
| `DrawsEnd` | `[]SpinsOnlyWhenTooFew` | |
| `NetworkTypes` | `[]TypeOK` | `SnowballNetworkProofs` |
| `VotersAreDistinct` | `[]DistinctVoters` | |
| `NumbersMeanBlocks` | `[]SameNumberSameBlock` | |
| `NobodyVotesKO` | `[]HonestNetworkAccepts` | `SnowballVoteProofs` |
| `MinorityIsOutvoted` | `[]MinorityCannotFlip` | |
| `NobodyWaitsInVain` | `[]AwaitedIsUnderWay` | |
| `GivenUpInTime` | `NoHastyReplacement` | `SnowballTimingProofs` |
| `LateMeansRefreshed` | `[]LateOnlyIfRefreshed` | |
| `PublishingWaitsAlone` | `[]PublishingHoldsUpNoRound` | |
| `GuardsPersist` | `[]FileIsCurrent` | `SnowballProcessProofs` |
| `DiskEndsWithFirstBlock` | `[]DiskStopsAtFirstBlock` | |
| `ThresholdsAreFixedByStorage` | `[]ThresholdsInForce` | |
| `ChurnTimeoutRequired` | `[]NoLoopWithoutChurnTimeout` | |
| `DelayStaysInRange` | `[]DelayInRange` | |
| `RetryDelayDoubles` | `[]BackoffDoubles` | |

**One engine.** The theorems of `SnowballEngineProofs` follow from one inductive
invariant, `IInv`. None of the properties is inductive alone. The account of a round
needs that a sample of `k` indexes is a set of `k` peers, so that members are
distinct; that drawing never returns the node itself, so that `order` is right; and
that a block is opened only when nobody is awaited, so that phase and queue are in
step. That in turn needs that the block decided last is not in the queue any more,
which is `QueueHistory`: the blocks decided, followed by the queue, are the blocks
that arrived, without repetition. The types need both `QueueHistory` and
`SeqCountsBlocks`, since only the number of blocks announced bounds `seq_num`.
`SnowballNodeProofs` has a lemma per handler on `NodeInv`, the part of the invariant
about one state record, and `SnowballEngineProofs` one per step of the loop.

Everything else about one engine rests on `StepKinds`: with `IInv`, every step of the
specification opens a block (`Opens`), ends a round (`EndsRound`), or leaves
votes, counters and decisions alone (`Keeps`). So each later proof has three cases.
The refinement maps a round that decides to `Decide` of `BlockDecisions`, an
announcement to its `Announce`, and everything else to a stutter.
`AnswersMatchDecisions` needs that an answer is only there until the next update
(`AnswerInv`). `ConfidenceIsStreak` needs that `last_color` is the colour of the last
round while the counter is positive (`StreakInv`), which is just the point at which
`count_round` could go wrong: `last_color` outlives a round without a majority, the
counter does not. `DrawsEnd` counts: the peers awaited and the votes counted make
`k`, so a replacement can find somebody while `k` members besides the node are left.

**The network.** `PeerInv` is what is known of one node: `NodeInv`, that it knows
nodes of the network only, that its queue is a stretch of the chain and its sequence
number counts from the head at its last start (`Follows`), and that the votes of its
round are covered by voters and replacements (`Fresh`). Since it depends on no other
node, each handler has a lemma about one record, and the steps of the network only
put them together with the types (`NetInv`). `SameNumberSameBlock` then is arithmetic:
number and `skipped` give the height (`OpenBlock`).

For wrong votes the argument is about a set G of good nodes (`GoodInv`): their colours
are never KO, every good voter of a round has an OK vote in it, their requests never ask
about number 0 and their answers to each other are OK. Number 0
matters: every node has an entry for it, Undecided, which goes out as a KO vote
(`state.rs:196`, `node.rs:307`), and only a node with made-up numbers asks for it. A step
keeps this (`GoodStep`) while the positions of G are not marked by a switch and those
outside G, together with the votes of peers counted before, are fewer than alfa (`Few`):
the votes of a round are at most its voters and these (`CountVoterKeeps`), so what is
left for KO is too little. With G everybody the second comes for free, and the first
holds since a node's position is at most the number of members, so some node of the
on-chain list has it: `HonestNetworkAccepts`. With G the nodes that are not faulty one
has to know where nodes can be (`PlaceInv`). Before the first crash every node has the
on-chain list (`Calm`); afterwards lists change, but a newcomer goes to the end, one that
leaves moves the others up, and a restart begins with the on-chain list, so that a
position is never above the one in the settings (`LowOrder`). With the first crash more
nodes become faulty, and G shrinks; what was known of the larger G holds of the smaller
one (`FewerAreGood`): `MinorityCannotFlip`.

`AwaitedIsUnderWay` is not inductive alone (`WaitInv`). A question is passed over when
its number has no colour, so one must know that a node that never restarted has a colour
for each number from 2 to its own (`Coloured`), and that whoever does not make up numbers
asks about these only (`AboutBlock`): blocks have the numbers from 2 on, because 1 is
what `SnowballState::new` begins with and a block takes the next. The rest is an account
of the bag: a handler that takes an answer out of it takes its sender from the awaited
peers or asks it again, and a restart drops only what goes to a node that has crashed
(`DownHasCrashed`).

**Time and process.** `TimingInv` says that a `Timeout` is never older than the
question, nor younger unless it was started again, and how far an unexpired one can
get at each point of the loop. `ProcessInv` follows file, memory and settings through
start, turns, kills and restarts. `BackoffDoubles` needs `2^(n+1) = 2 * 2^n`, which the
provers do not know and cannot get by induction: `PowerDoubles` has it from the number
of subsets of `1..n+1`, those without `n+1` and as many with it.

TLC finds all of these invariants true on the instances of the runs. One property did
not survive the attempt to prove it: `StaleBlockHoldsQueue` used to say that a failed
block is decided KO or at the front, and so it is with three blocks. With four, the
head can go back from a block to a lower one (a sibling branch is committed late), and
a block that was failed for its age is considered after all and may be committed. It is
now stated for what the code does, and the possibility is listed as a hazard
(`node.rs:194`).

**Only model-checked:** `EveryNodeDecides` and `TicksForever`, as liveness under
fairness is beyond the prover. The agreement of nodes is probabilistic in Snowball and
not stated.

## 5. Not modelled

* Fork resolution inside the validator, and the parent of a block under
  construction: the validator is not part of the repository.
* Settings with alfa at most k/2, for which both colours can have a majority in one
  round and `on_values_ready` decides twice (`node.rs:392`); `config.rs` calls alfa
  the majority threshold and checks nothing.
* The system clock of the measurements (`state.rs:256`), the message counter, the
  nonce, and all logging; the command line; `collector.py`.
* `Timeout::stop`, `Timeout::is_active` and `cancel_block`, which nothing calls.
* A panic in one node that follows from a crash of another: a failing `send_to`
  ends an engine at any step (`ServiceError`, `Crash`) whatever its reason.

## 6. Plan

1. *(done)* State, handlers, loop with validator; safety of one node;
   `BlockDecisions`; the inductive invariant.
2. *(done)* `SnowballNetwork`, `SnowballTiming`, `SnowballConfig`,
   `SnowballProcess`.
3. *(done)* Theorems for every safety property of the runs in reach of the prover:
   the refinement and the history of rounds of one engine, the network, the timing,
   the process.
4. *(done)* What the proofs showed the properties could say more of: wrong votes over
   crashes and with peers counted twice, that nobody waits in vain; and the backoff.

Open questions a later version could take up: that a block failed for its age is never
committed while the head does not move back, which needs the heights the head has had;
and progress after a crash, which `node.rs:302` leaves to time-outs.
