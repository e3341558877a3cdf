-------------------------- MODULE SnowballNetwork --------------------------
(***************************************************************************)
(* Several Snowball nodes that ask each other about a chain of blocks.     *)
(* Every node runs the handlers of SnowballNode; the loop around them      *)
(* (SnowballEngine) is dropped, since it can give control to any handler   *)
(* next.  Messages travel in a bag: they may overtake each other, be late  *)
(* for the round they answer, or never arrive.  Nodes crash, restart from  *)
(* the memory storage, and notice each other's coming and going.           *)
(*                                                                         *)
(* The Byzantine test switches of the on-chain settings are chosen at the  *)
(* start (faults).  As in the code they hold positions in member_ids, not  *)
(* peers.  The delays of sleep_idx need nothing here: any message may take *)
(* any time.  A crash at any moment also stands for the churn switch and   *)
(* for the panics of failing service calls.                                *)
(***************************************************************************)
EXTENDS SnowballNode, Bags

CONSTANTS
    Members,      \* the member list of the on-chain settings
    Chain,        \* the blocks, in the order of their heights from 1
    Scenarios     \* the settings and circumstances to choose from

ASSUME NetworkAssumption ==
    /\ Members \in Seq(Peer)
    /\ \A i, j \in DOMAIN Members : Members[i] = Members[j] => i = j
    /\ Chain \in Seq(Block)
    /\ \A i, j \in DOMAIN Chain : Chain[i] = Chain[j] => i = j
    /\ Len(Chain) < MaxSeq

\* ByzantineParameters; the bounds on the nodes that crash and on the messages under
\* way at one time; and whether peers are given up only for good reason (see Quiet).
Scenario ==
    [hang_idx : SUBSET Nat, duplicate_idx : SUBSET Nat, spurious_idx : SUBSET Nat,
     wrong_decision_idx : SUBSET Nat, max_crashes : Nat, max_in_flight : Nat,
     timely : BOOLEAN]

ASSUME ScenarioAssumption == Scenarios \subseteq Scenario

VARIABLES
    faults,      \* the scenario
    node,        \* the state of each node
    status,      \* "up", "down", or "spinning" in an endless draw
    msgs,        \* the bag of messages
    broken,      \* the peers whose lost connection a node has not noticed yet
    announced,   \* the height of the last block announced to each node
    head,        \* the height of each validator's chain head
    committing,  \* the heights each validator was told to commit and has not yet
    crashed,     \* the nodes that have crashed, each once
    skipped,     \* history: blocks that were not announced again after a restart
    decided,     \* history: the decisions of each node
    voters,      \* history: the peers counted in the current round
    replaced,    \* history: the replacements in the current round, up to k
    repeated     \* history: the most votes of a round that came from peers counted before

linkVars  == <<status, broken, crashed>>
chainVars == <<announced, head, committing, skipped, decided>>
roundVars == <<voters, replaced, repeated>>

vars == <<faults, node, msgs, linkVars, chainVars, roundVars>>

Node == {Members[i] : i \in DOMAIN Members}

Message == [type : {"request", "response", "unavailable"}, from : Node, to : Node,
            seq_num : SeqNum, vote : Color]

Height(b) == IF b = HeadBlock THEN 0 ELSE CHOOSE i \in DOMAIN Chain : Chain[i] = b

Min2(a, b) == IF a < b THEN a ELSE b

Max2(a, b) == IF a < b THEN b ELSE a

Init ==
    /\ faults \in Scenarios
    /\ node       = [n \in Node |-> NewState(n, Members, HeadBlock, 0)]
    /\ status     = [n \in Node |-> "up"]
    /\ msgs       = EmptyBag
    /\ broken     = [n \in Node |-> {}]
    /\ announced  = [n \in Node |-> 0]
    /\ head       = [n \in Node |-> 0]
    /\ committing = [n \in Node |-> <<>>]
    /\ crashed    = {}
    /\ skipped    = [n \in Node |-> 0]
    /\ decided    = [n \in Node |-> <<>>]
    /\ voters     = [n \in Node |-> {}]
    /\ replaced   = [n \in Node |-> 0]
    /\ repeated   = 0

----------------------------------------------------------------------------
\* Sending

\* send_peer_message for the messages of ms, by a node in state s: what the
\* switches of its position in member_ids let through, one bag for every draw of
\* the spurious sequence numbers.
send_peer_message(s, ms) ==
    LET marked(idx)  == s.order \in idx
        seqs(m)      == IF marked(faults.spurious_idx) THEN SeqNum ELSE {m.seq_num}
        vote(m)      == IF marked(faults.wrong_decision_idx) THEN 0 ELSE m.vote
        reps         == IF marked(faults.duplicate_idx) THEN 2 ELSE 1
        payload(m,q) == [m EXCEPT !.seq_num = q, !.vote = vote(m)]
    IN  IF marked(faults.hang_idx) THEN {EmptyBag}
        ELSE {[x \in {payload(m, f[m]) : m \in ms} |-> reps] :
                 f \in {g \in [ms -> SeqNum] : \A m \in ms : g[m] \in seqs(m)}}

Request(n, s, p) ==
    [type |-> "request", from |-> n, to |-> p, seq_num |-> s.seq_num, vote |-> 0]

\* Node n leaves the handler in state t, has sent ms, and `rest` is the bag without
\* the message it handled.
Leave(n, t, ms, rest) ==
    /\ node' = [node EXCEPT ![n] = t]
    /\ msgs' \in {rest (+) sent : sent \in send_peer_message(t, ms)}
    /\ BagCardinality(msgs') <= faults.max_in_flight

\* The peers a handler asks: those it adds to the awaited ones that it keeps.
Asked(kept, t) == t.waiting_response_map \ kept

Requests(n, kept, t) == {Request(n, t, p) : p \in Asked(kept, t)}

\* A draw that cannot end.
Spin(n) ==
    /\ status' = [status EXCEPT ![n] = "spinning"]
    /\ UNCHANGED <<faults, node, msgs, broken, crashed, chainVars, roundVars>>

----------------------------------------------------------------------------
\* Blocks

\* The validator announces the blocks in the order of the chain.  It does not go
\* on after a block this node has failed.
Announce(n) ==
    /\ status[n] = "up"
    /\ announced[n] < Len(Chain)
    /\ \A i \in DOMAIN decided[n] : decided[n][i].color = "OK"
    /\ node' = [node EXCEPT ![n] = on_block_new(@, Chain[announced[n] + 1])]
    /\ announced' = [announced EXCEPT ![n] = @ + 1]
    /\ UNCHANGED <<faults, msgs, head, committing, skipped, decided, linkVars, roundVars>>

\* handle_queue.  A stale block is failed and stays; that changes nothing here.
handle_queue(n) ==
    LET s        == node[n]
        b        == Head(s.block_queue)
        outcomes == handle_block_new(s, b)
    IN  /\ status[n] = "up"
        /\ s.block_queue # <<>>
        /\ b # s.decision_block
        /\ Height(b) >= head[n]
        /\ \/ outcomes = {} /\ Spin(n)
           \/ /\ \E t \in outcomes : Leave(n, t, Requests(n, {}, t), msgs)
              /\ voters'   = [voters EXCEPT ![n] = {}]
              /\ replaced' = [replaced EXCEPT ![n] = 0]
              /\ UNCHANGED <<faults, repeated, linkVars, chainVars>>

\* The validator commits in the order it was asked to.
Commit(n) ==
    /\ committing[n] # <<>>
    /\ head' = [head EXCEPT ![n] = Head(committing[n])]
    /\ committing' = [committing EXCEPT ![n] = Tail(@)]
    /\ UNCHANGED <<faults, node, msgs, announced, skipped, decided, linkVars, roundVars>>

----------------------------------------------------------------------------
\* Messages

InFlight(m) == m \in BagToSet(msgs)

Receives(m, type) ==
    /\ InFlight(m)
    /\ m.type = type
    /\ status[m.to] = "up"

Rest(m) == msgs (-) SetToBag({m})

\* The answer carries the responder's own sequence number.
Reply(s, m) ==
    LET kind  == on_request(s, m.seq_num)
        reply == [type |-> kind, from |-> m.to, to |-> m.from,
                  seq_num |-> IF kind = "response" THEN s.seq_num ELSE m.seq_num,
                  vote |-> IF kind = "response" THEN vote_for(s, m.seq_num) ELSE 0]
    IN  IF kind = "nothing" THEN {} ELSE {reply}

ReceiveRequest(m) ==
    /\ Receives(m, "request")
    /\ Leave(m.to, node[m.to], Reply(node[m.to], m), Rest(m))
    /\ UNCHANGED <<faults, linkVars, chainVars, roundVars>>

\* The vote of p counts at node n, and with it the history of the round, which is
\* over when `complete`.
CountVoter(n, p, complete) ==
    LET votes == node[n].response_buffer[0] + node[n].response_buffer[1] + 1
    IN  /\ voters'   = [voters EXCEPT ![n] = IF complete THEN {} ELSE @ \cup {p}]
        /\ replaced' = [replaced EXCEPT ![n] = IF complete THEN 0 ELSE @]
        /\ repeated' = Max2(repeated, votes - Cardinality(voters[n] \cup {p}))

\* The decision that t leaves behind goes to the validator.
Decide(n, t) ==
    LET color == current_color(t)
    IN  /\ decided' = [decided EXCEPT ![n] =
              Append(@, [block |-> t.decision_block, color |-> color])]
        /\ committing' = [committing EXCEPT ![n] =
              IF color = "OK" THEN Append(@, Height(t.decision_block)) ELSE @]

ReceiveResponse(m) ==
    LET n        == m.to
        s        == node[n]
        outcomes == on_response(s, m.from, m.vote)
        counts   == awaited(s, m.from)
        complete == counts /\ round_complete(counted(s, m.from, m.vote))
    IN  /\ Receives(m, "response")
        /\ \/ outcomes = {} /\ Spin(n)
           \/ \E t \in outcomes :
                 /\ Leave(n, t, IF complete THEN Requests(n, {}, t) ELSE {}, Rest(m))
                 /\ IF counts THEN CountVoter(n, m.from, complete)
                    ELSE UNCHANGED roundVars
                 /\ IF complete /\ t.phase # "Listening" THEN Decide(n, t)
                    ELSE UNCHANGED <<decided, committing>>
                 /\ UNCHANGED <<faults, announced, head, skipped, linkVars>>

ReceiveUnavailable(m) ==
    LET n        == m.to
        s        == node[n]
        outcomes == on_unavailable(s, m.from)
        counts   == awaited(s, m.from)
        kept     == s.waiting_response_map \ {m.from}
    IN  /\ Receives(m, "unavailable")
        /\ \/ outcomes = {} /\ Spin(n)
           \/ \E t \in outcomes :
                 /\ Leave(n, t, IF counts THEN Requests(n, kept, t) ELSE {}, Rest(m))
                 /\ replaced' = IF counts THEN [replaced EXCEPT ![n] = Min2(k, @ + 1)]
                                ELSE replaced
                 /\ UNCHANGED <<faults, voters, repeated, linkVars, chainVars>>

\* Nothing is under way between n and p.  In a timely scenario hang_timeout is long
\* enough for a question and its answer, so that only such a peer is given up.
Quiet(n, p) ==
    \A m \in BagToSet(msgs) : {m.from, m.to} = {n, p} => status[m.to] # "up"

\* handle_unresponsive_peers, when some timeout has expired.  Hung processes do
\* not look at their timeouts.
Expire(n, expired) ==
    LET s        == node[n]
        outcomes == handle_unresponsive_peers(s, expired)
    IN  /\ status[n] = "up"
        /\ s.order \notin faults.hang_idx
        /\ expired # {}
        /\ faults.timely => \A p \in expired : Quiet(n, p)
        /\ \/ outcomes = {} /\ Spin(n)
           \/ \E t \in outcomes :
                 /\ Leave(n, t, Requests(n, s.waiting_response_map \ expired, t), msgs)
                 /\ replaced' = [replaced EXCEPT ![n] = Min2(k, @ + Cardinality(expired))]
                 /\ UNCHANGED <<faults, voters, repeated, linkVars, chainVars>>

----------------------------------------------------------------------------
\* Crashes

Crash(n) ==
    /\ status[n] # "down"
    /\ n \notin crashed
    /\ Cardinality(crashed) < faults.max_crashes
    /\ crashed' = crashed \cup {n}
    /\ status' = [status EXCEPT ![n] = "down"]
    /\ broken' = [m \in Node |-> IF m = n THEN broken[m] ELSE broken[m] \cup {n}]
    /\ UNCHANGED <<faults, node, msgs, chainVars, roundVars>>

BlockAt(h) == IF h = 0 THEN HeadBlock ELSE Chain[h]

\* Mutant: the sequence numbers begin at 1 whatever the chain head.
NewStateFromOne(n) == NewState(n, Members, BlockAt(head[n]), 0)

\* engine.start on the memory storage: SnowballState::new with the validator's head.
NewStateAtHead(n) == NewState(n, Members, BlockAt(head[n]), head[n])

\* engine.start again.  The messages on the old connections are gone.  The validator
\* announces blocks again from some height on.
Restart(n) ==
    /\ status[n] = "down"
    /\ status' = [status EXCEPT ![n] = "up"]
    /\ node' = [node EXCEPT ![n] = NewStateAtHead(n)]
    /\ msgs' = [m \in {x \in BagToSet(msgs) : x.to # n} |-> msgs[m]]
    /\ broken' = [broken EXCEPT ![n] = {}]
    /\ \E h \in head[n]..announced[n] :
          /\ announced' = [announced EXCEPT ![n] = h]
          /\ skipped' = [skipped EXCEPT ![n] = h - head[n]]
    /\ voters' = [voters EXCEPT ![n] = {}]
    /\ replaced' = [replaced EXCEPT ![n] = 0]
    /\ UNCHANGED <<faults, head, committing, crashed, decided, repeated>>

\* PeerDisconnected for a connection that was lost.
NoticeDown(n, p) ==
    /\ status[n] = "up"
    /\ p \in broken[n]
    /\ IsMember(node[n].member_ids, p)
    /\ node' = [node EXCEPT ![n] = on_peer_disconnected(@, p)]
    /\ broken' = [broken EXCEPT ![n] = @ \ {p}]
    /\ UNCHANGED <<faults, status, msgs, crashed, chainVars, roundVars>>

\* PeerConnected for a peer that is up again.
NoticeUp(n, p) ==
    /\ status[n] = "up"
    /\ status[p] = "up"
    /\ ~ IsMember(node[n].member_ids, p)
    /\ node' = [node EXCEPT ![n] = on_peer_connected(@, p)]
    /\ UNCHANGED <<faults, msgs, linkVars, chainVars, roundVars>>

----------------------------------------------------------------------------
Deliver(m) == ReceiveRequest(m) \/ ReceiveResponse(m) \/ ReceiveUnavailable(m)

Next ==
    \/ \E n \in Node : Announce(n) \/ handle_queue(n) \/ Commit(n) \/ Crash(n) \/ Restart(n)
    \/ \E m \in BagToSet(msgs) : Deliver(m)
    \/ \E n \in Node : \E expired \in SUBSET node[n].waiting_response_map : Expire(n, expired)
    \/ \E n, p \in Node : NoticeDown(n, p) \/ NoticeUp(n, p)

Spec == Init /\ [][Next]_vars

\* A replacement drawn by n is p.
Draws(n, p) ==
    /\ \/ \E expired \in SUBSET node[n].waiting_response_map : Expire(n, expired)
       \/ \E m \in BagToSet(msgs) : m.to = n /\ ReceiveUnavailable(m)
    /\ p \in node'[n].waiting_response_map \ node[n].waiting_response_map

\* Validators announce, nodes keep looping through their updates and timeouts, the
\* updates of a node are a queue, so that no message is overtaken for ever, and a
\* random draw that is repeated for ever finds every peer.
FairSpec ==
    /\ Spec
    /\ \A n \in Node : WF_vars(Announce(n) \/ handle_queue(n))
    /\ \A n \in Node : \A p \in Node \ {n} :
          /\ WF_vars(\E m \in BagToSet(msgs) : m.from = p /\ m.to = n /\ ReceiveRequest(m))
          /\ WF_vars(\E m \in BagToSet(msgs) :
                        m.from = p /\ m.to = n /\ (ReceiveResponse(m) \/ ReceiveUnavailable(m)))
          /\ SF_vars(Draws(n, p))

----------------------------------------------------------------------------
\* Properties

\* The positions that n can have in its own list: that of the settings, and smaller
\* ones when others have crashed and were taken out.
Positions(n) ==
    LET own == OrderIndex(Members, n)
    IN  IF crashed = {} THEN {own} ELSE 0..own

Faulty(n) == Positions(n) \cap (faults.wrong_decision_idx \cup faults.spurious_idx) # {}

Hung(n) == OrderIndex(Members, n) \in faults.hang_idx

\* Types of the variables.
TypeOK ==
    /\ faults \in Scenarios
    /\ node \in [Node -> State]
    /\ status \in [Node -> {"up", "down", "spinning"}]
    /\ BagToSet(msgs) \subseteq Message /\ \A m \in BagToSet(msgs) : msgs[m] > 0
    /\ broken \in [Node -> SUBSET Node]
    /\ announced \in [Node -> 0..Len(Chain)]
    /\ head \in [Node -> 0..Len(Chain)]
    /\ committing \in [Node -> Seq(DOMAIN Chain)]
    /\ crashed \subseteq Node
    /\ skipped \in [Node -> 0..Len(Chain)]
    /\ decided \in [Node -> Seq([block : Block, color : {"OK", "KO"}])]
    /\ voters \in [Node -> SUBSET Node]
    /\ replaced \in [Node -> 0..k]
    /\ repeated \in Nat

\* The votes of a round come from different peers, except for one vote per peer
\* that was replaced: a peer that was counted is awaited again in the same round
\* only in the place of another.  So a peer that sends every answer twice, or whose
\* answer to an earlier round is late, is counted once for each time it was asked.
DistinctVoters ==
    \A n \in Node :
        LET votes == node[n].response_buffer[0] + node[n].response_buffer[1]
            again == node[n].waiting_response_map \cap voters[n]
        IN  node[n].phase = "Listening" =>
                votes + Cardinality(again) <= Cardinality(voters[n]) + replaced[n]

\* The faulty nodes never make another one see a KO majority as long as they and the
\* votes that a round has of peers counted before are fewer than alfa together:
\* replacing a peer that does not answer may ask a faulty one again, which gives it a
\* second vote in the round.  A crash may move the test switches to other nodes, those
\* that get a marked position in their own list.
MinorityCannotFlip ==
    Cardinality({n \in Node : Faulty(n)}) + repeated < alfa =>
        \A n \in Node : ~ Faulty(n) => "KO" \notin Range(node[n].decision_map)

\* Without wrong votes nobody ever votes or decides KO, whatever is late, repeated,
\* lost with a crash or asked of a node that forgot its votes in a restart.
HonestNetworkAccepts ==
    (\A n \in Node : ~ Faulty(n)) =>
        /\ \A m \in BagToSet(msgs) : m.type = "response" => m.vote = 1
        /\ \A n \in Node : \A i \in DOMAIN decided[n] : decided[n][i].color = "OK"

\* A request names a block by its sequence number alone.  Two nodes that use one
\* number mean one block, also after one of them restarted at another head, unless
\* blocks were not announced to it again.
SameNumberSameBlock ==
    \A m, n \in Node :
        /\ node[m].phase = "Listening"
        /\ node[n].phase = "Listening"
        /\ node[m].seq_num = node[n].seq_num
        /\ skipped[m] = skipped[n]
        => node[m].decision_block = node[n].decision_block

\* Nobody waits in vain.  A peer that is awaited was asked and has yet to answer, or its
\* answer is on the way; it never passes over the question with nothing, as on_request
\* does for a number it has no colour for.  This takes an asker that does not make up
\* numbers, and two nodes that are not hung and have never crashed; others may crash.
AwaitedIsUnderWay ==
    \A n \in Node : \A p \in node[n].waiting_response_map :
        /\ {n, p} \cap crashed = {}
        /\ Positions(n) \cap (faults.hang_idx \cup faults.spurious_idx) = {}
        /\ Positions(p) \cap faults.hang_idx = {}
        => \E m \in BagToSet(msgs) :
              \/ m.from = n /\ m.to = p /\ m.type = "request"
              \/ m.from = p /\ m.to = n /\ m.type # "request"

\* Every node that is not hung decides every block, although others are hung, have
\* not heard of the block yet or are done with it.
EveryNodeDecides ==
    \A n \in Node : <>(Hung(n) \/ Len(decided[n]) = Len(Chain))

\* node.rs:51 says that only the first node can propose.
OnlyFirstProposes ==
    \A m, n \in Node :
        status[m] = "up" /\ status[n] = "up" /\ node[m].order = 0 /\ node[n].order = 0
            => m = n
=============================================================================
