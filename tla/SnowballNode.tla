---------------------------- MODULE SnowballNode ----------------------------
(***************************************************************************)
(* The handlers of a Snowball node (node.rs) as operators on the State     *)
(* record.  A handler that draws random peers returns the SET of states it *)
(* can leave behind, one for every draw; the set is empty when its         *)
(* sampling loop can never end because there are too few members to draw.  *)
(*                                                                         *)
(* The requests a handler sends go to the peers it puts into the waiting   *)
(* set, so the messages of a node need no state of their own here.         *)
(***************************************************************************)
EXTENDS SnowballState, SequencesExt

----------------------------------------------------------------------------
\* Sampling

\* select_node_sample: `amount` distinct indexes into member_ids, never the
\* node's own; given here as the peers found at those indexes.
select_node_sample(s, amount) ==
    {{s.member_ids[i] : i \in I} :
        I \in kSubset(amount, DOMAIN s.member_ids \ {s.order + 1})}

\* The replacement loops draw one index at a time until the waiting set has
\* grown by one, `amount` times over.
extra_node_sets(s, amount) ==
    {E \in select_node_sample(s, amount) : E \cap s.waiting_response_map = {}}

----------------------------------------------------------------------------
\* Rounds

\* Mutant: the votes of the last round are kept.
prepare_without_reset(s, sample) == add_to_waiting_set(s, sample)

prepare_and_forward_peer_requests(s, sample) ==
    add_to_waiting_set([s EXCEPT !.response_buffer = Zeros], sample)

usize_to_decision_state(i) == IF i = 0 THEN "KO" ELSE "OK"

\* decision_state_to_u8 panics on Undecided; its argument never is (UnwrapsSafe).
decision_state_to_u8(d) == IF d = "OK" THEN 1 ELSE 0

\* The entry of decision_map for the block being decided.
current_color(s) == s.decision_map[s.seq_num]

\* The body of the loop of on_values_ready for a colour with a majority: the
\* array with the majority counted, the colour of the block after it, and the
\* confidence in the colour of the last majority.
majority_array(s, i) == [s.decision_array EXCEPT ![i] = @ + 1]

\* Mutant: the colour follows the last majority instead of the most majorities.
majority_color_latest(s, i) == usize_to_decision_state(i)

majority_color(s, i) ==
    IF majority_array(s, i)[i] >
           majority_array(s, i)[decision_state_to_u8(current_color(s))]
    THEN usize_to_decision_state(i) ELSE current_color(s)

majority_confidence(s, i) ==
    IF usize_to_decision_state(i) # s.last_color THEN 1 ELSE s.confidence_counter + 1

count_majority(s, i) ==
    [s EXCEPT !.decision_array     = majority_array(s, i),
              !.decision_map       = [@ EXCEPT ![s.seq_num] = majority_color(s, i)],
              !.last_color         = usize_to_decision_state(i),
              !.confidence_counter = majority_confidence(s, i)]

\* Mutant: a round without a majority does not break the run.
count_round_keeping(s) ==
    IF s.response_buffer[0] >= alfa      THEN count_majority(s, 0)
    ELSE IF s.response_buffer[1] >= alfa THEN count_majority(s, 1)
    ELSE s

\* Mutant: a majority is taken to be one vote less.
count_round_below(s) ==
    IF s.response_buffer[0] >= alfa - 1      THEN count_majority(s, 0)
    ELSE IF s.response_buffer[1] >= alfa - 1 THEN count_majority(s, 1)
    ELSE [s EXCEPT !.confidence_counter = 0]

\* The loop goes through both colours, KO first.  Since 2 * alfa > k, at most
\* one of them has a majority among the k votes of a round.
count_round(s) ==
    IF s.response_buffer[0] >= alfa      THEN count_majority(s, 0)
    ELSE IF s.response_buffer[1] >= alfa THEN count_majority(s, 1)
    ELSE [s EXCEPT !.confidence_counter = 0]

\* Mutants: the block at the wrong end is taken, the number of a failed block is
\* used again.
handle_decision_pop_back(s) ==
    switch_phase([s EXCEPT
        !.chain_head  = IF current_color(s) = "OK" THEN s.decision_block ELSE @,
        !.block_queue = IF @ = <<>> THEN @ ELSE Front(@)])

handle_decision_reuse(s) ==
    switch_phase([s EXCEPT
        !.chain_head  = IF current_color(s) = "OK" THEN s.decision_block ELSE @,
        !.seq_num     = IF current_color(s) = "OK" THEN @ ELSE @ - 1,
        !.block_queue = IF @ = <<>> THEN @ ELSE Tail(@)])

\* handle_decision: commit_block moves chain_head at once, fail_block does not;
\* the block leaves the queue and the phase goes from Finishing to Idle.
handle_decision(s) ==
    switch_phase([s EXCEPT
        !.chain_head  = IF current_color(s) = "OK" THEN s.decision_block ELSE @,
        !.block_queue = IF @ = <<>> THEN @ ELSE Tail(@)])

\* Mutant: one majority more than beta is asked for.
round_decides_late(s) ==
    /\ \E i \in Color : s.response_buffer[i] >= alfa
    /\ count_round(s).confidence_counter > beta

round_decides(s) ==
    /\ \E i \in Color : s.response_buffer[i] >= alfa
    /\ count_round(s).confidence_counter >= beta

on_values_ready(s) ==
    LET t == count_round(s)
    IN  IF round_decides(s)
        THEN {handle_decision(switch_phase(t))}
        ELSE {prepare_and_forward_peer_requests(t, sample) :
                 sample \in select_node_sample(t, k)}

----------------------------------------------------------------------------
\* Blocks

\* Mutant: the newest block goes first.
on_block_new_first(s, b) ==
    set_block_new_timestamp([s EXCEPT !.block_queue = <<b>> \o @], b)

on_block_new(s, b) ==
    set_block_new_timestamp([s EXCEPT !.block_queue = Append(@, b)], b)

\* Mutants: the colour is entered under the previous sequence number, or no new
\* sequence number is taken.
opened_under_last(s, b) ==
    [s EXCEPT !.decision_block     = b,
              !.seq_num            = @ + 1,
              !.decision_map       = [@ EXCEPT ![s.seq_num] = "OK"],
              !.last_color         = "OK",
              !.confidence_counter = 0,
              !.decision_array     = Zeros]

opened_same_seq(s, b) ==
    [s EXCEPT !.decision_block     = b,
              !.decision_map       = [@ EXCEPT ![s.seq_num] = "OK"],
              !.last_color         = "OK",
              !.confidence_counter = 0,
              !.decision_array     = Zeros]

\* handle_block_new: a block is opened with colour OK.
opened(s, b) ==
    [s EXCEPT !.decision_block     = b,
              !.seq_num            = @ + 1,
              !.decision_map       = [@ EXCEPT ![s.seq_num + 1] = "OK"],
              !.last_color         = "OK",
              !.confidence_counter = 0,
              !.decision_array     = Zeros]

handle_block_new(s, b) ==
    {switch_phase(prepare_and_forward_peer_requests(opened(s, b), sample)) :
        sample \in select_node_sample(s, k)}

----------------------------------------------------------------------------
\* Peer messages

\* The node only reacts to answers while Listening, from peers it waits for.
awaited(s, p) == s.phase = "Listening" /\ p \in s.waiting_response_map

answered_by(s, p) == [s EXCEPT !.waiting_response_map = @ \ {p}]

votes_with(s, vote) == [s.response_buffer EXCEPT ![vote] = @ + 1]

\* Mutant: the peer stays in the waiting set.
counted_still_awaited(s, p, vote) == [s EXCEPT !.response_buffer = votes_with(s, vote)]

counted(s, p, vote) ==
    [s EXCEPT !.waiting_response_map = @ \ {p},
              !.response_buffer      = votes_with(s, vote)]

round_complete(s) == s.response_buffer[0] + s.response_buffer[1] = k

\* The "response" arm of on_peer_message.
on_response(s, p, vote) ==
    IF ~ awaited(s, p) THEN {s}
    ELSE IF vote \notin Color THEN {answered_by(s, p)}
    ELSE IF round_complete(counted(s, p, vote))
         THEN on_values_ready(counted(s, p, vote))
         ELSE {counted(s, p, vote)}

\* Mutants: an "unavailable" nobody waits for is answered with another question,
\* or the sender still counts as awaited while its replacement is drawn.
on_unavailable_unchecked(s, p) ==
    IF s.phase # "Listening" THEN {s}
    ELSE {add_to_waiting_set(answered_by(s, p), extra) :
             extra \in extra_node_sets(answered_by(s, p), 1)}

on_unavailable_draws_first(s, p) ==
    IF ~ awaited(s, p) THEN {s}
    ELSE {answered_by(add_to_waiting_set(s, extra), p) : extra \in extra_node_sets(s, 1)}

\* The "unavailable" arm of on_peer_message: ask somebody else.
on_unavailable(s, p) ==
    IF ~ awaited(s, p) THEN {s}
    ELSE {add_to_waiting_set(answered_by(s, p), extra) :
             extra \in extra_node_sets(answered_by(s, p), 1)}

\* Mutant: a sequence number this node knows nothing about is answered as well.
on_request_unknown(s, q) == IF q > s.seq_num THEN "unavailable" ELSE "response"

\* The "request" arm: what is sent back about sequence number q.
on_request(s, q) ==
    IF q > s.seq_num THEN "unavailable"
    ELSE IF s.decision_map[q] = "None" THEN "nothing"
    ELSE "response"

\* Mutants: the number of the enum's variant is sent, or the colour of the block
\* being decided whatever was asked for.
vote_for_variant(s, q) ==
    IF s.decision_map[q] = "OK" THEN 0 ELSE IF s.decision_map[q] = "KO" THEN 1 ELSE 2

vote_for_current(s, q) == IF current_color(s) = "OK" THEN 1 ELSE 0

vote_for(s, q) == IF s.decision_map[q] = "OK" THEN 1 ELSE 0

\* Mutant: an expired peer is not replaced.
handle_unresponsive_peers_drop(s, expired) ==
    {[s EXCEPT !.waiting_response_map = @ \ expired]}

\* handle_unresponsive_peers, for the set of peers whose timeout has expired.
handle_unresponsive_peers(s, expired) ==
    LET t == [s EXCEPT !.waiting_response_map = @ \ expired]
    IN  {add_to_waiting_set(t, extra) :
            extra \in extra_node_sets(t, Cardinality(expired))}

----------------------------------------------------------------------------
\* Membership

with_members(s, members) ==
    [s EXCEPT !.member_ids = members, !.order = OrderIndex(members, s.id)]

on_peer_connected(s, p) ==
    IF IsMember(s.member_ids, p) THEN s
    ELSE with_members(s, Append(s.member_ids, p))

\* Mutant: order is not computed again.
on_peer_disconnected_order_kept(s, p) ==
    [s EXCEPT !.member_ids = RemoveAt(@, OrderIndex(@, p) + 1)]

on_peer_disconnected(s, p) ==
    with_members(s, RemoveAt(s.member_ids, OrderIndex(s.member_ids, p) + 1))
=============================================================================
