--------------------------- MODULE SnowballState ---------------------------
(***************************************************************************)
(* The state a Snowball node keeps for the consensus algorithm (state.rs)  *)
(* and the small operations on it.  The handlers of SnowballNode take such *)
(* a record and return another, the way the Rust handlers take             *)
(* `state: &mut SnowballState`.                                            *)
(*                                                                         *)
(* Left out: the settings that never change after start-up (alfa, beta and *)
(* k are CONSTANTS here; the retry durations and hang_timeout are time),   *)
(* and the message counter of `measurements`, which is only logged.  Of a  *)
(* peer's Timeout only the fact that it is running is kept: any awaited    *)
(* peer may be found expired.                                              *)
(***************************************************************************)
EXTENDS Integers, Sequences, FiniteSets

CONSTANTS
    Peer,       \* the PeerIds in use
    Block,      \* the BlockIds of the blocks that are announced to the node
    HeadBlock,  \* the chain head handed over at start-up
    NoBlock,    \* BlockId::new(), the empty id
    alfa,       \* votes of one colour that make a round a majority
    beta,       \* consecutive majorities of one colour that decide
    k,          \* votes per round
    MaxSeq      \* the largest sequence number (u64::MAX in the code)

\* config.rs calls alfa the majority threshold; load_settings does not check it.
ASSUME ThresholdAssumption ==
    /\ k \in Nat \ {0}
    /\ alfa \in 1..k
    /\ 2 * alfa > k
    /\ beta \in Nat \ {0}

ASSUME PeerAssumption == IsFiniteSet(Peer)

ASSUME IdAssumption ==
    /\ HeadBlock \notin Block
    /\ NoBlock \notin Block \cup {HeadBlock}

ASSUME SeqAssumption == MaxSeq \in Nat

SeqNum == 0..MaxSeq

BlockId == Block \cup {HeadBlock, NoBlock}

SnowballPhase == {"Idle", "Listening", "Finishing"}

SnowballDecisionState == {"OK", "KO", "Undecided"}

\* The indexes of response_buffer and decision_array: 0 counts KO, 1 counts OK.
Color == 0..1

\* The fields of SnowballState, and block_queue, the one field of SnowballNode
\* that is neither the service nor the random generator.  A decision_map entry
\* is "None" where HashMap::get finds nothing; waiting_response_map and
\* convergenza are the key sets of the maps of those names.
State == [ id                   : Peer,
           order                : Nat,
           seq_num              : SeqNum,
           decision_map         : [SeqNum -> SnowballDecisionState \cup {"None"}],
           last_color           : SnowballDecisionState,
           confidence_counter   : Nat,
           response_buffer      : [Color -> Nat],
           decision_array       : [Color -> Nat],
           waiting_response_map : SUBSET Peer,
           chain_head           : BlockId,
           decision_block       : BlockId,
           phase                : SnowballPhase,
           member_ids           : Seq(Peer),
           convergenza          : SUBSET Block,
           block_queue          : Seq(Block) ]

Zeros == [i \in Color |-> 0]

\* The position of a peer in a member list, counted from 0; unwrap() panics
\* when there is none, so callers check IsMember first.
IsMember(members, p) == \E i \in DOMAIN members : members[i] = p

OrderIndex(members, p) ==
    CHOOSE i \in 0..(Len(members) - 1) :
        /\ members[i + 1] = p
        /\ \A j \in 0..(i - 1) : members[j + 1] # p

\* SnowballState::new, with the chain_head that SnowballNode::new sets and the
\* empty queue it creates.
NewState(id, members, head, head_block_num) ==
    [ id                   |-> id,
      order                |-> OrderIndex(members, id),
      seq_num              |-> head_block_num + 1,
      decision_map         |-> [q \in SeqNum |-> IF q = 0 THEN "Undecided" ELSE "None"],
      last_color           |-> "Undecided",
      confidence_counter   |-> 0,
      response_buffer      |-> Zeros,
      decision_array       |-> Zeros,
      waiting_response_map |-> {},
      chain_head           |-> head,
      decision_block       |-> NoBlock,
      phase                |-> "Idle",
      member_ids           |-> members,
      convergenza          |-> {},
      block_queue          |-> <<>> ]

next_phase(phase) ==
    IF phase = "Idle" THEN "Listening"
    ELSE IF phase = "Listening" THEN "Finishing" ELSE "Idle"

switch_phase(s) == [s EXCEPT !.phase = next_phase(@)]

add_to_waiting_set(s, peers) == [s EXCEPT !.waiting_response_map = @ \cup peers]

set_block_new_timestamp(s, b) == [s EXCEPT !.convergenza = @ \cup {b}]
=============================================================================
