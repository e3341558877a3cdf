--------------------------- MODULE SnowballTiming ---------------------------
(***************************************************************************)
(* The engine's loop against the clock: the Timeout of every awaited peer, *)
(* the Ticker that publishes blocks, and the waits of finalize_block       *)
(* (timing.rs and its uses in engine.rs, node.rs and state.rs).            *)
(*                                                                         *)
(* A tick of the clock is the longest wait for an update.  An Instant is   *)
(* kept as the time that has passed since it, up to MaxElapsed.  Handlers  *)
(* take no time.  Of the algorithm only the rounds are kept: who is asked, *)
(* who answers, who is replaced.  The test switches that make a node sleep *)
(* before it sends, or ignore its timeouts, are off.                       *)
(***************************************************************************)
EXTENDS Integers, FiniteSets, FiniteSetsExt

CONSTANTS
    Peer,          \* the other members
    k,             \* the questions of a round
    hang_timeout,  \* how long an answer is awaited, in ticks
    block_publishing_delay,
    Nap            \* the one-second sleep of finalize_block

ASSUME TimingAssumption ==
    /\ IsFiniteSet(Peer)
    /\ k \in 1..Cardinality(Peer)
    /\ hang_timeout \in Nat
    /\ block_publishing_delay \in Nat \ {0}
    /\ Nap \in Nat \ {0}

VARIABLES
    pc,         \* the next step of the loop, or "panicked"
    proposer,   \* this node's order is 0
    listening,  \* the phase is Listening
    waiting,    \* waiting_response_map: the Timeout of every awaited peer
    asked,      \* history: how long ago each awaited peer was asked
    refreshed,  \* history: awaited peers whose Timeout was started again since
    last,       \* Ticker.last
    ticked      \* history: the step before called try_publish

vars == <<pc, proposer, listening, waiting, asked, refreshed, last, ticked>>

\* Bound: beyond this, more time makes no difference to any comparison.
MaxElapsed == Max({hang_timeout + 2, block_publishing_delay})

Elapsed == 0..MaxElapsed

Later(t, d) == Min({t + d, MaxElapsed})

----------------------------------------------------------------------------
\* Timeout

Timeout == [state : {"Active", "Inactive", "Expired"}, start : Elapsed]

NewTimeout == [state |-> "Inactive", start |-> 0]

start(t) == [t EXCEPT !.state = "Active", !.start = 0]

\* Mutant: the last moment counts as too late.
check_expired_early(t) ==
    IF t.state = "Active" /\ t.start >= hang_timeout THEN [t EXCEPT !.state = "Expired"] ELSE t

check_expired(t) ==
    IF t.state = "Active" /\ t.start > hang_timeout THEN [t EXCEPT !.state = "Expired"] ELSE t

\* The loop of handle_unresponsive_peers works on clones of the timers.
\* Mutant: it stops at the first one it finds.
expired_peers_first ==
    LET e == {p \in DOMAIN waiting : check_expired(waiting[p]).state = "Expired"}
    IN  IF e = {} THEN {} ELSE {CHOOSE p \in e : TRUE}

expired_peers == {p \in DOMAIN waiting : check_expired(waiting[p]).state = "Expired"}

----------------------------------------------------------------------------
Init ==
    /\ pc = "recv"
    /\ proposer \in BOOLEAN
    /\ listening = FALSE
    /\ waiting = << >>
    /\ asked = << >>
    /\ refreshed = {}
    /\ last = 0
    /\ ticked = FALSE

Pass(d) ==
    /\ waiting' = [p \in DOMAIN waiting |-> [waiting[p] EXCEPT !.start = Later(@, d)]]
    /\ asked' = [p \in DOMAIN asked |-> Later(asked[p], d)]
    /\ last' = Later(last, d)

\* add_to_waiting_set for new peers, which are asked, and for peers in `again`, which
\* were drawn although they are awaited already; the peers in `gone` are removed.
Await(gone, again, new) ==
    LET kept == DOMAIN waiting \ gone
    IN  /\ waiting' = [p \in kept \cup new |->
                          IF p \in again \cup new THEN start(NewTimeout) ELSE waiting[p]]
        /\ asked' = [p \in kept \cup new |-> IF p \in new THEN 0 ELSE asked[p]]
        /\ refreshed' = ((refreshed \ gone) \cup again) \ new

\* The replacement loops: single draws until the waiting set has grown again.  Each
\* draw that finds an awaited peer starts its Timeout anew.
Replace(gone) ==
    LET kept == DOMAIN waiting \ gone
    IN  \E again \in SUBSET kept, new \in kSubset(Cardinality(gone), Peer \ kept) :
            Await(gone, again, new)

----------------------------------------------------------------------------
\* updates.recv_timeout: an update is there, or comes before the time is over, or
\* none does.
Recv(d) ==
    /\ pc = "recv"
    /\ pc' = "update"
    /\ Pass(d)
    /\ ticked' = FALSE
    /\ UNCHANGED <<proposer, listening, refreshed>>

Step(from, to) == pc = from /\ pc' = to /\ UNCHANGED <<proposer, last>>

\* handle_block_new, or a round without a decision followed by the next.
NewRound(gone) ==
    \E sample \in kSubset(k, Peer) : Await(gone, {}, sample)

OpenBlock ==
    /\ Step("update", "timers")
    /\ ~ listening
    /\ listening' = TRUE
    /\ NewRound({})
    /\ UNCHANGED ticked

\* A "response" of an awaited peer.  The last one ends the round, and maybe the block,
\* unless an invalid vote has left the round short.
Response(p) ==
    /\ Step("update", "timers")
    /\ p \in DOMAIN waiting
    /\ \/ Await({p}, {}, {}) /\ UNCHANGED listening
       \/ DOMAIN waiting = {p} /\ NewRound({p}) /\ UNCHANGED listening
       \/ DOMAIN waiting = {p} /\ Await({p}, {}, {}) /\ listening' = FALSE
    /\ UNCHANGED ticked

Unavailable(p) ==
    /\ Step("update", "timers")
    /\ p \in DOMAIN waiting
    /\ Replace({p})
    /\ UNCHANGED <<listening, ticked>>

OtherUpdate ==
    /\ Step("update", "timers")
    /\ UNCHANGED <<listening, waiting, asked, refreshed, ticked>>

handle_unresponsive_peers ==
    /\ Step("timers", "tick")
    /\ Replace(expired_peers)
    /\ UNCHANGED <<listening, ticked>>

----------------------------------------------------------------------------
\* block_publishing_ticker.tick(try_publish)

\* Mutant: a block is published while another is being decided.
publishes_always == proposer

\* The early returns of try_publish.
publishes == ~ listening /\ proposer

\* Mutant: the period starts again with every look at the clock.
tick_resets ==
    /\ pc = "tick"
    /\ UNCHANGED <<proposer, listening, waiting, asked, refreshed>>
    /\ IF last < block_publishing_delay
       THEN pc' = "recv" /\ last' = 0 /\ UNCHANGED ticked
       ELSE /\ ticked' = TRUE
            /\ IF publishes THEN pc' = "summarize" /\ UNCHANGED last
               ELSE pc' = "recv" /\ last' = 0

\* The period starts again after the callback.
tick ==
    /\ pc = "tick"
    /\ UNCHANGED <<proposer, listening, waiting, asked, refreshed>>
    /\ IF last < block_publishing_delay
       THEN pc' = "recv" /\ UNCHANGED <<last, ticked>>
       ELSE /\ ticked' = TRUE
            /\ IF publishes THEN pc' = "summarize" /\ UNCHANGED last
               ELSE pc' = "recv" /\ last' = 0

\* finalize_block calls summarize_block and then finalize_block of the service.  While
\* the block is not ready it sleeps on the loop's own thread.
NotReady ==
    /\ pc \in {"summarize", "finalize"}
    /\ Pass(Nap)
    /\ ticked' = FALSE
    /\ UNCHANGED <<pc, proposer, listening, refreshed>>

Ready ==
    /\ \/ pc = "summarize" /\ pc' = "finalize" /\ UNCHANGED last
       \/ pc = "finalize" /\ pc' = "recv" /\ last' = 0
    /\ UNCHANGED <<proposer, listening, waiting, asked, refreshed, ticked>>

ServiceError ==
    /\ pc \in {"summarize", "finalize"}
    /\ pc' = "panicked"
    /\ UNCHANGED <<proposer, listening, waiting, asked, refreshed, last, ticked>>

----------------------------------------------------------------------------
Update ==
    \/ OpenBlock
    \/ \E p \in Peer : Response(p) \/ Unavailable(p)
    \/ OtherUpdate

Loop ==
    \/ \E d \in 0..1 : Recv(d)
    \/ Update
    \/ handle_unresponsive_peers
    \/ tick

Next == Loop \/ NotReady \/ Ready \/ ServiceError

Spec == Init /\ [][Next]_vars

\* The loop goes on, time passes, and the validator finishes the block it builds.
FairSpec ==
    /\ Spec
    /\ WF_vars(Loop)
    /\ SF_vars(Recv(1))
    /\ SF_vars(Ready)

----------------------------------------------------------------------------
\* Properties

\* handle_unresponsive_peers gives up a peer no earlier than hang_timeout after it
\* was asked, also when that peer's Timeout was started again by a replacement, or
\* when it was given up before and is drawn a second time.
NoHastyReplacement ==
    [][pc = "timers" =>
          \A p \in DOMAIN asked :
              (p \notin DOMAIN asked' \/ asked'[p] # asked[p]) => asked[p] > hang_timeout]_vars

\* config.rs:32 calls hang_timeout the time "to wait before deciding a process is
\* hung".  A peer is awaited for longer than that (and one turn of the loop) only
\* when a replacement drew it although it was awaited, which starts its Timeout
\* again without asking it; the waits of finalize_block never delay it.
LateOnlyIfRefreshed ==
    \A p \in DOMAIN asked : asked[p] > hang_timeout + 1 => p \in refreshed

\* While finalize_block holds up the loop no answer is awaited, so no timeout runs
\* out unseen and no block that is being decided is held up.
PublishingHoldsUpNoRound ==
    pc \in {"summarize", "finalize"} => ~ listening /\ DOMAIN waiting = {}

\* try_publish is called again and again, as long as the service does not fail.
TicksForever == []<>(ticked \/ pc = "panicked")
=============================================================================
