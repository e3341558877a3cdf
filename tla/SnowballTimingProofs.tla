------------------------ MODULE SnowballTimingProofs ------------------------
(***************************************************************************)
(* Proofs about the loop against the clock, for every number of peers and  *)
(* every choice of the time-outs and delays.                               *)
(***************************************************************************)
EXTENDS SnowballTiming, FiniteSetTheorems, TLAPS

\* Every awaited peer has a running Timeout, which was started when the peer was asked,
\* or later when a replacement drew the peer again.
Clocks ==
    /\ DOMAIN waiting = DOMAIN asked /\ DOMAIN asked \subseteq Peer
    /\ \A p \in DOMAIN asked :
          /\ waiting[p] = [state |-> "Active", start |-> waiting[p].start]
          /\ waiting[p].start \in Elapsed /\ asked[p] \in Elapsed
          /\ waiting[p].start <= asked[p]
          /\ p \notin refreshed => waiting[p].start = asked[p]

\* Peers whose Timeout was never started again have been awaited for `limit` at most.
Within(limit) == \A p \in DOMAIN asked : p \notin refreshed => asked[p] <= limit

\* The timers are checked in every turn, after at most one tick of waiting.
Checked ==
    /\ pc \in {"recv", "tick"} => Within(hang_timeout)
    /\ pc \in {"update", "timers"} => Within(hang_timeout + 1)

\* Nobody is awaited unless a block is being decided, and finalize_block is called
\* only when none is.
Quiescent ==
    /\ ~ listening => DOMAIN waiting = {}
    /\ pc \in {"summarize", "finalize", "panicked"} => ~ listening

PcType == pc \in {"recv", "update", "timers", "tick", "summarize", "finalize", "panicked"}

TimingInv == PcType /\ Clocks /\ Checked /\ Quiescent

----------------------------------------------------------------------------
\* The clock

LEMMA MaxOfTwo ==
    ASSUME NEW a \in Nat, NEW b \in Nat
    PROVE  Max({a, b}) = IF a >= b THEN a ELSE b
<1> DEFINE m == IF a >= b THEN a ELSE b
<1>1. m \in {a, b} /\ \A y \in {a, b} : m >= y
  OBVIOUS
<1>2. \A x \in {a, b} : (\A y \in {a, b} : x >= y) => x = m
  OBVIOUS
<1> QED
  BY <1>1, <1>2 DEF Max

LEMMA MinOfTwo ==
    ASSUME NEW a \in Nat, NEW b \in Nat
    PROVE  Min({a, b}) = IF a <= b THEN a ELSE b
<1> DEFINE m == IF a <= b THEN a ELSE b
<1>1. m \in {a, b} /\ \A y \in {a, b} : m =< y
  OBVIOUS
<1>2. \A x \in {a, b} : (\A y \in {a, b} : x =< y) => x = m
  OBVIOUS
<1> QED
  BY <1>1, <1>2 DEF Min

LEMMA MaxElapsedType == MaxElapsed \in Nat /\ MaxElapsed >= hang_timeout + 2
BY MaxOfTwo, TimingAssumption DEF MaxElapsed

LEMMA ElapsedType == \A t \in Elapsed : t \in Nat /\ 0 <= t
BY MaxElapsedType DEF Elapsed

LEMMA LaterValue ==
    ASSUME NEW t \in Elapsed, NEW d \in Nat
    PROVE  Later(t, d) = IF t + d <= MaxElapsed THEN t + d ELSE MaxElapsed
BY MaxElapsedType, MinOfTwo DEF Elapsed, Later

LEMMA LaterType ==
    ASSUME NEW t \in Elapsed, NEW d \in Nat
    PROVE  Later(t, d) \in Elapsed /\ Later(t, d) <= t + d
BY LaterValue, MaxElapsedType DEF Elapsed

LEMMA LaterMonotone ==
    ASSUME NEW t \in Elapsed, NEW u \in Elapsed, t <= u, NEW d \in Nat
    PROVE  Later(t, d) <= Later(u, d)
BY LaterValue, MaxElapsedType DEF Elapsed

\* Time passes for every Timeout alike.
LEMMA PassKeepsClocks ==
    ASSUME Clocks, NEW d \in Nat, Pass(d), UNCHANGED refreshed
    PROVE  /\ Clocks' /\ DOMAIN asked' = DOMAIN asked
           /\ \A p \in DOMAIN asked : asked[p] \in Elapsed /\ asked'[p] = Later(asked[p], d)
<1>1. /\ DOMAIN waiting' = DOMAIN waiting /\ DOMAIN asked' = DOMAIN asked
      /\ \A p \in DOMAIN waiting : waiting'[p] = [waiting[p] EXCEPT !.start = Later(@, d)]
      /\ \A p \in DOMAIN asked : asked'[p] = Later(asked[p], d)
  BY DEF Pass
<1>2. DOMAIN waiting = DOMAIN asked /\ DOMAIN asked \subseteq Peer
  BY DEF Clocks
<1>3. ASSUME NEW p \in DOMAIN asked'
      PROVE  /\ waiting'[p] = [state |-> "Active", start |-> waiting'[p].start]
             /\ waiting'[p].start \in Elapsed /\ asked'[p] \in Elapsed
             /\ waiting'[p].start <= asked'[p]
             /\ p \notin refreshed' => waiting'[p].start = asked'[p]
  <2>1. /\ waiting[p] = [state |-> "Active", start |-> waiting[p].start]
        /\ waiting[p].start \in Elapsed /\ asked[p] \in Elapsed
        /\ waiting[p].start <= asked[p]
        /\ p \notin refreshed => waiting[p].start = asked[p]
    BY <1>1, <1>3 DEF Clocks
  <2>2. waiting'[p] = [state |-> "Active", start |-> Later(waiting[p].start, d)]
    <3>1. waiting'[p] = [waiting[p] EXCEPT !.start = Later(waiting[p].start, d)]
      BY <1>1, <1>2, <1>3
    <3> QED
      BY <2>1, <3>1
  <2>3. waiting'[p].start = Later(waiting[p].start, d) /\ asked'[p] = Later(asked[p], d)
    BY <1>1, <1>3, <2>2
  <2> QED
    BY <2>1, <2>2, <2>3, LaterType, LaterMonotone
<1>4. Elapsed' = Elapsed
  BY DEF Elapsed, MaxElapsed
<1> QED
  BY <1>1, <1>2, <1>3, <1>4 DEF Clocks

----------------------------------------------------------------------------
\* The waiting set

\* Peers are forgotten, drawn again, or asked; the clocks follow.
LEMMA AwaitEffect ==
    ASSUME Clocks, NEW gone, NEW again \in SUBSET (DOMAIN waiting \ gone),
           NEW new \in SUBSET Peer, Await(gone, again, new)
    PROVE  /\ Clocks' /\ DOMAIN asked' = (DOMAIN asked \ gone) \cup new
           /\ \A p \in DOMAIN asked' :
                 \/ p \in new /\ asked'[p] = 0
                 \/ /\ p \in DOMAIN asked \ gone /\ asked'[p] = asked[p]
                    /\ p \notin refreshed' => p \notin refreshed
<1> DEFINE kept == DOMAIN waiting \ gone
<1>1. DOMAIN waiting = DOMAIN asked /\ DOMAIN asked \subseteq Peer
  BY DEF Clocks
<1>2. /\ DOMAIN waiting' = kept \cup new /\ DOMAIN asked' = kept \cup new
      /\ \A p \in kept \cup new :
            /\ waiting'[p] = IF p \in again \cup new THEN start(NewTimeout) ELSE waiting[p]
            /\ asked'[p] = IF p \in new THEN 0 ELSE asked[p]
      /\ refreshed' = ((refreshed \ gone) \cup again) \ new
  BY DEF Await
<1>3. start(NewTimeout) = [state |-> "Active", start |-> 0]
  <2> DEFINE t == [NewTimeout EXCEPT !.state = "Active"]
  <2>1. t = [state |-> "Active", start |-> 0]
    BY DEF NewTimeout
  <2>2. start(NewTimeout) = [t EXCEPT !.start = 0]
    BY DEF start
  <2> HIDE DEF t
  <2> QED
    BY <2>1, <2>2
<1>4. 0 \in Elapsed /\ Elapsed' = Elapsed /\ Elapsed \subseteq Nat
  <2>1. 0 \in Elapsed /\ Elapsed \subseteq Nat
    BY MaxElapsedType DEF Elapsed
  <2>2. Elapsed' = Elapsed
    BY DEF Elapsed, MaxElapsed
  <2> QED
    BY <2>1, <2>2
<1>5. ASSUME NEW p \in DOMAIN asked'
      PROVE  /\ waiting'[p] = [state |-> "Active", start |-> waiting'[p].start]
             /\ waiting'[p].start \in Elapsed /\ asked'[p] \in Elapsed
             /\ waiting'[p].start <= asked'[p]
             /\ p \notin refreshed' => waiting'[p].start = asked'[p]
  <2>1. CASE p \in new
    BY <1>2, <1>3, <1>4, <2>1
  <2>2. CASE p \notin new
    <3>1. /\ p \in DOMAIN asked /\ p \in kept
          /\ waiting[p] = [state |-> "Active", start |-> waiting[p].start]
          /\ waiting[p].start \in Elapsed /\ asked[p] \in Elapsed
          /\ waiting[p].start <= asked[p]
          /\ p \notin refreshed => waiting[p].start = asked[p]
      BY <1>1, <1>2, <1>5, <2>2 DEF Clocks
    <3>2. CASE p \in again
      <4>1. /\ waiting'[p] = [state |-> "Active", start |-> 0] /\ asked'[p] = asked[p]
            /\ p \in refreshed'
        BY <1>2, <1>3, <2>2, <3>1, <3>2
      <4>2. 0 <= asked[p]
        BY <3>1, ElapsedType
      <4> QED
        BY <1>4, <3>1, <4>1, <4>2
    <3>3. CASE p \notin again
      BY <1>2, <2>2, <3>1, <3>3
    <3> QED
      BY <3>2, <3>3
  <2> QED
    BY <2>1, <2>2
<1>6. Clocks'
  BY <1>1, <1>2, <1>4, <1>5 DEF Clocks
<1>7. \A p \in DOMAIN asked' :
         \/ p \in new /\ asked'[p] = 0
         \/ /\ p \in DOMAIN asked \ gone /\ asked'[p] = asked[p]
            /\ p \notin refreshed' => p \notin refreshed
  BY <1>1, <1>2
<1> QED
  BY <1>1, <1>2, <1>6, <1>7

\* A limit that held for those who stay holds afterwards.
LEMMA AwaitWithin ==
    ASSUME Clocks, NEW gone, NEW again \in SUBSET (DOMAIN waiting \ gone),
           NEW new \in SUBSET Peer, Await(gone, again, new), NEW limit \in Nat,
           \A p \in DOMAIN asked \ gone : p \notin refreshed => asked[p] <= limit
    PROVE  \A p \in DOMAIN asked' : p \notin refreshed' => asked'[p] <= limit
<1>1. \A p \in DOMAIN asked' :
         \/ p \in new /\ asked'[p] = 0
         \/ /\ p \in DOMAIN asked \ gone /\ asked'[p] = asked[p]
            /\ p \notin refreshed' => p \notin refreshed
  BY AwaitEffect
<1>2. 0 <= limit
  OBVIOUS
<1> QED
  BY <1>1, <1>2

\* The peers given up are those whose Timeout has run for longer than hang_timeout.
LEMMA ExpiredPeers ==
    ASSUME Clocks
    PROVE  expired_peers = {p \in DOMAIN asked : waiting[p].start > hang_timeout}
<1>1. ASSUME NEW p \in DOMAIN waiting
      PROVE  check_expired(waiting[p]).state = "Expired" <=> waiting[p].start > hang_timeout
  <2>1. waiting[p] = [state |-> "Active", start |-> waiting[p].start]
    BY <1>1 DEF Clocks
  <2> DEFINE t == waiting[p].start
  <2> HIDE DEF t
  <2>2. waiting[p] = [state |-> "Active", start |-> t]
    BY <2>1 DEF t
  <2>3. check_expired([state |-> "Active", start |-> t]).state = "Expired" <=> t > hang_timeout
    BY DEF check_expired
  <2> QED
    BY <2>2, <2>3
<1> QED
  BY <1>1 DEF expired_peers, Clocks

----------------------------------------------------------------------------
\* The steps

\* An Await before or after the timers are checked keeps the waiting set in order.
LEMMA StepAwaits ==
    ASSUME TimingInv, NEW gone, NEW again \in SUBSET (DOMAIN waiting \ gone),
           NEW new \in SUBSET Peer, Await(gone, again, new),
           pc = "update", pc' = "timers", ~ listening' => (DOMAIN waiting \ gone) \cup new = {}
    PROVE  TimingInv'
<1>1. Clocks /\ DOMAIN waiting = DOMAIN asked /\ Within(hang_timeout + 1)
  BY DEF TimingInv, Clocks, Checked
<1>2. Clocks' /\ DOMAIN asked' = (DOMAIN asked \ gone) \cup new
  BY <1>1, AwaitEffect
<1>3. hang_timeout + 1 \in Nat
  BY TimingAssumption
<1>4. \A p \in DOMAIN asked' : p \notin refreshed' => asked'[p] <= hang_timeout + 1
  BY <1>1, <1>3, AwaitWithin DEF Within
<1>5. Checked'
  BY <1>4 DEF Checked, Within
<1>6. Quiescent'
  BY <1>1, <1>2 DEF Quiescent, Clocks
<1> QED
  BY <1>2, <1>5, <1>6 DEF TimingInv, PcType

LEMMA RecvKeeps ==
    ASSUME TimingInv, NEW d \in 0..1, Recv(d)
    PROVE  TimingInv'
<1>1. /\ pc = "recv" /\ pc' = "update" /\ Pass(d) /\ UNCHANGED <<listening, refreshed>>
      /\ Clocks /\ Within(hang_timeout) /\ d \in Nat
  BY DEF Recv, TimingInv, Checked
<1>2. /\ Clocks' /\ DOMAIN asked' = DOMAIN asked
      /\ \A p \in DOMAIN asked : asked[p] \in Elapsed /\ asked'[p] = Later(asked[p], d)
  BY <1>1, PassKeepsClocks
<1>3. ASSUME NEW p \in DOMAIN asked', p \notin refreshed' PROVE asked'[p] <= hang_timeout + 1
  <2>1. asked[p] \in Elapsed /\ asked'[p] = Later(asked[p], d) /\ asked[p] <= hang_timeout
    BY <1>1, <1>2, <1>3 DEF Within
  <2>2. asked'[p] \in Elapsed /\ asked'[p] <= asked[p] + d
    BY <1>1, <2>1, LaterType
  <2> QED
    BY <2>1, <2>2, TimingAssumption, MaxElapsedType DEF Elapsed
<1>4. Checked'
  BY <1>1, <1>3 DEF Checked, Within
<1>5. Quiescent'
  BY <1>1, <1>2 DEF TimingInv, Quiescent, Clocks
<1> QED
  BY <1>1, <1>2, <1>4, <1>5 DEF TimingInv, PcType

\* The samples and replacements are drawn from the other members.
LEMMA DrawsArePeers ==
    ASSUME NEW n, NEW S \in SUBSET Peer, NEW T \in kSubset(n, S)
    PROVE  T \in SUBSET Peer
BY DEF kSubset

LEMMA UpdateKeeps == TimingInv /\ Update => TimingInv'
<1> SUFFICES ASSUME TimingInv, Update PROVE TimingInv'
  OBVIOUS
<1>1. ~ listening => DOMAIN waiting = {}
  BY DEF TimingInv, Quiescent
<1>2. CASE OpenBlock
  <2>1. PICK sample \in kSubset(k, Peer) : Await({}, {}, sample)
    BY <1>2 DEF OpenBlock, NewRound
  <2>2. pc = "update" /\ pc' = "timers" /\ listening'
    BY <1>2 DEF OpenBlock, Step
  <2> QED
    BY <2>1, <2>2, DrawsArePeers, StepAwaits
<1>3. ASSUME NEW p \in Peer, Response(p) PROVE TimingInv'
  <2>1. pc = "update" /\ pc' = "timers" /\ p \in DOMAIN waiting /\ listening
    BY <1>1, <1>3 DEF Response, Step
  <2>2. CASE Await({p}, {}, {}) /\ (listening' \/ DOMAIN waiting = {p})
    BY <2>1, <2>2, StepAwaits
  <2>3. CASE NewRound({p}) /\ listening'
    <3>1. PICK sample \in kSubset(k, Peer) : Await({p}, {}, sample)
      BY <2>3 DEF NewRound
    <3> QED
      BY <2>1, <2>3, <3>1, DrawsArePeers, StepAwaits
  <2> QED
    BY <1>3, <2>1, <2>2, <2>3 DEF Response
<1>4. ASSUME NEW p \in Peer, Unavailable(p) PROVE TimingInv'
  <2>1. pc = "update" /\ pc' = "timers" /\ p \in DOMAIN waiting /\ listening' /\ Replace({p})
    BY <1>1, <1>4 DEF Unavailable, Step
  <2>2. PICK again \in SUBSET (DOMAIN waiting \ {p}),
             new \in kSubset(Cardinality({p}), Peer \ (DOMAIN waiting \ {p})) :
             Await({p}, again, new)
    BY <2>1 DEF Replace
  <2> QED
    BY <2>1, <2>2, DrawsArePeers, StepAwaits
<1>5. CASE OtherUpdate
  BY <1>5 DEF OtherUpdate, Step, TimingInv, PcType, Clocks, Checked, Within, Quiescent, Elapsed,
              MaxElapsed
<1> QED
  BY <1>2, <1>3, <1>4, <1>5 DEF Update

\* What handle_unresponsive_peers does: nobody who stays is left over the limit.
LEMMA TimersEffect ==
    ASSUME TimingInv, handle_unresponsive_peers
    PROVE  /\ TimingInv'
           /\ \A p \in DOMAIN asked :
                 (p \notin DOMAIN asked' \/ asked'[p] # asked[p]) => asked[p] > hang_timeout
<1> DEFINE gone == expired_peers
<1>1. /\ pc = "timers" /\ pc' = "tick" /\ listening' = listening /\ Replace(gone)
      /\ Clocks /\ DOMAIN waiting = DOMAIN asked
  BY DEF handle_unresponsive_peers, Step, TimingInv, Clocks
<1>2. PICK again \in SUBSET (DOMAIN waiting \ gone),
           new \in kSubset(Cardinality(gone), Peer \ (DOMAIN waiting \ gone)) :
           Await(gone, again, new)
  BY <1>1 DEF Replace
<1>3. new \in SUBSET Peer /\ new \cap (DOMAIN waiting \ gone) = {}
  BY <1>2 DEF kSubset
<1>4. gone = {p \in DOMAIN asked : waiting[p].start > hang_timeout}
  BY <1>1, ExpiredPeers
<1>5. \A p \in DOMAIN asked : /\ waiting[p].start \in Elapsed /\ asked[p] \in Elapsed
                              /\ waiting[p].start <= asked[p]
                              /\ p \notin refreshed => waiting[p].start = asked[p]
  BY <1>1 DEF Clocks
<1> HIDE DEF gone
<1>6. /\ Clocks' /\ DOMAIN asked' = (DOMAIN asked \ gone) \cup new
      /\ \A p \in DOMAIN asked' :
            \/ p \in new /\ asked'[p] = 0
            \/ /\ p \in DOMAIN asked \ gone /\ asked'[p] = asked[p]
               /\ p \notin refreshed' => p \notin refreshed
  BY <1>1, <1>2, <1>3, AwaitEffect
<1>7. ASSUME NEW p \in DOMAIN asked \ gone, p \notin refreshed PROVE asked[p] <= hang_timeout
  BY <1>4, <1>5, <1>7, TimingAssumption, MaxElapsedType DEF Elapsed
<1>8. \A p \in DOMAIN asked' : p \notin refreshed' => asked'[p] <= hang_timeout
  BY <1>1, <1>2, <1>3, <1>7, AwaitWithin, TimingAssumption
<1>9. Checked'
  BY <1>1, <1>8 DEF Checked, Within
<1>10. Quiescent'
  <2>1. CASE listening
    BY <1>1, <2>1 DEF Quiescent
  <2>2. CASE ~ listening
    <3>1. DOMAIN asked = {} /\ gone = {}
      BY <1>1, <1>4, <2>2 DEF TimingInv, Quiescent
    <3>2. Cardinality(gone) = 0 /\ IsFiniteSet(new) /\ Cardinality(new) = Cardinality(gone)
      BY <1>2, <1>3, <3>1, FS_EmptySet, FS_Subset, TimingAssumption DEF kSubset
    <3>3. new = {}
      BY <3>2, FS_EmptySet
    <3> QED
      BY <1>1, <1>6, <3>1, <3>3 DEF Quiescent, Clocks
  <2> QED
    BY <2>1, <2>2
<1>11. TimingInv'
  BY <1>1, <1>6, <1>9, <1>10 DEF TimingInv, PcType
<1>12. ASSUME NEW p \in DOMAIN asked, p \notin DOMAIN asked' \/ asked'[p] # asked[p]
       PROVE  asked[p] > hang_timeout
  <2>1. p \in gone
    BY <1>1, <1>3, <1>6, <1>12
  <2> QED
    BY <1>4, <1>5, <2>1, TimingAssumption, MaxElapsedType DEF Elapsed
<1> QED
  BY <1>11, <1>12

\* try_publish finalizes a block only when no block is being decided.
LEMMA TickKeeps == TimingInv /\ tick => TimingInv'
<1> SUFFICES ASSUME TimingInv, tick PROVE TimingInv'
  OBVIOUS
<1>1. /\ pc = "tick" /\ UNCHANGED <<listening, waiting, asked, refreshed>>
      /\ pc' = "recv" \/ (pc' = "summarize" /\ ~ listening)
  BY DEF tick, publishes
<1> QED
  BY <1>1 DEF TimingInv, PcType, Clocks, Checked, Within, Quiescent, Elapsed, MaxElapsed

\* While finalize_block sleeps, no Timeout runs.
LEMMA PublishingKeeps == TimingInv /\ (NotReady \/ Ready \/ ServiceError) => TimingInv'
<1> SUFFICES ASSUME TimingInv, NotReady \/ Ready \/ ServiceError PROVE TimingInv'
  OBVIOUS
<1>1. /\ pc \in {"summarize", "finalize"}
      /\ pc' \in {"summarize", "finalize", "recv", "panicked"}
      /\ UNCHANGED <<listening, refreshed>>
      /\ DOMAIN waiting' = DOMAIN waiting /\ DOMAIN asked' = DOMAIN asked
  BY DEF NotReady, Ready, ServiceError, Pass
<1>2. ~ listening /\ DOMAIN waiting = {} /\ DOMAIN asked = {}
  BY <1>1 DEF TimingInv, Quiescent, Clocks
<1> QED
  BY <1>1, <1>2 DEF TimingInv, PcType, Clocks, Checked, Within, Quiescent

LEMMA TimingInvariance == Spec => []TimingInv
<1>1. Init => TimingInv
  BY DEF Init, TimingInv, PcType, Clocks, Checked, Within, Quiescent
<1>2. TimingInv /\ [Next]_vars => TimingInv'
  <2> SUFFICES ASSUME TimingInv, [Next]_vars PROVE TimingInv'
    OBVIOUS
  <2>1. CASE UNCHANGED vars
    BY <2>1 DEF vars, TimingInv, PcType, Clocks, Checked, Within, Quiescent, Elapsed, MaxElapsed
  <2> QED
    BY <2>1, RecvKeeps, UpdateKeeps, TimersEffect, TickKeeps, PublishingKeeps DEF Next, Loop
<1> QED
  BY <1>1, <1>2, PTL DEF Spec

----------------------------------------------------------------------------
\* Results

\* A peer is never given up before hang_timeout has passed since it was asked.
THEOREM GivenUpInTime == Spec => NoHastyReplacement
<1>1. TimingInv /\ [Next]_vars =>
          [pc = "timers" =>
              \A p \in DOMAIN asked :
                  (p \notin DOMAIN asked' \/ asked'[p] # asked[p]) => asked[p] > hang_timeout]_vars
  <2> SUFFICES ASSUME TimingInv, Next, pc = "timers"
               PROVE  \A p \in DOMAIN asked :
                          (p \notin DOMAIN asked' \/ asked'[p] # asked[p])
                              => asked[p] > hang_timeout
    OBVIOUS
  <2>1. handle_unresponsive_peers
    BY DEF Next, Loop, Recv, Update, OpenBlock, Response, Unavailable, OtherUpdate, Step, tick,
           NotReady, Ready, ServiceError
  <2> QED
    BY <2>1, TimersEffect
<1> QED
  BY <1>1, TimingInvariance, PTL DEF Spec, NoHastyReplacement

\* A peer is awaited for more than a turn beyond hang_timeout only after its Timeout
\* was started again.
THEOREM LateMeansRefreshed == Spec => []LateOnlyIfRefreshed
<1>1. TimingInv => LateOnlyIfRefreshed
  <2> SUFFICES ASSUME TimingInv, NEW p \in DOMAIN asked, p \notin refreshed,
                      asked[p] > hang_timeout + 1
               PROVE  FALSE
    BY DEF LateOnlyIfRefreshed
  <2>1. asked[p] \in Nat /\ hang_timeout \in Nat
    BY TimingAssumption, MaxElapsedType DEF TimingInv, Clocks, Elapsed
  <2>2. CASE pc \in {"summarize", "finalize", "panicked"}
    BY <2>2 DEF TimingInv, Quiescent, Clocks
  <2>3. CASE pc \in {"recv", "tick", "update", "timers"}
    BY <2>1, <2>3 DEF TimingInv, Checked, Within
  <2> QED
    BY <2>2, <2>3 DEF TimingInv, PcType
<1> QED
  BY <1>1, TimingInvariance, PTL

\* While the loop waits for the validator to finish a block, nobody is awaited.
THEOREM PublishingWaitsAlone == Spec => []PublishingHoldsUpNoRound
<1>1. TimingInv => PublishingHoldsUpNoRound
  BY DEF TimingInv, Quiescent, PublishingHoldsUpNoRound
<1> QED
  BY <1>1, TimingInvariance, PTL
=============================================================================
