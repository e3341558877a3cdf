------------------------- MODULE MCSnowballNetwork -------------------------
(***************************************************************************)
(* Instances of SnowballNetwork for TLC.                                   *)
(***************************************************************************)
EXTENDS SnowballNetwork

CONSTANTS p1, p2, p3,   \* peers
          b1, b2        \* blocks

TwoMembers   == <<p1, p2>>
ThreeMembers == <<p1, p2, p3>>

OneBlock  == <<b1>>
TwoBlocks == <<b1, b2>>

NoFaults == [hang_idx |-> {}, duplicate_idx |-> {}, spurious_idx |-> {},
             wrong_decision_idx |-> {}, max_crashes |-> 0, max_in_flight |-> 9,
             timely |-> FALSE]

\* The second node votes KO; or it says everything twice while the third is hung; or
\* it makes up sequence numbers; or the third votes KO and a node crashes.  Four
\* messages let two nodes ask at a time.
WrongVotes == {[NoFaults EXCEPT !.wrong_decision_idx = {1}, !.max_in_flight = 4],
               [NoFaults EXCEPT !.duplicate_idx = {1}, !.hang_idx = {2},
                                !.max_in_flight = 6],
               [NoFaults EXCEPT !.spurious_idx = {1}, !.max_in_flight = 2],
               [NoFaults EXCEPT !.wrong_decision_idx = {2}, !.max_crashes = 1,
                                !.max_in_flight = 4, !.timely = TRUE]}

\* Wrong votes are followed up to the first peer that is counted twice.
UntilRepeated == faults.wrong_decision_idx = {} \/ repeated = 0

\* The second node is the one that crashes; the others go on with one replacement in a
\* round and three messages at a time.
AfterCrash ==
    crashed # {} =>
        /\ crashed = {p2}
        /\ BagCardinality(msgs) <= 3
        /\ \A n \in Node : replaced[n] <= 1

\* Any node crashes.
OneCrash == {[NoFaults EXCEPT !.max_crashes = 1, !.max_in_flight = 3]}

\* The record of who was counted is read by no action, and by no property of the
\* run with a crash.
WithoutVoters == <<faults, node, msgs, linkVars, chainVars>>

\* Answers come in time, but the third node is hung.
HungInTime == {[NoFaults EXCEPT !.hang_idx = {2}, !.timely = TRUE]}
============================================================================
