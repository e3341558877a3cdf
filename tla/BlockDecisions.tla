--------------------------- MODULE BlockDecisions ---------------------------
(***************************************************************************)
(* What an engine promises about the blocks it is given: every one gets at *)
(* most one decision, decisions are taken in the order of arrival, and no  *)
(* decision is taken back.                                                 *)
(***************************************************************************)
EXTENDS Sequences

CONSTANT Block

VARIABLES pending,  \* the blocks that wait for a decision
          log       \* the decisions

Known(b) ==
    \/ \E i \in DOMAIN pending : pending[i] = b
    \/ \E i \in DOMAIN log : log[i].block = b

Init == pending = <<>> /\ log = <<>>

Announce(b) ==
    /\ ~ Known(b)
    /\ pending' = Append(pending, b)
    /\ UNCHANGED log

Decide(color) ==
    /\ pending # <<>>
    /\ pending' = Tail(pending)
    /\ log' = Append(log, [block |-> Head(pending), color |-> color])

Next ==
    \/ \E b \in Block : Announce(b)
    \/ \E color \in {"OK", "KO"} : Decide(color)

Spec == Init /\ [][Next]_<<pending, log>>
=============================================================================
