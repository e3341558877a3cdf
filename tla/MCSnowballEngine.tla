-------------------------- MODULE MCSnowballEngine --------------------------
(***************************************************************************)
(* Instances of SnowballEngine for TLC.                                    *)
(***************************************************************************)
EXTENDS SnowballEngine

CONSTANTS p1, p2, p3, p4,   \* peers
          b1, b2, b3,       \* blocks
          MaxRounds         \* rounds explored for one block

ThreeMembers == <<p1, p2, p3>>
FourMembers  == <<p1, p2, p3, p4>>

\* The heights of the blocks: a chain, or two siblings and a block on one of them.
Heights(h1, h2, h3) ==
    [b \in Block \cup {HeadBlock} |->
        IF b = b1 THEN h1 ELSE IF b = b2 THEN h2 ELSE IF b = b3 THEN h3 ELSE 0]

Chain == Heights(1, 2, 3)
Fork  == Heights(1, 1, 2)

RoundBound == Len(rounds) <= MaxRounds
=============================================================================
