------------------------- MODULE MCSnowballProcess -------------------------
(***************************************************************************)
(* The instance of SnowballProcess for TLC.                                *)
(***************************************************************************)
EXTENDS SnowballProcess

CONSTANTS p1, p2, p3   \* peers

\* Good settings with the optional ones absent or unreadable, and what can be wrong
\* with them.
Good ==
    [key \in Required \cup {"max_churn_timeout", "hang_timeout"} |->
        IF key = "members" THEN <<<<p1, p2>>>>
        ELSE IF key = "hang_timeout" THEN <<>> ELSE <<1>>]

SomeSettings ==
    {Good,
     [Good EXCEPT !["alfa"] = <<2>>],
     [Good EXCEPT !["k"] = <<>>],
     [key \in DOMAIN Good \ {"beta"} |-> Good[key]],
     [Good EXCEPT !["members"] = <<<<p2>>>>],
     [Good EXCEPT !["max_churn_timeout"] = <<0>>]}
============================================================================
