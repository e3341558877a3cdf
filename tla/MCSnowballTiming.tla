-------------------------- MODULE MCSnowballTiming --------------------------
(***************************************************************************)
(* The instance of SnowballTiming for TLC: three other members, of whom    *)
(* two are asked in a round, so that a replacement can draw a peer that is *)
(* awaited already.                                                        *)
(***************************************************************************)
EXTENDS SnowballTiming

CONSTANTS p2, p3, p4   \* the other members
=============================================================================
