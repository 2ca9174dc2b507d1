------------------------------- MODULE MCBench -------------------------------
(***************************************************************************)
(* The bench has no parameters: two boards, two ports and no bound.        *)
(***************************************************************************)
EXTENDS Bench
==============================================================================
