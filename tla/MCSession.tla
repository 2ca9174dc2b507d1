------------------------------ MODULE MCSession ------------------------------
(***************************************************************************)
(* Two boards, one of them good and the other defective in at most one     *)
(* test, whichever that is; one label and one fault.                       *)
(***************************************************************************)
EXTENDS Session

CONSTANTS b1, b2

MCBoards  == {b1, b2}
MCDefects == {[b \in MCBoards |-> IF b = b1 THEN {} ELSE d] : d \in {{}} \cup {{t} : t \in Tests}}
==============================================================================
