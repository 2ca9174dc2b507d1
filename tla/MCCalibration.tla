---------------------------- MODULE MCCalibration ----------------------------
(***************************************************************************)
(* Boards at every kind of frequency error with power in its bands, and    *)
(* boards on frequency at every kind of power.                             *)
(***************************************************************************)
EXTENDS Calibration

Board(f, p20, p1, a) == [freq |-> f, p20 |-> p20, p1 |-> p1, addr |-> a]

MCBoards ==
    {Board(f, 10, -1, TRUE) : f \in {-40, -12, -5, -2, 0, 3, 5, 9, 12}}
      \cup {Board(0, 3, -8, TRUE), Board(0, 8, -3, TRUE), Board(0, 14, 2, TRUE), Board(0, 25, -1, TRUE)}
      \cup {Board(0, 10, p, FALSE) : p \in {-2, 2}}
=============================================================================
