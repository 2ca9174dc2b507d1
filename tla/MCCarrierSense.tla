--------------------------- MODULE MCCarrierSense ---------------------------
(***************************************************************************)
(* A tick is a quarter of a second: read_timeout is two ticks and "sleep   *)
(* 1" four. Three calls: both channels of one board and the first of the   *)
(* next one.                                                               *)
(***************************************************************************)
EXTENDS CarrierSense
=============================================================================
