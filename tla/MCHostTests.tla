----------------------------- MODULE MCHostTests -----------------------------
(***************************************************************************)
(* Two tests of the host, one of which is run: the pin test or the test of *)
(* the carrier sense. They share nothing.                                  *)
(*                                                                         *)
(* The pin test has three pairs: a pin under test, a faulty one and one    *)
(* that is neither. Eleven late answers are one more than the commands     *)
(* before the first reading, and no test gets further with as many: the    *)
(* bound never bites.                                                      *)
(*                                                                         *)
(* In the carrier sense a tick is a quarter of a second: read_timeout is   *)
(* two ticks and "sleep 1" four. Three calls: both channels of one board   *)
(* and the first of the next one.                                          *)
(***************************************************************************)
EXTENDS IoTest, CarrierSense

VARIABLE test

\* The jig has no part in the carrier sense: any one will do for it.
TestsInit ==
    /\ IoInit /\ Init
    /\ test \in {"pins", "carrier"}
    /\ test = "carrier" => Sound /\ short = {} /\ float = [p \in Pairs |-> 0]

PinTest     == test = "pins" /\ IoNext /\ UNCHANGED <<test, vars>>
CarrierTest == test = "carrier" /\ Next /\ UNCHANGED <<test, ioVars>>

TestsSpec == TestsInit /\ [][PinTest \/ CarrierTest]_<<test, ioVars, vars>>
=============================================================================
