----------------------------- MODULE BaudSetting -----------------------------
(***************************************************************************)
(* What the stored baud rate promises, whatever happens between the board, *)
(* its Flash and the host that changes it: the board always comes up at a  *)
(* rate it supports, and never at a rate nobody asked for.                 *)
(***************************************************************************)
EXTENDS Integers

CONSTANTS BaudList,     \* the rates the firmware supports
          DefaultBaud   \* the rate it falls back to

VARIABLES rate,   \* the rate the serial port runs at, 0 before the first boot
          asked   \* every rate that was ever asked for

vars == <<rate, asked>>

Init == rate = 0 /\ asked \subseteq BaudList

Ask == asked \subseteq asked' /\ UNCHANGED rate

Boot == /\ rate' \in BaudList \cap (asked \cup {rate, DefaultBaud})
        /\ UNCHANGED asked

Next == Ask \/ Boot

Spec == Init /\ [][Next]_vars
=============================================================================
