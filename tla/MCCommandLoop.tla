--------------------------- MODULE MCCommandLoop ---------------------------
(***************************************************************************)
(* CommandLoop with every kind of command from the serial port, and by     *)
(* radio with those that a frame can carry and that meet the loop's flags. *)
(***************************************************************************)
EXTENDS CommandLoop

MCSerialCommands == Commands \ {"first", "second"}
MCRemoteCommands == {"second", "wb", "sgr", "sgremote", "rst"}
=============================================================================
