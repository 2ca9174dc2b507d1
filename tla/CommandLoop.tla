----------------------------- MODULE CommandLoop -----------------------------
(***************************************************************************)
(* The firmware's main loop and the radio interrupt that runs between any  *)
(* two of its steps. Commands come from the serial port, and from received *)
(* frames while the remote mode (bRemote) is on. The interrupt tells the   *)
(* loop of a frame through sgRxEvent and, in the automatic mode, through   *)
(* the level of the RXLED pin.                                             *)
(*                                                                         *)
(* Serial bytes are abstracted to units: a unit is a command with its      *)
(* arguments, one byte of binary data, or the end of a line.               *)
(***************************************************************************)
EXTENDS Integers, Sequences

CONSTANTS SerialCommands,  \* what the host sends, a subset of Commands
          RemoteCommands,  \* what frames carry, a subset of Commands
          BinaryLimit,     \* the longest data write_binary() reads (230)
          BinaryLength,    \* what "wb" announces, in units
          LongLength,      \* what "wbLong" announces
          MaxLines,        \* bound: lines the host sends
          MaxFrames        \* bound: frames received

\* "first" stands for every command of the decoder's first chain of tests that
\* changes nothing here, "second" for those of the second chain; "sgssm" for
\* those that only stop the receiver; "wbLong" for a "wb" that announces more
\* than write_binary() reads.
Commands == {"first", "second", "sgra", "sgre", "sgrd", "sgr", "sgrb", "sgssm",
             "sgi", "sgremote", "wb", "wbLong", "rst"}

ASSUME LoopAssumption ==
    /\ SerialCommands \subseteq Commands
    /\ RemoteCommands \subseteq Commands
    /\ BinaryLimit \in Nat
    /\ BinaryLength \in 0..BinaryLimit
    /\ LongLength \in Nat /\ LongLength > BinaryLimit
    /\ MaxLines \in Nat
    /\ MaxFrames \in Nat

EOL     == "EOL"
Data    == "data"
Garbage == "garbage"   \* what a line decodes to when it is no command

NoFrame == [id |-> 0, cmd |-> Garbage, remote |-> FALSE, handling |-> FALSE]

VARIABLES
    uart,       \* serial units the loop has not read
    cmdbuf,     \* the units of the current line; bufp is its length
    lines,      \* how many lines the host has sent
    rxOn,       \* the receiver is enabled (with rxCallback)
    slot,       \* the frame readData() would return
    frames,     \* how many frames have been received
    rbuf,       \* the last frame readData() returned
    bRemote, sgRxEvent, sgRxAuto,
    led,        \* RXLED is LOW: the LED is lit
    pc, ctx,    \* where the loop is; where the command under execution came from
    cmd,        \* that command
    windex,     \* how much write_binary() has read
    taken,      \* history: the frames executed or printed, and how
    late,       \* history: what the radio had executed since bRemote went off
    pending,    \* history: an event was pending when the host turned it off
    cutLine     \* history: a remote "wb", a reset or a "wbLong" came between the
                \* host's lines and the loop

serialVars  == <<uart, cmdbuf, lines>>
radioVars   == <<rxOn, slot, frames, rbuf>>
flagVars    == <<bRemote, sgRxEvent, sgRxAuto, led>>
loopVars    == <<pc, ctx, cmd, windex>>
historyVars == <<taken, late, pending, cutLine>>
vars        == <<serialVars, radioVars, flagVars, loopVars, historyVars>>

-----------------------------------------------------------------------------
(* Outside the loop.                                                       *)

\* How much data the host sends after a command.
Announced(c) == CASE c = "wb" -> BinaryLength [] c = "wbLong" -> LongLength [] OTHER -> 0

\* The host sends whole lines, and after "wb" the data it announces.
HostSend ==
    /\ lines < MaxLines
    /\ \E c \in SerialCommands :
         uart' = uart \o <<c, EOL>> \o [i \in 1..Announced(c) |-> Data]
    /\ lines' = lines + 1
    /\ UNCHANGED <<cmdbuf, radioVars, flagVars, loopVars, historyVars>>

\* The loop is between a readData() and the statement that turns the
\* notification off: a frame that arrives now may go unnoticed.
Handling == \/ pc \in {"rxClear", "rxLed", "sgrLed", "autoLed"}
            \/ pc \in {"cmd", "wb"} /\ ctx = "remote"

\* Mutation: the interrupt does not look at bRemote.
RxCallbackAlways ==
    /\ led' = TRUE
    /\ sgRxEvent' = TRUE

RxCallback ==
    /\ led' = TRUE
    /\ sgRxEvent' = (bRemote \/ sgRxEvent)

\* A frame arrives. The radio keeps the last one.
Receive ==
    /\ rxOn
    /\ frames < MaxFrames
    /\ frames' = frames + 1
    /\ \E c \in RemoteCommands :
         slot' = [id |-> frames', cmd |-> c, remote |-> bRemote, handling |-> Handling]
    /\ RxCallback
    /\ UNCHANGED <<serialVars, rxOn, rbuf, bRemote, sgRxAuto, loopVars, historyVars>>

-----------------------------------------------------------------------------
(* loop(): the serial port.                                                *)

\* Mutation: bufp is not reset at the end of a line.
ReadSerialKeeps ==
    /\ pc = "top"
    /\ uart # <<>>
    /\ uart' = Tail(uart)
    /\ \/ /\ Head(uart) = EOL
          /\ cmd' = IF Len(cmdbuf) = 1 /\ cmdbuf[1] \in Commands THEN cmdbuf[1] ELSE Garbage
          /\ ctx' = "serial"
          /\ pc' = "cmd"
          /\ UNCHANGED cmdbuf
       \/ /\ Head(uart) # EOL
          /\ cmdbuf' = Append(cmdbuf, Head(uart))
          /\ pc' = "rx"
          /\ UNCHANGED <<cmd, ctx>>
    /\ UNCHANGED <<lines, radioVars, flagVars, windex, historyVars>>

\* One unit per turn; at the end of a line the decoder runs on cmdbuf.
ReadSerial ==
    /\ pc = "top"
    /\ uart # <<>>
    /\ uart' = Tail(uart)
    /\ \/ /\ Head(uart) = EOL
          /\ cmdbuf' = <<>>
          /\ cmd' = IF Len(cmdbuf) = 1 /\ cmdbuf[1] \in Commands THEN cmdbuf[1] ELSE Garbage
          /\ ctx' = "serial"
          /\ pc' = "cmd"
       \/ /\ Head(uart) # EOL
          /\ cmdbuf' = Append(cmdbuf, Head(uart))
          /\ pc' = "rx"
          /\ UNCHANGED <<cmd, ctx>>
    /\ UNCHANGED <<lines, radioVars, flagVars, windex, historyVars>>

SerialEmpty ==
    /\ pc = "top"
    /\ uart = <<>>
    /\ pc' = "rx"
    /\ UNCHANGED <<serialVars, radioVars, flagVars, ctx, cmd, windex, historyVars>>

-----------------------------------------------------------------------------
(* command_decoder(): one action per kind of command.                      *)

Decode(c) == pc = "cmd" /\ cmd = c

\* Back to the statement after the call of command_decoder().
Return == pc' = IF ctx = "serial" THEN "rx" ELSE "rxClear"

\* SubGHz.readData().
ReadData == slot' = NoFrame /\ rbuf' = (IF slot = NoFrame THEN rbuf ELSE slot)

Take(id, how) == taken' = Append(taken, [id |-> id, how |-> how])

\* What was read is printed when readData() returned something.
Output == IF slot = NoFrame THEN UNCHANGED taken ELSE Take(slot.id, "print")

\* A command of the first chain that changes nothing here, or none at all.
First ==
    /\ pc = "cmd"
    /\ cmd \in {"first", Garbage}
    /\ Return
    /\ UNCHANGED <<serialVars, radioVars, flagVars, ctx, cmd, windex, historyVars>>

Second ==
    /\ Decode("second")
    /\ Return
    /\ UNCHANGED <<serialVars, radioVars, flagVars, ctx, cmd, windex, historyVars>>

\* Mutation: sgra() turns the LED off.
SgraLedOff ==
    /\ Decode("sgra")
    /\ rxOn' = TRUE
    /\ sgRxAuto' = TRUE
    /\ led' = FALSE
    /\ Return
    /\ UNCHANGED <<serialVars, slot, frames, rbuf, bRemote, sgRxEvent, ctx, cmd, windex, historyVars>>

Sgra ==
    /\ Decode("sgra")
    /\ rxOn' = TRUE
    /\ sgRxAuto' = TRUE
    /\ Return
    /\ UNCHANGED <<serialVars, slot, frames, rbuf, bRemote, sgRxEvent, led, ctx, cmd, windex, historyVars>>

Sgre ==
    /\ Decode("sgre")
    /\ rxOn' = TRUE
    /\ sgRxAuto' = FALSE
    /\ Return
    /\ UNCHANGED <<serialVars, slot, frames, rbuf, bRemote, sgRxEvent, led, ctx, cmd, windex, historyVars>>

Sgrd ==
    /\ Decode("sgrd")
    /\ rxOn' = FALSE
    /\ sgRxAuto' = FALSE
    /\ Return
    /\ UNCHANGED <<serialVars, slot, frames, rbuf, bRemote, sgRxEvent, led, ctx, cmd, windex, historyVars>>

\* sgssm() ends in rxDisable() but leaves sgRxAuto.
Sgssm ==
    /\ Decode("sgssm")
    /\ rxOn' = FALSE
    /\ Return
    /\ UNCHANGED <<serialVars, slot, frames, rbuf, flagVars, ctx, cmd, windex, historyVars>>

\* sgi(), like sgb() and sgc(), restarts the radio and leaves the flags.
Sgi ==
    /\ Decode("sgi")
    /\ rxOn' = FALSE
    /\ slot' = NoFrame
    /\ Return
    /\ UNCHANGED <<serialVars, frames, rbuf, flagVars, ctx, cmd, windex, historyVars>>

\* sgr() and sgrb(): read the frame, then turn the LED off. Unlike the others
\* sgr() prints rbuf, the last frame, when readData() returned zero as well.
SgrRead ==
    /\ pc = "cmd"
    /\ cmd \in {"sgr", "sgrb"}
    /\ ReadData
    /\ \/ Output
       \/ /\ cmd = "sgr"
          /\ slot = NoFrame /\ rbuf # NoFrame
          /\ Take(rbuf.id, "reprint")
    /\ pc' = "sgrLed"
    /\ UNCHANGED <<serialVars, rxOn, frames, flagVars, ctx, cmd, windex, late, pending, cutLine>>

SgrLed ==
    /\ pc = "sgrLed"
    /\ led' = FALSE
    /\ Return
    /\ UNCHANGED <<serialVars, radioVars, bRemote, sgRxEvent, sgRxAuto, ctx, cmd, windex, historyVars>>

\* Mutation: sgremote() drops the pending event.
SgremoteClears ==
    /\ Decode("sgremote")
    /\ bRemote' \in BOOLEAN
    /\ sgRxEvent' = FALSE
    /\ late' = IF bRemote' \/ bRemote THEN <<>> ELSE late
    /\ pending' = (~bRemote' /\ IF bRemote THEN sgRxEvent /\ ctx = "serial" ELSE pending)
    /\ Return
    /\ UNCHANGED <<serialVars, radioVars, sgRxAuto, led, ctx, cmd, windex, taken, cutLine>>

\* The index of the argument is not initialised: what is read as the argument
\* may be what an earlier line has left, whichever the command says.
Sgremote ==
    /\ Decode("sgremote")
    /\ bRemote' \in BOOLEAN
    /\ late' = IF bRemote' \/ bRemote THEN <<>> ELSE late
    /\ pending' = (~bRemote' /\ IF bRemote THEN sgRxEvent /\ ctx = "serial" ELSE pending)
    /\ Return
    /\ UNCHANGED <<serialVars, radioVars, sgRxEvent, sgRxAuto, led, ctx, cmd, windex, taken, cutLine>>

\* The data of a longer announcement stays on the serial port, where the loop
\* takes it for lines.
WriteBinary ==
    /\ pc = "cmd"
    /\ cmd \in {"wb", "wbLong"}
    /\ windex' = 0
    /\ IF Announced(cmd) <= BinaryLimit
       THEN pc' = "wb" /\ cutLine' = (cutLine \/ ctx = "remote")
       ELSE Return /\ cutLine' = (cutLine \/ ctx = "serial")
    /\ UNCHANGED <<serialVars, radioVars, flagVars, ctx, cmd, taken, late, pending>>

\* Whatever comes next on the serial port is data, line ends included.
WriteBinaryByte ==
    /\ pc = "wb"
    /\ windex < Announced(cmd)
    /\ uart # <<>>
    /\ uart' = Tail(uart)
    /\ windex' = windex + 1
    /\ UNCHANGED <<cmdbuf, lines, radioVars, flagVars, pc, ctx, cmd, historyVars>>

WriteBinaryEnd ==
    /\ pc = "wb"
    /\ windex = Announced(cmd)
    /\ Return
    /\ UNCHANGED <<serialVars, radioVars, flagVars, ctx, cmd, windex, historyVars>>

\* rst(): the RAM starts afresh and what the receive buffer held is lost.
\* setup() makes RXLED an output and does not write its level.
Rst ==
    /\ Decode("rst")
    /\ \E n \in 0..Len(uart) : uart' = SubSeq(uart, n + 1, Len(uart))
    /\ cmdbuf' = <<>>
    /\ rxOn' = FALSE /\ slot' = NoFrame /\ rbuf' = NoFrame
    /\ bRemote' = FALSE /\ sgRxEvent' = FALSE /\ sgRxAuto' = FALSE /\ led' \in BOOLEAN
    /\ pc' = "top" /\ ctx' = "serial" /\ windex' = 0
    /\ late' = <<>> /\ pending' = FALSE /\ cutLine' = TRUE
    /\ UNCHANGED <<lines, frames, cmd, taken>>

\* The decoder's second chain starts from pparam[0] again. After a command from
\* the radio it points into rbuf, where sgr() or sgrb() may have put another
\* frame: the command that frame carries is executed, if its name ends there.
SecondChain ==
    /\ pc = "sgrLed"
    /\ ctx = "remote" /\ rbuf.cmd = "second"
    /\ led' = FALSE
    /\ pc' = "cmd" /\ cmd' = "second"
    /\ Take(rbuf.id, "again")
    /\ late' = IF bRemote THEN <<>> ELSE Append(late, "again")
    /\ UNCHANGED <<serialVars, radioVars, bRemote, sgRxEvent, sgRxAuto, ctx, windex, pending, cutLine>>

Decoder == \/ First \/ Second \/ SecondChain \/ Sgra \/ Sgre \/ Sgrd \/ Sgssm \/ Sgi \/ SgrRead \/ SgrLed
           \/ Sgremote \/ WriteBinary \/ WriteBinaryByte \/ WriteBinaryEnd \/ Rst

-----------------------------------------------------------------------------
(* loop(): frames as commands, then the automatic output.                  *)

NoEvent ==
    /\ pc = "rx"
    /\ ~sgRxEvent
    /\ pc' = "auto"
    /\ UNCHANGED <<serialVars, radioVars, flagVars, ctx, cmd, windex, historyVars>>

\* Mutation: loop() does not look at what readData() returned.
RxExecuteStale ==
    /\ pc = "rx"
    /\ sgRxEvent
    /\ ReadData
    /\ pc' = "cmd" /\ ctx' = "remote" /\ cmd' = rbuf'.cmd
    /\ Take(rbuf'.id, "command")
    /\ late' = IF bRemote THEN <<>> ELSE Append(late, "command")
    /\ UNCHANGED <<serialVars, rxOn, frames, flagVars, windex, pending, cutLine>>

\* The event may be left over from a frame that "sgr" has taken: then there
\* is nothing to execute.
RxExecute ==
    /\ pc = "rx"
    /\ sgRxEvent
    /\ ReadData
    /\ \/ /\ slot # NoFrame
          /\ pc' = "cmd" /\ ctx' = "remote" /\ cmd' = rbuf'.cmd
          /\ Take(rbuf'.id, "command")
          /\ late' = IF bRemote THEN <<>> ELSE Append(late, "command")
       \/ /\ slot = NoFrame
          /\ pc' = "rxClear"
          /\ UNCHANGED <<ctx, cmd, taken, late>>
    /\ UNCHANGED <<serialVars, rxOn, frames, flagVars, windex, pending, cutLine>>

\* Mutation: the event is never cleared.
RxClearNot ==
    /\ pc = "rxClear"
    /\ pc' = "rxLed"
    /\ UNCHANGED <<serialVars, radioVars, flagVars, ctx, cmd, windex, historyVars>>

RxClear ==
    /\ pc = "rxClear"
    /\ sgRxEvent' = FALSE
    /\ pc' = "rxLed"
    /\ UNCHANGED <<serialVars, radioVars, bRemote, sgRxAuto, led, ctx, cmd, windex, historyVars>>

RxLed ==
    /\ pc = "rxLed"
    /\ led' = FALSE
    /\ pc' = "auto"
    /\ UNCHANGED <<serialVars, radioVars, bRemote, sgRxEvent, sgRxAuto, ctx, cmd, windex, historyVars>>

\* Mutation: in the remote mode frames are not for the automatic output.
NoOutputRemote ==
    /\ pc = "auto"
    /\ bRemote \/ ~(sgRxAuto /\ led)
    /\ pc' = "top"
    /\ UNCHANGED <<serialVars, radioVars, flagVars, ctx, cmd, windex, historyVars>>

NoOutput ==
    /\ pc = "auto"
    /\ ~(sgRxAuto /\ led)
    /\ pc' = "top"
    /\ UNCHANGED <<serialVars, radioVars, flagVars, ctx, cmd, windex, historyVars>>

SgoutRead ==
    /\ pc = "auto"
    /\ sgRxAuto /\ led
    /\ ReadData
    /\ Output
    /\ pc' = "autoLed"
    /\ UNCHANGED <<serialVars, rxOn, frames, flagVars, ctx, cmd, windex, late, pending, cutLine>>

SgoutLed ==
    /\ pc = "autoLed"
    /\ led' = FALSE
    /\ pc' = "top"
    /\ UNCHANGED <<serialVars, radioVars, bRemote, sgRxEvent, sgRxAuto, ctx, cmd, windex, historyVars>>

Loop == \/ ReadSerial \/ SerialEmpty \/ Decoder
        \/ NoEvent \/ RxExecute \/ RxClear \/ RxLed
        \/ NoOutput \/ SgoutRead \/ SgoutLed

-----------------------------------------------------------------------------
Init ==
    /\ uart = <<>> /\ cmdbuf = <<>> /\ lines = 0
    /\ rxOn = FALSE /\ slot = NoFrame /\ frames = 0 /\ rbuf = NoFrame
    /\ bRemote = FALSE /\ sgRxEvent = FALSE /\ sgRxAuto = FALSE /\ led \in BOOLEAN
    /\ pc = "top" /\ ctx = "serial" /\ cmd = Garbage /\ windex = 0
    /\ taken = <<>> /\ late = <<>> /\ pending = FALSE /\ cutLine = FALSE

Next == HostSend \/ Receive \/ Loop

Spec == Init /\ [][Next]_vars

\* The processor runs; the host and the radio owe nothing.
FairSpec == Spec /\ WF_vars(Loop)

-----------------------------------------------------------------------------
Frame == [id : 0..MaxFrames, cmd : Commands \cup {Garbage}, remote : BOOLEAN, handling : BOOLEAN]
Unit  == Commands \cup {EOL, Data}
Taking == [id : 1..MaxFrames, how : {"command", "print", "reprint", "again"}]

TypeOK ==
    /\ uart \in Seq(Unit) /\ cmdbuf \in Seq(Unit) /\ lines \in 0..MaxLines
    /\ rxOn \in BOOLEAN /\ slot \in Frame /\ frames \in 0..MaxFrames /\ rbuf \in Frame
    /\ bRemote \in BOOLEAN /\ sgRxEvent \in BOOLEAN /\ sgRxAuto \in BOOLEAN /\ led \in BOOLEAN
    /\ pc \in {"top", "cmd", "wb", "sgrLed", "rx", "rxClear", "rxLed", "auto", "autoLed"}
    /\ ctx \in {"serial", "remote"} /\ cmd \in Commands \cup {Garbage}
    /\ windex \in 0..BinaryLimit
    /\ taken \in Seq(Taking) /\ late \in Seq({"command", "again"})
    /\ pending \in BOOLEAN /\ cutLine \in BOOLEAN

\* However the interrupt falls between the loop's steps, frames are consumed in
\* the order they arrived, and each by one consumer (the remote execution, sgr,
\* sgrb or the automatic output), once. Two things follow that use a frame for
\* a second time: "sgr" prints the last one again when none has come (849), and
\* a frame that a remote "sgr" has printed may then be decoded (1719), once.
TakenOnce ==
    /\ \A i, j \in DOMAIN taken : i < j =>
         /\ taken[i].id <= taken[j].id
         /\ taken[i].id = taken[j].id => taken[j].how \in {"reprint", "again"}
    /\ \A i \in DOMAIN taken : taken[i].how = "again" =>
         /\ i > 1
         /\ taken[i - 1] = [id |-> taken[i].id, how |-> "print"]

\* After the remote mode has been turned off the radio has nothing executed,
\* except when the host turned it off while an event was pending: then one
\* frame is, and, if that is an "sgr", the frame it reads. It is the frame the
\* radio then holds, which may have come after the mode was turned off.
RemoteOffHolds ==
    late \in {<<>>} \cup (IF pending THEN {<<"command">>, <<"command", "again">>} ELSE {})

\* A frame that arrives in the remote mode keeps its event until the loop has
\* read it, unless it arrived while the loop was handling an earlier one
\* (loop() clears sgRxEvent after the command, not before the read).
EventTellsFrame == slot # NoFrame /\ slot.remote /\ ~slot.handling => sgRxEvent

\* Likewise for the LED, which is the event of the automatic output.
LedTellsFrame == slot # NoFrame /\ ~slot.handling => led

\* The loop takes the serial port's lines apart where the host ended them, so
\* no command is lost in another one, unless a "wb" from the radio reads the
\* serial port, a reset drops what was received or the host announced more
\* data than write_binary() reads.
LinesKept == pc = "cmd" /\ ctx = "serial" /\ cmd = Garbage => cutLine

\* A pending event is turned off, by the loop or a reset, unless a "wb" that
\* waits for serial data holds the loop.
EventHandled == sgRxEvent ~> (~sgRxEvent \/ pc = "wb")

\* In the automatic mode a frame that waits is read (or a newer one replaces
\* it), unless it came while the loop was handling an earlier one or a "wb"
\* that waits for serial data holds the loop.
FrameServed ==
    \A f \in 1..MaxFrames :
        (slot.id = f /\ ~slot.handling /\ sgRxAuto) ~> (slot.id # f \/ ~sgRxAuto \/ pc = "wb")
=============================================================================
