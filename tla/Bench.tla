-------------------------------- MODULE Bench --------------------------------
(***************************************************************************)
(* The test program on the bench: it finds the serial ports of its two     *)
(* boards, writes the boot loader and the test program into the target and *)
(* opens the target's port, by shell commands that unload and load the USB *)
(* serial drivers around FTDI tools that drive the boards' reset and test  *)
(* pins. The tools need the drivers unloaded, the serial ports need them   *)
(* loaded. A command or a tool may fail, the program may be killed between *)
(* any two commands, and what it left is where the next one starts.        *)
(*                                                                         *)
(* A procedure of the program is a sequence of commands, each either       *)
(* checked (a failure returns from the procedure) or not; a task is a      *)
(* sequence of procedure calls, each either strict (a failure ends the     *)
(* task) or not. The program's place in its task is a call and a command   *)
(* of it.                                                                  *)
(***************************************************************************)
EXTENDS Naturals, Sequences

Boards  == {"target", "tester"}
Ports   == {"ttyUSB0", "ttyUSB1"}
NoPort  == "nil"
Modes   == {"run", "reset", "boot"}
Images  == {"own", "broken", "test"}
Drivers == {"usbserial", "ftdi_sio"}
Tasks   == {"GetComPort", "Power", "Write", "Talk", "Radio"}
Holders == {"task",      \* the task at work
            "left"}      \* nobody: an exception skipped sp.close
Faults  == {"loud",      \* a command or a conversation failed of its own
            "silent",    \* a tool did nothing and exited with 0
            "stuck",     \* rmmod failed of its own, and nobody looked
            "held",      \* rmmod was refused for a port an exception left open
            "halt"}      \* Ctrl-C (@@halt)
Reports == {"none", "OK", "fail", "nil", "died"}

VARIABLES loaded,   \* the drivers in the kernel
          mode,     \* what the pins of each board make it do
          image,    \* the program in each board's Flash
          loader,   \* the target has a working boot loader
          wired,    \* the port each board really is
          com,      \* @@com_target and @@com_tester
          open,     \* who keeps a serial port of the program open
          phase,    \* the program is "off", at its menu or "busy" with a task
          task,     \* the task, or the last one
          step,     \* the call of the task ...
          cmd,      \* ... and the command of the call it is at
          report,   \* what the task came to
          faults    \* history: what went wrong since the power was last set up

benchVars   == <<loaded, mode, image, loader, wired>>
programVars == <<com, open, phase, task, step, cmd, report>>
allVars     == <<benchVars, programVars, faults>>

-----------------------------------------------------------------------------
(* The procedures.                                                         *)

Cmd(do, on, checked) == [do |-> do, on |-> on, checked |-> checked]
Call(cmds, strict)   == [cmds |-> cmds, strict |-> strict]

Unload == <<Cmd("rmmod", "ftdi_sio", FALSE), Cmd("rmmod", "usbserial", FALSE)>>

\* The drivers are unloaded, a tool takes the board to another mode, the
\* drivers are loaded.
Around(tool, b) ==
    << Cmd("rmmod", "ftdi_sio", FALSE), Cmd("rmmod", "usbserial", FALSE),
       Cmd(tool, b, TRUE),
       Cmd("insmod", "usbserial", TRUE), Cmd("insmod", "ftdi_sio", TRUE) >>

\* Mutation: the drivers are expected to be there.
SetResetStrict(b) ==
    << Cmd("rmmod", "ftdi_sio", TRUE), Cmd("rmmod", "usbserial", TRUE),
       Cmd("reset", b, TRUE),
       Cmd("insmod", "usbserial", TRUE), Cmd("insmod", "ftdi_sio", TRUE) >>

SetReset(b)    == Around("reset", b)
SetBootmode(b) == Around("bootmode", b)

\* Mutation: the last reset is not checked.
ProgWriteResetUnchecked(b) ==
    << Cmd("rmmod", "ftdi_sio", FALSE), Cmd("rmmod", "usbserial", FALSE),
       Cmd("bootmode", b, TRUE),
       Cmd("insmod", "usbserial", TRUE), Cmd("insmod", "ftdi_sio", TRUE),
       Cmd("stty", b, TRUE), Cmd("sx", b, TRUE),
       Cmd("rmmod", "ftdi_sio", TRUE), Cmd("rmmod", "usbserial", TRUE),
       Cmd("reset", b, FALSE),
       Cmd("insmod", "usbserial", TRUE), Cmd("insmod", "ftdi_sio", TRUE) >>

\* Mutation: the transfer is not checked.
ProgWriteSxUnchecked(b) ==
    << Cmd("rmmod", "ftdi_sio", FALSE), Cmd("rmmod", "usbserial", FALSE),
       Cmd("bootmode", b, TRUE),
       Cmd("insmod", "usbserial", TRUE), Cmd("insmod", "ftdi_sio", TRUE),
       Cmd("stty", b, TRUE), Cmd("sx", b, FALSE),
       Cmd("rmmod", "ftdi_sio", TRUE), Cmd("rmmod", "usbserial", TRUE),
       Cmd("reset", b, TRUE),
       Cmd("insmod", "usbserial", TRUE), Cmd("insmod", "ftdi_sio", TRUE) >>

\* It begins with set_bootmode() and ends with a reset that expects the drivers.
ProgWrite(b) ==
    << Cmd("rmmod", "ftdi_sio", FALSE), Cmd("rmmod", "usbserial", FALSE),
       Cmd("bootmode", b, TRUE),
       Cmd("insmod", "usbserial", TRUE), Cmd("insmod", "ftdi_sio", TRUE),
       Cmd("stty", b, TRUE), Cmd("sx", b, TRUE),
       Cmd("rmmod", "ftdi_sio", TRUE), Cmd("rmmod", "usbserial", TRUE),
       Cmd("reset", b, TRUE),
       Cmd("insmod", "usbserial", TRUE), Cmd("insmod", "ftdi_sio", TRUE) >>

BootWrite(b) ==
    << Cmd("rmmod", "ftdi_sio", FALSE), Cmd("rmmod", "usbserial", FALSE),
       Cmd("bootwriter", b, TRUE) >>

GetComPort == << Call(SetBootmode("tester"), FALSE),
                 Call(<<Cmd("listen", "ports", TRUE)>>, FALSE),
                 Call(SetReset("target"), FALSE),
                 Call(SetReset("tester"), FALSE) >>

\* A conversation with board b; judged if it can fail the task.
Converse(b, judged) == << Cmd("open", b, TRUE), Cmd("close", b, judged) >>

\* Mutation: the tester is not reset.
PowerNoReset == << Call(Converse("tester", FALSE), TRUE) >>

Power == << Call(SetReset("tester"), FALSE), Call(Converse("tester", FALSE), TRUE) >>
Write == << Call(BootWrite("target"), TRUE), Call(ProgWrite("target"), TRUE) >>

\* iotest() and then baud(), which fails for nothing the target says.
Talk  == << Call(Unload, FALSE),
            Call(SetReset("target"), FALSE), Call(Converse("target", TRUE), TRUE),
            Call(SetReset("target"), FALSE), Call(Converse("target", FALSE), TRUE) >>

\* calib() and the radio tests, which leave drivers and pins alone.
RadioTests == << Call(<<Cmd("radio", "target", TRUE)>>, TRUE) >>

Calls(t) ==
    CASE t = "GetComPort" -> GetComPort
      [] t = "Power"      -> Power
      [] t = "Write"      -> Write
      [] t = "Talk"       -> Talk
      [] t = "Radio"      -> RadioTests

-----------------------------------------------------------------------------
(* Sequencing.                                                             *)

Done   == step > Len(Calls(task))
This   == Calls(task)[step]
Now    == This.cmds[cmd]
At(do) == phase = "busy" /\ ~Done /\ Now.do = do

NextCall == step' = step + 1 /\ cmd' = 1 /\ UNCHANGED <<phase, report>>

NextCmd ==
    IF cmd = Len(This.cmds) THEN NextCall
                            ELSE cmd' = cmd + 1 /\ UNCHANGED <<step, phase, report>>

Leave(r) ==
    /\ phase' = IF r \in {"none", "nil", "died"} THEN "off" ELSE "menu"
    /\ report' = r
    /\ step' = 1 /\ cmd' = 1

\* The current command ends, well (ok) or not.
Proceed(ok) ==
    \/ (ok \/ ~Now.checked) /\ NextCmd
    \/ ~ok /\ Now.checked /\ ~This.strict /\ NextCall
    \/ ~ok /\ Now.checked /\ This.strict /\ Leave("fail")

Blame(f) == faults' = faults \cup {f}

-----------------------------------------------------------------------------
(* The commands.                                                           *)

\* rmmod refuses a driver that is not loaded or is in use, by another driver or
\* by an open port, and may fail of its own.
Rmmod ==
    /\ At("rmmod")
    /\ LET used == IF Now.on = "usbserial" THEN "ftdi_sio" \in loaded ELSE open # {}
       IN \/ /\ Now.on \in loaded /\ ~used
             /\ loaded' = loaded \ {Now.on}
             /\ Proceed(TRUE)
             /\ UNCHANGED faults
          \/ /\ Now.on \notin loaded \/ used
             /\ Proceed(FALSE)
             /\ IF Now.on = "ftdi_sio" /\ "left" \in open THEN Blame("held") ELSE UNCHANGED faults
             /\ UNCHANGED loaded
          \/ /\ Now.on \in loaded
             /\ Proceed(FALSE)
             /\ Blame("stuck")
             /\ UNCHANGED loaded
    /\ UNCHANGED <<mode, image, loader, wired, com, open, task>>

\* insmod refuses a driver that is loaded or lacks the one it needs.
Insmod ==
    /\ At("insmod")
    /\ LET ok == /\ Now.on \notin loaded
                 /\ Now.on = "ftdi_sio" => "usbserial" \in loaded
       IN /\ loaded' = IF ok THEN loaded \cup {Now.on} ELSE loaded
          /\ Proceed(ok)
    /\ UNCHANGED <<mode, image, loader, wired, com, open, task, faults>>

\* An FTDI tool that takes a board to mode m: exit 0 when the pins took the
\* three values; 3 when no device could be opened and read, which is so while
\* ftdi_sio is loaded; 4 when a value after the first was refused, the chip
\* held in reset. When the devices cannot be listed or the first value is
\* refused, it exits with 0 and has done nothing.
Tool(m) ==
    /\ \/ /\ "ftdi_sio" \in loaded
          /\ Proceed(FALSE)
          /\ UNCHANGED <<mode, faults>>
       \/ /\ "ftdi_sio" \notin loaded
          /\ mode' = [mode EXCEPT ![Now.on] = m]
          /\ Proceed(TRUE)
          /\ UNCHANGED faults
       \/ /\ "ftdi_sio" \notin loaded
          /\ mode' \in {mode, [mode EXCEPT ![Now.on] = "reset"]}
          /\ Proceed(FALSE)
          /\ Blame("loud")
       \/ /\ Proceed(TRUE)
          /\ Blame("silent")
          /\ UNCHANGED mode
    /\ UNCHANGED <<loaded, image, loader, wired, com, open, task>>

Reset    == At("reset") /\ Tool("run")
Bootmode == At("bootmode") /\ Tool("boot")

\* The bootwriter tool writes the loader through the debug pins.
BootWriter ==
    /\ At("bootwriter")
    /\ \/ /\ "ftdi_sio" \in loaded
          /\ Proceed(FALSE)
          /\ UNCHANGED <<mode, loader, faults>>
       \/ /\ "ftdi_sio" \notin loaded
          /\ mode' \in {[mode EXCEPT ![Now.on] = m] : m \in Modes}
          /\ \/ loader' = TRUE /\ Proceed(TRUE) /\ UNCHANGED faults
             \/ loader' \in {loader, FALSE} /\ Proceed(FALSE) /\ Blame("loud")
    /\ UNCHANGED <<loaded, image, wired, com, open, task>>

\* stty and every later use of a port need the port to exist.
Stty ==
    /\ At("stty")
    /\ Proceed("ftdi_sio" \in loaded)
    /\ UNCHANGED <<benchVars, com, open, task, faults>>

\* The boot loader answers: it says "C" and takes a program over XMODEM.
Loads(b) == mode[b] = "boot" /\ (b = "target" => loader)

\* sx sends the program to whichever board is at the port. It gives up on one
\* that does not answer; a transfer that breaks off leaves half a program.
Sx ==
    /\ At("sx")
    /\ \/ \E b \in Boards :
            /\ "ftdi_sio" \in loaded
            /\ wired[b] = com[Now.on]
            /\ Loads(b)
            /\ \/ image' = [image EXCEPT ![b] = "test"] /\ Proceed(TRUE) /\ UNCHANGED faults
               \/ image' = [image EXCEPT ![b] = "broken"] /\ Proceed(FALSE) /\ Blame("loud")
       \/ /\ ~ \E b \in Boards : wired[b] = com[Now.on] /\ Loads(b)
          /\ Proceed(FALSE)
          /\ UNCHANGED <<image, faults>>
    /\ UNCHANGED <<loaded, mode, loader, wired, com, open, task>>

\* SerialPort.new of a port that does not exist raises an exception nobody
\* rescues.
Open ==
    /\ At("open")
    /\ IF "ftdi_sio" \in loaded
         THEN open' = open \cup {"task"} /\ Proceed(TRUE)
         ELSE open' = {} /\ Leave("died")
    /\ UNCHANGED <<benchVars, com, task, faults>>

\* The conversation is over, and sp.close() closes the port also where the task
\* failed. An exception, say over an answer that did not come, ends the program.
Close ==
    /\ At("close")
    /\ \/ Proceed(TRUE) /\ open' = open \ {"task"} /\ UNCHANGED faults
       \/ Proceed(FALSE) /\ open' = open \ {"task"} /\ Blame("loud")
       \/ Leave("died") /\ open' = {} /\ Blame("loud")
    /\ UNCHANGED <<benchVars, com, task>>

\* Each radio command opens the port, asks and closes it. What the tests come to
\* is not the subject here. Where an answer did not come, "sp.gets().split" of
\* rr() and ra() skips sp.close, and calibration() rescues the exception.
Radio ==
    /\ At("radio")
    /\ \/ "ftdi_sio" \in loaded /\ Proceed(TRUE) /\ UNCHANGED open
       \/ "ftdi_sio" \in loaded /\ Proceed(FALSE) /\ open' \in {open, open \cup {"left"}}
       \/ Leave("died") /\ open' = {}
    /\ UNCHANGED <<benchVars, com, task, faults>>

Other(p) == CHOOSE q \in Ports : q # p

\* The tester is at port p, the target at the other.
TesterAt(p) == [b \in Boards |-> IF b = "tester" THEN p ELSE Other(p)]

\* The ports that say "C".
Heard == {wired[b] : b \in {c \in Boards : Loads(c)}}

\* getComPort() opens both ports and reads them in turn, ttyUSB0 first, until
\* one says "C": that is the tester's. After 100 cycles or a halt it gives up
\* and leaves the ports open.
Listen ==
    /\ At("listen")
    /\ \/ /\ "ftdi_sio" \notin loaded
          /\ Leave("died")
          /\ open' = {}
          /\ UNCHANGED <<com, faults>>
       \/ /\ "ftdi_sio" \in loaded
          /\ \E p \in Heard : /\ "ttyUSB0" \in Heard => p = "ttyUSB0"
                              /\ com' = TesterAt(p)
          /\ Proceed(TRUE)
          /\ UNCHANGED <<open, faults>>
       \/ /\ "ftdi_sio" \in loaded
          /\ \/ Heard = {} /\ UNCHANGED faults
             \/ Blame("halt")
          /\ open' = open \cup {"task"}
          /\ Proceed(FALSE)
          /\ UNCHANGED com
    /\ UNCHANGED <<benchVars, task>>

\* The task is over; setCom() leaves the program when no port was found.
Return ==
    /\ phase = "busy" /\ Done
    /\ IF NoPort \in {com[b] : b \in Boards}
         THEN Leave("nil") /\ open' = {}
         ELSE Leave("OK") /\ UNCHANGED open
    /\ UNCHANGED <<benchVars, com, task, faults>>

-----------------------------------------------------------------------------
(* The program is started, asked for a task, killed.                       *)

NoCom == [b \in Boards |-> NoPort]

Begin(t) ==
    /\ phase' = "busy"
    /\ task' = t
    /\ step' = 1 /\ cmd' = 1
    /\ report' = "none"

Start ==
    /\ phase = "off"
    /\ com' = NoCom
    /\ Begin("GetComPort")
    /\ faults' = {}
    /\ UNCHANGED <<benchVars, open>>

\* The top menu sets up the power before every choice ...
BeginPower ==
    /\ phase = "menu"
    /\ Begin("Power")
    /\ faults' = {}
    /\ UNCHANGED <<benchVars, com, open>>

\* ... and goes on without it as long as the tasks of a choice succeed.
BeginWrite ==
    /\ phase = "menu" /\ task # "GetComPort" /\ report = "OK"
    /\ Begin("Write")
    /\ UNCHANGED <<benchVars, com, open, faults>>

BeginTalk ==
    /\ phase = "menu" /\ task # "GetComPort" /\ report = "OK"
    /\ Begin("Talk")
    /\ UNCHANGED <<benchVars, com, open, faults>>

BeginRadio ==
    /\ phase = "menu" /\ task # "GetComPort" /\ report = "OK"
    /\ Begin("Radio")
    /\ UNCHANGED <<benchVars, com, open, faults>>

\* Ruby's garbage collector closes a port nobody refers to, at no set time.
Collect ==
    /\ "left" \in open
    /\ open' = open \ {"left"}
    /\ UNCHANGED <<benchVars, com, phase, task, step, cmd, report, faults>>

\* The program is killed, with the command it is at.
Kill ==
    /\ phase # "off"
    /\ Leave("none") /\ open' = {}
    /\ mode' \in IF (At("reset") \/ At("bootmode")) /\ "ftdi_sio" \notin loaded
                   THEN {mode, [mode EXCEPT ![Now.on] = "reset"]}
                   ELSE {mode}
    /\ loader' \in IF At("bootwriter") THEN {loader, FALSE} ELSE {loader}
    /\ image' \in IF At("sx")
                    THEN {image} \cup {[image EXCEPT ![b] = "broken"] :
                                         b \in {c \in Boards : /\ wired[c] = com[Now.on]
                                                               /\ Loads(c)}}
                    ELSE {image}
    /\ UNCHANGED <<loaded, wired, com, task, faults>>

-----------------------------------------------------------------------------

\* New boards on a bench whose drivers the kernel has loaded.
BenchInit ==
    /\ loaded = Drivers
    /\ mode = [b \in Boards |-> "run"]
    /\ image = [b \in Boards |-> "own"]
    /\ loader \in BOOLEAN
    /\ \E p \in Ports : wired = TesterAt(p)
    /\ com = NoCom
    /\ open = {}
    /\ phase = "off" /\ task = "GetComPort" /\ step = 1 /\ cmd = 1 /\ report = "none"
    /\ faults = {}

Command == \/ Rmmod \/ Insmod \/ Reset \/ Bootmode \/ BootWriter
           \/ Stty \/ Sx \/ Open \/ Close \/ Radio \/ Listen \/ Return
BenchNext == Command \/ Start \/ BeginPower \/ BeginWrite \/ BeginTalk \/ BeginRadio
             \/ Collect \/ Kill

BenchSpec == BenchInit /\ [][BenchNext]_allVars

-----------------------------------------------------------------------------
(* Properties.                                                             *)

\* Every variable has its type: the program is at a command of its task, and
\* no driver is loaded without the one it needs (rmmod, insmod order).
BenchTypeOK ==
    /\ loaded \in {{}, {"usbserial"}, Drivers}
    /\ mode \in [Boards -> Modes]
    /\ image \in [Boards -> Images]
    /\ loader \in BOOLEAN
    /\ wired \in [Boards -> Ports]
    /\ com \in [Boards -> Ports \cup {NoPort}]
    /\ open \subseteq Holders
    /\ phase \in {"off", "menu", "busy"}
    /\ task \in Tasks
    /\ step \in 1..Len(Calls(task)) + 1
    /\ cmd \in 1..(IF Done THEN 1 ELSE Len(This.cmds))
    /\ report \in Reports
    /\ faults \subseteq Faults

Swapped == com # NoCom /\ com # wired

\* When writeprog() reports success, the target holds the test program and a
\* boot loader, whatever an earlier, failed or killed attempt left in it. That
\* the program may have taken the tester's port for the target's matters only
\* where the tester's reset was skipped too, for a driver that stayed loaded.
OkMeansProgrammed ==
    task = "Write" /\ report = "OK" /\ "silent" \notin faults
      /\ (Swapped => faults \cap {"stuck", "held"} = {})
      => image["target"] = "test" /\ loader

\* When a task with the target reports success, the target was left running
\* and its port is there: set_reset() results are ignored by iotest() and
\* baud(), but a set_reset() that failed leaves no port to open, unless it
\* failed for a driver that stayed loaded. writeprog() sees that too.
OkMeansRunning ==
    /\ report = "OK" /\ "silent" \notin faults
    /\ \/ task = "Write"
       \/ task = "Talk" /\ faults \cap {"stuck", "held"} = {}
    => mode["target"] = "run" /\ loaded = Drivers

\* An attempt fails only for a fault of its own: no failure or kill of an
\* earlier one leaves drivers, pins or Flash so that the next one fails, but
\* for two things. Ports are taken for one another, or a port that the
\* exception of an earlier calibration left open holds the driver ("held").
\* The radio tests, which do not prepare the target, are not judged.
FailureIsFresh ==
    report \in {"fail", "died", "nil"} /\ task # "Radio" => faults # {} \/ Swapped

\* The program never overwrites the tester's own program, even where it takes
\* the tester's port for the target's, once the tester's reset was not skipped.
TesterKeepsProgram ==
    [][image'["tester"] # image["tester"]
         => faults \cap {"silent", "stuck", "held"} # {}]_allVars

==============================================================================
