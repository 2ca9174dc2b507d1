---------------------------- MODULE Host_proofs -----------------------------
(***************************************************************************)
(* The host. The bench: what the tasks of the test program leave on it and *)
(* what their reports mean. The I/O test: the verdict on the pins, for any *)
(* number of pairs, any wiring and any number of late answers. Test 09:    *)
(* the timing of its two threads, for every read_timeout shorter than the  *)
(* sleep. Each has an inductive invariant of its own.                      *)
(***************************************************************************)
EXTENDS Bench, IoTest, CarrierSense, TLAPS

-----------------------------------------------------------------------------
(* The bench. The invariant, in parts.                                     *)

Busy         == phase = "busy"
InCall(t, n) == Busy /\ task = t /\ step = n
NoSilence    == "silent" \notin faults
DriverStuck  == faults \cap {"stuck", "held"} # {}
Faultless    == faults = {}
Left(b, m)   == NoSilence => mode[b] = m

\* A reset may also have been skipped for a driver that stayed loaded.
LeftUnlessStuck(b, m) == DriverStuck \/ Left(b, m)

\* The two ports are the two boards', and the program has found both or none.
PortsApart ==
    /\ wired["target"] # wired["tester"]
    /\ com # NoCom => com \in [Boards -> Ports] /\ com["target"] # com["tester"]
    /\ task # "GetComPort" \/ phase = "menu" => com # NoCom

\* A task holds a port while it converses, and getComPort() while it is about to
\* give up; what holds a port holds the driver.
Conversing ==
    \/ InCall("Power", 2) /\ cmd = 2
    \/ (InCall("Talk", 3) \/ InCall("Talk", 5)) /\ cmd = 2

GivingUp == Busy /\ task = "GetComPort" /\ step > 2 /\ com = NoCom

OpenInv ==
    /\ open # {} => loaded = Drivers
    /\ "task" \in open => Conversing \/ GivingUp
    /\ "left" \in open => phase # "off" /\ com # NoCom

\* In a call that reloads the drivers, and takes board b to mode m in between:
\* where they are.
Reloading(b, m) ==
    /\ cmd = 2 => DriverStuck \/ loaded \subseteq {"usbserial"}
    /\ cmd \in {3, 4} => DriverStuck \/ loaded = {}
    /\ cmd = 5 => loaded = {"usbserial"}
    /\ cmd \in {4, 5} => Left(b, m)

\* After such a call: had it failed, the port would not be there.
Reloaded(b, m) ==
    /\ "ftdi_sio" \in loaded => LeftUnlessStuck(b, m)
    /\ Faultless => "ftdi_sio" \in loaded /\ mode[b] = m

\* The board is spoken to.
Spoken(b, m) == loaded = Drivers /\ LeftUnlessStuck(b, m)

GetComPortInv ==
    /\ InCall("GetComPort", 1) => Reloading("tester", "boot")
    /\ InCall("GetComPort", 2) => Reloaded("tester", "boot")
    /\ Busy /\ task = "GetComPort" =>
         /\ step \in {1, 2} => com = NoCom
         /\ step > 2 /\ com = NoCom => ~Faultless

PowerInv ==
    /\ InCall("Power", 1) => Reloading("tester", "run")
    /\ InCall("Power", 2) /\ cmd = 1 => Reloaded("tester", "run")
    /\ InCall("Power", 2) /\ cmd = 2 => Spoken("tester", "run")
    /\ InCall("Power", 3) => loaded = Drivers

\* Since the power was set up the tester runs its own program.
TesterInv ==
    /\ InCall("Power", 3) \/ task \in {"Write", "Talk", "Radio"} => LeftUnlessStuck("tester", "run")
    /\ phase = "menu" /\ task # "GetComPort" /\ report = "OK" => LeftUnlessStuck("tester", "run")

\* The transfer went to the target.
Trusted == NoSilence /\ (Swapped => ~DriverStuck)

WriteInv ==
    /\ InCall("Write", 1) =>
         /\ cmd = 2 => DriverStuck \/ loaded \subseteq {"usbserial"}
         /\ cmd = 3 => DriverStuck \/ loaded = {}
    /\ InCall("Write", 2) =>
         /\ loader
         /\ Reloading("target", "boot")
         /\ cmd \in {6, 7} => Left("target", "boot")
         /\ cmd \in {6, 7, 8} => loaded = Drivers
         /\ cmd = 9 => loaded = {"usbserial"}
         /\ cmd \in {10, 11} => loaded = {}
         /\ cmd = 12 => loaded = {"usbserial"}
         /\ cmd >= 8 /\ Trusted => image["target"] = "test"
         /\ cmd \in {11, 12} => Left("target", "run")
    /\ InCall("Write", 3) =>
         /\ loader /\ loaded = Drivers
         /\ Left("target", "run")
         /\ Trusted => image["target"] = "test"

TalkInv ==
    /\ InCall("Talk", 2) \/ InCall("Talk", 4) => Reloading("target", "run")
    /\ InCall("Talk", 3) \/ InCall("Talk", 5) =>
         /\ cmd = 1 => Reloaded("target", "run")
         /\ cmd = 2 => Spoken("target", "run")
    /\ InCall("Talk", 6) => Spoken("target", "run")

BenchInv ==
    /\ BenchTypeOK
    /\ Busy <=> report = "none" /\ phase # "off"
    /\ report = "fail" => phase = "menu"
    /\ PortsApart /\ OpenInv
    /\ GetComPortInv /\ PowerInv /\ TesterInv /\ WriteInv /\ TalkInv
    /\ OkMeansProgrammed /\ OkMeansRunning /\ FailureIsFresh

-----------------------------------------------------------------------------
(* Where the program is: what the procedures and the tasks consist of, and *)
(* what a command, or the place of one, tells about the other.             *)

Single(do, on) == <<Cmd(do, on, TRUE)>>

LEMMA AroundIs ==
    ASSUME NEW tool, NEW b
    PROVE  LET a == Around(tool, b) IN
           /\ Len(a) = 5
           /\ a[1] = Cmd("rmmod", "ftdi_sio", FALSE) /\ a[2] = Cmd("rmmod", "usbserial", FALSE)
           /\ a[3] = Cmd(tool, b, TRUE)
           /\ a[4] = Cmd("insmod", "usbserial", TRUE) /\ a[5] = Cmd("insmod", "ftdi_sio", TRUE)
BY DEF Around

LEMMA BootWriteIs ==
    ASSUME NEW b
    PROVE  LET w == BootWrite(b) IN
           /\ Len(w) = 3
           /\ w[1] = Cmd("rmmod", "ftdi_sio", FALSE) /\ w[2] = Cmd("rmmod", "usbserial", FALSE)
           /\ w[3] = Cmd("bootwriter", b, TRUE)
BY DEF BootWrite

LEMMA ProgWriteIs ==
    ASSUME NEW b
    PROVE  LET w == ProgWrite(b) IN
           /\ Len(w) = 12
           /\ w[1] = Cmd("rmmod", "ftdi_sio", FALSE) /\ w[2] = Cmd("rmmod", "usbserial", FALSE)
           /\ w[3] = Cmd("bootmode", b, TRUE)
           /\ w[4] = Cmd("insmod", "usbserial", TRUE) /\ w[5] = Cmd("insmod", "ftdi_sio", TRUE)
           /\ w[6] = Cmd("stty", b, TRUE) /\ w[7] = Cmd("sx", b, TRUE)
           /\ w[8] = Cmd("rmmod", "ftdi_sio", TRUE) /\ w[9] = Cmd("rmmod", "usbserial", TRUE)
           /\ w[10] = Cmd("reset", b, TRUE)
           /\ w[11] = Cmd("insmod", "usbserial", TRUE) /\ w[12] = Cmd("insmod", "ftdi_sio", TRUE)
BY DEF ProgWrite

LEMMA UnloadIs ==
    /\ Len(Unload) = 2
    /\ Unload[1] = Cmd("rmmod", "ftdi_sio", FALSE) /\ Unload[2] = Cmd("rmmod", "usbserial", FALSE)
BY DEF Unload

LEMMA ConverseIs ==
    ASSUME NEW b, NEW judged
    PROVE  LET w == Converse(b, judged) IN
           /\ Len(w) = 2
           /\ w[1] = Cmd("open", b, TRUE) /\ w[2] = Cmd("close", b, judged)
BY DEF Converse

Calling(t, n, cmds, strict) == Calls(t)[n].cmds = cmds /\ Calls(t)[n].strict = strict

\* The calls of the tasks.
LEMMA CallTable ==
    /\ /\ Len(Calls("GetComPort")) = 4
       /\ Calling("GetComPort", 1, Around("bootmode", "tester"), FALSE)
       /\ Calling("GetComPort", 2, Single("listen", "ports"), FALSE)
       /\ Calling("GetComPort", 3, Around("reset", "target"), FALSE)
       /\ Calling("GetComPort", 4, Around("reset", "tester"), FALSE)
    /\ /\ Len(Calls("Power")) = 2
       /\ Calling("Power", 1, Around("reset", "tester"), FALSE)
       /\ Calling("Power", 2, Converse("tester", FALSE), TRUE)
    /\ /\ Len(Calls("Write")) = 2
       /\ Calling("Write", 1, BootWrite("target"), TRUE)
       /\ Calling("Write", 2, ProgWrite("target"), TRUE)
    /\ /\ Len(Calls("Talk")) = 5
       /\ Calling("Talk", 1, Unload, FALSE)
       /\ Calling("Talk", 2, Around("reset", "target"), FALSE)
       /\ Calling("Talk", 3, Converse("target", TRUE), TRUE)
       /\ Calling("Talk", 4, Around("reset", "target"), FALSE)
       /\ Calling("Talk", 5, Converse("target", FALSE), TRUE)
    /\ /\ Len(Calls("Radio")) = 1
       /\ Calling("Radio", 1, Single("radio", "target"), TRUE)
BY DEF Calls, GetComPort, Power, Write, Talk, RadioTests, SetReset, SetBootmode, Single, Calling, Call

NowIs(do, on, checked) == Now.do = do /\ Now.on = on /\ Now.checked = checked

InAround(tool, b) ==
    /\ Len(This.cmds) = 5 /\ cmd \in 1..5
    /\ cmd = 1 => NowIs("rmmod", "ftdi_sio", FALSE)
    /\ cmd = 2 => NowIs("rmmod", "usbserial", FALSE)
    /\ cmd = 3 => NowIs(tool, b, TRUE)
    /\ cmd = 4 => NowIs("insmod", "usbserial", TRUE)
    /\ cmd = 5 => NowIs("insmod", "ftdi_sio", TRUE)

InSingle(do, on) == Len(This.cmds) = 1 /\ cmd = 1 /\ NowIs(do, on, TRUE)

InConverse(b, judged) ==
    /\ Len(This.cmds) = 2 /\ cmd \in 1..2
    /\ cmd = 1 => NowIs("open", b, TRUE)
    /\ cmd = 2 => NowIs("close", b, judged)

InUnload ==
    /\ Len(This.cmds) = 2 /\ cmd \in 1..2
    /\ cmd = 1 => NowIs("rmmod", "ftdi_sio", FALSE)
    /\ cmd = 2 => NowIs("rmmod", "usbserial", FALSE)

InBootWrite(b) ==
    /\ Len(This.cmds) = 3 /\ cmd \in 1..3
    /\ cmd = 1 => NowIs("rmmod", "ftdi_sio", FALSE)
    /\ cmd = 2 => NowIs("rmmod", "usbserial", FALSE)
    /\ cmd = 3 => NowIs("bootwriter", b, TRUE)

InProgWrite(b) ==
    /\ Len(This.cmds) = 12 /\ cmd \in 1..12
    /\ cmd = 1 => NowIs("rmmod", "ftdi_sio", FALSE)
    /\ cmd = 2 => NowIs("rmmod", "usbserial", FALSE)
    /\ cmd = 3 => NowIs("bootmode", b, TRUE)
    /\ cmd = 4 => NowIs("insmod", "usbserial", TRUE)
    /\ cmd = 5 => NowIs("insmod", "ftdi_sio", TRUE)
    /\ cmd = 6 => NowIs("stty", b, TRUE)
    /\ cmd = 7 => NowIs("sx", b, TRUE)
    /\ cmd = 8 => NowIs("rmmod", "ftdi_sio", TRUE)
    /\ cmd = 9 => NowIs("rmmod", "usbserial", TRUE)
    /\ cmd = 10 => NowIs("reset", b, TRUE)
    /\ cmd = 11 => NowIs("insmod", "usbserial", TRUE)
    /\ cmd = 12 => NowIs("insmod", "ftdi_sio", TRUE)

\* The command at a place of each procedure ...
LEMMA CommandsAround ==
    ASSUME NEW tool, NEW b, This.cmds = Around(tool, b), cmd \in 1..Len(This.cmds)
    PROVE  InAround(tool, b)
<1>1. Now = Around(tool, b)[cmd] /\ Len(This.cmds) = 5 /\ cmd \in 1..5
  BY AroundIs DEF Now
<1>2. /\ cmd = 1 => Now = Cmd("rmmod", "ftdi_sio", FALSE)
      /\ cmd = 2 => Now = Cmd("rmmod", "usbserial", FALSE)
      /\ cmd = 3 => Now = Cmd(tool, b, TRUE)
      /\ cmd = 4 => Now = Cmd("insmod", "usbserial", TRUE)
      /\ cmd = 5 => Now = Cmd("insmod", "ftdi_sio", TRUE)
  BY <1>1, AroundIs
<1> QED
  BY <1>1, <1>2 DEF InAround, NowIs, Cmd

LEMMA CommandsProgWrite ==
    ASSUME NEW b, This.cmds = ProgWrite(b), cmd \in 1..Len(This.cmds)
    PROVE  InProgWrite(b)
<1>1. Now = ProgWrite(b)[cmd] /\ Len(This.cmds) = 12 /\ cmd \in 1..12
  BY ProgWriteIs DEF Now
<1>2. /\ cmd = 1 => Now = Cmd("rmmod", "ftdi_sio", FALSE)
      /\ cmd = 2 => Now = Cmd("rmmod", "usbserial", FALSE)
      /\ cmd = 3 => Now = Cmd("bootmode", b, TRUE)
      /\ cmd = 4 => Now = Cmd("insmod", "usbserial", TRUE)
      /\ cmd = 5 => Now = Cmd("insmod", "ftdi_sio", TRUE)
      /\ cmd = 6 => Now = Cmd("stty", b, TRUE)
      /\ cmd = 7 => Now = Cmd("sx", b, TRUE)
      /\ cmd = 8 => Now = Cmd("rmmod", "ftdi_sio", TRUE)
      /\ cmd = 9 => Now = Cmd("rmmod", "usbserial", TRUE)
      /\ cmd = 10 => Now = Cmd("reset", b, TRUE)
      /\ cmd = 11 => Now = Cmd("insmod", "usbserial", TRUE)
      /\ cmd = 12 => Now = Cmd("insmod", "ftdi_sio", TRUE)
  BY <1>1, ProgWriteIs
<1> QED
  BY <1>1, <1>2 DEF InProgWrite, NowIs, Cmd

LEMMA CommandsBootWrite ==
    ASSUME NEW b, This.cmds = BootWrite(b), cmd \in 1..Len(This.cmds)
    PROVE  InBootWrite(b)
<1>1. Now = BootWrite(b)[cmd] /\ Len(This.cmds) = 3 /\ cmd \in 1..3
  BY BootWriteIs DEF Now
<1>2. /\ cmd = 1 => Now = Cmd("rmmod", "ftdi_sio", FALSE)
      /\ cmd = 2 => Now = Cmd("rmmod", "usbserial", FALSE)
      /\ cmd = 3 => Now = Cmd("bootwriter", b, TRUE)
  BY <1>1, BootWriteIs
<1> QED
  BY <1>1, <1>2 DEF InBootWrite, NowIs, Cmd

LEMMA CommandsUnload ==
    ASSUME This.cmds = Unload, cmd \in 1..Len(This.cmds)
    PROVE  InUnload
<1>1. Now = Unload[cmd] /\ Len(This.cmds) = 2 /\ cmd \in 1..2
  BY UnloadIs DEF Now
<1>2. /\ cmd = 1 => Now = Cmd("rmmod", "ftdi_sio", FALSE)
      /\ cmd = 2 => Now = Cmd("rmmod", "usbserial", FALSE)
  BY <1>1, UnloadIs
<1> QED
  BY <1>1, <1>2 DEF InUnload, NowIs, Cmd

LEMMA CommandsConverse ==
    ASSUME NEW b, NEW judged, This.cmds = Converse(b, judged), cmd \in 1..Len(This.cmds)
    PROVE  InConverse(b, judged)
<1>1. Now = Converse(b, judged)[cmd] /\ Len(This.cmds) = 2 /\ cmd \in 1..2
  BY ConverseIs DEF Now
<1>2. /\ cmd = 1 => Now = Cmd("open", b, TRUE)
      /\ cmd = 2 => Now = Cmd("close", b, judged)
  BY <1>1, ConverseIs
<1> QED
  BY <1>1, <1>2 DEF InConverse, NowIs, Cmd

LEMMA CommandsSingle ==
    ASSUME NEW do, NEW on, This.cmds = Single(do, on), cmd \in 1..Len(This.cmds)
    PROVE  InSingle(do, on)
BY DEF InSingle, NowIs, Now, Cmd, Single

\* ... and of each task.
LEMMA Commands ==
    ASSUME BenchTypeOK, ~Done
    PROVE  /\ task = "GetComPort" =>
                /\ step \in 1..4 /\ ~This.strict
                /\ step = 1 => InAround("bootmode", "tester")
                /\ step = 2 => InSingle("listen", "ports")
                /\ step = 3 => InAround("reset", "target")
                /\ step = 4 => InAround("reset", "tester")
           /\ task = "Power" =>
                /\ step \in 1..2
                /\ step = 1 => ~This.strict /\ InAround("reset", "tester")
                /\ step = 2 => This.strict /\ InConverse("tester", FALSE)
           /\ task = "Write" =>
                /\ step \in 1..2 /\ This.strict
                /\ step = 1 => InBootWrite("target")
                /\ step = 2 => InProgWrite("target")
           /\ task = "Talk" =>
                /\ step \in 1..5
                /\ step = 1 => ~This.strict /\ InUnload
                /\ step \in {2, 4} => ~This.strict /\ InAround("reset", "target")
                /\ step = 3 => This.strict /\ InConverse("target", TRUE)
                /\ step = 5 => This.strict /\ InConverse("target", FALSE)
           /\ task = "Radio" => step = 1 /\ This.strict /\ InSingle("radio", "target")
<1>1. cmd \in 1..Len(This.cmds) /\ step \in 1..Len(Calls(task)) /\ task \in Tasks
  BY DEF BenchTypeOK, Done
<1>2. CASE task = "GetComPort"
  <2>1. step \in 1..4
    BY <1>1, <1>2, CallTable
  <2>2. step = 1 => This.cmds = Around("bootmode", "tester") /\ This.strict = FALSE
    BY <1>2, CallTable DEF This, Calling
  <2>3. step = 1 => InAround("bootmode", "tester")
    BY <1>1, <2>2, CommandsAround
  <2>4. step = 2 => This.cmds = Single("listen", "ports") /\ This.strict = FALSE
    BY <1>2, CallTable DEF This, Calling
  <2>5. step = 2 => InSingle("listen", "ports")
    BY <1>1, <2>4, CommandsSingle
  <2>6. step = 3 => This.cmds = Around("reset", "target") /\ This.strict = FALSE
    BY <1>2, CallTable DEF This, Calling
  <2>7. step = 3 => InAround("reset", "target")
    BY <1>1, <2>6, CommandsAround
  <2>8. step = 4 => This.cmds = Around("reset", "tester") /\ This.strict = FALSE
    BY <1>2, CallTable DEF This, Calling
  <2>9. step = 4 => InAround("reset", "tester")
    BY <1>1, <2>8, CommandsAround
  <2> QED
    BY <1>2, <2>1, <2>2, <2>3, <2>4, <2>5, <2>6, <2>7, <2>8, <2>9
<1>3. CASE task = "Power"
  <2>1. step \in 1..2
    BY <1>1, <1>3, CallTable
  <2>2. step = 1 => This.cmds = Around("reset", "tester") /\ This.strict = FALSE
    BY <1>3, CallTable DEF This, Calling
  <2>3. step = 1 => InAround("reset", "tester")
    BY <1>1, <2>2, CommandsAround
  <2>4. step = 2 => This.cmds = Converse("tester", FALSE) /\ This.strict = TRUE
    BY <1>3, CallTable DEF This, Calling
  <2>5. step = 2 => InConverse("tester", FALSE)
    BY <1>1, <2>4, CommandsConverse
  <2> QED
    BY <1>3, <2>1, <2>2, <2>3, <2>4, <2>5
<1>4. CASE task = "Write"
  <2>1. step \in 1..2
    BY <1>1, <1>4, CallTable
  <2>2. step = 1 => This.cmds = BootWrite("target") /\ This.strict = TRUE
    BY <1>4, CallTable DEF This, Calling
  <2>3. step = 1 => InBootWrite("target")
    BY <1>1, <2>2, CommandsBootWrite
  <2>4. step = 2 => This.cmds = ProgWrite("target") /\ This.strict = TRUE
    BY <1>4, CallTable DEF This, Calling
  <2>5. step = 2 => InProgWrite("target")
    BY <1>1, <2>4, CommandsProgWrite
  <2> QED
    BY <1>4, <2>1, <2>2, <2>3, <2>4, <2>5
<1>5. CASE task = "Talk"
  <2>1. step \in 1..5
    BY <1>1, <1>5, CallTable
  <2>2. step = 1 => This.cmds = Unload /\ This.strict = FALSE
    BY <1>5, CallTable DEF This, Calling
  <2>3. step = 1 => InUnload
    BY <1>1, <2>2, CommandsUnload
  <2>4. step = 2 => This.cmds = Around("reset", "target") /\ This.strict = FALSE
    BY <1>5, CallTable DEF This, Calling
  <2>5. step = 2 => InAround("reset", "target")
    BY <1>1, <2>4, CommandsAround
  <2>6. step = 3 => This.cmds = Converse("target", TRUE) /\ This.strict = TRUE
    BY <1>5, CallTable DEF This, Calling
  <2>7. step = 3 => InConverse("target", TRUE)
    BY <1>1, <2>6, CommandsConverse
  <2>8. step = 4 => This.cmds = Around("reset", "target") /\ This.strict = FALSE
    BY <1>5, CallTable DEF This, Calling
  <2>9. step = 4 => InAround("reset", "target")
    BY <1>1, <2>8, CommandsAround
  <2>10. step = 5 => This.cmds = Converse("target", FALSE) /\ This.strict = TRUE
    BY <1>5, CallTable DEF This, Calling
  <2>11. step = 5 => InConverse("target", FALSE)
    BY <1>1, <2>10, CommandsConverse
  <2> QED
    BY <1>5, <2>1, <2>2, <2>3, <2>4, <2>5, <2>6, <2>7, <2>8, <2>9, <2>10, <2>11
<1>6. CASE task = "Radio"
  <2>1. step = 1
    BY <1>1, <1>6, CallTable
  <2>2. This.cmds = Single("radio", "target") /\ This.strict = TRUE
    BY <1>6, <2>1, CallTable DEF This, Calling
  <2> QED
    BY <1>1, <1>6, <2>1, <2>2, CommandsSingle
<1> QED
  BY <1>1, <1>2, <1>3, <1>4, <1>5, <1>6 DEF Tasks

Last == cmd = Len(This.cmds)

\* A command of each kind tells where in its call it is.
LEMMA AroundDecoded ==
    ASSUME NEW tool \in {"reset", "bootmode"}, NEW b, InAround(tool, b)
    PROVE  /\ (Last <=> cmd = 5) /\ cmd \in 1..5
           /\ Now.checked <=> cmd \in 3..5
           /\ Now.do = "rmmod" => \/ cmd = 1 /\ Now.on = "ftdi_sio"
                                  \/ cmd = 2 /\ Now.on = "usbserial"
           /\ Now.do = tool => cmd = 3 /\ Now.on = b
           /\ Now.do = "insmod" => \/ cmd = 4 /\ Now.on = "usbserial"
                                   \/ cmd = 5 /\ Now.on = "ftdi_sio"
           /\ Now.do \in {"rmmod", tool, "insmod"}
<1>1. (Last <=> cmd = 5) /\ cmd \in 1..5
  BY DEF InAround, Last
<1>2. CASE cmd \in {1, 2}
  BY <1>1, <1>2 DEF InAround, NowIs
<1>3. CASE cmd = 3
  BY <1>1, <1>3 DEF InAround, NowIs
<1>4. CASE cmd \in {4, 5}
  BY <1>1, <1>4 DEF InAround, NowIs
<1> QED
  BY <1>1, <1>2, <1>3, <1>4

LEMMA UnloadDecoded ==
    ASSUME InUnload
    PROVE  /\ (Last <=> cmd = 2) /\ cmd \in 1..2 /\ ~Now.checked /\ Now.do = "rmmod"
           /\ \/ cmd = 1 /\ Now.on = "ftdi_sio"
              \/ cmd = 2 /\ Now.on = "usbserial"
BY DEF InUnload, NowIs, Last

LEMMA BootWriteDecoded ==
    ASSUME NEW b, InBootWrite(b)
    PROVE  /\ (Last <=> cmd = 3) /\ cmd \in 1..3
           /\ Now.checked <=> cmd = 3
           /\ Now.do = "rmmod" => \/ cmd = 1 /\ Now.on = "ftdi_sio"
                                  \/ cmd = 2 /\ Now.on = "usbserial"
           /\ Now.do = "bootwriter" => cmd = 3 /\ Now.on = b
           /\ Now.do \in {"rmmod", "bootwriter"}
<1>1. (Last <=> cmd = 3) /\ cmd \in 1..3
  BY DEF InBootWrite, Last
<1>2. CASE cmd \in {1, 2}
  BY <1>1, <1>2 DEF InBootWrite, NowIs
<1>3. CASE cmd = 3
  BY <1>1, <1>3 DEF InBootWrite, NowIs
<1> QED
  BY <1>1, <1>2, <1>3

LEMMA ProgWriteDecoded ==
    ASSUME NEW b, InProgWrite(b)
    PROVE  /\ (Last <=> cmd = 12) /\ cmd \in 1..12
           /\ Now.checked <=> cmd \in 3..12
           /\ Now.do = "rmmod" => \/ cmd \in {1, 8} /\ Now.on = "ftdi_sio"
                                  \/ cmd \in {2, 9} /\ Now.on = "usbserial"
           /\ Now.do = "bootmode" => cmd = 3 /\ Now.on = b
           /\ Now.do = "insmod" => \/ cmd \in {4, 11} /\ Now.on = "usbserial"
                                   \/ cmd \in {5, 12} /\ Now.on = "ftdi_sio"
           /\ Now.do = "stty" => cmd = 6 /\ Now.on = b
           /\ Now.do = "sx" => cmd = 7 /\ Now.on = b
           /\ Now.do = "reset" => cmd = 10 /\ Now.on = b
           /\ Now.do \in {"rmmod", "bootmode", "insmod", "stty", "sx", "reset"}
<1>1. (Last <=> cmd = 12) /\ cmd \in 1..12
  BY DEF InProgWrite, Last
<1>2. CASE cmd \in {1, 2, 3}
  BY <1>1, <1>2 DEF InProgWrite, NowIs
<1>3. CASE cmd \in {4, 5, 6}
  BY <1>1, <1>3 DEF InProgWrite, NowIs
<1>4. CASE cmd \in {7, 8, 9}
  BY <1>1, <1>4 DEF InProgWrite, NowIs
<1>5. CASE cmd \in {10, 11, 12}
  BY <1>1, <1>5 DEF InProgWrite, NowIs
<1> QED
  BY <1>1, <1>2, <1>3, <1>4, <1>5

LEMMA SingleDecoded ==
    ASSUME NEW do, NEW on, InSingle(do, on)
    PROVE  Last /\ cmd = 1 /\ Now.do = do /\ Now.on = on /\ Now.checked
BY DEF InSingle, NowIs, Last

LEMMA ConverseDecoded ==
    ASSUME NEW b, NEW judged \in BOOLEAN, InConverse(b, judged)
    PROVE  /\ (Last <=> cmd = 2) /\ cmd \in 1..2
           /\ Now.do = "open" => cmd = 1 /\ Now.checked
           /\ Now.do = "close" => cmd = 2 /\ (Now.checked <=> judged)
           /\ Now.do \in {"open", "close"}
<1>1. (Last <=> cmd = 2) /\ cmd \in 1..2
  BY DEF InConverse, Last
<1>2. CASE cmd = 1
  BY <1>1, <1>2 DEF InConverse, NowIs
<1>3. CASE cmd = 2
  BY <1>1, <1>3 DEF InConverse, NowIs
<1> QED
  BY <1>1, <1>2, <1>3

PlaceOK ==
    /\ step \in 1..Len(Calls(task)) + 1
    /\ cmd \in 1..(IF Done THEN 1 ELSE Len(This.cmds))

LEMMA Lengths ==
    /\ Len(Around("bootmode", "tester")) = 5
    /\ Len(Around("reset", "target")) = 5
    /\ Len(Around("reset", "tester")) = 5
    /\ Len(BootWrite("target")) = 3 /\ Len(ProgWrite("target")) = 12 /\ Len(Unload) = 2
    /\ \A b \in Boards, judged \in BOOLEAN : Len(Converse(b, judged)) = 2
BY AroundIs, BootWriteIs, ProgWriteIs, UnloadIs, ConverseIs

\* Every task has a call and every call a command, so a first place is a place.
LEMMA NoneEmpty ==
    ASSUME NEW t \in Tasks
    PROVE  /\ Len(Calls(t)) \in Nat \ {0}
           /\ \A n \in 1..Len(Calls(t)) : Len(Calls(t)[n].cmds) \in Nat \ {0}
<1>1. Len(Calls(t)) \in 1..5
  BY CallTable DEF Tasks
<1> SUFFICES ASSUME NEW n \in 1..Len(Calls(t))
             PROVE  Len(Calls(t)[n].cmds) \in Nat \ {0}
  BY <1>1
<1> USE DEF Calling
<1>2. CASE t = "GetComPort"
  <2>1. n \in 1..4
    BY <1>2, CallTable
  <2>2. CASE n = 1
    BY <1>2, <2>2, CallTable, Lengths
  <2>3. CASE n = 2
    BY <1>2, <2>3, CallTable DEF Single
  <2>4. CASE n = 3
    BY <1>2, <2>4, CallTable, Lengths
  <2>5. CASE n = 4
    BY <1>2, <2>5, CallTable, Lengths
  <2> QED
    BY <2>1, <2>2, <2>3, <2>4, <2>5
<1>3. CASE t = "Power"
  <2>1. n \in 1..2
    BY <1>3, CallTable
  <2>2. CASE n = 1
    BY <1>3, <2>2, CallTable, Lengths
  <2>3. CASE n = 2
    <3>1. Calls(t)[n].cmds = Converse("tester", FALSE)
      BY <1>3, <2>3, CallTable
    <3>2. Len(Calls(t)[n].cmds) = 2
      BY <3>1, ConverseIs
    <3> QED
      BY <3>2
  <2> QED
    BY <2>1, <2>2, <2>3
<1>4. CASE t = "Write"
  <2>1. n \in 1..2
    BY <1>4, CallTable
  <2>2. CASE n = 1
    <3>1. Calls(t)[n].cmds = BootWrite("target")
      BY <1>4, <2>2, CallTable
    <3>2. Len(Calls(t)[n].cmds) = 3
      BY <3>1, Lengths
    <3> QED
      BY <3>2
  <2>3. CASE n = 2
    <3>1. Calls(t)[n].cmds = ProgWrite("target")
      BY <1>4, <2>3, CallTable
    <3>2. Len(Calls(t)[n].cmds) = 12
      BY <3>1, Lengths
    <3> QED
      BY <3>2
  <2> QED
    BY <2>1, <2>2, <2>3
<1>5. CASE t = "Talk"
  <2>1. n \in 1..5
    BY <1>5, CallTable
  <2>2. CASE n = 1
    BY <1>5, <2>2, CallTable, Lengths
  <2>3. CASE n = 2
    BY <1>5, <2>3, CallTable, Lengths
  <2>4. CASE n = 3
    <3>1. Calls(t)[n].cmds = Converse("target", TRUE)
      BY <1>5, <2>4, CallTable
    <3>2. Len(Calls(t)[n].cmds) = 2
      BY <3>1, ConverseIs
    <3> QED
      BY <3>2
  <2>5. CASE n = 4
    BY <1>5, <2>5, CallTable, Lengths
  <2>6. CASE n = 5
    <3>1. Calls(t)[n].cmds = Converse("target", FALSE)
      BY <1>5, <2>6, CallTable
    <3>2. Len(Calls(t)[n].cmds) = 2
      BY <3>1, ConverseIs
    <3> QED
      BY <3>2
  <2> QED
    BY <2>1, <2>2, <2>3, <2>4, <2>5, <2>6
<1>6. CASE t = "Radio"
  <2>1. n = 1
    <3>1. Len(Calls(t)) = 1
      BY <1>6, CallTable
    <3> QED
      BY <3>1
  <2> QED
    BY <1>6, <2>1, CallTable DEF Single
<1> QED
  BY <1>2, <1>3, <1>4, <1>5, <1>6 DEF Tasks

LEMMA FirstPlace ==
    ASSUME task' \in Tasks, step' = 1, cmd' = 1
    PROVE  PlaceOK'
<1>1. ~Done' /\ Len(This.cmds)' \in Nat \ {0} /\ Len(Calls(task'))  \in Nat
  BY NoneEmpty DEF Done, This
<1> QED
  BY <1>1 DEF PlaceOK, Done, This

\* Where a command that ended leads.
LEMMA Proceeds ==
    ASSUME BenchTypeOK, Busy, ~Done, task' = task, NEW ok \in BOOLEAN, Proceed(ok)
    PROVE  /\ PlaceOK'
           /\ \/ /\ ok \/ ~Now.checked
                 /\ ~Last
                 /\ step' = step /\ cmd' = cmd + 1
                 /\ phase' = phase /\ report' = report
              \/ /\ \/ (ok \/ ~Now.checked) /\ Last
                    \/ ~ok /\ Now.checked /\ ~This.strict
                 /\ step' = step + 1 /\ cmd' = 1
                 /\ phase' = phase /\ report' = report
              \/ /\ ~ok /\ Now.checked /\ This.strict
                 /\ step' = 1 /\ cmd' = 1
                 /\ phase' = "menu" /\ report' = "fail"
<1>1. /\ task \in Tasks /\ step \in 1..Len(Calls(task)) /\ cmd \in 1..Len(This.cmds)
      /\ Len(Calls(task)) \in Nat /\ Len(This.cmds) \in Nat
  BY NoneEmpty DEF BenchTypeOK, Done, This
<1>2. ASSUME NextCall PROVE PlaceOK'
  <2>1. step' = step + 1 /\ cmd' = 1 /\ phase' = phase /\ report' = report
    BY <1>2 DEF NextCall
  <2>2. step' \in 1..Len(Calls(task)) + 1
    BY <1>1, <2>1
  <2>3. ASSUME ~Done'
        PROVE  Len(Calls(task)[step'].cmds) \in Nat \ {0}
    <3>1. step' \in 1..Len(Calls(task))
      BY <1>1, <2>2, <2>3 DEF Done
    <3> QED
      BY <1>1, <3>1, NoneEmpty
  <2>4. cmd' \in 1..(IF Done' THEN 1 ELSE Len(Calls(task)[step'].cmds))
    BY <2>1, <2>3
  <2> QED
    BY <2>1, <2>2, <2>4 DEF PlaceOK, Done, This
<1>3. ASSUME cmd # Len(This.cmds), cmd' = cmd + 1, step' = step PROVE PlaceOK'
  <2>1. cmd' \in 1..Len(This.cmds)
    BY <1>1, <1>3
  <2>2. step' = step /\ ~Done' /\ This' = This
    BY <1>3 DEF Done, This
  <2> QED
    BY <1>1, <2>1, <2>2 DEF PlaceOK
<1>4. ASSUME Leave("fail") PROVE PlaceOK'
  BY <1>1, <1>4, FirstPlace DEF Leave
<1>5. PlaceOK'
  BY <1>2, <1>3, <1>4 DEF Proceed, NextCmd
<1>6. CASE (ok \/ ~Now.checked) /\ NextCmd
  BY <1>5, <1>6 DEF Last, NextCmd, NextCall
<1>7. CASE ~ok /\ Now.checked /\ ~This.strict /\ NextCall
  BY <1>5, <1>7 DEF NextCall
<1>8. CASE ~ok /\ Now.checked /\ This.strict /\ Leave("fail")
  BY <1>5, <1>8 DEF Leave
<1> QED
  BY <1>5, <1>6, <1>7, <1>8 DEF Proceed

-----------------------------------------------------------------------------
(* Each command keeps the invariant.                                       *)

Verdicts == OkMeansProgrammed /\ OkMeansRunning /\ FailureIsFresh
Reporting == (Busy <=> report = "none" /\ phase # "off") /\ (report = "fail" => phase = "menu")

\* A program that goes on with its task has said nothing yet.
LEMMA GoesOn ==
    ASSUME BenchInv, Busy, phase' = phase, report' = report,
           UNCHANGED <<task, wired, com>>
    PROVE  PortsApart' /\ Reporting' /\ Verdicts'
BY DEF BenchInv, PortsApart, Reporting, Verdicts, Busy, OkMeansProgrammed, OkMeansRunning, FailureIsFresh

\* What is said of one task only is nothing about another.
LEMMA OneTaskNext ==
    ASSUME phase' = "busy", task' \in Tasks
    PROVE  /\ task' # "GetComPort" => GetComPortInv'
           /\ task' # "Power" => PowerInv'
           /\ task' # "Write" => WriteInv'
           /\ task' # "Talk" => TalkInv'
           /\ task' = "GetComPort" => TesterInv'
           /\ open' = {} => OpenInv'
BY DEF GetComPortInv, PowerInv, TesterInv, WriteInv, TalkInv, OpenInv, InCall, Busy

\* Only where a task converses, or gives up, does it hold a port.
LEMMA NoTaskPort ==
    ASSUME BenchInv, Busy, ~Done, Now.do # "close", task = "GetComPort" => step <= 2
    PROVE  "task" \notin open
<1>1. BenchTypeOK
  BY DEF BenchInv
<1>2. task = "Power" /\ step = 2 => cmd # 2
  BY <1>1, Commands, ConverseDecoded DEF InConverse, NowIs
<1>3. task = "Talk" /\ step \in {3, 5} => cmd # 2
  <2>1. CASE task = "Talk" /\ step = 3
    BY <1>1, <2>1, Commands DEF InConverse, NowIs
  <2>2. CASE task = "Talk" /\ step = 5
    BY <1>1, <2>2, Commands DEF InConverse, NowIs
  <2> QED
    BY <2>1, <2>2
<1>4. task = "GetComPort" => ~(step > 2)
  <2>1. task = "GetComPort" => step \in 1..4
    BY <1>1, Commands
  <2> QED
    BY <2>1
<1> QED
  BY <1>2, <1>3, <1>4 DEF BenchInv, OpenInv, Conversing, GivingUp, InCall

\* A command that leaves drivers and ports alone.
LEMMA PortsSame ==
    ASSUME BenchInv, "task" \notin open, phase' # "off", UNCHANGED <<open, loaded, com>>
    PROVE  OpenInv'
BY DEF BenchInv, OpenInv

\* What rmmod does.
LEMMA RmmodDoes ==
    ASSUME BenchInv, Rmmod, Now.on \in Drivers
    PROVE  \E ok \in BOOLEAN :
           /\ Proceed(ok)
           /\ BenchTypeOK'
           /\ open # {} => loaded' = loaded
           /\ DriverStuck => DriverStuck'
           /\ NoSilence' <=> NoSilence
           /\ faults' = {} => faults = {}
           /\ "task" \notin open =>
                /\ Now.on = "ftdi_sio" => DriverStuck' \/ loaded' \subseteq {"usbserial"}
                /\ Now.on = "usbserial" /\ (DriverStuck \/ loaded \subseteq {"usbserial"}) => DriverStuck' \/ loaded' = {}
                /\ Now.on = "ftdi_sio" /\ loaded = Drivers => IF ok THEN loaded' = {"usbserial"} ELSE DriverStuck'
                /\ Now.on = "usbserial" /\ loaded = {"usbserial"} => IF ok THEN loaded' = {} ELSE DriverStuck'
<1>1. BenchTypeOK /\ Busy /\ ~Done /\ task' = task
  BY DEF BenchInv, Rmmod, At, Busy
<1>2. UNCHANGED <<mode, image, loader, wired, com, open, task>>
  BY DEF Rmmod
<1>3. /\ loaded \in {{}, {"usbserial"}, {"usbserial", "ftdi_sio"}}
      /\ Now.on \in {"usbserial", "ftdi_sio"}
      /\ faults \subseteq Faults /\ open \subseteq {"task", "left"}
      /\ open # {} => loaded = {"usbserial", "ftdi_sio"}
  BY <1>1 DEF BenchInv, BenchTypeOK, OpenInv, Drivers, Holders
<1> DEFINE used == IF Now.on = "usbserial" THEN "ftdi_sio" \in loaded ELSE open # {}
<1>4. CASE /\ Now.on \in loaded /\ ~used
           /\ loaded' = loaded \ {Now.on}
           /\ Proceed(TRUE)
           /\ UNCHANGED faults
  <2>1. loaded' \in {{}, {"usbserial"}} /\ open = {}
    BY <1>3, <1>4
  <2>2. BenchTypeOK'
    BY <1>1, <1>2, <1>4, <2>1, Proceeds DEF BenchTypeOK, PlaceOK, Drivers, Reports
  <2>3. /\ Now.on = "ftdi_sio" => loaded' \subseteq {"usbserial"}
        /\ Now.on = "usbserial" => loaded' = {}
        /\ Now.on = "ftdi_sio" /\ loaded = {"usbserial", "ftdi_sio"} => loaded' = {"usbserial"}
    BY <1>3, <1>4
  <2> QED
    BY <1>4, <2>1, <2>2, <2>3 DEF DriverStuck, NoSilence, Drivers
<1>5. ASSUME Proceed(FALSE), UNCHANGED loaded, faults' \subseteq Faults,
             faults \subseteq faults', NoSilence' <=> NoSilence
      PROVE  BenchTypeOK' /\ (DriverStuck => DriverStuck') /\ (faults' = {} => faults = {})
  <2>1. BenchTypeOK'
    BY <1>1, <1>2, <1>5, Proceeds DEF BenchTypeOK, PlaceOK, Reports
  <2> QED
    BY <1>5, <2>1 DEF DriverStuck
<1>6. CASE /\ Now.on \notin loaded \/ used
           /\ Proceed(FALSE)
           /\ IF Now.on = "ftdi_sio" /\ "left" \in open THEN Blame("held") ELSE UNCHANGED faults
           /\ UNCHANGED loaded
  <2>1. CASE Now.on = "ftdi_sio" /\ "left" \in open
    <3>1. faults' \subseteq Faults /\ faults \subseteq faults' /\ (NoSilence' <=> NoSilence) /\ DriverStuck'
      <4>1. faults' = faults \cup {"held"}
        BY <1>6, <2>1 DEF Blame
      <4> QED
        BY <1>3, <4>1 DEF Faults, NoSilence, DriverStuck
    <3> QED
      BY <1>3, <1>5, <1>6, <2>1, <3>1
  <2>2. CASE ~(Now.on = "ftdi_sio" /\ "left" \in open)
    <3>1. faults' = faults /\ (NoSilence' <=> NoSilence) /\ (DriverStuck' <=> DriverStuck)
      BY <1>6, <2>2 DEF NoSilence, DriverStuck
    <3>2. BenchTypeOK'
      BY <1>3, <1>5, <1>6, <3>1
    <3>3. CASE Now.on = "ftdi_sio"
      <4>1. "task" \notin open => loaded \in {{}, {"usbserial"}}
        BY <1>3, <1>6, <2>2, <3>3
      <4>2. "task" \notin open => loaded \subseteq {"usbserial"} /\ loaded # {"usbserial", "ftdi_sio"}
        BY <4>1
      <4> QED
        BY <1>6, <3>1, <3>2, <3>3, <4>2 DEF Drivers
    <3>4. CASE Now.on = "usbserial"
      <4>1. loaded \in {{}, {"usbserial", "ftdi_sio"}}
        BY <1>3, <1>6, <3>4
      <4>2. loaded # {"usbserial"} /\ (loaded \subseteq {"usbserial"} => loaded = {})
        BY <4>1
      <4> QED
        BY <1>6, <3>1, <3>2, <3>4, <4>2 DEF Drivers
    <3> QED
      BY <1>3, <3>3, <3>4
  <2> QED
    BY <2>1, <2>2
<1>7. CASE /\ Now.on \in loaded
           /\ Proceed(FALSE)
           /\ Blame("stuck")
           /\ UNCHANGED loaded
  <2>1. faults' \subseteq Faults /\ faults \subseteq faults' /\ (NoSilence' <=> NoSilence) /\ DriverStuck'
    BY <1>3, <1>7 DEF Blame, Faults, NoSilence, DriverStuck
  <2> QED
    BY <1>5, <1>7, <2>1
<1> QED
  BY <1>4, <1>6, <1>7 DEF Rmmod

\* Where a driver is unloaded.
LEMMA RmmodPlaces ==
    ASSUME BenchTypeOK, ~Done, Now.do = "rmmod"
    PROVE  /\ Now.on = (IF cmd \in {1, 8} THEN "ftdi_sio" ELSE "usbserial")
           /\ Now.checked => task = "Write" /\ step = 2 /\ cmd \in {8, 9}
           /\ IF task = "Write" /\ step = 2 THEN cmd \in {1, 2, 8, 9} ELSE cmd \in {1, 2}
           /\ Last <=> task = "Talk" /\ step = 1 /\ cmd = 2
           /\ task = "GetComPort" => step \in {1, 3, 4}
           /\ task = "Power" => step = 1
           /\ task = "Write" => step \in {1, 2} /\ This.strict
           /\ task = "Talk" => step \in {1, 2, 4}
           /\ task # "Radio"
<1>1. CASE task = "GetComPort"
  BY <1>1, Commands, AroundDecoded, SingleDecoded
<1>2. CASE task = "Power"
  <2>1. CASE step = 1
    BY <1>2, <2>1, Commands, AroundDecoded
  <2>2. CASE step = 2
    BY <1>2, <2>2, Commands, ConverseDecoded
  <2> QED
    BY <1>2, <2>1, <2>2, Commands
<1>3. CASE task = "Write"
  <2>1. CASE step = 1
    BY <1>3, <2>1, Commands, BootWriteDecoded
  <2>2. CASE step = 2
    BY <1>3, <2>2, Commands, ProgWriteDecoded
  <2> QED
    BY <1>3, <2>1, <2>2, Commands
<1>4. CASE task = "Talk"
  <2>1. CASE step = 1
    BY <1>4, <2>1, Commands, UnloadDecoded
  <2>2. CASE step \in {2, 4}
    <3>1. InAround("reset", "target")
      BY <1>4, <2>2, Commands
    <3> QED
      BY <1>4, <2>2, <3>1, AroundDecoded
  <2>3. CASE step = 3
    BY <1>4, <2>3, Commands, ConverseDecoded
  <2>4. CASE step = 5
    BY <1>4, <2>4, Commands, ConverseDecoded
  <2> QED
    BY <1>4, <2>1, <2>2, <2>3, <2>4, Commands
<1>5. CASE task = "Radio"
  BY <1>5, Commands, SingleDecoded
<1> QED
  BY <1>1, <1>2, <1>3, <1>4, <1>5 DEF BenchTypeOK, Tasks

\* A task that fails, for a reason of its own or a mistaken port.
LEMMA Fails ==
    ASSUME BenchInv, task # "GetComPort", BenchTypeOK', TesterInv', OpenInv',
           phase' = "menu", report' = "fail", UNCHANGED <<task, wired, com>>,
           task = "Radio" \/ faults' # {} \/ Swapped
    PROVE  BenchInv'
BY DEF BenchInv, BenchTypeOK, PortsApart, GetComPortInv, PowerInv, WriteInv, TalkInv, InCall, Busy, Swapped,
       OkMeansProgrammed, OkMeansRunning, FailureIsFresh

LEMMA RmmodKeeps ==
    ASSUME BenchInv, Rmmod
    PROVE  BenchInv'
<1>1. BenchTypeOK /\ Busy /\ ~Done /\ Now.do = "rmmod"
  BY DEF BenchInv, Rmmod, At, Busy
<1>2. UNCHANGED <<mode, image, loader, wired, com, open, task>>
  BY DEF Rmmod
<1>3. Now.on \in Drivers
  BY <1>1, RmmodPlaces DEF Drivers
<1>4. PICK ok \in BOOLEAN :
           /\ Proceed(ok)
           /\ BenchTypeOK'
           /\ open # {} => loaded' = loaded
           /\ DriverStuck => DriverStuck'
           /\ NoSilence' <=> NoSilence
           /\ faults' = {} => faults = {}
           /\ "task" \notin open =>
                /\ Now.on = "ftdi_sio" => DriverStuck' \/ loaded' \subseteq {"usbserial"}
                /\ Now.on = "usbserial" /\ (DriverStuck \/ loaded \subseteq {"usbserial"}) => DriverStuck' \/ loaded' = {}
                /\ Now.on = "ftdi_sio" /\ loaded = Drivers => IF ok THEN loaded' = {"usbserial"} ELSE DriverStuck'
                /\ Now.on = "usbserial" /\ loaded = {"usbserial"} => IF ok THEN loaded' = {} ELSE DriverStuck'
  BY <1>3, RmmodDoes
<1>5. /\ ok \/ ~Now.checked => /\ phase' = phase /\ report' = report
                               /\ IF Last THEN step' = step + 1 /\ cmd' = 1
                                          ELSE step' = step /\ cmd' = cmd + 1
      /\ ~ok /\ Now.checked /\ This.strict => phase' = "menu" /\ report' = "fail"
  BY <1>1, <1>2, <1>4, Proceeds
<1>6. CASE task = "GetComPort"
  <2>1. step \in {1, 3, 4} /\ cmd \in {1, 2} /\ ~Now.checked /\ ~Last
    BY <1>1, <1>6, RmmodPlaces
  <2>2. step' = step /\ cmd' = cmd + 1 /\ phase' = phase /\ report' = report
    BY <1>5, <2>1
  <2>3. step = 1 => "task" \notin open
    BY <1>1, NoTaskPort
  <2>4. GetComPortInv'
    <3>1. CASE step = 1
      BY <1>1, <1>2, <1>4, <1>6, <2>1, <2>2, <2>3, <3>1, RmmodPlaces
         DEF BenchInv, GetComPortInv, InCall, Busy, Reloading
    <3>2. CASE step \in {3, 4}
      BY <1>1, <1>2, <1>4, <1>6, <2>2, <3>2 DEF BenchInv, GetComPortInv, InCall, Busy, Faultless
    <3> QED
      BY <2>1, <3>1, <3>2
  <2>5. OpenInv'
    BY <1>1, <1>2, <1>4, <1>6, <2>2 DEF BenchInv, OpenInv, Conversing, GivingUp, InCall, Busy
  <2> QED
    BY <1>1, <1>2, <1>4, <1>6, <2>2, <2>4, <2>5, GoesOn, OneTaskNext DEF BenchInv, Reporting, Verdicts, Busy, BenchTypeOK
<1>7. CASE task # "GetComPort"
  <2>1. "task" \notin open
    BY <1>1, <1>7, NoTaskPort
  <2>2. phase' # "off" => OpenInv'
    BY <1>2, <1>4, <2>1 DEF BenchInv, OpenInv
  <2>3. phase' # "off"
    BY <1>1, <1>5, RmmodPlaces DEF Busy
  <2>4. TesterInv'
    <3>1. LeftUnlessStuck("tester", "run") => LeftUnlessStuck("tester", "run")'
      BY <1>2, <1>4 DEF LeftUnlessStuck, Left
    <3>2. task = "Power" => phase' = "busy" /\ step' = 1
      BY <1>1, <1>5, RmmodPlaces DEF Busy
    <3> QED
      BY <1>1, <1>2, <1>7, <3>1, <3>2 DEF BenchInv, BenchTypeOK, Tasks, TesterInv, InCall, Busy
  <2>5. CASE task = "Power"
    <3>1. step = 1 /\ cmd \in {1, 2} /\ ~Now.checked /\ ~Last
      BY <1>1, <2>5, RmmodPlaces
    <3>2. step' = step /\ cmd' = cmd + 1 /\ phase' = phase /\ report' = report
      BY <1>5, <3>1
    <3>3. PowerInv'
      BY <1>1, <1>2, <1>4, <2>1, <2>5, <3>1, <3>2, RmmodPlaces DEF BenchInv, PowerInv, InCall, Busy, Reloading
    <3> QED
      BY <1>1, <1>2, <1>4, <2>2, <2>3, <2>4, <2>5, <3>2, <3>3, GoesOn, OneTaskNext
         DEF BenchInv, Reporting, Verdicts, Busy, BenchTypeOK
  <2>6. CASE task = "Write"
    <3>1. /\ step \in {1, 2} /\ This.strict /\ ~Last
          /\ IF step = 1 THEN cmd \in {1, 2} ELSE cmd \in {1, 2, 8, 9}
          /\ Now.checked => cmd \in {8, 9}
          /\ Now.on = (IF cmd \in {1, 8} THEN "ftdi_sio" ELSE "usbserial")
      BY <1>1, <2>6, RmmodPlaces
    <3>2. CASE ok \/ ~Now.checked
      <4>1. step' = step /\ cmd' = cmd + 1 /\ phase' = phase /\ report' = report
        BY <1>5, <3>1, <3>2
      <4>2. Trusted' => Trusted
        BY <1>2, <1>4 DEF Trusted, Swapped
      <4>3. cmd \in {8, 9} => ok
        <5>1. step = 2 /\ cmd \in {8, 9} => Now.checked
          BY <1>1, <2>6, Commands DEF InProgWrite, NowIs
        <5> QED
          BY <3>1, <3>2, <5>1
      <4>4. WriteInv'
        <5>1. CASE step = 1
          BY <1>1, <1>2, <1>4, <2>1, <2>6, <3>1, <4>1, <5>1 DEF BenchInv, WriteInv, InCall, Busy
        <5>2. CASE step = 2 /\ cmd \in {1, 2}
          BY <1>1, <1>2, <1>4, <2>1, <2>6, <3>1, <4>1, <5>2 DEF BenchInv, WriteInv, InCall, Busy, Reloading
        <5>3. CASE step = 2 /\ cmd \in {8, 9}
          BY <1>1, <1>2, <1>4, <2>1, <2>6, <3>1, <4>1, <4>2, <4>3, <5>3 DEF BenchInv, WriteInv, InCall, Busy, Reloading
        <5> QED
          BY <3>1, <5>1, <5>2, <5>3
      <4> QED
        BY <1>1, <1>2, <1>4, <2>2, <2>3, <2>4, <2>6, <4>1, <4>4, GoesOn, OneTaskNext
           DEF BenchInv, Reporting, Verdicts, Busy, BenchTypeOK
    <3>3. CASE ~ok /\ Now.checked
      <4>1. step = 2 /\ cmd \in {8, 9}
        BY <3>1, <3>3
      <4>2. DriverStuck'
        BY <1>1, <1>4, <2>1, <2>6, <3>1, <3>3, <4>1 DEF BenchInv, WriteInv, InCall
      <4>3. faults' # {}
        BY <4>2 DEF DriverStuck
      <4> QED
        BY <1>2, <1>4, <1>5, <2>2, <2>3, <2>4, <2>6, <3>1, <3>3, <4>3, Fails
    <3> QED
      BY <3>2, <3>3
  <2>7. CASE task = "Talk"
    <3>1. step \in {1, 2, 4} /\ cmd \in {1, 2} /\ ~Now.checked /\ (Last <=> step = 1 /\ cmd = 2)
      BY <1>1, <2>7, RmmodPlaces
    <3>2. /\ \/ step' = step /\ cmd' = cmd + 1
             \/ step = 1 /\ step' = 2 /\ cmd' = 1
          /\ phase' = phase /\ report' = report
      BY <1>5, <3>1
    <3>3. TalkInv'
      BY <1>1, <1>2, <1>4, <2>1, <2>7, <3>1, <3>2, RmmodPlaces DEF BenchInv, TalkInv, InCall, Busy, Reloading
    <3> QED
      BY <1>1, <1>2, <1>4, <2>2, <2>3, <2>4, <2>7, <3>2, <3>3, GoesOn, OneTaskNext
         DEF BenchInv, Reporting, Verdicts, Busy, BenchTypeOK
  <2> QED
    BY <1>1, <1>7, <2>5, <2>6, <2>7, RmmodPlaces DEF BenchTypeOK, Tasks
<1> QED
  BY <1>6, <1>7

\* What insmod does, and where.
LEMMA InsmodDoes ==
    ASSUME BenchInv, Insmod, Now.on \in Drivers
    PROVE  \E ok \in BOOLEAN :
           /\ Proceed(ok)
           /\ BenchTypeOK'
           /\ open # {} => loaded' = loaded
           /\ ok => /\ loaded = (IF Now.on = "usbserial" THEN {} ELSE {"usbserial"})
                    /\ loaded' = (IF Now.on = "usbserial" THEN {"usbserial"} ELSE Drivers)
           /\ ~ok => /\ loaded # (IF Now.on = "usbserial" THEN {} ELSE {"usbserial"})
                     /\ loaded' = loaded
<1>1. BenchTypeOK /\ Busy /\ ~Done /\ task' = task
  BY DEF BenchInv, Insmod, At, Busy
<1>2. PICK ok \in BOOLEAN :
        /\ ok <=> /\ Now.on \notin loaded
                  /\ Now.on = "ftdi_sio" => "usbserial" \in loaded
        /\ loaded' = IF ok THEN loaded \cup {Now.on} ELSE loaded
        /\ Proceed(ok)
  BY DEF Insmod
<1>3. UNCHANGED <<mode, image, loader, wired, com, open, task, faults>>
  BY DEF Insmod
<1>4. /\ loaded \in {{}, {"usbserial"}, {"usbserial", "ftdi_sio"}}
      /\ Now.on \in {"usbserial", "ftdi_sio"}
      /\ open # {} => loaded = {"usbserial", "ftdi_sio"}
  BY <1>1 DEF BenchInv, BenchTypeOK, OpenInv, Drivers
<1>5. /\ open # {} => loaded' = loaded
      /\ ok => /\ loaded = (IF Now.on = "usbserial" THEN {} ELSE {"usbserial"})
               /\ loaded' = (IF Now.on = "usbserial" THEN {"usbserial"} ELSE {"usbserial", "ftdi_sio"})
      /\ ~ok => /\ loaded # (IF Now.on = "usbserial" THEN {} ELSE {"usbserial"})
                /\ loaded' = loaded
  BY <1>2, <1>4
<1>6. BenchTypeOK'
  BY <1>1, <1>2, <1>3, <1>4, <1>5, Proceeds DEF BenchTypeOK, PlaceOK, Drivers, Reports
<1> QED
  BY <1>2, <1>5, <1>6 DEF Drivers

LEMMA InsmodPlaces ==
    ASSUME BenchTypeOK, ~Done, Now.do = "insmod"
    PROVE  /\ Now.on = (IF cmd \in {4, 11} THEN "usbserial" ELSE "ftdi_sio") /\ Now.checked
           /\ IF task = "Write" THEN cmd \in {4, 5, 11, 12} /\ This.strict /\ (Last <=> cmd = 12)
                                ELSE cmd \in {4, 5} /\ ~This.strict /\ (Last <=> cmd = 5)
           /\ task = "GetComPort" => step \in {1, 3, 4}
           /\ task = "Power" => step = 1
           /\ task = "Write" => step = 2
           /\ task = "Talk" => step \in {2, 4}
           /\ task # "Radio"
<1>1. CASE task = "GetComPort"
  BY <1>1, Commands, AroundDecoded, SingleDecoded
<1>2. CASE task = "Power"
  <2>1. CASE step = 1
    BY <1>2, <2>1, Commands, AroundDecoded
  <2>2. CASE step = 2
    BY <1>2, <2>2, Commands, ConverseDecoded
  <2> QED
    BY <1>2, <2>1, <2>2, Commands
<1>3. CASE task = "Write"
  <2>1. step # 1
    BY <1>3, Commands, BootWriteDecoded
  <2> QED
    BY <1>3, <2>1, Commands, ProgWriteDecoded
<1>4. CASE task = "Talk"
  <2>1. step \notin {1, 3, 5}
    BY <1>4, Commands, UnloadDecoded, ConverseDecoded
  <2>2. step \in {2, 4}
    BY <1>4, <2>1, Commands
  <2>3. InAround("reset", "target") /\ ~This.strict
    BY <1>4, <2>2, Commands
  <2> QED
    BY <1>4, <2>2, <2>3, AroundDecoded
<1>5. CASE task = "Radio"
  BY <1>5, Commands, SingleDecoded
<1> QED
  BY <1>1, <1>2, <1>3, <1>4, <1>5 DEF BenchTypeOK, Tasks

LEMMA InsmodKeeps ==
    ASSUME BenchInv, Insmod
    PROVE  BenchInv'
<1>1. BenchTypeOK /\ Busy /\ ~Done /\ Now.do = "insmod"
  BY DEF BenchInv, Insmod, At, Busy
<1>2. UNCHANGED <<mode, image, loader, wired, com, open, task, faults>>
  BY DEF Insmod
<1>3. Now.on \in Drivers /\ Now.checked
  BY <1>1, InsmodPlaces DEF Drivers
<1>4. PICK ok \in BOOLEAN :
           /\ Proceed(ok)
           /\ BenchTypeOK'
           /\ open # {} => loaded' = loaded
           /\ ok => /\ loaded = (IF Now.on = "usbserial" THEN {} ELSE {"usbserial"})
                    /\ loaded' = (IF Now.on = "usbserial" THEN {"usbserial"} ELSE Drivers)
           /\ ~ok => /\ loaded # (IF Now.on = "usbserial" THEN {} ELSE {"usbserial"})
                     /\ loaded' = loaded
  BY <1>3, InsmodDoes
<1>5. /\ ok => /\ phase' = phase /\ report' = report
               /\ IF Last THEN step' = step + 1 /\ cmd' = 1
                          ELSE step' = step /\ cmd' = cmd + 1
      /\ ~ok /\ ~This.strict => step' = step + 1 /\ cmd' = 1 /\ phase' = phase /\ report' = report
      /\ ~ok /\ This.strict => phase' = "menu" /\ report' = "fail"
  BY <1>1, <1>2, <1>3, <1>4, Proceeds
<1>6. /\ DriverStuck' = DriverStuck /\ (NoSilence' <=> NoSilence) /\ (Faultless' <=> Faultless) /\ (Faultless => ~DriverStuck /\ NoSilence)
      /\ (Trusted' <=> Trusted)
  BY <1>2 DEF DriverStuck, NoSilence, Faultless, Trusted, Swapped
\* In a call that reloads the drivers after a reset nobody insists on.
<1>7. ASSUME NEW b, NEW m, Reloading(b, m), cmd \in {4, 5}, ~This.strict, Last <=> cmd = 5
      PROVE  /\ phase' = phase /\ report' = report
             /\ \/ step' = step /\ cmd' = 5 /\ Reloading(b, m)'
                \/ step' = step + 1 /\ cmd' = 1 /\ Reloaded(b, m)'
  <2>1. Now.on = (IF cmd = 4 THEN "usbserial" ELSE "ftdi_sio")
    BY <1>1, <1>7, InsmodPlaces
  <2>2. CASE ok /\ cmd = 4
    BY <1>2, <1>4, <1>5, <1>6, <1>7, <2>1, <2>2 DEF Reloading, Left
  <2>3. CASE ok /\ cmd = 5
    <3>1. Left(b, m)' /\ loaded' = Drivers
      BY <1>2, <1>4, <1>6, <1>7, <2>1, <2>3 DEF Reloading, Left
    <3> QED
      BY <1>5, <1>6, <1>7, <2>3, <3>1 DEF Reloaded, LeftUnlessStuck, Left, Drivers
  <2>4. CASE ~ok
    <3>1. DriverStuck
      BY <1>4, <1>7, <2>1, <2>4 DEF Reloading
    <3> QED
      BY <1>5, <1>6, <1>7, <2>4, <3>1 DEF Reloaded, LeftUnlessStuck
  <2> QED
    BY <1>7, <2>2, <2>3, <2>4
<1>8. CASE task = "GetComPort"
  <2>1. /\ step \in {1, 3, 4} /\ cmd \in {4, 5} /\ ~This.strict /\ (Last <=> cmd = 5)
    BY <1>1, <1>8, InsmodPlaces
  <2>2. /\ phase' = phase /\ report' = report
        /\ \/ step' = step
           \/ step' = step + 1
    BY <1>5, <2>1
  <2>3. GetComPortInv'
    <3>1. CASE step = 1
      <4>1. Reloading("tester", "boot")
        BY <1>1, <1>8, <3>1 DEF BenchInv, GetComPortInv, InCall
      <4>2. \/ step' = step /\ cmd' = 5 /\ Reloading("tester", "boot")'
            \/ step' = step + 1 /\ cmd' = 1 /\ Reloaded("tester", "boot")'
        BY <1>7, <2>1, <4>1
      <4> QED
        BY <1>1, <1>2, <1>8, <2>2, <3>1, <4>2 DEF BenchInv, GetComPortInv, InCall, Busy
    <3>2. CASE step \in {3, 4}
      BY <1>1, <1>2, <1>6, <1>8, <2>2, <3>2 DEF BenchInv, GetComPortInv, InCall, Busy
    <3> QED
      BY <2>1, <3>1, <3>2
  <2>4. OpenInv'
    BY <1>1, <1>2, <1>4, <1>8, <2>1, <2>2 DEF BenchInv, OpenInv, Conversing, GivingUp, InCall, Busy
  <2> QED
    BY <1>1, <1>2, <1>4, <1>8, <2>2, <2>3, <2>4, GoesOn, OneTaskNext DEF BenchInv, Reporting, Verdicts, Busy, BenchTypeOK
<1>9. CASE task # "GetComPort"
  <2>1. "task" \notin open
    BY <1>1, <1>9, NoTaskPort
  <2>2. phase' # "off"
    BY <1>1, <1>5 DEF Busy
  <2>3. OpenInv'
    BY <1>2, <1>4, <2>1, <2>2 DEF BenchInv, OpenInv
  <2>4. TesterInv'
    <3>1. LeftUnlessStuck("tester", "run") => LeftUnlessStuck("tester", "run")'
      BY <1>2, <1>6 DEF LeftUnlessStuck, Left
    <3>2. task = "Power" => phase' = "busy" /\ step' # 3
      <4>1. task = "Power" => step = 1 /\ ~This.strict /\ phase' = phase /\ (step' = step \/ step' = step + 1)
        BY <1>1, <1>5, InsmodPlaces
      <4> QED
        BY <1>1, <4>1 DEF Busy
    <3> QED
      BY <1>1, <1>2, <1>9, <3>1, <3>2 DEF BenchInv, BenchTypeOK, Tasks, TesterInv, InCall, Busy
  <2>5. CASE task = "Power"
    <3>1. step = 1 /\ cmd \in {4, 5} /\ ~This.strict /\ (Last <=> cmd = 5)
      BY <1>1, <2>5, InsmodPlaces
    <3>2. Reloading("tester", "run")
      BY <1>1, <2>5, <3>1 DEF BenchInv, PowerInv, InCall
    <3>3. /\ phase' = phase /\ report' = report
          /\ \/ step' = step /\ cmd' = 5 /\ Reloading("tester", "run")'
             \/ step' = step + 1 /\ cmd' = 1 /\ Reloaded("tester", "run")'
      BY <1>7, <3>1, <3>2
    <3>4. PowerInv'
      BY <3>1, <3>3 DEF PowerInv, InCall
    <3> QED
      BY <1>1, <1>2, <1>4, <2>3, <2>4, <2>5, <3>3, <3>4, GoesOn, OneTaskNext
         DEF BenchInv, Reporting, Verdicts, Busy, BenchTypeOK
  <2>6. CASE task = "Write"
    <3>1. step = 2 /\ cmd \in {4, 5, 11, 12} /\ This.strict /\ (Last <=> cmd = 12)
      BY <1>1, <2>6, InsmodPlaces
    <3>2. Now.on = (IF cmd \in {4, 11} THEN "usbserial" ELSE "ftdi_sio")
      BY <1>1, InsmodPlaces
    <3>3. CASE ok
      <4>1. WriteInv'
        BY <1>1, <1>2, <1>4, <1>5, <1>6, <2>6, <3>1, <3>2, <3>3 DEF BenchInv, WriteInv, InCall, Busy, Reloading, Left
      <4> QED
        BY <1>1, <1>2, <1>4, <1>5, <2>3, <2>4, <2>6, <3>3, <4>1, GoesOn, OneTaskNext
           DEF BenchInv, Reporting, Verdicts, Busy, BenchTypeOK
    <3>4. CASE ~ok
      <4>1. DriverStuck
        BY <1>1, <1>4, <2>6, <3>1, <3>2, <3>4 DEF BenchInv, WriteInv, InCall, Reloading
      <4>2. faults' # {}
        BY <1>2, <4>1 DEF DriverStuck
      <4> QED
        BY <1>2, <1>4, <1>5, <2>3, <2>4, <2>6, <3>1, <3>4, <4>2, Fails
    <3> QED
      BY <3>3, <3>4
  <2>7. CASE task = "Talk"
    <3>1. step \in {2, 4} /\ cmd \in {4, 5} /\ ~This.strict /\ (Last <=> cmd = 5)
      BY <1>1, <2>7, InsmodPlaces
    <3>2. Reloading("target", "run")
      BY <1>1, <2>7, <3>1 DEF BenchInv, TalkInv, InCall
    <3>3. /\ phase' = phase /\ report' = report
          /\ \/ step' = step /\ cmd' = 5 /\ Reloading("target", "run")'
             \/ step' = step + 1 /\ cmd' = 1 /\ Reloaded("target", "run")'
      BY <1>7, <3>1, <3>2
    <3>4. TalkInv'
      BY <3>1, <3>3 DEF TalkInv, InCall
    <3> QED
      BY <1>1, <1>2, <1>4, <2>3, <2>4, <2>7, <3>3, <3>4, GoesOn, OneTaskNext
         DEF BenchInv, Reporting, Verdicts, Busy, BenchTypeOK
  <2> QED
    BY <1>1, <1>9, <2>5, <2>6, <2>7, InsmodPlaces DEF BenchTypeOK, Tasks
<1> QED
  BY <1>8, <1>9

\* What the two tools that change a board's mode may do.
LEMMA ToolDoes ==
    ASSUME BenchInv, NEW m \in {"run", "boot"}, Now.on \in Boards, At("reset") \/ At("bootmode"), Tool(m)
    PROVE  /\ BenchTypeOK'
           /\ UNCHANGED <<loaded, image, loader, wired, com, open, task>>
           /\ faults' = {} => faults = {}
           /\ (NoSilence' => NoSilence) /\ (DriverStuck' <=> DriverStuck)
           /\ \A b \in Boards \ {Now.on} : mode'[b] = mode[b]
           /\ \E ok \in BOOLEAN :
                /\ Proceed(ok)
                /\ ok /\ NoSilence' => mode'[Now.on] = m /\ "ftdi_sio" \notin loaded
                /\ ~ok => "ftdi_sio" \in loaded \/ faults' # {}
<1>1. BenchTypeOK /\ Busy /\ ~Done /\ task' = task
  BY DEF BenchInv, Tool, At, Busy
<1>2. mode \in [Boards -> Modes] /\ faults \subseteq Faults /\ m \in Modes
  BY <1>1 DEF BenchTypeOK, Modes
<1>3. UNCHANGED <<loaded, image, loader, wired, com, open, task>>
  BY DEF Tool
<1>4. CASE "ftdi_sio" \in loaded /\ Proceed(FALSE) /\ UNCHANGED <<mode, faults>>
  BY <1>1, <1>3, <1>4, Proceeds DEF BenchTypeOK, PlaceOK, Reports, NoSilence, DriverStuck
<1>5. CASE /\ "ftdi_sio" \notin loaded
           /\ mode' = [mode EXCEPT ![Now.on] = m]
           /\ Proceed(TRUE)
           /\ UNCHANGED faults
  BY <1>1, <1>2, <1>3, <1>5, Proceeds DEF BenchTypeOK, PlaceOK, Reports, NoSilence, DriverStuck
<1>6. CASE /\ "ftdi_sio" \notin loaded
           /\ mode' \in {mode, [mode EXCEPT ![Now.on] = "reset"]}
           /\ Proceed(FALSE)
           /\ Blame("loud")
  <2>1. mode' \in [Boards -> Modes] /\ \A b \in Boards \ {Now.on} : mode'[b] = mode[b]
    BY <1>2, <1>6 DEF Modes
  <2>2. faults' \subseteq Faults /\ faults' # {} /\ (NoSilence' <=> NoSilence) /\ (DriverStuck' <=> DriverStuck)
    BY <1>2, <1>6 DEF Blame, Faults, NoSilence, DriverStuck
  <2>3. BenchTypeOK'
    BY <1>1, <1>3, <1>6, <2>1, <2>2, Proceeds DEF BenchTypeOK, PlaceOK, Reports
  <2> QED
    BY <1>3, <1>6, <2>1, <2>2, <2>3
<1>7. CASE Proceed(TRUE) /\ Blame("silent") /\ UNCHANGED mode
  <2>1. faults' \subseteq Faults /\ "silent" \in faults' /\ (DriverStuck' <=> DriverStuck)
    BY <1>2, <1>7 DEF Blame, Faults, DriverStuck
  <2>2. BenchTypeOK'
    BY <1>1, <1>3, <1>7, <2>1, Proceeds DEF BenchTypeOK, PlaceOK, Reports
  <2> QED
    BY <1>3, <1>7, <2>1, <2>2 DEF NoSilence
<1> QED
  BY <1>4, <1>5, <1>6, <1>7 DEF Tool

\* Where a reset is made, and of which board.
LEMMA ResetPlaces ==
    ASSUME BenchTypeOK, ~Done, Now.do = "reset"
    PROVE  /\ Now.checked /\ ~Last /\ Now.on \in Boards
           /\ IF task = "Write" THEN step = 2 /\ cmd = 10 /\ This.strict ELSE cmd = 3 /\ ~This.strict
           /\ task = "GetComPort" => step \in {3, 4}
           /\ task = "Power" => step = 1 /\ Now.on = "tester"
           /\ task = "Talk" => step \in {2, 4}
           /\ task # "Radio"
           /\ task \in {"Write", "Talk"} => Now.on = "target"
           /\ task = "GetComPort" => Now.on = IF step = 3 THEN "target" ELSE "tester"
<1>1. CASE task = "GetComPort"
  <2>1. step \in {3, 4}
    BY <1>1, Commands, AroundDecoded, SingleDecoded
  <2> QED
    BY <1>1, <2>1, Commands, AroundDecoded DEF Boards
<1>2. CASE task = "Power"
  <2>1. step = 1
    <3>1. step # 2
      BY <1>2, Commands, ConverseDecoded
    <3> QED
      BY <1>2, <3>1, Commands
  <2> QED
    BY <1>2, <2>1, Commands, AroundDecoded DEF Boards
<1>3. CASE task = "Write"
  <2>1. step = 2
    BY <1>3, Commands, BootWriteDecoded
  <2> QED
    BY <1>3, <2>1, Commands, ProgWriteDecoded DEF Boards
<1>4. CASE task = "Talk"
  <2>1. step \notin {1, 3, 5}
    BY <1>4, Commands, UnloadDecoded, ConverseDecoded
  <2>2. step \in {2, 4}
    BY <1>4, <2>1, Commands
  <2>3. InAround("reset", "target") /\ ~This.strict
    BY <1>4, <2>2, Commands
  <2> QED
    BY <1>4, <2>2, <2>3, AroundDecoded DEF Boards
<1>5. CASE task = "Radio"
  BY <1>5, Commands, SingleDecoded
<1> QED
  BY <1>1, <1>2, <1>3, <1>4, <1>5 DEF BenchTypeOK, Tasks

LEMMA BootmodePlaces ==
    ASSUME BenchTypeOK, ~Done, Now.do = "bootmode"
    PROVE  /\ Now.checked /\ ~Last /\ Now.on \in Boards /\ cmd = 3
           /\ \/ task = "GetComPort" /\ step = 1 /\ ~This.strict /\ Now.on = "tester"
              \/ task = "Write" /\ step = 2 /\ This.strict /\ Now.on = "target"
<1>1. CASE task = "GetComPort"
  <2>1. step = 1
    BY <1>1, Commands, AroundDecoded, SingleDecoded
  <2> QED
    BY <1>1, <2>1, Commands, AroundDecoded DEF Boards
<1>2. CASE task = "Power"
  <2>1. CASE step = 1
    BY <1>2, <2>1, Commands, AroundDecoded
  <2>2. CASE step = 2
    BY <1>2, <2>2, Commands, ConverseDecoded
  <2> QED
    BY <1>2, <2>1, <2>2, Commands
<1>3. CASE task = "Write"
  <2>1. step = 2
    BY <1>3, Commands, BootWriteDecoded
  <2> QED
    BY <1>3, <2>1, Commands, ProgWriteDecoded DEF Boards
<1>4. CASE task = "Talk"
  <2>1. CASE step = 1
    BY <1>4, <2>1, Commands, UnloadDecoded
  <2>2. CASE step \in {2, 4}
    <3>1. InAround("reset", "target")
      BY <1>4, <2>2, Commands
    <3> QED
      BY <3>1, AroundDecoded
  <2>3. CASE step = 3
    BY <1>4, <2>3, Commands, ConverseDecoded
  <2>4. CASE step = 5
    BY <1>4, <2>4, Commands, ConverseDecoded
  <2> QED
    BY <1>4, <2>1, <2>2, <2>3, <2>4, Commands
<1>5. CASE task = "Radio"
  BY <1>5, Commands, SingleDecoded
<1> QED
  BY <1>1, <1>2, <1>3, <1>4, <1>5 DEF BenchTypeOK, Tasks

LEMMA ToolKeeps ==
    ASSUME BenchInv, Reset \/ Bootmode
    PROVE  BenchInv'
<1> DEFINE m == IF Reset THEN "run" ELSE "boot"
<1>1. /\ BenchTypeOK /\ Busy /\ ~Done
      /\ Now.do = (IF m = "run" THEN "reset" ELSE "bootmode")
      /\ At("reset") \/ At("bootmode")
      /\ Tool(m) /\ m \in {"run", "boot"}
  BY DEF BenchInv, Reset, Bootmode, At, Busy
<1> HIDE DEF m
<1>2. Now.checked /\ ~Last /\ Now.on \in Boards
  BY <1>1, ResetPlaces, BootmodePlaces
<1>3. /\ BenchTypeOK'
      /\ UNCHANGED <<loaded, image, loader, wired, com, open, task>>
      /\ faults' = {} => faults = {}
      /\ (NoSilence' => NoSilence) /\ (DriverStuck' <=> DriverStuck)
      /\ \A b \in Boards \ {Now.on} : mode'[b] = mode[b]
  BY <1>1, <1>2, ToolDoes
<1>4. PICK ok \in BOOLEAN :
        /\ Proceed(ok)
        /\ ok /\ NoSilence' => mode'[Now.on] = m /\ "ftdi_sio" \notin loaded
        /\ ~ok => "ftdi_sio" \in loaded \/ faults' # {}
  BY <1>1, <1>2, ToolDoes
<1>5. /\ ok => step' = step /\ cmd' = cmd + 1 /\ phase' = phase /\ report' = report
      /\ ~ok /\ ~This.strict => step' = step + 1 /\ cmd' = 1 /\ phase' = phase /\ report' = report
      /\ ~ok /\ This.strict => phase' = "menu" /\ report' = "fail"
  BY <1>1, <1>2, <1>3, <1>4, Proceeds
<1>6. ASSUME NEW b, b = Now.on, NEW n, n = m, Reloading(b, n), cmd = 3, ~This.strict
      PROVE  /\ phase' = phase /\ report' = report
             /\ \/ step' = step /\ cmd' = 4 /\ Reloading(b, n)'
                \/ step' = step + 1 /\ cmd' = 1 /\ Reloaded(b, n)'
  <2>1. CASE ok
    BY <1>3, <1>4, <1>5, <1>6, <2>1 DEF Reloading, Left
  <2>2. CASE ~ok
    <3>1. "ftdi_sio" \in loaded => DriverStuck
      BY <1>6 DEF Reloading
    <3>2. Faultless' => FALSE
      BY <1>3, <1>4, <2>2, <3>1 DEF Faultless, DriverStuck
    <3> QED
      BY <1>3, <1>5, <1>6, <2>2, <3>1, <3>2 DEF Reloaded, LeftUnlessStuck
  <2> QED
    BY <2>1, <2>2
<1>7. CASE task = "GetComPort"
  <2>1. /\ cmd = 3 /\ step \in {1, 3, 4} /\ ~This.strict
        /\ step = 1 => m = "boot" /\ Now.on = "tester"
    BY <1>1, <1>7, ResetPlaces, BootmodePlaces
  <2>2. phase' = phase /\ report' = report /\ (step' = step \/ step' = step + 1)
    BY <1>5, <2>1
  <2>3. GetComPortInv'
    <3>1. CASE step = 1
      <4>1. Reloading("tester", "boot")
        BY <1>1, <1>7, <3>1 DEF BenchInv, GetComPortInv, InCall
      <4>2. \/ step' = step /\ cmd' = 4 /\ Reloading("tester", "boot")'
            \/ step' = step + 1 /\ cmd' = 1 /\ Reloaded("tester", "boot")'
        BY <1>6, <2>1, <3>1, <4>1
      <4> QED
        BY <1>1, <1>3, <1>7, <2>2, <3>1, <4>2 DEF BenchInv, GetComPortInv, InCall, Busy
    <3>2. CASE step \in {3, 4}
      BY <1>1, <1>3, <1>7, <2>2, <3>2 DEF BenchInv, GetComPortInv, InCall, Busy, Faultless
    <3> QED
      BY <2>1, <3>1, <3>2
  <2>4. OpenInv'
    BY <1>1, <1>3, <1>7, <2>1, <2>2 DEF BenchInv, OpenInv, Conversing, GivingUp, InCall, Busy
  <2> QED
    BY <1>1, <1>3, <1>7, <2>2, <2>3, <2>4, GoesOn, OneTaskNext DEF BenchInv, Reporting, Verdicts, Busy, BenchTypeOK
<1>8. CASE task # "GetComPort"
  <2>1. "task" \notin open
    BY <1>1, <1>8, NoTaskPort
  <2>2. phase' # "off"
    BY <1>1, <1>5 DEF Busy
  <2>3. OpenInv'
    BY <1>3, <2>1, <2>2, PortsSame
  <2>4. TesterInv'
    <3>1. Now.on = "target" /\ LeftUnlessStuck("tester", "run") => LeftUnlessStuck("tester", "run")'
      BY <1>3 DEF LeftUnlessStuck, Left, Boards
    <3>2. task \in {"Write", "Talk", "Radio"} => Now.on = "target"
      BY <1>1, ResetPlaces, BootmodePlaces
    <3>3. task = "Power" => phase' = "busy" /\ step' # 3
      <4>1. task = "Power" => step = 1 /\ ~This.strict /\ phase' = phase /\ (step' = step \/ step' = step + 1)
        BY <1>1, <1>5, ResetPlaces, BootmodePlaces
      <4> QED
        BY <1>1, <4>1 DEF Busy
    <3> QED
      BY <1>1, <1>3, <1>8, <3>1, <3>2, <3>3 DEF BenchInv, BenchTypeOK, Tasks, TesterInv, InCall, Busy
  <2>5. CASE task = "Power"
    <3>1. cmd = 3 /\ step = 1 /\ ~This.strict /\ m = "run" /\ Now.on = "tester"
      BY <1>1, <2>5, ResetPlaces, BootmodePlaces
    <3>2. Reloading("tester", "run")
      BY <1>1, <2>5, <3>1 DEF BenchInv, PowerInv, InCall
    <3>3. /\ phase' = phase /\ report' = report
          /\ \/ step' = step /\ cmd' = 4 /\ Reloading("tester", "run")'
             \/ step' = step + 1 /\ cmd' = 1 /\ Reloaded("tester", "run")'
      BY <1>6, <3>1, <3>2
    <3>4. PowerInv'
      BY <3>1, <3>3 DEF PowerInv, InCall
    <3> QED
      BY <1>1, <1>3, <2>3, <2>4, <2>5, <3>3, <3>4, GoesOn, OneTaskNext
         DEF BenchInv, Reporting, Verdicts, Busy, BenchTypeOK
  <2>6. CASE task = "Write"
    <3>1. /\ step = 2 /\ This.strict /\ Now.on = "target"
          /\ \/ cmd = 3 /\ m = "boot"
             \/ cmd = 10 /\ m = "run"
      BY <1>1, <2>6, ResetPlaces, BootmodePlaces
    <3>2. CASE ok
      <4>1. Trusted' => Trusted
        BY <1>3 DEF Trusted, Swapped
      <4>2. WriteInv'
        BY <1>1, <1>3, <1>4, <1>5, <2>6, <3>1, <3>2, <4>1 DEF BenchInv, WriteInv, InCall, Busy, Reloading, Left
      <4> QED
        BY <1>1, <1>3, <1>5, <2>3, <2>4, <2>6, <3>2, <4>2, GoesOn, OneTaskNext
           DEF BenchInv, Reporting, Verdicts, Busy, BenchTypeOK
    <3>3. CASE ~ok
      <4>1. faults' # {}
        <5>1. "ftdi_sio" \in loaded => DriverStuck
          BY <1>1, <2>6, <3>1 DEF BenchInv, WriteInv, InCall, Reloading
        <5> QED
          BY <1>3, <1>4, <3>3, <5>1 DEF DriverStuck
      <4> QED
        BY <1>3, <1>5, <2>3, <2>4, <2>6, <3>1, <3>3, <4>1, Fails
    <3> QED
      BY <3>2, <3>3
  <2>7. CASE task = "Talk"
    <3>1. cmd = 3 /\ step \in {2, 4} /\ ~This.strict /\ m = "run" /\ Now.on = "target"
      BY <1>1, <2>7, ResetPlaces, BootmodePlaces
    <3>2. Reloading("target", "run")
      BY <1>1, <2>7, <3>1 DEF BenchInv, TalkInv, InCall
    <3>3. /\ phase' = phase /\ report' = report
          /\ \/ step' = step /\ cmd' = 4 /\ Reloading("target", "run")'
             \/ step' = step + 1 /\ cmd' = 1 /\ Reloaded("target", "run")'
      BY <1>6, <3>1, <3>2
    <3>4. TalkInv'
      BY <3>1, <3>3 DEF TalkInv, InCall
    <3> QED
      BY <1>1, <1>3, <2>3, <2>4, <2>7, <3>3, <3>4, GoesOn, OneTaskNext
         DEF BenchInv, Reporting, Verdicts, Busy, BenchTypeOK
  <2> QED
    BY <1>1, <1>8, <2>5, <2>6, <2>7, ResetPlaces, BootmodePlaces DEF BenchTypeOK, Tasks
<1> QED
  BY <1>7, <1>8

\* The commands that have one place or two.
LEMMA OtherPlaces ==
    ASSUME BenchTypeOK, ~Done
    PROVE  /\ Now.do = "bootwriter" => /\ task = "Write" /\ step = 1 /\ cmd = 3 /\ Last
                                       /\ Now.checked /\ This.strict /\ Now.on = "target"
           /\ Now.do = "stty" => /\ task = "Write" /\ step = 2 /\ cmd = 6 /\ ~Last
                                 /\ Now.checked /\ This.strict /\ Now.on = "target"
           /\ Now.do = "sx" => /\ task = "Write" /\ step = 2 /\ cmd = 7 /\ ~Last
                               /\ Now.checked /\ This.strict /\ Now.on = "target"
           /\ Now.do \in {"open", "close"} =>
                /\ IF Now.do = "open" THEN cmd = 1 /\ ~Last /\ Now.checked ELSE cmd = 2 /\ Last
                /\ This.strict
                /\ \/ task = "Power" /\ step = 2
                   \/ task = "Talk" /\ step \in {3, 5}
           /\ Now.do = "radio" => /\ task = "Radio" /\ step = 1 /\ cmd = 1 /\ Last
                                  /\ Now.checked /\ This.strict
           /\ Now.do = "listen" => /\ task = "GetComPort" /\ step = 2 /\ cmd = 1 /\ Last
                                   /\ Now.checked /\ ~This.strict
<1>1. CASE task = "GetComPort"
  <2>1. CASE step = 2
    BY <1>1, <2>1, Commands, SingleDecoded
  <2>2. CASE step \in {1, 3, 4}
    <3>1. InAround("bootmode", "tester") \/ InAround("reset", "target") \/ InAround("reset", "tester")
      BY <1>1, <2>2, Commands
    <3>2. Now.do \in {"rmmod", "reset", "bootmode", "insmod"}
      BY <3>1, AroundDecoded
    <3> QED
      BY <3>2
  <2> QED
    BY <1>1, <2>1, <2>2, Commands
<1>2. CASE task = "Power"
  <2>1. CASE step = 1
    BY <1>2, <2>1, Commands, AroundDecoded
  <2>2. CASE step = 2
    <3>1. This.strict /\ InConverse("tester", FALSE)
      BY <1>2, <2>2, Commands
    <3>2. /\ (Last <=> cmd = 2) /\ cmd \in 1..2
          /\ Now.do = "open" => cmd = 1 /\ Now.checked
          /\ Now.do = "close" => cmd = 2
          /\ Now.do \in {"open", "close"}
      BY <3>1, ConverseDecoded
    <3> QED
      BY <1>2, <2>2, <3>1, <3>2
  <2> QED
    BY <1>2, <2>1, <2>2, Commands
<1>3. CASE task = "Write"
  <2>1. CASE step = 1
    BY <1>3, <2>1, Commands, BootWriteDecoded
  <2>2. CASE step = 2
    BY <1>3, <2>2, Commands, ProgWriteDecoded
  <2> QED
    BY <1>3, <2>1, <2>2, Commands
<1>4. CASE task = "Talk"
  <2>1. CASE step = 1
    BY <1>4, <2>1, Commands, UnloadDecoded
  <2>2. CASE step \in {2, 4}
    <3>1. InAround("reset", "target")
      BY <1>4, <2>2, Commands
    <3> QED
      BY <3>1, AroundDecoded
  <2>3. CASE step = 3
    BY <1>4, <2>3, Commands, ConverseDecoded
  <2>4. CASE step = 5
    BY <1>4, <2>4, Commands, ConverseDecoded
  <2> QED
    BY <1>4, <2>1, <2>2, <2>3, <2>4, Commands
<1>5. CASE task = "Radio"
  BY <1>5, Commands, SingleDecoded
<1> QED
  BY <1>1, <1>2, <1>3, <1>4, <1>5 DEF BenchTypeOK, Tasks

\* What keeps the tester running in the tasks that go on without a new power-up.
LEMMA TesterStays ==
    ASSUME BenchInv, task \in {"Write", "Talk", "Radio"}, task' = task,
           mode'["tester"] = mode["tester"], faults \subseteq faults'
    PROVE  TesterInv'
BY DEF BenchInv, TesterInv, InCall, LeftUnlessStuck, Left, DriverStuck, NoSilence

LEMMA BootWriterKeeps ==
    ASSUME BenchInv, BootWriter
    PROVE  BenchInv'
<1>1. /\ BenchTypeOK /\ Busy /\ ~Done /\ Now.do = "bootwriter"
      /\ UNCHANGED <<loaded, image, wired, com, open, task>>
      /\ task = "Write" /\ step = 1 /\ cmd = 3 /\ Last
      /\ Now.checked /\ This.strict /\ Now.on = "target"
  BY OtherPlaces DEF BenchInv, BootWriter, At, Busy
<1>2. "task" \notin open /\ ("ftdi_sio" \in loaded => DriverStuck)
  BY <1>1, NoTaskPort DEF BenchInv, WriteInv, InCall
<1>3. PICK ok \in BOOLEAN :
        /\ Proceed(ok)
        /\ mode' \in {mode} \cup {[mode EXCEPT !["target"] = m] : m \in Modes}
        /\ ok => loader' = TRUE /\ faults' = faults
        /\ ~ok => loader' \in BOOLEAN /\ faults' # {} /\ faults' \in {faults, faults \cup {"loud"}}
  <2>1. CASE "ftdi_sio" \in loaded /\ Proceed(FALSE) /\ UNCHANGED <<mode, loader, faults>>
    BY <1>1, <1>2, <2>1 DEF BenchTypeOK, DriverStuck
  <2>2. CASE /\ "ftdi_sio" \notin loaded
             /\ mode' \in {[mode EXCEPT ![Now.on] = m] : m \in Modes}
             /\ \/ loader' = TRUE /\ Proceed(TRUE) /\ UNCHANGED faults
                \/ loader' \in {loader, FALSE} /\ Proceed(FALSE) /\ Blame("loud")
    BY <1>1, <2>2 DEF Blame, BenchTypeOK
  <2> QED
    BY <2>1, <2>2 DEF BootWriter
<1>4. mode' \in [Boards -> Modes] /\ mode'["tester"] = mode["tester"]
  BY <1>1, <1>3 DEF BenchTypeOK, Boards
<1>5. BenchTypeOK'
  BY <1>1, <1>3, <1>4, Proceeds DEF BenchTypeOK, PlaceOK, Reports, Faults
<1>6. TesterInv'
  BY <1>1, <1>3, <1>4, TesterStays
<1>7. CASE ok
  <2>1. step' = step + 1 /\ cmd' = 1 /\ phase' = phase /\ report' = report
    BY <1>1, <1>3, <1>7, Proceeds
  <2>2. WriteInv'
    BY <1>1, <1>3, <1>7, <2>1 DEF WriteInv, InCall, Reloading
  <2>3. OpenInv'
    BY <1>1, <1>2, <2>1, PortsSame DEF Busy
  <2> QED
    BY <1>1, <1>5, <1>6, <2>1, <2>2, <2>3, GoesOn, OneTaskNext DEF BenchInv, Reporting, Verdicts, Busy, BenchTypeOK
<1>8. CASE ~ok
  <2>1. phase' = "menu" /\ report' = "fail" /\ faults' # {}
    BY <1>1, <1>3, <1>8, Proceeds
  <2>2. OpenInv'
    BY <1>1, <1>2, <2>1, PortsSame
  <2> QED
    BY <1>1, <1>5, <1>6, <2>1, <2>2, Fails
<1> QED
  BY <1>7, <1>8

LEMMA SttyKeeps ==
    ASSUME BenchInv, Stty
    PROVE  BenchInv'
<1>1. /\ BenchTypeOK /\ Busy /\ ~Done /\ Now.do = "stty"
      /\ UNCHANGED <<loaded, mode, image, loader, wired, com, open, task, faults>>
      /\ task = "Write" /\ step = 2 /\ cmd = 6 /\ ~Last
      /\ Proceed("ftdi_sio" \in loaded)
  BY OtherPlaces DEF BenchInv, Stty, At, Busy, benchVars
<1>2. "task" \notin open /\ loaded = Drivers
  BY <1>1, NoTaskPort DEF BenchInv, WriteInv, InCall
<1>3. PICK ok \in BOOLEAN : Proceed(ok) /\ ok
  BY <1>1, <1>2 DEF Drivers
<1>4. PlaceOK' /\ step' = step /\ cmd' = cmd + 1 /\ phase' = phase /\ report' = report
  BY <1>1, <1>3, Proceeds
<1>5. BenchTypeOK'
  BY <1>1, <1>4 DEF BenchTypeOK, PlaceOK
<1>6. WriteInv'
  BY <1>1, <1>2, <1>4 DEF BenchInv, WriteInv, InCall, Busy, Reloading, Left, NoSilence
<1>7. TesterInv'
  BY <1>1, TesterStays
<1>8. OpenInv'
  BY <1>1, <1>2, <1>4, PortsSame DEF Busy
<1> QED
  BY <1>1, <1>4, <1>5, <1>6, <1>7, <1>8, GoesOn, OneTaskNext DEF BenchInv, Reporting, Verdicts, Busy, BenchTypeOK

LEMMA SxKeeps ==
    ASSUME BenchInv, Sx
    PROVE  BenchInv'
<1>1. /\ BenchTypeOK /\ Busy /\ ~Done /\ Now.do = "sx"
      /\ UNCHANGED <<loaded, mode, loader, wired, com, open, task>>
      /\ task = "Write" /\ step = 2 /\ cmd = 7 /\ ~Last
      /\ Now.checked /\ This.strict /\ Now.on = "target"
  BY OtherPlaces DEF BenchInv, Sx, At, Busy
<1>2. "task" \notin open /\ loaded = Drivers /\ loader /\ (NoSilence => mode["target"] = "boot")
  BY <1>1, NoTaskPort DEF BenchInv, WriteInv, InCall, Left
<1>3. NoSilence /\ ~DriverStuck => mode["tester"] = "run"
  BY <1>1 DEF BenchInv, TesterInv, LeftUnlessStuck, Left
<1>4. /\ image \in [Boards -> Images] /\ faults \subseteq Faults
      /\ wired \in [Boards -> Ports] /\ wired["target"] # wired["tester"]
  BY <1>1 DEF BenchInv, BenchTypeOK, PortsApart
<1>5. CASE \E b \in Boards : /\ wired[b] = com[Now.on]
                             /\ Loads(b)
                             /\ image' = [image EXCEPT ![b] = "test"]
                             /\ Proceed(TRUE)
                             /\ UNCHANGED faults
  <2>1. PICK b \in Boards, ok \in BOOLEAN :
           /\ wired[b] = com["target"]
           /\ Loads(b) /\ image' = [image EXCEPT ![b] = "test"] /\ Proceed(ok) /\ ok /\ UNCHANGED faults
    BY <1>1, <1>5
  <2>2. PlaceOK' /\ step' = step /\ cmd' = cmd + 1 /\ phase' = phase /\ report' = report
    BY <1>1, <2>1, Proceeds
  <2>3. BenchTypeOK'
    BY <1>1, <1>4, <2>1, <2>2 DEF BenchTypeOK, PlaceOK, Images
  <2>4. Trusted => b = "target"
    <3>1. com # NoCom
      BY <1>1 DEF BenchInv, PortsApart
    <3>2. CASE Swapped
      BY <1>3, <2>1, <3>2 DEF Trusted, Loads, Boards
    <3>3. CASE ~Swapped
      BY <1>4, <2>1, <3>1, <3>3 DEF Swapped, Boards
    <3> QED
      BY <3>2, <3>3
  <2>5. (Trusted' <=> Trusted) /\ (NoSilence' <=> NoSilence)
    BY <1>1, <2>1 DEF Trusted, Swapped, NoSilence, DriverStuck
  <2>6. image'["target"] = IF b = "target" THEN "test" ELSE image["target"]
    BY <1>4, <2>1 DEF Boards
  <2>7. WriteInv'
    BY <1>1, <1>2, <2>2, <2>4, <2>5, <2>6 DEF BenchInv, WriteInv, InCall, Busy, Reloading, Left
  <2>8. TesterInv'
    BY <1>1, <2>1, TesterStays
  <2>9. OpenInv'
    BY <1>1, <1>2, <2>2, PortsSame DEF Busy
  <2> QED
    BY <1>1, <2>2, <2>3, <2>7, <2>8, <2>9, GoesOn, OneTaskNext DEF BenchInv, Reporting, Verdicts, Busy, BenchTypeOK
<1>6. ASSUME image' \in [Boards -> Images],
             Proceed(FALSE),
             faults' \in {faults, faults \cup {"loud"}},
             faults' # {} \/ Swapped
      PROVE  BenchInv'
  <2>1. PICK ok \in BOOLEAN : Proceed(ok) /\ ~ok
    BY <1>6
  <2>2. PlaceOK' /\ phase' = "menu" /\ report' = "fail"
    BY <1>1, <2>1, Proceeds
  <2>3. BenchTypeOK'
    BY <1>1, <1>4, <1>6, <2>2 DEF BenchTypeOK, PlaceOK, Faults, Reports
  <2>4. TesterInv'
    BY <1>1, <1>6, TesterStays
  <2>5. OpenInv'
    BY <1>1, <1>2, <2>2, PortsSame
  <2> QED
    BY <1>1, <1>6, <2>2, <2>3, <2>4, <2>5, Fails
<1>7. CASE /\ ~ \E b \in Boards : wired[b] = com[Now.on] /\ Loads(b)
           /\ Proceed(FALSE)
           /\ UNCHANGED <<image, faults>>
  <2>1. faults # {} \/ Swapped
    <3>1. com # NoCom
      BY <1>1 DEF BenchInv, PortsApart
    <3>2. SUFFICES ASSUME faults = {}, com = wired PROVE FALSE
      BY <3>1 DEF Swapped
    <3>3. Loads("target")
      BY <1>2, <3>2 DEF Loads, NoSilence
    <3> QED
      BY <1>1, <1>7, <3>2, <3>3 DEF Boards
  <2> QED
    BY <1>4, <1>6, <1>7, <2>1
<1>8. CASE \E b \in Boards : image' = [image EXCEPT ![b] = "broken"] /\ Proceed(FALSE) /\ Blame("loud")
  <2>1. image' \in [Boards -> Images]
    BY <1>4, <1>8 DEF Images
  <2>2. Proceed(FALSE) /\ faults' = faults \cup {"loud"}
    BY <1>8 DEF Blame
  <2> QED
    BY <1>6, <2>1, <2>2
<1> QED
  BY <1>5, <1>7, <1>8 DEF Sx

\* The program ends, killed or for a reason of its own or a mistaken port.
LEMMA Ends ==
    ASSUME BenchInv, BenchTypeOK', TesterInv', phase' = "off", report' \in {"none", "nil", "died"},
           open' = {}, UNCHANGED <<task, wired, com>>,
           report' = "none" \/ task = "Radio" \/ faults' # {} \/ Swapped
    PROVE  BenchInv'
BY DEF BenchInv, BenchTypeOK, PortsApart, OpenInv, GetComPortInv, PowerInv, WriteInv, TalkInv, InCall, Busy, Swapped,
       OkMeansProgrammed, OkMeansRunning, FailureIsFresh

LEMMA OpenKeeps ==
    ASSUME BenchInv, Open
    PROVE  BenchInv'
<1>1. /\ BenchTypeOK /\ Busy /\ ~Done /\ Now.do = "open"
      /\ UNCHANGED <<loaded, mode, image, loader, wired, com, task, faults>>
      /\ cmd = 1 /\ ~Last /\ Now.checked /\ This.strict
      /\ \/ task = "Power" /\ step = 2
         \/ task = "Talk" /\ step \in {3, 5}
  BY OtherPlaces DEF BenchInv, Open, At, Busy, benchVars
<1>2. IF task = "Power" THEN Reloaded("tester", "run") ELSE Reloaded("target", "run")
  BY <1>1 DEF BenchInv, PowerInv, TalkInv, InCall
<1>3. /\ (DriverStuck' <=> DriverStuck) /\ (NoSilence' <=> NoSilence)
      /\ task = "Talk" => LeftUnlessStuck("tester", "run")
  BY <1>1 DEF BenchInv, TesterInv, DriverStuck, NoSilence
<1>4. CASE "ftdi_sio" \in loaded /\ open' = open \cup {"task"} /\ Proceed(TRUE)
  <2>1. PICK ok \in BOOLEAN : Proceed(ok) /\ ok
    BY <1>4
  <2>2. PlaceOK' /\ step' = step /\ cmd' = 2 /\ phase' = phase /\ report' = report
    <3>1. PlaceOK' /\ step' = step /\ cmd' = cmd + 1 /\ phase' = phase /\ report' = report
      BY <1>1, <2>1, Proceeds
    <3> QED
      BY <1>1, <3>1
  <2>3. open' \subseteq Holders
    BY <1>1, <1>4 DEF BenchTypeOK, Holders
  <2>4. BenchTypeOK'
    BY <1>1, <2>2, <2>3 DEF BenchTypeOK, PlaceOK
  <2>5. loaded = Drivers
    BY <1>1, <1>4 DEF BenchTypeOK, Drivers
  <2>6. PowerInv' /\ TalkInv'
    BY <1>1, <1>2, <1>3, <1>4, <2>2, <2>5
       DEF PowerInv, TalkInv, InCall, Busy, Reloaded, Spoken, LeftUnlessStuck, Left
  <2>7. TesterInv'
    BY <1>1, <1>3, <2>2 DEF TesterInv, InCall, Busy, LeftUnlessStuck, Left
  <2>8. OpenInv'
    BY <1>1, <1>4, <2>2, <2>5 DEF BenchInv, OpenInv, Conversing, InCall, Busy
  <2> QED
    BY <1>1, <2>2, <2>4, <2>6, <2>7, <2>8, GoesOn, OneTaskNext DEF BenchInv, Reporting, Verdicts, Busy, BenchTypeOK
<1>5. CASE "ftdi_sio" \notin loaded /\ open' = {} /\ Leave("died")
  <2>1. phase' = "off" /\ report' = "died" /\ step' = 1 /\ cmd' = 1
    BY <1>5 DEF Leave
  <2>2. BenchTypeOK'
    BY <1>1, <1>5, <2>1, FirstPlace DEF BenchTypeOK, PlaceOK, Reports
  <2>3. faults # {}
    BY <1>1, <1>2, <1>5 DEF Reloaded, Faultless
  <2>4. TesterInv'
    BY <1>1, <1>3, <2>1 DEF TesterInv, InCall, Busy, LeftUnlessStuck, Left
  <2> QED
    BY <1>1, <1>5, <2>1, <2>2, <2>3, <2>4, Ends
<1> QED
  BY <1>4, <1>5 DEF Open

LEMMA CloseKeeps ==
    ASSUME BenchInv, Close
    PROVE  BenchInv'
<1>1. /\ BenchTypeOK /\ Busy /\ ~Done /\ Now.do = "close"
      /\ UNCHANGED <<loaded, mode, image, loader, wired, com, task>>
      /\ cmd = 2 /\ Last /\ This.strict
      /\ \/ task = "Power" /\ step = 2
         \/ task = "Talk" /\ step \in {3, 5}
  BY OtherPlaces DEF BenchInv, Close, At, Busy, benchVars
<1>2. IF task = "Power" THEN Spoken("tester", "run") ELSE Spoken("target", "run")
  BY <1>1 DEF BenchInv, PowerInv, TalkInv, InCall
<1>3. /\ faults' \in {faults, faults \cup {"loud"}} /\ faults' \subseteq Faults
      /\ (DriverStuck' <=> DriverStuck) /\ (NoSilence' <=> NoSilence)
      /\ task = "Talk" => LeftUnlessStuck("tester", "run")
  BY <1>1 DEF BenchInv, TesterInv, BenchTypeOK, Close, Blame, Faults, DriverStuck, NoSilence
<1>4. CASE Leave("died") /\ open' = {} /\ Blame("loud")
  <2>1. phase' = "off" /\ report' = "died" /\ step' = 1 /\ cmd' = 1 /\ faults' # {}
    BY <1>4 DEF Leave, Blame
  <2>2. BenchTypeOK'
    BY <1>1, <1>3, <1>4, <2>1, FirstPlace DEF BenchTypeOK, PlaceOK, Reports
  <2>3. TesterInv'
    BY <1>1, <1>3, <2>1 DEF TesterInv, InCall, Busy, LeftUnlessStuck, Left
  <2> QED
    BY <1>1, <1>4, <2>1, <2>2, <2>3, Ends
<1>5. ASSUME NEW ok \in BOOLEAN, Proceed(ok), open' = open \ {"task"}, ok \/ faults' # {}
      PROVE  BenchInv'
  <2>1. /\ PlaceOK'
        /\ \/ step' = step + 1 /\ cmd' = 1 /\ phase' = phase /\ report' = report
           \/ ~ok /\ step' = 1 /\ cmd' = 1 /\ phase' = "menu" /\ report' = "fail"
    BY <1>1, <1>5, Proceeds
  <2>2. BenchTypeOK'
    BY <1>1, <1>3, <1>5, <2>1 DEF BenchTypeOK, PlaceOK, Reports
  <2>3. OpenInv'
    BY <1>1, <1>2, <1>5, <2>1 DEF BenchInv, OpenInv, Busy, Spoken
  <2>4. TesterInv'
    BY <1>1, <1>2, <1>3, <2>1 DEF TesterInv, InCall, Busy, Spoken, LeftUnlessStuck, Left
  <2>5. CASE step' = step + 1 /\ cmd' = 1 /\ phase' = phase /\ report' = report
    <3>1. PowerInv' /\ TalkInv'
      BY <1>1, <1>2, <1>3, <2>5 DEF PowerInv, TalkInv, InCall, Busy, Reloading, Spoken, LeftUnlessStuck, Left
    <3> QED
      BY <1>1, <2>2, <2>3, <2>4, <2>5, <3>1, GoesOn, OneTaskNext DEF BenchInv, Reporting, Verdicts, Busy, BenchTypeOK
  <2>6. CASE ~ok /\ phase' = "menu" /\ report' = "fail"
    BY <1>1, <1>5, <2>2, <2>3, <2>4, <2>6, Fails
  <2> QED
    BY <2>1, <2>5, <2>6
<1>6. CASE Proceed(FALSE) /\ open' = open \ {"task"} /\ Blame("loud")
  BY <1>5, <1>6 DEF Blame
<1> QED
  BY <1>4, <1>5, <1>6 DEF Close

LEMMA RadioKeeps ==
    ASSUME BenchInv, Radio
    PROVE  BenchInv'
<1>1. /\ BenchTypeOK /\ Busy /\ ~Done /\ Now.do = "radio"
      /\ UNCHANGED <<loaded, mode, image, loader, wired, com, task, faults>>
      /\ task = "Radio" /\ Last /\ Now.checked /\ This.strict
  BY OtherPlaces DEF BenchInv, Radio, At, Busy, benchVars
<1>2. "task" \notin open /\ com # NoCom
  BY <1>1, NoTaskPort DEF BenchInv, PortsApart
<1>3. TesterInv'
  BY <1>1, TesterStays
<1>4. CASE Leave("died") /\ open' = {}
  <2>1. phase' = "off" /\ report' = "died" /\ step' = 1 /\ cmd' = 1
    BY <1>4 DEF Leave
  <2>2. BenchTypeOK'
    BY <1>1, <1>4, <2>1, FirstPlace DEF BenchTypeOK, PlaceOK, Reports
  <2> QED
    BY <1>1, <1>3, <1>4, <2>1, <2>2, Ends
<1>5. ASSUME NEW ok \in BOOLEAN, Proceed(ok), "ftdi_sio" \in loaded, open' \in {open, open \cup {"left"}}
      PROVE  BenchInv'
  <2>1. /\ PlaceOK'
        /\ \/ step' = step + 1 /\ cmd' = 1 /\ phase' = phase /\ report' = report
           \/ phase' = "menu" /\ report' = "fail"
    BY <1>1, <1>5, Proceeds
  <2>2. open' \subseteq Holders
    BY <1>1, <1>5 DEF BenchTypeOK, Holders
  <2>3. BenchTypeOK'
    BY <1>1, <2>1, <2>2 DEF BenchTypeOK, PlaceOK, Reports
  <2>4. loaded = Drivers
    BY <1>1, <1>5 DEF BenchTypeOK, Drivers
  <2>5. OpenInv'
    BY <1>1, <1>2, <1>5, <2>1, <2>4 DEF OpenInv, Busy
  <2>6. CASE step' = step + 1 /\ cmd' = 1 /\ phase' = phase /\ report' = report
    BY <1>1, <1>3, <2>3, <2>5, <2>6, GoesOn, OneTaskNext DEF BenchInv, Reporting, Verdicts, Busy, BenchTypeOK
  <2>7. CASE phase' = "menu" /\ report' = "fail"
    BY <1>1, <1>3, <2>3, <2>5, <2>7, Fails
  <2> QED
    BY <2>1, <2>6, <2>7
<1> QED
  BY <1>4, <1>5 DEF Radio

\* Of two ports the other is another, so getComPort() tells the boards apart.
LEMMA OtherIs ==
    ASSUME NEW p \in Ports
    PROVE  Other(p) \in Ports /\ Other(p) # p
<1>1. \E q \in Ports : q # p
  BY DEF Ports
<1> QED
  BY <1>1 DEF Other

LEMMA TesterAtIs ==
    ASSUME NEW p \in Ports
    PROVE  LET c == TesterAt(p) IN
           c \in [Boards -> Ports] /\ c["target"] # c["tester"] /\ c # NoCom
<1>1. TesterAt(p)["tester"] = p /\ TesterAt(p)["target"] = Other(p)
  BY DEF TesterAt, Boards
<1>2. TesterAt(p) \in [Boards -> Ports]
  BY OtherIs DEF TesterAt
<1>3. TesterAt(p) # NoCom
  BY <1>1 DEF NoCom, NoPort, Boards, Ports
<1> QED
  BY <1>1, <1>2, <1>3, OtherIs

LEMMA ListenKeeps ==
    ASSUME BenchInv, Listen
    PROVE  BenchInv'
<1>1. /\ BenchTypeOK /\ Busy /\ ~Done
      /\ UNCHANGED <<loaded, mode, image, loader, wired, task>>
      /\ task = "GetComPort" /\ step = 2 /\ cmd = 1 /\ Last
      /\ Now.checked /\ ~This.strict
  BY OtherPlaces DEF BenchInv, Listen, At, Busy, benchVars
<1>2. com = NoCom /\ open = {} /\ Reloaded("tester", "boot")
  <2>1. com = NoCom /\ Reloaded("tester", "boot")
    BY <1>1 DEF BenchInv, GetComPortInv, InCall
  <2>2. "task" \notin open /\ "left" \notin open
    BY <1>1, <2>1 DEF BenchInv, OpenInv, Conversing, GivingUp, InCall
  <2> QED
    BY <1>1, <2>1, <2>2 DEF BenchTypeOK, Holders
<1>3. CASE /\ "ftdi_sio" \notin loaded
           /\ Leave("died")
           /\ open' = {}
           /\ UNCHANGED <<com, faults>>
  <2>1. phase' = "off" /\ report' = "died" /\ step' = 1 /\ cmd' = 1
    BY <1>3 DEF Leave
  <2>2. BenchTypeOK'
    BY <1>1, <1>3, <2>1, FirstPlace DEF BenchTypeOK, PlaceOK, Reports
  <2>3. faults # {}
    BY <1>2, <1>3 DEF Reloaded, Faultless
  <2>4. TesterInv'
    BY <1>1, <2>1 DEF TesterInv, InCall, Busy
  <2> QED
    BY <1>1, <1>2, <1>3, <2>1, <2>2, <2>3, <2>4, Ends
<1>4. ASSUME NEW ok \in BOOLEAN, Proceed(ok)
      PROVE  PlaceOK' /\ step' = step + 1 /\ cmd' = 1 /\ phase' = phase /\ report' = report
  BY <1>1, <1>4, Proceeds
<1>5. CASE /\ \E p \in Heard : com' = TesterAt(p)
           /\ Proceed(TRUE)
           /\ UNCHANGED <<open, faults>>
  <2>1. PlaceOK' /\ step' = step + 1 /\ cmd' = 1 /\ phase' = phase /\ report' = report
    BY <1>4, <1>5
  <2>2. com' \in [Boards -> Ports] /\ com'["target"] # com'["tester"] /\ com' # NoCom
    BY <1>1, <1>5, TesterAtIs DEF Heard, BenchTypeOK
  <2>3. BenchTypeOK'
    BY <1>1, <1>5, <2>1, <2>2 DEF BenchTypeOK, PlaceOK
  <2>4. PortsApart'
    BY <1>1, <2>2 DEF BenchInv, PortsApart, NoCom
  <2>5. GetComPortInv'
    BY <1>1, <2>1, <2>2 DEF GetComPortInv, InCall, Reloading, NoCom
  <2>6. Reporting' /\ Verdicts'
    BY <1>1, <2>1 DEF BenchInv, Reporting, Verdicts, Busy, OkMeansProgrammed, OkMeansRunning, FailureIsFresh
  <2> QED
    BY <1>1, <1>2, <1>5, <2>1, <2>3, <2>4, <2>5, <2>6, OneTaskNext DEF BenchInv, Reporting, Verdicts, Busy, BenchTypeOK
<1>6. CASE /\ "ftdi_sio" \in loaded
           /\ \/ Heard = {} /\ UNCHANGED faults
              \/ Blame("halt")
           /\ open' = open \cup {"task"}
           /\ Proceed(FALSE)
           /\ UNCHANGED com
  <2>1. PlaceOK' /\ step' = step + 1 /\ cmd' = 1 /\ phase' = phase /\ report' = report
    BY <1>4, <1>6
  <2>2. faults' # {}
    <3>1. Faultless => wired["tester"] \in Heard
      BY <1>2 DEF Reloaded, Heard, Loads, Boards
    <3> QED
      BY <1>6, <3>1 DEF Blame, Faultless
  <2>3. BenchTypeOK'
    BY <1>1, <1>2, <1>6, <2>1 DEF BenchTypeOK, PlaceOK, Blame, Faults, Holders
  <2>4. OpenInv'
    BY <1>1, <1>2, <1>6, <2>1 DEF OpenInv, GivingUp, Busy, BenchTypeOK, Drivers, NoCom
  <2>5. GetComPortInv'
    BY <1>1, <2>1, <2>2 DEF GetComPortInv, InCall, Reloading, Faultless
  <2> QED
    BY <1>1, <1>6, <2>1, <2>3, <2>4, <2>5, GoesOn, OneTaskNext DEF BenchInv, Reporting, Verdicts, Busy, BenchTypeOK
<1> QED
  BY <1>3, <1>5, <1>6 DEF Listen

LEMMA ReturnKeeps ==
    ASSUME BenchInv, Return
    PROVE  BenchInv'
<1>1. /\ BenchTypeOK /\ Busy /\ Done
      /\ UNCHANGED <<loaded, mode, image, loader, wired, com, task, faults>>
  BY DEF BenchInv, Return, Busy, benchVars
<1>2. /\ task = "GetComPort" => step = 5
      /\ task = "Power" => step = 3
      /\ task = "Write" => step = 3
      /\ task = "Talk" => step = 6
      /\ task = "Radio" => step = 2
  <2> DEFINE n == Len(Calls(task))
  <2>1. step \in 1..n + 1 /\ step > n
    BY <1>1 DEF BenchTypeOK, Done
  <2>2. /\ task = "GetComPort" => n = 4
        /\ task = "Power" => n = 2
        /\ task = "Write" => n = 2
        /\ task = "Talk" => n = 5
        /\ task = "Radio" => n = 1
    BY CallTable
  <2> HIDE DEF n
  <2> QED
    BY <2>1, <2>2
<1>3. step' = 1 /\ cmd' = 1
  BY DEF Return, Leave
<1>4. CASE NoPort \in {com[b] : b \in Boards}
  <2>1. phase' = "off" /\ report' = "nil" /\ open' = {}
    BY <1>4 DEF Return, Leave
  <2>2. com = NoCom
    BY <1>4 DEF BenchInv, PortsApart, Ports, NoPort
  <2>3. task = "GetComPort" /\ faults # {}
    BY <1>1, <1>2, <2>2 DEF BenchInv, PortsApart, GetComPortInv, Faultless
  <2>4. BenchTypeOK'
    BY <1>1, <1>3, <2>1, FirstPlace DEF BenchTypeOK, PlaceOK, Reports
  <2>5. TesterInv'
    BY <1>1, <2>1, <2>3 DEF TesterInv, InCall, Busy
  <2> QED
    BY <1>1, <2>1, <2>3, <2>4, <2>5, Ends
<1>5. CASE NoPort \notin {com[b] : b \in Boards}
  <2>1. phase' = "menu" /\ report' = "OK" /\ open' = open
    BY <1>5 DEF Return, Leave
  <2>2. com # NoCom
    BY <1>5 DEF NoCom, Boards
  <2>3. OpenInv'
    <3>1. "task" \notin open
      BY <1>2, <2>2 DEF BenchInv, OpenInv, Conversing, GivingUp, InCall
    <3> QED
      BY <1>1, <2>1, <3>1, PortsSame
  <2>4. BenchTypeOK'
    BY <1>1, <1>3, <2>1, FirstPlace DEF BenchTypeOK, PlaceOK, Reports
  <2>5. TesterInv'
    <3>1. LeftUnlessStuck("tester", "run") => LeftUnlessStuck("tester", "run")'
      BY <1>1 DEF LeftUnlessStuck, Left, DriverStuck, NoSilence
    <3> QED
      BY <1>1, <1>2, <2>1, <3>1 DEF BenchInv, TesterInv, InCall, Busy, BenchTypeOK, Tasks
  <2>6. PortsApart'
    BY <1>1, <2>2 DEF BenchInv, PortsApart, NoCom
  <2>7. OkMeansProgrammed' /\ OkMeansRunning' /\ FailureIsFresh'
    BY <1>1, <1>2, <2>1 DEF BenchInv, WriteInv, TalkInv, InCall, Left, LeftUnlessStuck, Spoken, NoSilence, DriverStuck,
       Trusted, Swapped, OkMeansProgrammed, OkMeansRunning, FailureIsFresh
  <2> QED
    BY <2>1, <2>3, <2>4, <2>5, <2>6, <2>7
       DEF BenchInv, GetComPortInv, PowerInv, WriteInv, TalkInv, InCall, Busy
<1> QED
  BY <1>4, <1>5

\* A task begins.
LEMMA BeginKeeps ==
    ASSUME BenchInv, NEW t \in Tasks, Begin(t), ~Busy,
           t \in {"Write", "Talk", "Radio"} => LeftUnlessStuck("tester", "run") /\ faults' = faults /\ task # "GetComPort",
           t # "GetComPort" => phase = "menu" /\ com' = com,
           t = "GetComPort" => phase = "off" /\ com' = NoCom,
           UNCHANGED <<benchVars, open>>,
           faults' \in {faults, {}}
    PROVE  BenchInv'
<1>1. /\ BenchTypeOK /\ "task" \notin open
      /\ UNCHANGED <<loaded, mode, image, loader, wired, open>>
      /\ phase' = "busy" /\ task' = t /\ step' = 1 /\ cmd' = 1 /\ report' = "none"
  BY DEF BenchInv, OpenInv, Conversing, GivingUp, InCall, Begin, benchVars
<1>2. PlaceOK'
  BY <1>1, FirstPlace
<1>3. com' \in [Boards -> Ports \cup {NoPort}] /\ faults' \subseteq Faults
  BY <1>1 DEF BenchTypeOK, NoCom
<1>4. BenchTypeOK'
  BY <1>1, <1>2, <1>3 DEF BenchTypeOK, PlaceOK, Reports
<1>5. PortsApart'
  BY <1>1 DEF BenchInv, PortsApart, NoCom
<1>6. OpenInv'
  BY <1>1 DEF BenchInv, OpenInv
<1>7. /\ task' = "GetComPort" => GetComPortInv'
      /\ task' = "Power" => PowerInv'
      /\ task' = "Write" => WriteInv'
      /\ task' = "Talk" => TalkInv'
  BY <1>1 DEF GetComPortInv, PowerInv, WriteInv, TalkInv, InCall, Busy, Reloading
<1>8. TesterInv'
  <2>1. faults' = faults /\ LeftUnlessStuck("tester", "run") => LeftUnlessStuck("tester", "run")'
    BY <1>1 DEF LeftUnlessStuck, Left, DriverStuck, NoSilence
  <2> QED
    BY <1>1, <2>1 DEF TesterInv, InCall, Busy
<1>9. OkMeansProgrammed' /\ OkMeansRunning' /\ FailureIsFresh'
  BY <1>1 DEF OkMeansProgrammed, OkMeansRunning, FailureIsFresh
<1> QED
  BY <1>1, <1>4, <1>5, <1>6, <1>7, <1>8, <1>9, OneTaskNext DEF BenchInv, Busy

LEMMA StartKeeps ==
    ASSUME BenchInv, Start \/ BeginPower \/ BeginWrite \/ BeginTalk \/ BeginRadio
    PROVE  BenchInv'
<1>1. CASE Start
  <2>1. ~Busy
    BY <1>1 DEF Start, Busy
  <2> QED
    BY <1>1, <2>1, BeginKeeps DEF Start, Tasks
<1>2. CASE BeginPower
  BY <1>2, BeginKeeps DEF BeginPower, Tasks, Busy
<1>3. CASE BeginWrite
  BY <1>3, BeginKeeps DEF BeginWrite, Tasks, Busy, BenchInv, TesterInv
<1>4. CASE BeginTalk
  BY <1>4, BeginKeeps DEF BeginTalk, Tasks, Busy, BenchInv, TesterInv
<1>5. CASE BeginRadio
  BY <1>5, BeginKeeps DEF BeginRadio, Tasks, Busy, BenchInv, TesterInv
<1> QED
  BY <1>1, <1>2, <1>3, <1>4, <1>5

LEMMA CollectKeeps ==
    ASSUME BenchInv, Collect
    PROVE  BenchInv'
<1>1. /\ UNCHANGED <<loaded, mode, image, loader, wired, com, phase, task, step, cmd, report, faults>>
      /\ open' = open \ {"left"}
  BY DEF Collect, benchVars
<1>2. Done' = Done /\ This' = This
  BY <1>1 DEF Done, This
<1>3. BenchTypeOK'
  BY <1>1, <1>2 DEF BenchInv, BenchTypeOK
<1>4. OpenInv'
  BY <1>1 DEF BenchInv, OpenInv, Conversing, GivingUp, InCall, Busy
<1>5. /\ PortsApart' /\ GetComPortInv' /\ PowerInv' /\ TesterInv' /\ WriteInv' /\ TalkInv'
      /\ OkMeansProgrammed' /\ OkMeansRunning' /\ FailureIsFresh'
  BY <1>1 DEF BenchInv, PortsApart, GetComPortInv, PowerInv, TesterInv, WriteInv, TalkInv, InCall, Busy,
     Reloading, Reloaded, Spoken, Left, LeftUnlessStuck, DriverStuck, NoSilence, Faultless, Trusted,
     OkMeansProgrammed, OkMeansRunning, FailureIsFresh, Swapped
<1> QED
  BY <1>1, <1>3, <1>4, <1>5 DEF BenchInv, Busy

LEMMA KillKeeps ==
    ASSUME BenchInv, Kill
    PROVE  BenchInv'
<1>1. /\ BenchTypeOK
      /\ UNCHANGED <<loaded, wired, com, task, faults>>
      /\ phase' = "off" /\ report' = "none" /\ step' = 1 /\ cmd' = 1 /\ open' = {}
  BY DEF BenchInv, Kill, Leave
<1>2. loader' \in BOOLEAN
  BY <1>1 DEF Kill, BenchTypeOK
<1>3. image' \in [Boards -> Images]
  BY <1>1 DEF Kill, BenchTypeOK, Images
<1>4. mode' \in [Boards -> Modes] /\ (task \in {"Write", "Talk", "Radio"} => mode'["tester"] = mode["tester"])
  <2>1. CASE mode' = mode
    BY <1>1, <2>1 DEF BenchTypeOK
  <2>2. CASE At("reset") \/ At("bootmode")
    <3>1. ~Done /\ (Now.do = "reset" \/ Now.do = "bootmode")
      BY <2>2 DEF At
    <3>2. Now.on \in Boards /\ (task \in {"Write", "Talk", "Radio"} => Now.on = "target")
      BY <1>1, <3>1, ResetPlaces, BootmodePlaces
    <3>3. mode' \in {mode, [mode EXCEPT ![Now.on] = "reset"]}
      BY DEF Kill
    <3> QED
      BY <1>1, <3>2, <3>3 DEF BenchTypeOK, Modes, Boards
  <2> QED
    BY <2>1, <2>2 DEF Kill
<1>5. BenchTypeOK'
  BY <1>1, <1>2, <1>3, <1>4, FirstPlace DEF BenchTypeOK, PlaceOK, Reports
<1>6. TesterInv'
  BY <1>1, <1>4 DEF BenchInv, TesterInv, InCall, Busy, LeftUnlessStuck, Left, DriverStuck, NoSilence
<1> QED
  BY <1>1, <1>5, <1>6, Ends

-----------------------------------------------------------------------------
(* The theorems.                                                           *)

LEMMA BenchInitially == BenchInit => BenchInv
<1> SUFFICES ASSUME BenchInit PROVE BenchInv
  OBVIOUS
<1>1. PICK p \in Ports : wired = TesterAt(p)
  BY DEF BenchInit
<1>2. wired \in [Boards -> Ports] /\ wired["target"] # wired["tester"]
  BY <1>1, TesterAtIs
<1>3. PlaceOK
  <2>1. Len(Calls(task)) \in Nat \ {0} /\ Len(Calls(task)[1].cmds) \in Nat \ {0}
    BY NoneEmpty DEF BenchInit, Tasks
  <2> QED
    BY <2>1 DEF BenchInit, PlaceOK, Done, This
<1>4. BenchTypeOK
  BY <1>2, <1>3 DEF BenchInit, BenchTypeOK, PlaceOK, Drivers, Modes, Images, NoCom, Tasks, Reports, Faults
<1> QED
  BY <1>2, <1>4 DEF BenchInit, BenchInv, Busy, PortsApart, OpenInv, GetComPortInv, PowerInv, TesterInv, WriteInv,
     TalkInv, InCall, OkMeansProgrammed, OkMeansRunning, FailureIsFresh

LEMMA BenchStep == BenchInv /\ [BenchNext]_allVars => BenchInv'
<1> SUFFICES ASSUME BenchInv, [BenchNext]_allVars PROVE BenchInv'
  OBVIOUS
<1>1. CASE Rmmod
  BY <1>1, RmmodKeeps
<1>2. CASE Insmod
  BY <1>2, InsmodKeeps
<1>3. CASE Reset \/ Bootmode
  BY <1>3, ToolKeeps
<1>4. CASE BootWriter
  BY <1>4, BootWriterKeeps
<1>5. CASE Stty
  BY <1>5, SttyKeeps
<1>6. CASE Sx
  BY <1>6, SxKeeps
<1>7. CASE Open
  BY <1>7, OpenKeeps
<1>8. CASE Close
  BY <1>8, CloseKeeps
<1>9. CASE Radio
  BY <1>9, RadioKeeps
<1>10. CASE Listen
  BY <1>10, ListenKeeps
<1>11. CASE Return
  BY <1>11, ReturnKeeps
<1>12. CASE Start \/ BeginPower \/ BeginWrite \/ BeginTalk \/ BeginRadio
  BY <1>12, StartKeeps
<1>13. CASE Collect
  BY <1>13, CollectKeeps
<1>14. CASE Kill
  BY <1>14, KillKeeps
<1>15. CASE UNCHANGED allVars
  <2>1. UNCHANGED <<loaded, mode, image, loader, wired, com, open, phase, task, step, cmd, report, faults>>
    BY <1>15 DEF allVars, benchVars, programVars
  <2>2. Done' = Done /\ This' = This
    BY <2>1 DEF Done, This
  <2>3. BenchTypeOK'
    BY <2>1, <2>2 DEF BenchInv, BenchTypeOK
  <2>4. /\ PortsApart' /\ OpenInv' /\ GetComPortInv' /\ PowerInv' /\ TesterInv' /\ WriteInv' /\ TalkInv'
        /\ OkMeansProgrammed' /\ OkMeansRunning' /\ FailureIsFresh'
    BY <2>1 DEF BenchInv, PortsApart, OpenInv, Conversing, GivingUp, GetComPortInv, PowerInv, TesterInv, WriteInv,
       TalkInv, InCall, Busy, Reloading, Reloaded, Spoken, Left, LeftUnlessStuck, DriverStuck, NoSilence, Faultless, Trusted, OkMeansProgrammed, OkMeansRunning, FailureIsFresh, Swapped
  <2> QED
    BY <2>1, <2>3, <2>4 DEF BenchInv, Busy
<1> QED
  BY <1>1, <1>2, <1>3, <1>4, <1>5, <1>6, <1>7, <1>8, <1>9, <1>10, <1>11, <1>12,
     <1>13, <1>14, <1>15 DEF BenchNext, Command

LEMMA BenchAlways == BenchSpec => []BenchInv
<1> QED
  BY BenchInitially, BenchStep, PTL DEF BenchSpec

\* Every variable has its type: the program is always at a command its task
\* has, and no driver is loaded without the one it needs (rmmod, insmod order).
THEOREM BenchTypes == BenchSpec => []BenchTypeOK
<1>1. BenchInv => BenchTypeOK
  BY DEF BenchInv
<1> QED
  BY <1>1, BenchAlways, PTL

\* When writeprog() reports success the target holds the test program and a boot
\* loader, whatever earlier attempts left, and, unless a driver that stayed loaded
\* skipped the tester's reset, whatever port it was taken for.
THEOREM OksAreProgrammed == BenchSpec => []OkMeansProgrammed
<1>1. BenchInv => OkMeansProgrammed
  BY DEF BenchInv
<1> QED
  BY <1>1, BenchAlways, PTL

\* When a task with the target reports success the target runs and its port is
\* there, though pwr(), iotest() and baud() ignore what set_reset() returns: a
\* set_reset() that fails leaves no port to open, unless the driver stayed loaded.
THEOREM OksAreRunning == BenchSpec => []OkMeansRunning
<1>1. BenchInv => OkMeansRunning
  BY DEF BenchInv
<1> QED
  BY <1>1, BenchAlways, PTL

\* A task fails, dies or finds no ports only for a fault since the power was last
\* set up, or for ports taken for one another: nothing an earlier attempt left on
\* the bench makes the next one fail, but a port an exception left open, which
\* counts as the fault "held" when it keeps a driver from being unloaded.
THEOREM FailuresAreFresh == BenchSpec => []FailureIsFresh
<1>1. BenchInv => FailureIsFresh
  BY DEF BenchInv
<1> QED
  BY <1>1, BenchAlways, PTL

\* Where the program takes the tester's port for the target's, sx does not
\* overwrite the tester's own program: the tester runs it since the power was set
\* up, unless a driver that stayed loaded skipped the reset, and only a board in
\* its boot loader takes another.
THEOREM TesterProgramKept == BenchSpec => TesterKeepsProgram
<1>1. ASSUME BenchInv, [BenchNext]_allVars, image'["tester"] # image["tester"]
      PROVE  faults \cap {"silent", "stuck", "held"} # {}
  <2>1. At("sx")
    BY <1>1 DEF BenchNext, Command, Rmmod, Insmod, Reset, Bootmode, Tool, BootWriter, Stty, Sx, Open, Close, Radio, Listen,
       Return, Start, BeginPower, BeginWrite, BeginTalk, BeginRadio, Collect, Kill, allVars, benchVars
  <2>2. task = "Write" /\ Now.on = "target"
    BY <1>1, <2>1, OtherPlaces DEF BenchInv, At
  <2>3. image \in [Boards -> Images]
    BY <1>1 DEF BenchInv, BenchTypeOK
  <2>4. \E b \in Boards : /\ Loads(b)
                          /\ \E i \in Images : image' = [image EXCEPT ![b] = i]
    <3>1. CASE Sx
      BY <1>1, <3>1 DEF Sx, Images
    <3>2. CASE Kill
      BY <1>1, <2>1, <3>2 DEF Kill, Images
    <3> QED
      BY <1>1, <2>1, <3>1, <3>2 DEF BenchNext, Command, Rmmod, Insmod, Reset, Bootmode, Tool, BootWriter, Stty, Open, Close,
         Radio, Listen, Return, Start, BeginPower, BeginWrite, BeginTalk, BeginRadio, Collect, allVars, benchVars
  <2>5. Loads("tester")
    BY <1>1, <2>3, <2>4 DEF Boards
  <2> QED
    BY <1>1, <2>2, <2>5 DEF BenchInv, TesterInv, LeftUnlessStuck, Left, DriverStuck, NoSilence, Loads
<1> QED
  BY <1>1, BenchAlways, PTL DEF BenchSpec, TesterKeepsProgram

-----------------------------------------------------------------------------
(* The I/O test. The invariant, in parts.                                  *)

PinTests == {"pull", "read", "release"}

\* Each pass has its level, and the verdict "OK" ends the second.
Places ==
    /\ stage \in {"output", "high", "input"} => level = 1
    /\ stage \in {"low", "over"} => level = 0
    /\ (outcome = "OK") <=> (stage = "over")

\* What the commands so far have made of the driven pins.
Pins ==
    /\ stage \in {"output", "high"} =>
         \A p \in Pairs : p < pin => drive[p] = "o" /\ out[p] = 1
    /\ stage = "high" => drive[pin] = "o"
    /\ stage \in {"input", "low"} \cup PinTests =>
         \A p \in Pairs : p # pin \/ stage \notin {"read", "release"} => drive[p] = "o"
    /\ stage \in {"read", "release"} => drive[pin] = IF level = 1 THEN "pd" ELSE "pu"
    /\ stage \in {"input"} \cup PinTests => \A p \in Pairs : out[p] = level
    /\ stage = "low" => \A p \in Pairs : p < pin => out[p] = 0

\* Among late answers a row of readings meets that to its own "pm".
OwnAnswers ==
    stage = "read" /\ late > 0 => eva <= late /\ answers[late - eva + 1] = None

\* What a reading of eva pin p while another is under test excludes, driven
\* high and driven low.
High(p) == wire[p] \in {"sound", "vcc"} \/ (wire[p] = "open" /\ float[p] = 1)
Low(p)  == wire[p] \in {"sound", "gnd"} \/ (wire[p] = "open" /\ float[p] = 0)

\* Row r of this pass, of the first and of the second pass, is behind.
Past(r)    == stage \in PinTests /\ (pin > r \/ (pin = r /\ stage = "release"))
HighRow(r) == level = 0 \/ Past(r)
LowRow(r)  == level = 0 /\ (stage = "over" \/ Past(r))

Checked ==
    /\ level = 1 /\ stage = "read" /\ answers = <<>> =>
         \A p \in Pairs : p < eva /\ p # pin => High(p)
    /\ HighRow(1) => \A p \in Pairs : p # 1 => High(p)
    /\ HighRow(2) => High(1)
    /\ level = 0 /\ stage = "read" /\ answers = <<>> =>
         \A p \in Pairs : p < eva /\ p # pin => Low(p)
    /\ LowRow(1) /\ (answers = <<>> \/ LowRow(2)) => \A p \in Pairs : p # 1 => Low(p)
    /\ LowRow(2) => Low(1)

\* No two late answers in a row report a level.
NoTwo == \A k \in 1..(late - 1) : answers[k] # None => answers[k + 1] = None

\* What the late answers of the first pass are: before its first row those to
\* "pm" and "dw" in turn, and in a later row none that reports a level.
HighQueue ==
    level = 1 =>
      /\ stage \in {"output", "high", "input"} \/ (stage = "pull" /\ pin = 1) => NoTwo
      /\ stage = "high" /\ late > 0 => answers[late] = None
      /\ stage = "read" /\ late > 0 =>
            \/ pin = 1 /\ eva = 1 /\ NoTwo /\ answers[late] = None
            \/ answers[1] = None
      /\ stage = "release" => late = 0
      /\ stage = "pull" /\ pin # 1 => late <= 1 /\ (late = 1 => answers[1] = None)

\* Those of the second pass: its first row may be taken wholly from the answers
\* to "dw", but then the second meets an answer to "pm" or the level at which
\* the first pin under test was read.
LowQueue ==
    level = 0 =>
      /\ stage = "low" => late <= pin /\ (late = pin => answers[1] = None)
      /\ stage = "pull" /\ pin = 1 => late <= N + 1 /\ (late = N + 1 => answers[1] = None)
      /\ stage = "read" /\ pin = 1 /\ late > 0 =>
            \/ eva = 1 /\ late = N + 2 /\ answers[1] = None
            \/ late <= N + 1 /\ (late = N + 1 /\ eva > 1 => answers[late - eva + 2] = 1)
      /\ stage = "release" /\ pin = 1 /\ late > 0 =>
            late = N + 1 /\ answers[1] = None /\ answers[2] = 1
      /\ stage = "pull" /\ pin = 2 /\ late > 0 =>
            /\ answers[late] = None
            /\ \/ late = 1
               \/ late = N + 1 /\ answers[1] = 1
               \/ late = N + 2 /\ answers[1] = None /\ answers[2] = 1
      /\ stage = "read" /\ pin = 2 /\ late > 0 =>
            \/ eva = 1 /\ answers[1] # 0
            \/ late = N + 1 /\ answers[N + 1 - eva] = None
      /\ stage = "release" /\ pin = 2 => late = 0

Live == outcome # "fail"

IoInv ==
    /\ IoTypeOK /\ Places /\ Pins
    /\ SoundWiresPass
    /\ Live => OwnAnswers
    /\ Live /\ short = {} /\ N > 1 => Checked /\ HighQueue /\ LowQueue

-----------------------------------------------------------------------------
(* A step of the I/O test.                                                 *)

\* The line read is the oldest answer, and the new one joins the others ...
Shifted(l, v) ==
    /\ v = IF late = 0 THEN l ELSE answers[1]
    /\ late' = late
    /\ \A k \in 1..(late - 1) : answers'[k] = answers[k + 1]
    /\ late > 0 => answers'[late] = l

\* ... or there is none.
Grown(l, v) ==
    /\ v = None
    /\ late' = late + 1 /\ late < MaxLate
    /\ \A k \in 1..late : answers'[k] = answers[k]
    /\ answers'[late + 1] = l

IoStep(l, v) ==
    /\ outcome = "none"
    /\ l \in Levels \cup {None}
    /\ Execute(l)
    /\ ReadAnswer(v)
    /\ answers' \in Seq(Levels \cup {None})
    /\ Shifted(l, v) \/ Grown(l, v)
    /\ UNCHANGED boardVars

\* Every step of the I/O test is of one of these two forms.
LEMMA IoStepForm ==
    ASSUME IoTypeOK, IoNext
    PROVE  \E l, v : IoStep(l, v)
  <1> DEFINE S == Levels \cup {None}
  <1>1. PICK l \in S : Execute(l) /\ (Exchange(l) \/ ExchangeLate(l))
      BY DEF IoNext
  <1>2. answers \in Seq(S)
      BY DEF IoTypeOK
  <1> HIDE DEF S
  <1>3. /\ Append(answers, l) \in Seq(S)
        /\ Len(Append(answers, l)) = late + 1
        /\ \A k \in 1..late : Append(answers, l)[k] = answers[k]
        /\ Append(answers, l)[late + 1] = l
        /\ late \in Nat
      BY <1>2, SMT DEF late
  <1>4. CASE Exchange(l)
    <2>1. PICK sent : sent = Append(answers, l)
        OBVIOUS
    <2>2. answers' = Tail(sent) /\ ReadAnswer(Head(sent))
        BY <1>4, <2>1 DEF Exchange
    <2>3. /\ sent \in Seq(S) /\ Len(sent) = late + 1
          /\ \A k \in 1..late : sent[k] = answers[k]
          /\ sent[late + 1] = l
        BY <1>3, <2>1
    <2>4. /\ Tail(sent) \in Seq(S) /\ Len(Tail(sent)) = late
          /\ \A k \in 1..late : Tail(sent)[k] = sent[k + 1]
          /\ Head(sent) = sent[1]
        BY <1>3, <2>3, SMT
    <2>5. late' = late /\ answers' \in Seq(S)
        BY <2>2, <2>4 DEF late
    <2>6. /\ Head(sent) = IF late = 0 THEN l ELSE answers[1]
          /\ \A k \in 1..(late - 1) : Tail(sent)[k] = answers[k + 1]
          /\ late > 0 => Tail(sent)[late] = l
        BY <1>3, <2>3, <2>4, SMT
    <2>7. Shifted(l, Head(sent))
        BY <2>2, <2>5, <2>6 DEF Shifted
    <2>8. IoStep(l, Head(sent))
        BY <1>1, <2>2, <2>5, <2>7 DEF IoStep, IoNext, S
    <2> QED
        BY <2>8
  <1>5. CASE ExchangeLate(l)
    <2>1. answers' = Append(answers, l) /\ ReadAnswer(None) /\ late < MaxLate
        BY <1>5 DEF ExchangeLate
    <2>2. late' = late + 1
        BY <2>1, <1>3 DEF late
    <2>3. Grown(l, None)
        BY <2>1, <2>2, <1>3 DEF Grown
    <2>4. IoStep(l, None)
        BY <1>1, <1>3, <2>1, <2>3 DEF IoStep, IoNext, S
    <2> QED
        BY <2>4
  <1> QED
      BY <1>1, <1>4, <1>5

\* The place in the loops stays in the jig.
LEMMA IoTypeStep ==
    ASSUME IoTypeOK, NEW l, NEW v, IoStep(l, v)
    PROVE  IoTypeOK'
  <1> USE IoAssumption
  <1>1. (Accept(v) /\ Advance) \/ UNCHANGED placeVars
      BY DEF IoStep, ReadAnswer
  <1>2. stage' \in Stages /\ level' \in Levels /\ pin' \in Pairs /\ eva' \in Pairs
      BY <1>1, SMT DEF IoTypeOK, Advance, Loop, AfterScan, placeVars, Stages, Levels, Pairs
  <1>3. Mode \in {"i", "o", "pd", "pu"}
      BY SMT DEF IoTypeOK, Mode, Stages
  <1>4. drive' \in [Pairs -> {"i", "o", "pd", "pu"}] /\ out' \in [Pairs -> Levels]
      BY <1>3, SMT DEF IoTypeOK, IoStep, Execute
  <1>5. late' <= MaxLate /\ late' \in Nat
    <2>1. late \in Nat
        BY DEF late, IoTypeOK
    <2> QED
        BY <2>1, SMT DEF IoTypeOK, IoStep, Shifted, Grown
  <1>6. outcome' \in {"none", "OK", "fail"} /\ failed' \in Pairs \cup {0}
      BY SMT DEF IoTypeOK, IoStep, ReadAnswer
  <1>7. UNCHANGED boardVars /\ answers' \in Seq(Levels \cup {None})
      BY DEF IoStep
  <1>8. wire' \in [Pairs -> Wires] /\ short' \subseteq Pairs /\ float' \in [Pairs -> Levels]
      BY <1>7 DEF IoTypeOK, boardVars
  <1> QED
      BY <1>2, <1>4, <1>5, <1>6, <1>7, <1>8 DEF IoTypeOK

\* Where the loops go, and what becomes of the verdict.
LEMMA PlacesStep ==
    ASSUME IoTypeOK, Places, NEW l, NEW v, IoStep(l, v)
    PROVE  Places'
  <1> USE IoAssumption DEF IoTypeOK, Places, Stages
  <1>1. CASE Accept(v)
    <2>1. Advance /\ outcome' = IF stage' = "over" THEN "OK" ELSE "none"
        BY <1>1 DEF IoStep, ReadAnswer
    <2> QED
        BY <2>1, SMT DEF Advance, Loop, AfterScan, Levels
  <1>2. CASE ~Accept(v)
      BY <1>2, SMT DEF IoStep, ReadAnswer, placeVars
  <1> QED
      BY <1>1, <1>2

\* A command leaves the driven pins as the next one expects them.
LEMMA PinsStep ==
    ASSUME IoTypeOK, Places, Pins, NEW l, NEW v, IoStep(l, v)
    PROVE  Pins'
  <1> USE IoAssumption
  <1>1. /\ drive \in [Pairs -> {"i", "o", "pd", "pu"}] /\ out \in [Pairs -> Levels]
        /\ stage \in Stages /\ level \in Levels /\ pin \in 1..N /\ eva \in 1..N
      BY DEF IoTypeOK, Pairs
  <1>2. drive' = [drive EXCEPT ![pin] = Mode]
      BY DEF IoStep, Execute
  <1>3. out' = IF stage \in {"high", "low"} THEN [out EXCEPT ![pin] = level] ELSE out
      BY DEF IoStep, Execute
  <1>4. CASE Accept(v)
    <2>1. Advance
        BY <1>4 DEF IoStep, ReadAnswer
    <2>2. /\ \A p \in Pairs : drive'[p] = IF p = pin THEN Mode ELSE drive[p]
          /\ \A p \in Pairs : out'[p] = IF p = pin /\ stage \in {"high", "low"} THEN level ELSE out[p]
        BY <1>1, <1>2, <1>3, SMT
    <2>3. CASE stage = "output"
        BY <2>1, <2>2, <2>3, <1>1, SMT DEF Advance, Loop, Pins, Places, Mode, PinTests, Pairs
    <2>4. CASE stage = "high"
        BY <2>1, <2>2, <2>4, <1>1, SMT DEF Advance, Loop, Pins, Places, Mode, PinTests, Pairs
    <2>5. CASE stage = "input"
        BY <2>1, <2>2, <2>5, <1>1, SMT DEF Advance, Loop, Pins, Places, Mode, PinTests, Pairs
    <2>6. CASE stage = "pull"
        BY <2>1, <2>2, <2>6, <1>1, SMT DEF Advance, Loop, Pins, Places, Mode, PinTests, Pairs
    <2>7. CASE stage = "read"
        BY <2>1, <2>2, <2>7, <1>1, SMT DEF Advance, Loop, Pins, Places, Mode, PinTests, Pairs
    <2>8. CASE stage = "release"
        BY <2>1, <2>2, <2>8, <1>1, SMT DEF Advance, Loop, AfterScan, Pins, Places, Mode, PinTests, Pairs, Levels
    <2>9. CASE stage = "low"
        BY <2>1, <2>2, <2>9, <1>1, SMT DEF Advance, Loop, Pins, Places, Mode, PinTests, Pairs
    <2> QED
        BY <2>1, <2>3, <2>4, <2>5, <2>6, <2>7, <2>8, <2>9 DEF Advance
  <1>5. CASE ~Accept(v)
    <2>1. UNCHANGED placeVars /\ stage = "read"
        BY <1>5 DEF IoStep, ReadAnswer, Accept
    <2>2. Mode = drive[pin]
        BY <2>1, SMT DEF Mode
    <2>3. drive' = drive /\ out' = out
        BY <1>1, <1>2, <1>3, <2>1, <2>2, SMT DEF Pairs
    <2> QED
        BY <2>1, <2>3, SMT DEF Pins, placeVars
  <1> QED
      BY <1>4, <1>5

\* A row of readings keeps the answer to its "pm" among the late ones.
LEMMA OwnStep ==
    ASSUME IoTypeOK, OwnAnswers, NEW l, NEW v, IoStep(l, v), outcome' # "fail"
    PROVE  /\ OwnAnswers'
           /\ stage = "read" /\ stage' = "release" /\ late > 0 => late > N
  <1> USE IoAssumption
  <1>1. /\ late \in Nat /\ eva \in 1..N /\ pin \in 1..N
      BY DEF IoTypeOK, Pairs, late
  <1>2. Accept(v) /\ Advance
      BY DEF IoStep, ReadAnswer
  <1>3. Shifted(l, v) \/ Grown(l, v)
      BY DEF IoStep
  <1>4. CASE stage = "pull"
    <2>1. l = None /\ stage' = "read" /\ eva' = 1
        BY <1>4, <1>2 DEF IoStep, Execute, Advance
    <2>2. late' > 0 => answers'[late'] = None
        BY <2>1, <1>1, <1>3, SMT DEF Shifted, Grown, None
    <2> QED
        BY <2>1, <2>2, <1>1, <1>3, <1>4, SMT DEF OwnAnswers, Shifted, Grown
  <1>5. CASE stage = "read"
    <2>1. v # None /\ Shifted(l, v)
        BY <1>2, <1>3, <1>5, SMT DEF Accept, Grown, None, IoTypeOK, Levels
    <2>2. late' = late /\ stage' = IF eva < N THEN "read" ELSE "release"
        BY <2>1, <1>2, <1>5 DEF Shifted, Advance
    <2>3. late > 0 => eva < late
        BY <2>1, <1>1, <1>5, SMT DEF Shifted, OwnAnswers
    <2>4. late > 0 => answers'[late - eva] = None
      <3> SUFFICES ASSUME late > 0 PROVE answers'[late - eva] = None
          OBVIOUS
      <3>1. PICK k : k = late - eva
          OBVIOUS
      <3>2. k \in 1..(late - 1) /\ k + 1 = late - eva + 1
          BY <3>1, <2>3, <1>1, SMT
      <3>3. answers'[k] = answers[k + 1]
          BY <3>2, <2>1 DEF Shifted
      <3>4. answers[late - eva + 1] = None
          BY <1>5 DEF OwnAnswers
      <3> QED
          BY <3>1, <3>2, <3>3, <3>4
    <2>5. eva < N => eva' = eva + 1
        BY <1>2, <1>5 DEF Advance
    <2>6. OwnAnswers'
      <3>1. CASE eva < N
        <4>1. late' - eva' + 1 = late - eva
            BY <3>1, <2>2, <2>5, <1>1, SMT
        <4> QED
            BY <3>1, <4>1, <2>2, <2>3, <2>4, <2>5, <1>1, SMT DEF OwnAnswers
      <3>2. CASE ~(eva < N)
          BY <3>2, <2>2 DEF OwnAnswers
      <3> QED
          BY <3>1, <3>2
    <2> QED
        BY <2>2, <2>3, <2>6, <1>1, SMT
  <1>6. CASE stage \notin {"pull", "read"}
    <2>1. stage' # "read"
        BY <1>2, <1>6, SMT DEF Advance, Loop, AfterScan
    <2> QED
        BY <2>1, <1>6 DEF OwnAnswers
  <1> QED
      BY <1>4, <1>5, <1>6

-----------------------------------------------------------------------------
(* What the board reads.                                                   *)

\* Between sound wires every reading is one the host accepts, whichever pins
\* touch: only the pin under test may read the changed level.
LEMMA SoundReads ==
    ASSUME IoTypeOK, Pins, stage = "read", Sound, NEW l \in Reads(eva)
    PROVE  Accept(l)
  <1>1. /\ drive \in [Pairs -> {"i", "o", "pd", "pu"}] /\ out \in [Pairs -> Levels]
        /\ short \subseteq Pairs /\ level \in Levels /\ pin \in Pairs /\ eva \in Pairs
        /\ \A p \in Pairs : wire[p] = "sound"
      BY DEF IoTypeOK, Sound
  <1>2. /\ \A p \in Pairs : p # pin => drive[p] = "o"
        /\ drive[pin] = IF level = 1 THEN "pd" ELSE "pu"
        /\ \A p \in Pairs : out[p] = level
      BY SMT DEF Pins, PinTests
  <1>3. Node(eva) \subseteq Pairs /\ eva \in Node(eva)
      BY <1>1 DEF Node
  <1>4. Stuck(eva) = {}
      BY <1>1, <1>3, SMT DEF Stuck
  <1>5. \A m \in Driven(eva) : m = level
      BY <1>2, <1>3, SMT DEF Driven
  <1>6. CASE Driven(eva) # {}
    <2>1. l \in Driven(eva)
        BY <1>4, <1>6 DEF Reads
    <2> QED
        BY <2>1, <1>5 DEF Accept
  <1>7. CASE Driven(eva) = {}
    <2>1. \A q \in Node(eva) : drive[q] # "o"
        BY <1>1, <1>3, <1>7, Zenon DEF Driven
    <2>2. eva = pin /\ \A q \in Node(eva) : q = pin
        BY <2>1, <1>2, <1>3
    <2>3. Pulls(eva) = {drive[pin]}
        BY <2>2, <1>1, <1>2, <1>3, SMT DEF Pulls
    <2>4. l = IF drive[pin] = "pu" THEN 1 ELSE 0
        BY <2>3, <1>4, <1>7, SMT DEF Reads
    <2> QED
        BY <2>2, <2>4, <1>1, <1>2, SMT DEF Accept, Levels
  <1> QED
      BY <1>6, <1>7

\* Without touching pins a driven pin whose reading is the driven level is not
\* stuck at the other, nor open and reading it.
LEMMA DrivenReads ==
    ASSUME IoTypeOK, Pins, stage = "read", short = {}, eva # pin, level \in Reads(eva)
    PROVE  IF level = 1 THEN High(eva) ELSE Low(eva)
  <1>1. /\ wire[eva] \in Wires /\ float[eva] \in Levels /\ level \in Levels /\ eva \in Pairs
      BY DEF IoTypeOK
  <1>2. Node(eva) = {eva}
      BY DEF Node
  <1>3. CASE wire[eva] = "sound"
      BY <1>3 DEF High, Low
  <1>4. CASE wire[eva] \in {"gnd", "vcc"}
    <2>1. Stuck(eva) = {IF wire[eva] = "vcc" THEN 1 ELSE 0}
        BY <1>2, <1>4, SMT DEF Stuck
    <2>2. level = IF wire[eva] = "vcc" THEN 1 ELSE 0
        BY <2>1, SMT DEF Reads
    <2> QED
        BY <2>2, <1>4, SMT DEF High, Low
  <1>5. CASE wire[eva] = "open"
    <2>1. Stuck(eva) = {} /\ Driven(eva) = {} /\ Pulls(eva) = {}
        BY <1>2, <1>5, SMT DEF Stuck, Driven, Pulls
    <2>2. level = float[eva]
        BY <2>1, SMT DEF Reads
    <2> QED
        BY <2>2, <1>1, <1>5, SMT DEF High, Low, Levels
  <1> QED
      BY <1>1, <1>3, <1>4, <1>5 DEF Wires

\* And a pin that read high while another was under test is read high when it
\* is pulled up itself.
LEMMA PulledReads ==
    ASSUME IoTypeOK, Pins, stage = "read", short = {}, eva = pin, level = 0, High(pin),
           NEW l \in Reads(eva)
    PROVE  l = 1
  <1>1. drive[pin] = "pu" /\ pin \in Pairs
      BY SMT DEF Pins, IoTypeOK
  <1>2. Node(pin) = {pin}
      BY DEF Node
  <1>3. CASE wire[pin] = "sound"
    <2>1. Stuck(pin) = {} /\ Driven(pin) = {} /\ Pulls(pin) = {"pu"}
        BY <1>1, <1>2, <1>3, SMT DEF Stuck, Driven, Pulls
    <2> QED
        BY <2>1, SMT DEF Reads
  <1>4. CASE wire[pin] = "vcc"
    <2>1. Stuck(pin) = {1}
        BY <1>2, <1>4, SMT DEF Stuck
    <2> QED
        BY <2>1, SMT DEF Reads
  <1>5. CASE wire[pin] = "open" /\ float[pin] = 1
    <2>1. Stuck(pin) = {} /\ Driven(pin) = {} /\ Pulls(pin) = {}
        BY <1>2, <1>5, SMT DEF Stuck, Driven, Pulls
    <2> QED
        BY <2>1, <1>5, SMT DEF Reads
  <1> QED
      BY <1>3, <1>4, <1>5 DEF High

\* Sound wires are not failed as long as no answer is late.
LEMMA SoundStep ==
    ASSUME IoTypeOK, Pins, NEW l, NEW v, IoStep(l, v)
    PROVE  SoundWiresPass'
  <1> SUFFICES ASSUME Sound', late' = 0, outcome' = "fail" PROVE FALSE
      BY DEF SoundWiresPass
  <1>1. Sound
      BY DEF Sound, IoStep, boardVars
  <1>2. late \in Nat
      BY DEF IoTypeOK, late
  <1>3. late = 0 /\ v = l
      BY <1>2, SMT DEF IoStep, Shifted, Grown
  <1>4. ~Accept(l)
      BY <1>3 DEF IoStep, ReadAnswer
  <1>5. stage = "read"
      BY <1>4 DEF Accept
  <1>6. l \in Reads(eva)
      BY <1>5 DEF IoStep, Execute
  <1> QED
      BY <1>1, <1>4, <1>5, <1>6, SoundReads

-----------------------------------------------------------------------------
(* Late answers over the rows of both passes, for two pairs at least.      *)

\* A step that the host accepts: where it goes and what it does to the queue.
Accepted(l, v) ==
    /\ IoTypeOK /\ Places /\ Pins /\ N > 1
    /\ IoStep(l, v) /\ Accept(v) /\ Advance

LEMMA AcceptedStep ==
    ASSUME IoTypeOK, Places, Pins, N > 1, NEW l, NEW v, IoStep(l, v), outcome' # "fail"
    PROVE  Accepted(l, v)
  <1> QED
      BY DEF IoStep, ReadAnswer, Accepted

\* What is read of the board is a level; a late answer that is accepted is one.
LEMMA AcceptedRead ==
    ASSUME NEW l, NEW v, Accepted(l, v), stage = "read"
    PROVE  /\ Shifted(l, v) /\ late' = late
           /\ v = level \/ (eva = pin /\ v = 1 - level)
           /\ l \in Reads(eva)
           /\ v # None
  <1> QED
      BY SMT DEF Accepted, Accept, IoTypeOK, Levels, None, IoStep, Grown, Shifted, Execute

LEMMA HighQueueStep ==
    ASSUME NEW l, NEW v, Accepted(l, v), HighQueue
    PROVE  HighQueue' /\ (level = 1 /\ stage' = "release" => late = 0)
  <1> USE IoAssumption
  <1>1. /\ late \in Nat /\ pin \in 1..N /\ eva \in 1..N /\ level \in {0, 1} /\ N > 1 /\ N \in Nat
        /\ stage \in Stages
      BY DEF Accepted, IoTypeOK, Pairs, Levels, late
  <1>2. Advance /\ (Shifted(l, v) \/ Grown(l, v))
      BY DEF Accepted, IoStep
  <1>3. level' = 1 => level = 1
      BY <1>1, <1>2, SMT DEF Advance
  <1> SUFFICES ASSUME level = 1
               PROVE  HighQueue' /\ (stage' = "release" => late = 0)
      BY <1>1, <1>3 DEF HighQueue
  <1>4. stage \notin {"low", "over"}
      BY DEF Accepted, Places
  <1>5. late' \in Nat
      BY <1>1, <1>2, SMT DEF Shifted, Grown
  <1>6. l # None => stage \in {"high", "read"}
      BY <1>4 DEF Accepted, IoStep, Execute
  <1>7. CASE stage \in {"output", "high", "input"} \/ (stage = "pull" /\ pin = 1)
    <2>1. NoTwo /\ (stage = "high" /\ late > 0 => answers[late] = None)
        BY <1>7 DEF HighQueue
    <2>2. NoTwo'
      <3> SUFFICES ASSUME NEW k \in 1..(late' - 1), answers'[k] # None
                   PROVE  answers'[k + 1] = None
          BY DEF NoTwo
      <3>1. stage = "high" \/ l = None
          BY <1>6, <1>7
      <3>2. CASE Shifted(l, v)
          BY <3>1, <3>2, <2>1, <1>1, <1>5, SMT DEF Shifted, NoTwo
      <3>3. CASE Grown(l, v)
          BY <3>1, <3>3, <2>1, <1>1, <1>5, SMT DEF Grown, NoTwo
      <3> QED
          BY <1>2, <3>2, <3>3
    <2>3. stage # "high" /\ late' > 0 => answers'[late'] = None
        BY <1>1, <1>2, <1>6, <1>7, SMT DEF Shifted, Grown
    <2>4. /\ stage' = "high" => stage = "output"
          /\ stage' = "read" => stage = "pull" /\ eva' = 1 /\ pin' = pin
          /\ stage' = "pull" => pin' = 1
          /\ stage' # "release"
        BY <1>2, <1>7, SMT DEF Advance, Loop
    <2> QED
        BY <2>2, <2>3, <2>4, <1>7 DEF HighQueue
  <1>8. CASE stage = "pull" /\ pin # 1
    <2>1. late <= 1 /\ (late = 1 => answers[1] = None) /\ l = None
        BY <1>6, <1>8 DEF HighQueue
    <2>2. late' > 0 => answers'[1] = None
        BY <2>1, <1>1, <1>2, SMT DEF Shifted, Grown
    <2>3. stage' = "read"
        BY <1>2, <1>8 DEF Advance
    <2> QED
        BY <2>2, <2>3 DEF HighQueue
  <1>9. CASE stage = "read"
    <2>1. Shifted(l, v) /\ v # None /\ late' = late
        BY <1>9, AcceptedRead
    <2>2. late > 0 => v = answers[1]
        BY <2>1, <1>1 DEF Shifted
    <2>3. late > 0 => pin = 1 /\ eva = 1 /\ NoTwo /\ answers[late] = None
        BY <2>1, <2>2, <1>9 DEF HighQueue
    <2>4. late > 0 => late > 1 /\ answers[2] = None
      <3> SUFFICES ASSUME late > 0 PROVE late > 1 /\ answers[2] = None
          OBVIOUS
      <3>1. late > 1
          BY <2>1, <2>2, <2>3, <1>1, SMT
      <3> QED
          BY <3>1, <2>1, <2>2, <2>3, <1>1, SMT DEF NoTwo
    <2>5. late > 0 => answers'[1] = None
        BY <2>1, <2>4, <1>1, SMT DEF Shifted
    <2>6. /\ stage' \in {"read", "release"}
          /\ stage' = "release" => eva = N
        BY <1>1, <1>2, <1>9, SMT DEF Advance
    <2>7. stage' = "release" => late = 0
        BY <2>3, <2>6, <1>1, SMT
    <2> QED
        BY <2>1, <2>5, <2>6, <2>7, <1>1 DEF HighQueue
  <1>10. CASE stage = "release"
    <2>1. late = 0 /\ l = None
        BY <1>6, <1>10 DEF HighQueue
    <2>2. late' <= 1 /\ (late' = 1 => answers'[1] = None)
        BY <2>1, <1>2, SMT DEF Shifted, Grown
    <2>3. (stage' = "pull" /\ pin' # 1) \/ level' = 0
        BY <1>1, <1>2, <1>10, SMT DEF Advance, Loop, AfterScan
    <2>4. stage' # "release"
        BY <1>1, <1>2, <1>10, SMT DEF Advance, Loop, AfterScan
    <2> QED
        BY <2>2, <2>3, <2>4, SMT DEF HighQueue
  <1> QED
      BY <1>1, <1>4, <1>7, <1>8, <1>9, <1>10 DEF Stages

LEMMA LowQueueStep ==
    ASSUME NEW l, NEW v, Accepted(l, v), HighQueue, LowQueue, Checked, OwnAnswers, short = {}
    PROVE  LowQueue' /\ (stage' = "release" /\ pin = 2 => late = 0)
  <1> USE IoAssumption
  <1>1. /\ late \in Nat /\ pin \in 1..N /\ eva \in 1..N /\ level \in {0, 1} /\ N > 1 /\ N \in Nat
        /\ stage \in Stages
      BY DEF Accepted, IoTypeOK, Pairs, Levels, late
  <1>2. Advance /\ (Shifted(l, v) \/ Grown(l, v))
      BY DEF Accepted, IoStep
  <1>3. late' \in Nat
      BY <1>1, <1>2, SMT DEF Shifted, Grown
  <1>4. l # None => stage \in {"high", "low", "read"}
      BY DEF Accepted, IoStep, Execute
  <1>5. CASE level = 1
    <2>1. stage' = "release" => late = 0
        BY <1>5, HighQueueStep
    <2>2. level' = 0 => stage = "release" /\ stage' = "low" /\ pin' = 1
        BY <1>1, <1>2, <1>5, SMT DEF Accepted, Places, Advance, Loop, AfterScan
    <2>3. level' = 0 => late = 0 /\ l = None
        BY <2>2, <1>4, <1>5 DEF HighQueue
    <2>4. level' = 0 => late' <= 1 /\ (late' = 1 => answers'[1] = None)
        BY <2>3, <1>2, SMT DEF Shifted, Grown
    <2>5. level' = 0 \/ level' = 1
        BY <1>2, <1>5 DEF Advance
    <2> QED
        BY <2>1, <2>2, <2>4, <2>5 DEF LowQueue
  <1>6. CASE level = 0
    <2>1. stage \in {"low", "pull", "read", "release"} /\ level' = 0
        BY <1>1, <1>2, <1>6, SMT DEF Accepted, Places, Advance, Stages
    <2>2. CASE stage = "low"
      <3>1. late <= pin /\ (late = pin => answers[1] = None)
          BY <1>6, <2>2 DEF LowQueue
      <3>2. late' <= pin + 1 /\ (late' = pin + 1 => answers'[1] = None)
          BY <3>1, <1>1, <1>2, SMT DEF Shifted, Grown
      <3>3. (stage' = "low" /\ pin' = pin + 1) \/ (stage' = "pull" /\ pin' = 1 /\ pin = N)
          BY <1>1, <1>2, <2>2, SMT DEF Advance, Loop
      <3> QED
          BY <3>2, <3>3, SMT DEF LowQueue
    <2>3. CASE stage = "pull" /\ pin = 1
      <3>1. late <= N + 1 /\ (late = N + 1 => answers[1] = None)
          BY <1>6, <2>3 DEF LowQueue
      <3>2. late' <= N + 2 /\ (late' = N + 2 => answers'[1] = None)
          BY <3>1, <1>1, <1>2, SMT DEF Shifted, Grown
      <3>3. stage' = "read" /\ eva' = 1 /\ pin' = 1
          BY <1>2, <2>3, SMT DEF Advance
      <3> QED
          BY <3>2, <3>3, <1>1, <1>3, SMT DEF LowQueue
    <2>4. CASE stage = "read" /\ pin = 1
      <3>1. Shifted(l, v) /\ v # None /\ late' = late /\ l \in Reads(eva)
          BY <2>4, AcceptedRead
      <3>2. late > 0 => v = answers[1]
          BY <3>1, <1>1 DEF Shifted
      <3>3. late > 0 => late <= N + 1 /\ (late = N + 1 /\ eva > 1 => answers[late - eva + 2] = 1)
          BY <3>1, <3>2, <1>6, <2>4 DEF LowQueue
      <3>4. late > 0 => eva < late /\ answers[late - eva + 1] = None
          BY <3>1, <3>2, <1>1, <2>4, SMT DEF OwnAnswers
      <3>5. eva = 1 => l = 1
        <4>1. 1 \in Pairs /\ High(1)
            BY <1>1, <1>6, SMT DEF Checked, HighRow, Pairs
        <4> QED
            BY <4>1, <3>1, <1>6, <2>4, PulledReads DEF Accepted
      <3>6. late = N + 1 => answers'[late - eva + 1] = 1
        <4> SUFFICES ASSUME late = N + 1 PROVE answers'[late - eva + 1] = 1
            OBVIOUS
        <4>1. CASE eva = 1
            BY <4>1, <3>1, <3>5, <1>1, SMT DEF Shifted
        <4>2. CASE eva > 1
          <5>1. PICK k : k = late - eva + 1
              OBVIOUS
          <5>2. k \in 1..(late - 1) /\ k + 1 = late - eva + 2
              BY <5>1, <4>2, <1>1, SMT
          <5>3. answers'[k] = answers[k + 1]
              BY <5>2, <3>1 DEF Shifted
          <5> QED
              BY <5>1, <5>2, <5>3, <4>2, <3>3, <1>1, SMT
        <4> QED
            BY <4>1, <4>2, <1>1, SMT
      <3>7. late > 0 => answers'[late - eva] = None
        <4> SUFFICES ASSUME late > 0 PROVE answers'[late - eva] = None
            OBVIOUS
        <4>1. PICK k : k = late - eva
            OBVIOUS
        <4>2. k \in 1..(late - 1) /\ k + 1 = late - eva + 1
            BY <4>1, <3>4, <1>1, SMT
        <4>3. answers'[k] = answers[k + 1]
            BY <4>2, <3>1 DEF Shifted
        <4> QED
            BY <4>1, <4>2, <4>3, <3>4
      <3>8. CASE eva < N
        <4>1. stage' = "read" /\ eva' = eva + 1 /\ pin' = 1
            BY <3>8, <1>2, <2>4 DEF Advance
        <4>2. late' - eva' + 2 = late - eva + 1 /\ eva' # 1
            BY <4>1, <3>1, <1>1, SMT
        <4> QED
            BY <4>1, <4>2, <3>1, <3>3, <3>6, <2>4, SMT DEF LowQueue
      <3>9. CASE ~(eva < N)
        <4>1. stage' = "release" /\ pin' = 1 /\ eva = N
            BY <3>9, <1>1, <1>2, <2>4, SMT DEF Advance
        <4>2. late > 0 => late = N + 1
            BY <4>1, <3>3, <3>4, <1>1, SMT
        <4>3. late > 0 => answers'[1] = None /\ answers'[2] = 1
            BY <4>1, <4>2, <3>6, <3>7, <1>1, SMT
        <4> QED
            BY <4>1, <4>2, <4>3, <3>1, <2>4, SMT DEF LowQueue
      <3> QED
          BY <3>8, <3>9
    <2>5. CASE stage = "release" /\ pin = 1
      <3>1. late > 0 => late = N + 1 /\ answers[1] = None /\ answers[2] = 1
          BY <1>6, <2>5 DEF LowQueue
      <3>2. l = None
          BY <1>4, <2>5
      <3>3. late' > 0 => answers'[late'] = None
          BY <3>2, <1>1, <1>2, SMT DEF Shifted, Grown
      <3>4. late' > 0 =>
              \/ late' = 1
              \/ late' = N + 1 /\ answers'[1] = 1
              \/ late' = N + 2 /\ answers'[1] = None /\ answers'[2] = 1
          BY <3>1, <1>1, <1>2, SMT DEF Shifted, Grown
      <3>5. stage' = "pull" /\ pin' = 2
          BY <1>1, <1>2, <2>5, SMT DEF Advance, Loop
      <3> QED
          BY <3>3, <3>4, <3>5, SMT DEF LowQueue
    <2>6. CASE stage = "pull" /\ pin = 2
      <3>1. late > 0 =>
              /\ answers[late] = None
              /\ \/ late = 1
                 \/ late = N + 1 /\ answers[1] = 1
                 \/ late = N + 2 /\ answers[1] = None /\ answers[2] = 1
          BY <1>6, <2>6 DEF LowQueue
      <3>2. l = None
          BY <1>4, <2>6
      <3>3. late' > 0 => answers'[1] # 0 \/ (late' = N + 1 /\ answers'[N] = None)
          BY <3>1, <3>2, <1>1, <1>2, SMT DEF Shifted, Grown, None
      <3>4. stage' = "read" /\ pin' = 2 /\ eva' = 1
          BY <1>2, <2>6 DEF Advance
      <3> QED
          BY <3>3, <3>4, <1>1, SMT DEF LowQueue
    <2>7. CASE stage = "read" /\ pin = 2
      <3>1. Shifted(l, v) /\ v # None /\ late' = late /\ (v = level \/ (eva = pin /\ v = 1 - level))
          BY <2>7, AcceptedRead
      <3>2. late > 0 => v = answers[1]
          BY <3>1, <1>1 DEF Shifted
      <3>3. late > 0 => late = N + 1 /\ answers[N + 1 - eva] = None
        <4>1. (eva = 1 /\ answers[1] # 0) => late = 0
            BY <3>1, <3>2, <1>1, <1>6, <2>7, SMT
        <4> QED
            BY <4>1, <1>1, <1>6, <2>7, SMT DEF LowQueue
      <3>4. late > 0 => eva < N
        <4>1. eva = N => N + 1 - eva = 1
            BY <1>1, SMT
        <4> QED
            BY <4>1, <3>1, <3>2, <3>3, <1>1, SMT
      <3>5. late > 0 => answers'[N - eva] = None
        <4> SUFFICES ASSUME late > 0 PROVE answers'[N - eva] = None
            OBVIOUS
        <4>1. PICK k : k = N - eva
            OBVIOUS
        <4>2. k \in 1..(late - 1) /\ k + 1 = N + 1 - eva
            BY <4>1, <3>3, <3>4, <1>1, SMT
        <4>3. answers'[k] = answers[k + 1]
            BY <4>2, <3>1 DEF Shifted
        <4> QED
            BY <4>1, <4>2, <4>3, <3>3
      <3>6. (eva < N /\ stage' = "read" /\ eva' = eva + 1 /\ pin' = 2) \/ (eva = N /\ stage' = "release" /\ pin' = 2)
          BY <1>1, <1>2, <2>7, SMT DEF Advance
      <3>7. eva' = eva + 1 => N + 1 - eva' = N - eva
          BY <1>1, SMT
      <3> QED
          BY <3>1, <3>3, <3>4, <3>5, <3>6, <3>7, <1>1, SMT DEF LowQueue
    <2>8. CASE pin > 2 \/ (stage = "release" /\ pin = 2)
      <3>1. stage # "low" => stage' # "low" /\ (pin' > 2 \/ stage' = "over")
          BY <1>1, <1>2, <1>6, <2>8, <2>1, SMT DEF Advance, Loop, AfterScan
      <3>2. pin = 2 => stage' # "release"
          BY <1>1, <1>2, <2>8, SMT DEF Advance, Loop, AfterScan
      <3> QED
          BY <3>1, <3>2, <2>1, <2>2, <1>1, SMT DEF LowQueue
    <2> QED
        BY <2>1, <2>2, <2>3, <2>4, <2>5, <2>6, <2>7, <2>8, <1>1, SMT
  <1> QED
      BY <1>1, <1>5, <1>6

\* A row that the host has accepted on its own answers leaves no pin but the
\* one under test open, or stuck at the other level, unnoticed.
LEMMA CheckedStep ==
    ASSUME NEW l, NEW v, Accepted(l, v), HighQueue, LowQueue, Checked, OwnAnswers, short = {}
    PROVE  Checked'
  <1> USE IoAssumption
  <1>1. /\ late \in Nat /\ pin \in 1..N /\ eva \in 1..N /\ level \in {0, 1} /\ N > 1 /\ N \in Nat
        /\ stage \in Stages
      BY DEF Accepted, IoTypeOK, Pairs, Levels, late
  <1>2. Advance /\ (Shifted(l, v) \/ Grown(l, v)) /\ Places
      BY DEF Accepted, IoStep
  <1>3. \A p : (High(p))' <=> High(p)
      BY DEF Accepted, IoStep, boardVars, High
  <1>4. \A p : (Low(p))' <=> Low(p)
      BY DEF Accepted, IoStep, boardVars, Low
  <1>5. (answers = <<>> <=> late = 0) /\ (answers' = <<>> <=> late' = 0)
    <2>1. answers \in Seq(Levels \cup {None}) /\ answers' \in Seq(Levels \cup {None})
        BY DEF Accepted, IoTypeOK, IoStep
    <2> QED
        BY <2>1, SMT DEF late
  <1>6. late <= late'
      BY <1>1, <1>2, SMT DEF Shifted, Grown
  <1>7. stage' = "release" /\ (level = 1 \/ pin = 2) => late = 0
      BY HighQueueStep, LowQueueStep
  <1>8. CASE stage = "read"
    <2>1. Shifted(l, v) /\ late' = late /\ l \in Reads(eva) /\ (v = level \/ (eva = pin /\ v = 1 - level))
        BY <1>8, AcceptedRead
    <2>2. late = 0 /\ eva # pin => IF level = 1 THEN High(eva) ELSE Low(eva)
      <3> SUFFICES ASSUME late = 0, eva # pin PROVE IF level = 1 THEN High(eva) ELSE Low(eva)
          OBVIOUS
      <3>1. v = l /\ v = level
          BY <2>1 DEF Shifted
      <3> QED
          BY <3>1, <2>1, <1>8, DrivenReads DEF Accepted
    <2>3. /\ level' = level /\ pin' = pin
          /\ \/ eva < N /\ stage' = "read" /\ eva' = eva + 1
             \/ eva = N /\ stage' = "release"
        BY <1>1, <1>2, <1>8, SMT DEF Advance
    <2>4. CASE level = 1
      <3>1. late = 0 => \A p \in Pairs : p <= eva /\ p # pin => High(p)
          BY <2>2, <2>4, <1>1, <1>5, <1>8, SMT DEF Checked, Pairs
      <3>2. HighRow(1)' => HighRow(1) \/ (pin = 1 /\ eva = N /\ late = 0)
          BY <2>3, <2>4, <1>1, <1>7, <1>8, SMT DEF HighRow, Past, PinTests
      <3>3. HighRow(2)' => HighRow(2) \/ (pin = 2 /\ eva = N /\ late = 0)
          BY <2>3, <2>4, <1>1, <1>7, <1>8, SMT DEF HighRow, Past, PinTests
      <3>4. HighRow(1)' => \A p \in Pairs : p # 1 => High(p)
          BY <3>1, <3>2, <1>1, SMT DEF Checked, Pairs
      <3>5. HighRow(2)' => High(1)
          BY <3>1, <3>3, <1>1, SMT DEF Checked, Pairs
      <3>6. late' = 0 /\ stage' = "read" => \A p \in Pairs : p < eva' /\ p # pin' => High(p)
          BY <3>1, <2>1, <2>3, <1>1, SMT DEF Pairs
      <3> QED
          BY <3>4, <3>5, <3>6, <2>3, <2>4, <1>3, <1>4, <1>5, SMT DEF Checked, LowRow
    <2>5. CASE level = 0
      <3>1. late = 0 => \A p \in Pairs : p <= eva /\ p # pin => Low(p)
          BY <2>2, <2>5, <1>1, <1>5, <1>8, SMT DEF Checked, Pairs
      <3>2. LowRow(1)' => LowRow(1) \/ (pin = 1 /\ eva = N)
          BY <2>3, <2>5, <1>1, <1>8, SMT DEF LowRow, Past, PinTests
      <3>3. LowRow(2)' => LowRow(2) \/ (pin = 2 /\ eva = N /\ late = 0)
          BY <2>3, <2>5, <1>1, <1>7, <1>8, SMT DEF LowRow, Past, PinTests
      <3>4. (LowRow(2))' => LowRow(1)
          BY <2>3, <2>5, <1>1, <1>8, SMT DEF LowRow, Past, PinTests
      <3>5. LowRow(1)' /\ (late' = 0 \/ LowRow(2)') => \A p \in Pairs : p # 1 => Low(p)
          BY <3>1, <3>2, <3>3, <3>4, <2>1, <1>1, <1>5, SMT DEF Checked, Pairs
      <3>6. LowRow(2)' => Low(1)
          BY <3>1, <3>3, <1>1, SMT DEF Checked, Pairs
      <3>7. late' = 0 /\ stage' = "read" => \A p \in Pairs : p < eva' /\ p # pin' => Low(p)
          BY <3>1, <2>1, <2>3, <1>1, SMT DEF Pairs
      <3>8. HighRow(1) /\ HighRow(2)
          BY <2>5 DEF HighRow
      <3> QED
          BY <3>5, <3>6, <3>7, <3>8, <2>3, <2>5, <1>3, <1>4, <1>5, SMT DEF Checked
    <2> QED
        BY <1>1, <2>4, <2>5
  <1>9. CASE stage # "read"
    <2>1. stage' = "read" => stage = "pull" /\ eva' = 1
        BY <1>2, <1>9, SMT DEF Advance, Loop, AfterScan
    <2>2. /\ stage = "pull" => stage' = "read" /\ pin' = pin
          /\ stage = "release" =>
               \/ pin < N /\ stage' = "pull" /\ pin' = pin + 1 /\ level' = level
               \/ pin = N /\ level = 1 /\ stage' = "low" /\ level' = 0
               \/ pin = N /\ level = 0 /\ stage' = "over" /\ level' = 0
        BY <1>1, <1>2, SMT DEF Advance, Loop, AfterScan
    <2>3. /\ stage \in {"output", "high", "input"} =>
               /\ stage' \in {"output", "high", "input"} \/ (stage' = "pull" /\ pin' = 1)
               /\ level' = 1
          /\ stage = "low" => stage' = "low" \/ (stage' = "pull" /\ pin' = 1)
          /\ stage # "release" => level' = level
        BY <1>1, <1>2, SMT DEF Advance, Loop, AfterScan, Places
    <2>4. stage \in {"output", "high", "input", "pull", "release", "low"}
        BY <1>2, <1>9 DEF Advance
    <2>5. HighRow(1)' => HighRow(1)
        BY <2>2, <2>3, <2>4, <1>1, SMT DEF HighRow, Past, PinTests
    <2>6. HighRow(2)' => HighRow(2)
        BY <2>2, <2>3, <2>4, <1>1, SMT DEF HighRow, Past, PinTests
    <2>7. LowRow(1)' => LowRow(1)
        BY <2>2, <2>3, <2>4, <1>1, <1>2, SMT DEF LowRow, Past, PinTests, Places
    <2>8. LowRow(2)' => LowRow(2)
        BY <2>2, <2>3, <2>4, <1>1, <1>2, SMT DEF LowRow, Past, PinTests, Places
    <2>9. late' = 0 => late = 0
        BY <1>1, <1>6, SMT
    <2>10. \A p \in Pairs : ~(stage' = "read" /\ p < eva')
        BY <2>1, <1>1, SMT DEF Pairs
    <2> QED
        BY <2>5, <2>6, <2>7, <2>8, <2>9, <2>10, <1>3, <1>4, <1>5, SMT DEF Checked
  <1> QED
      BY <1>8, <1>9

-----------------------------------------------------------------------------
(* The theorems of the I/O test.                                           *)

\* A board after its reset, before the first command.
LEMMA IoInitInv == IoInit => IoInv
  <1> SUFFICES ASSUME IoInit PROVE IoInv
      OBVIOUS
  <1> USE IoAssumption DEF IoInit
  <1>1. late = 0 /\ answers \in Seq(Levels \cup {None})
      BY SMT DEF late
  <1>2. IoTypeOK
      BY <1>1, SMT DEF IoTypeOK, Stages, Levels, Pairs
  <1>3. Places /\ Pins /\ SoundWiresPass /\ OwnAnswers
      BY SMT DEF Places, Pins, SoundWiresPass, OwnAnswers, Pairs, PinTests
  <1>4. HighQueue /\ LowQueue /\ Checked
      BY <1>1, SMT DEF HighQueue, LowQueue, Checked, NoTwo, HighRow, LowRow, Past, PinTests
  <1> QED
      BY <1>2, <1>3, <1>4 DEF IoInv

\* Every exchange of a command and an answer preserves the invariant.
LEMMA IoInvStep == IoInv /\ [IoNext]_ioVars => IoInv'
  <1> SUFFICES ASSUME IoInv, [IoNext]_ioVars PROVE IoInv'
      OBVIOUS
  <1>1. CASE IoNext
    <2>1. PICK l, v : IoStep(l, v)
        BY <1>1, IoStepForm DEF IoInv
    <2>2. IoTypeOK' /\ Places' /\ Pins' /\ SoundWiresPass'
        BY <2>1, IoTypeStep, PlacesStep, PinsStep, SoundStep DEF IoInv
    <2>3. Live /\ (short' = short)
        BY <2>1 DEF IoStep, Live, boardVars
    <2>4. Live' => OwnAnswers'
        BY <2>1, <2>3, OwnStep DEF IoInv, Live
    <2>5. ASSUME Live', short' = {}, N > 1
          PROVE  Checked' /\ HighQueue' /\ LowQueue'
      <3>1. Checked /\ HighQueue /\ LowQueue /\ OwnAnswers /\ short = {}
          BY <2>3, <2>5 DEF IoInv
      <3>2. Accepted(l, v)
          BY <2>1, <2>5, AcceptedStep DEF IoInv, Live
      <3> QED
          BY <3>1, <3>2, CheckedStep, HighQueueStep, LowQueueStep
    <2> QED
        BY <2>2, <2>4, <2>5 DEF IoInv
  <1>2. CASE UNCHANGED ioVars
    <2> USE <1>2 DEF ioVars, boardVars, placeVars
    <2>1. IoTypeOK' /\ Places' /\ Pins' /\ SoundWiresPass' /\ (Live => OwnAnswers)'
        BY DEF IoInv, IoTypeOK, Places, Pins, SoundWiresPass, Sound, OwnAnswers, Live, late
    <2>2. (Live /\ short = {} /\ N > 1 => Checked /\ HighQueue /\ LowQueue)'
        BY DEF IoInv, Live, late, Checked, HighQueue, LowQueue, NoTwo, HighRow, LowRow, Past,
               High, Low
    <2> QED
        BY <2>1, <2>2 DEF IoInv
  <1> QED
      BY <1>1, <1>2

\* The loops of iotest() stay in the jig and the answers are of the commands.
THEOREM IoTypes == IoSpec => []IoTypeOK
  <1>1. IoInv => IoTypeOK
      BY DEF IoInv
  <1> QED
      BY IoInitInv, IoInvStep, <1>1, PTL DEF IoSpec

\* Any number of sound pairs passes unless an answer comes late, and so does a
\* jig of sound pairs of which two touch.
THEOREM SoundPasses == IoSpec => []SoundWiresPass
  <1>1. IoInv => SoundWiresPass
      BY DEF IoInv
  <1> QED
      BY IoInitInv, IoInvStep, <1>1, PTL DEF IoSpec

\* What passes is connected, pair by pair, for any number of pairs from two on
\* and any number of late answers.
THEOREM PassesAreConnected == IoSpec => []PassMeansConnected
  <1>1. IoInv => PassMeansConnected
    <2> SUFFICES ASSUME IoInv, outcome = "OK", short = {}, N > 1 PROVE Sound
        BY DEF PassMeansConnected
    <2>1. stage = "over" /\ level = 0 /\ Checked /\ wire \in [Pairs -> Wires]
        BY DEF IoInv, IoTypeOK, Places, Live
    <2>2. \A p \in Pairs : High(p) /\ Low(p)
        BY <2>1 DEF Checked, HighRow, LowRow
    <2>3. \A p \in Pairs : wire[p] = "sound"
        BY <2>2, SMT DEF High, Low
    <2> QED
        BY <2>1, <2>3 DEF Sound
  <1> QED
      BY IoInitInv, IoInvStep, <1>1, PTL DEF IoSpec

\* A row of readings is accepted on its own answers only, unless more than N
\* are late.
THEOREM VerdictsAreOwn == IoSpec => VerdictIsOwn
  <1>1. IoInv /\ [IoNext]_ioVars =>
          [stage = "read" /\ stage' = "release" /\ late <= N => answers = <<>>]_ioVars
    <2> SUFFICES ASSUME IoInv, IoNext, stage = "read", stage' = "release", late <= N
                 PROVE  answers = <<>>
        OBVIOUS
    <2>1. PICK l, v : IoStep(l, v)
        BY IoStepForm DEF IoInv
    <2>2. Live /\ OwnAnswers
        BY <2>1 DEF IoStep, Live, IoInv
    <2>3. outcome' # "fail"
        BY <2>1 DEF IoStep, ReadAnswer, placeVars
    <2>4. ~(late > 0)
      <3>1. late \in Nat /\ N \in Nat
          BY IoAssumption DEF IoInv, IoTypeOK, late
      <3>2. late > 0 => late > N
          BY <2>1, <2>2, <2>3, OwnStep DEF IoInv
      <3> QED
          BY <3>1, <3>2, SMT
    <2>5. answers \in Seq(Levels \cup {None})
        BY DEF IoInv, IoTypeOK
    <2> QED
        BY <2>4, <2>5, SMT DEF late
  <1> QED
      BY IoInitInv, IoInvStep, <1>1, PTL DEF IoSpec, VerdictIsOwn

-----------------------------------------------------------------------------
(* Test 09. Both safety properties follow from one invariant that relates  *)
(* the timers of the two threads.                                          *)

\* Between two calls nothing runs; the flag and the carrier follow the tester,
\* and the sender ends only once it has been told to.
Phases ==
    /\ verdict # "none" => tester = "done" /\ snd = "done"
    /\ tester = "start" => snd = "setup" /\ wait > 0
    /\ tester \in {"prepare", "on"} => sendFlg = 0 /\ snd # "done"
    /\ tester \in {"on", "flagged"} => snd # "setup"
    /\ tester = "flagged" => sendFlg = 1
    /\ carrier <=> tester \in {"on", "flagged"}
    /\ verdict = "FAIL" => lost \/ skipped

\* While the carrier has been on for Sleep - wake ticks, an answer sensed
\* without it belongs to a command begun before it.
FirstSleep ==
    tester = "on" =>
        /\ snd = "answered" /\ ~reply.busy => wait + Sleep <= Timeout + wake
        /\ snd = "check" /\ ~lost /\ result # "9" => Sleep <= Timeout + wake

\* Once the flag is set the last command ends within the second sleep, unless
\* the sender missed the flag.
SecondSleep ==
    tester = "flagged" /\ ~skipped =>
        /\ snd = "send"                => wake = Sleep
        /\ snd \in {"com", "answered"} => wait < wake
        /\ snd = "check"               => wake > 0

\* What the last answer says once the flag is set, if it is whole.
LastAnswer ==
    ~skipped =>
        /\ tester = "flagged" /\ snd = "answered"     => reply.busy
        /\ tester = "flagged" /\ snd = "check" /\ ~lost => result = "9"
        /\ verdict = "none" /\ snd = "done" /\ ~lost   => result = "9"

SenseInv == TypeOK /\ Phases /\ FirstSleep /\ SecondSleep /\ LastAnswer /\ SenderStopsFirst

-----------------------------------------------------------------------------

\* The invariant holds before the first call.
LEMMA SenseInit == Init => SenseInv
  <1> SUFFICES ASSUME Init PROVE SenseInv
      OBVIOUS
  <1> USE SenseAssumption DEF Init
  <1>1. /\ carrier \in BOOLEAN /\ lost \in BOOLEAN /\ skipped \in BOOLEAN
        /\ reply \in [call : 0..MaxCalls, busy : BOOLEAN]
        /\ origin \in [call : 0..MaxCalls, busy : BOOLEAN]
    <2>1. FALSE \in BOOLEAN /\ 0 \in 0..MaxCalls
        BY SMT
    <2> QED
        BY <2>1, Zenon DEF NoOrigin
  <1>2. TypeOK
      BY <1>1, SMT DEF TypeOK, Texts
  <1>3. Phases /\ FirstSleep /\ SecondSleep /\ LastAnswer /\ SenderStopsFirst
      BY SMT DEF Phases, FirstSleep, SecondSleep, LastAnswer, SenderStopsFirst
  <1> QED
      BY <1>2, <1>3 DEF SenseInv

\* Every step of either thread, of the board, of the main thread and of time
\* preserves it.
LEMMA SenseStep == SenseInv /\ [Next]_vars => SenseInv'
  <1> SUFFICES ASSUME SenseInv, [Next]_vars PROVE SenseInv'
      OBVIOUS
  <1> USE SenseAssumption DEF SenseInv, TypeOK, Phases, FirstSleep, SecondSleep, LastAnswer,
          SenderStopsFirst, NoOrigin, Texts
  <1>1. CASE TesterStart  BY <1>1, SMT DEF TesterStart, sndVars
  <1>2. CASE TesterOn     BY <1>2, SMT DEF TesterOn, sndVars, sharedVars
  <1>3. CASE TesterFlag   BY <1>3, SMT DEF TesterFlag, sndVars
  <1>4. CASE TesterOff
    <2>1. carrier' \in BOOLEAN
        BY <1>4, Zenon DEF TesterOff
    <2>2. TypeOK'
        BY <1>4, <2>1, SMT DEF TesterOff, sndVars, sharedVars
    <2>3. (Phases /\ FirstSleep /\ SecondSleep /\ LastAnswer /\ SenderStopsFirst)'
        BY <1>4, SMT DEF TesterOff, sndVars, sharedVars
    <2> QED
        BY <2>2, <2>3 DEF SenseInv
  <1>5. CASE SndSetup     BY <1>5, SMT DEF SndSetup, testerVars, sharedVars
  <1>6. CASE SndSend
    <2>1. lost' \in BOOLEAN /\ skipped' \in BOOLEAN /\ carrier' \in BOOLEAN
        BY <1>6, Zenon DEF SndSend, testerVars
    <2>2. reply' \in [call : 0..MaxCalls, busy : BOOLEAN]
      <3>1. FALSE \in BOOLEAN /\ 0 \in 0..MaxCalls
          BY SMT
      <3> QED
          BY <1>6, <3>1, Zenon DEF SndSend
    <2>3. TypeOK'
        BY <1>6, <2>1, <2>2, SMT DEF SndSend, testerVars, sharedVars
    <2>4. (Phases /\ FirstSleep /\ SecondSleep /\ LastAnswer /\ SenderStopsFirst)'
        BY <1>6, SMT DEF SndSend, testerVars, sharedVars
    <2> QED
        BY <2>3, <2>4 DEF SenseInv
  <1>7. CASE Board        BY <1>7, SMT DEF Board, testerVars, sharedVars
  <1>8. CASE SndAnswer
    <2>1. lost' \in BOOLEAN /\ skipped' \in BOOLEAN /\ carrier' \in BOOLEAN
        BY <1>8, Zenon DEF SndAnswer, testerVars
    <2>2. TypeOK'
        BY <1>8, <2>1, SMT DEF SndAnswer, testerVars
    <2>3. (Phases /\ FirstSleep /\ SecondSleep /\ LastAnswer /\ SenderStopsFirst)'
        BY <1>8, SMT DEF SndAnswer, testerVars
    <2> QED
        BY <2>2, <2>3 DEF SenseInv
  <1>9. CASE SndTimeout   BY <1>9, SMT DEF SndTimeout, testerVars, sharedVars
  <1>10. CASE SndCheck    BY <1>10, SMT DEF SndCheck, testerVars, sharedVars
  <1>15. CASE SndRescue   BY <1>15, SMT DEF SndRescue, testerVars, sharedVars
  <1>11. CASE FuncThread
    <2>1. lost' \in BOOLEAN /\ skipped' \in BOOLEAN
        BY <1>11, Zenon DEF FuncThread
    <2>2. TypeOK'
        BY <1>11, <2>1, SMT DEF FuncThread, sharedVars
    <2>3. (Phases /\ FirstSleep /\ SecondSleep /\ LastAnswer /\ SenderStopsFirst)'
        BY <1>11, SMT DEF FuncThread, sharedVars
    <2> QED
        BY <2>2, <2>3 DEF SenseInv
  <1>12. CASE Judge       BY <1>12, SMT DEF Judge, testerVars, sndVars, sharedVars
  <1>13. CASE Tick        BY <1>13, SMT DEF Tick, Sleeping, Waiting, Less, sharedVars
  <1>14. CASE UNCHANGED vars
      BY <1>14, SMT DEF vars, testerVars, sndVars, sharedVars
  <1> QED
      BY <1>1, <1>2, <1>3, <1>4, <1>5, <1>6, <1>7, <1>8, <1>9, <1>10, <1>11, <1>12, <1>13, <1>14,
         <1>15
         DEF Next, TesterThread, SndThread

\* The timers never leave their waits, nor any variable its type.
THEOREM SenseTypeCorrect == Spec => []TypeOK
  <1>1. SenseInv => TypeOK
      BY DEF SenseInv
  <1> QED
      BY SenseInit, SenseStep, <1>1, PTL DEF Spec

\* A board that senses the carrier fails only for the answer to its last
\* command, or an undecodable one, in every interleaving of the two threads and
\* for every read_timeout shorter than the sleep.
THEOREM AnsweringBoardPasses == Spec => []FailMeansLoss
  <1>1. SenseInv => FailMeansLoss
      BY DEF SenseInv, Phases, FailMeansLoss
  <1> QED
      BY SenseInit, SenseStep, <1>1, PTL DEF Spec

\* The sender has stopped before the tester turns the carrier off, unless an
\* undecodable answer made it miss the flag.
THEOREM SenderIsGone == Spec => []SenderStopsFirst
  <1>1. SenseInv => SenderStopsFirst
      BY DEF SenseInv
  <1> QED
      BY SenseInit, SenseStep, <1>1, PTL DEF Spec
=============================================================================
