------------------------------- MODULE Session -------------------------------
(***************************************************************************)
(* The top menu of the production test: each choice is a sequence of       *)
(* operations on the board on the bench, ended by the first that fails;    *)
(* the tests write their verdicts to a log, which is renamed after the     *)
(* board's address when all of them have passed.                           *)
(*                                                                         *)
(* A radio test sets up the board, turns its transmitter on, measures with *)
(* an instrument and turns it off. It looks at no answer of the board: a   *)
(* command that is lost shows in the measurement or not at all. Calls of   *)
(* the tests' own modules (Bench, IoTest, Calibration, CarrierSense) are   *)
(* single steps here, with the outcomes those modules allow.               *)
(***************************************************************************)
EXTENDS Naturals, Sequences, Functions

CONSTANTS Boards,    \* the boards that are put on the bench
          Codes,      \* the individual codes on the labels
          Defects,    \* the ways the boards may be defective: the tests each ought to fail
          NoBoard,
          MaxChoices, \* bound: choices of the menu
          MaxFaults   \* bound: lost commands, failed tools, wrong labels, kills

Tests == {"io", "calib", "01", "02", "03", "04", "05", "06", "07", "08", "09", "10"}

ASSUME SessionAssumption ==
    /\ Defects \subseteq [Boards -> SUBSET Tests]
    /\ NoBoard \notin Boards
    /\ {MaxChoices, MaxFaults} \subseteq Nat

-----------------------------------------------------------------------------
(* The choices of the menu.                                                *)

Channels == {<<50, 24>>, <<50, 61>>, <<100, 24>>, <<100, 42>>, <<100, 60>>}
NoChannel == <<0, 0>>

Do(op)    == [do |-> op, test |-> op]
Sense(at) == [do |-> "sense", test |-> "09", at |-> at]

\* A measurement on a channel: what the test turns on ("off": it sends frames)
\* and whether modulated; what it makes of silence, and of a signal that is
\* modulated when it should not be or not when it should: it passes, fails, is
\* either, or is judged as the right signal ("own") would be.
Measure(test, at, on, mod, silence, other) ==
    [do |-> "measure", test |-> test, at |-> at, on |-> on, mod |-> mod,
     silence |-> silence, other |-> other]

\* Occupied bandwidth: 170 to 200 kHz; a carrier has less, noise more.
Test01 == <<Measure("01", <<100, 42>>, "tx", TRUE, "fail", "fail")>>

\* Frequency: the counter is within 20 ppm, of noise or a modulated signal anywhere.
Test02 == <<Measure("02", <<100, 42>>, "tx", FALSE, "either", "either")>>

\* Peak power: 11 to 13 dBm, modulated or not.
Test03 == <<Measure("03", <<100, 42>>, "tx", TRUE, "fail", "own")>>

\* Average power of frames: 8 to 13 dBm, on three channels.
Test04 ==
    LET Average(ch) == Measure("04", <<100, ch>>, "off", FALSE, "fail", "own")
    IN <<Average(24), Average(42), Average(60)>>

\* Spurious emissions far from the channel, below limits.
Test05 == <<Measure("05", <<100, 42>>, "tx", TRUE, "pass", "either")>>

\* Those near the channel.
Test06 == <<Measure("06", <<100, 42>>, "tx", FALSE, "pass", "either")>>

\* Leakage into the adjacent channels, relative to the channel's own power.
Test07 == <<Measure("07", <<100, 42>>, "tx", TRUE, "fail", "either")>>

\* Emissions of the receiver, below limits.
Test08 == <<Measure("08", <<100, 42>>, "rx", FALSE, "pass", "either")>>

Test09 == <<Sense(<<50, 24>>), Sense(<<100, 42>>)>>

\* Spectrum below the mask.
Test10 == <<Measure("10", <<50, 61>>, "tx", TRUE, "pass", "either")>>

Pretest   == Test09
Postest   == Test01 \o Test02 \o Test03 \o Test04 \o Test06 \o Test07 \o Test09 \o Test10
Trialtest == Test03 \o Test06 \o Test07 \o Test09

Prepare == <<Do("write"), Do("io")>>
Adjust  == <<Do("setlog"), Do("calib")>>

Choices == {"1", "2", "3", "4", "5", "10", "11", "12", "13", "20"}
Choice ==
    [c \in Choices |->
       CASE c = "1"  -> Prepare \o Adjust \o Pretest
         [] c = "2"  -> <<Do("io")>> \o Adjust \o Postest \o <<Do("barcode")>>
         [] c = "3"  -> <<Do("setlog")>> \o Postest
         [] c = "4"  -> Prepare \o Adjust \o Trialtest \o <<Do("barcode")>>
         [] c = "5"  -> <<Do("setlog")>> \o Trialtest \o <<Do("address")>>
         [] c = "10" -> <<Do("write")>>
         [] c = "11" -> <<Do("io")>>
         [] c = "12" -> <<Do("setlog")>>
         [] c = "13" -> <<Do("setlog")>>
         [] c = "20" -> <<Do("write")>> \o Adjust \o Postest \o <<Do("barcode")>>]

Repeated == {"1", "2", "4", "5"}   \* asks whether to go on with the next board
Submenu  == [c \in {"12", "13"} |->
               IF c = "12" THEN {<<Do("base")>>, <<Do("calibration")>>, <<Do("setaddr")>>}
               ELSE {Test01, Test02, Test03, Test04, Test05, Test06, Test07, Test08,
                     Test09, Test10}]

Judged(c) == {o \in Range(Choice[c]) : o.test \in Tests}

-----------------------------------------------------------------------------

VARIABLES bad,        \* the boards' defects
          board,      \* the board on the bench
          programmed, \* each board has the test program
          addr,       \* each board's address: the bytes 32 to 37, and 38 and 39
          protect,    \* each board's EEPROM is write-protected
          radio,      \* channel, transmitter or receiver and modulation of the board on the bench
          heard,      \* @result: the last answer about the carrier, kept from call to call
          temp,       \* the file temp.log
          archive,    \* the log stored last
          sink,       \* the file $log writes to
          phase,      \* the program is "off", at a menu, a prompt, or busy
          choice,
          todo,       \* what is left of the choice
          result,     \* what the choice came to, or the test it failed in
          clean,      \* history: nothing went wrong in this choice
          faults,     \* history: how much has gone wrong
          choices,    \* history: choices of the menu
          coded       \* history: the code each board was labelled with last

boardVars   == <<bad, board, programmed, addr, protect, radio>>
logVars     == <<temp, archive, sink>>
programVars == <<phase, choice, todo, result>>
history     == <<clean, faults, choices, coded>>
vars == <<boardVars, heard, logVars, programVars, history>>

NoLog   == [choice |-> "none", board |-> NoBoard, passed |-> {}]
NewLog  == [choice |-> choice, board |-> NoBoard, passed |-> {}]
Silent  == [at |-> NoChannel, on |-> "off", mod |-> FALSE]   \* after a reset
Blank   == [prefix |-> "blank", short |-> "blank"]
Address(code) == [prefix |-> "vendor", short |-> code]

Now    == Head(todo)
At(op) == phase = "busy" /\ todo # <<>> /\ Now.do = op
Own(t) == t \notin bad[board]

Fine   == UNCHANGED <<clean, faults, choices>>
Fault  == faults < MaxFaults /\ faults' = faults + 1 /\ clean' = FALSE /\ UNCHANGED choices

\* Mutation: the verdict of an operation is not looked at.
EndsAnyhow(ok) == todo' = Tail(todo) /\ UNCHANGED <<phase, choice, result>>

\* An operation ends. One that fails ends the choice, but not a submenu.
Ends(ok) ==
    /\ IF ok THEN todo' = Tail(todo) /\ UNCHANGED <<phase, result>>
       ELSE IF choice \in DOMAIN Submenu THEN todo' = <<>> /\ UNCHANGED <<phase, result>>
       ELSE todo' = <<>> /\ phase' = "menu" /\ result' = Now.test
    /\ UNCHANGED choice

\* An exception other than RuntimeError ends the program; a new one knows
\* neither the log nor the last answer.
Dies ==
    /\ phase' = "off" /\ todo' = <<>> /\ result' = "died"
    /\ UNCHANGED choice

\* What the current operation says of itself goes to the log: "PASS", or "WARNIG",
\* if it does not fail. The lines of the submenus are left out: no test of theirs
\* is required of a log.
Log(ok, says, sure) ==
    LET line == [op |-> Now, board |-> board, says |-> says, sure |-> sure]
        Add(l) == IF ok /\ choice \notin DOMAIN Submenu THEN [l EXCEPT !.passed = @ \cup {line}]
                  ELSE l
    IN /\ temp' = IF sink = "temp" THEN Add(temp) ELSE temp
       /\ archive' = IF sink = "archive" THEN Add(archive) ELSE archive
       /\ UNCHANGED sink

-----------------------------------------------------------------------------
(* The operations before the radio tests.                                  *)

\* writeprog(): the board runs the program that was written, from its reset;
\* a transfer that fails leaves none.
WriteProg ==
    /\ At("write")
    /\ \E ok \in BOOLEAN :
         /\ IF ok THEN Fine ELSE Fault
         /\ programmed' = [programmed EXCEPT ![board] = ok]
         /\ Ends(ok)
    /\ radio' = Silent
    /\ UNCHANGED <<bad, board, addr, protect, heard, logVars, coded>>

\* alltest(): the pins and the baud rate; the board is reset. An answer that
\* is lost is a failure.
AllTest ==
    /\ At("io")
    /\ \/ Fine  /\ Ends(programmed[board] /\ Own("io"))
       \/ Fault /\ Ends(FALSE)
    /\ radio' = Silent
    /\ UNCHANGED <<bad, board, programmed, addr, protect, heard, logVars, coded>>

\* setlog(): a new temp.log replaces what is there.
SetLog ==
    /\ At("setlog")
    /\ temp' = NewLog
    /\ sink' = "temp"
    /\ Ends(TRUE)
    /\ UNCHANGED <<boardVars, heard, archive, history>>

\* Mutation: the whole address is reset.
BaseParametersAll == addr' = [addr EXCEPT ![board] = [prefix |-> "vendor", short |-> "blank"]]

\* e2p_base() writes the vendor's part of the address.
BaseParameters == addr' = [addr EXCEPT ![board].prefix = "vendor"]

\* calib(): e2p_base() and calibration(). A lost command may change the
\* verdict, raise an exception while the carrier is on and the EEPROM
\* writable, or leave the board as it was. Neither "!!!WARNIG!!!", that the 1 mW
\* power is out of its band, nor "!!!PASS!!!" is a failure; a board without an
\* address is failed for it unless the warning comes before that check.
Calib ==
    /\ At("calib") \/ At("calibration")
    /\ LET Base == IF Now.do = "calib" THEN BaseParameters ELSE UNCHANGED addr
           Off  == radio' = [Silent EXCEPT !.at = <<100, 42>>]
       IN \/ /\ programmed[board] /\ Fine
             /\ \/ Ends(Own("calib")) /\ Log(Own("calib"), "WARNIG", TRUE)
                \/ LET ok == Own("calib") /\ addr[board].short # "blank"
                   IN  Ends(ok) /\ Log(ok, "PASS", TRUE)
             /\ Base /\ Off
             /\ protect' = [protect EXCEPT ![board] = TRUE]
          \/ /\ programmed[board] /\ Fault
             /\ \E ok \in BOOLEAN, says \in {"PASS", "WARNIG"} : Ends(ok) /\ Log(ok, says, FALSE)
             /\ \/ Base \/ UNCHANGED addr
             /\ \/ Off \/ radio' = [at |-> <<100, 42>>, on |-> "tx", mod |-> FALSE]
             /\ \E p \in BOOLEAN : protect' = [protect EXCEPT ![board] = p]
          \/ /\ ~programmed[board] /\ Fine
             /\ Ends(FALSE) /\ Log(FALSE, "PASS", TRUE)
             /\ UNCHANGED <<addr, radio, protect>>
    /\ UNCHANGED <<bad, board, programmed, heard, coded>>

\* "To Write basic parameter on E2P" of the submenu.
E2pBase ==
    /\ At("base")
    /\ Ends(TRUE)
    /\ \/ /\ programmed[board] /\ Fine
          /\ BaseParameters
          /\ protect' = [protect EXCEPT ![board] = TRUE]
          /\ radio' = [Silent EXCEPT !.at = <<100, 24>>]
       \/ /\ programmed[board] /\ Fault
          /\ \/ BaseParameters \/ UNCHANGED addr
          /\ \E p \in BOOLEAN : protect' = [protect EXCEPT ![board] = p]
          /\ radio' \in {radio, [Silent EXCEPT !.at = <<100, 24>>]}
       \/ ~programmed[board] /\ Fine /\ UNCHANGED <<addr, protect, radio>>
    /\ UNCHANGED <<bad, board, programmed, heard, logVars, coded>>

-----------------------------------------------------------------------------
(* The radio tests.                                                        *)

\* Mutation: the modulation is kept.
SetupKeepsMod(r, at) == [r EXCEPT !.at = at, !.on = "off"]

\* The commands of the tests.
Setup(r, at) == [at |-> at, on |-> "off", mod |-> FALSE]

Mod(r)        == [r EXCEPT !.mod = TRUE]
TurnOn(r, on) == [r EXCEPT !.on = on]

\* Mutation: the transmitter stays on.
TrxOffNot(r) == r
TrxOff(r)    == [r EXCEPT !.on = "off"]

\* The radio while the instrument measures, the commands in "lost" being lost.
During(lost) ==
    LET set   == IF "setup" \in lost THEN radio ELSE Setup(radio, Now.at)
        moded == IF Now.mod /\ "mod" \notin lost THEN Mod(set) ELSE set
    IN IF "on" \in lost THEN moded ELSE TurnOn(moded, Now.on)

Verdicts(r) ==
    LET seen == IF r.at # Now.at \/ (r.on = "off" /\ Now.on # "off") THEN Now.silence
                ELSE IF r.on = Now.on /\ r.mod = Now.mod THEN "own"
                ELSE Now.other
    IN CASE seen = "pass"   -> {TRUE}
         [] seen = "fail"   -> {FALSE}
         [] seen = "either" -> BOOLEAN
         [] seen = "own"    -> {Own(Now.test)}

\* One command is lost or none, and all of them on a board without its
\* program. Test 04 turns nothing on or off: its frames end by themselves.
RadioTest ==
    /\ At("measure")
    /\ LET Commands == {"setup"} \cup (IF Now.on = "off" THEN {"frames"} ELSE {"on", "off"})
                                 \cup (IF Now.mod THEN {"mod"} ELSE {})
       IN \E lost \in IF programmed[board] THEN {{}} \cup {{c} : c \in Commands} ELSE {Commands} :
            LET r == During(lost) IN
              /\ IF lost = {} \/ ~programmed[board] THEN Fine ELSE Fault
              /\ \E ok \in IF "frames" \in lost THEN {FALSE} ELSE Verdicts(r) :
                   Ends(ok) /\ Log(ok, "PASS", lost = {})
              /\ radio' = IF "off" \in lost \/ Now.on = "off" THEN r ELSE TrxOff(r)
    /\ UNCHANGED <<bad, board, programmed, addr, protect, heard, coded>>

\* Test 09 looks at the last answer, which is an earlier one's if none comes.
CarrierSense ==
    /\ At("sense")
    /\ \/ /\ programmed[board] /\ Fine
          /\ heard' = Own("09")
          /\ radio' = Setup(radio, Now.at)
       \/ /\ programmed[board] /\ Fault
          /\ \/ /\ heard' = (radio.at = Now.at /\ Own("09"))    \* the set-up is lost,
                /\ UNCHANGED radio
             \/ heard' \in BOOLEAN /\ radio' = Setup(radio, Now.at) \* the level,
             \/ UNCHANGED <<heard, radio>>                      \* or everything
       \/ ~programmed[board] /\ Fine /\ UNCHANGED <<heard, radio>>
    /\ Ends(heard')
    /\ Log(heard', "PASS", programmed[board] /\ faults' = faults)
    /\ UNCHANGED <<bad, board, programmed, addr, protect, coded>>

-----------------------------------------------------------------------------
(* The address and the log.                                                *)

\* File.rename: what $log writes from now on goes to the renamed file.
Store ==
    /\ archive' = [temp EXCEPT !.board = board]
    /\ temp' = NoLog
    /\ sink' = "archive"

\* What the commands do on a board that has a program to execute them.
Write(a) == addr' = IF programmed[board] THEN [addr EXCEPT ![board] = a] ELSE addr
Leave(p) == protect' = IF programmed[board] THEN [protect EXCEPT ![board] = p] ELSE protect
Label(c) == coded' = [coded EXCEPT ![board] = IF programmed[board] THEN c ELSE "none"]

\* Some of the "ewr" have been executed.
Partly == {[addr[board] EXCEPT !.prefix = "wrong"], [addr[board] EXCEPT !.short = "wrong"]}

\* set_addr() writes the code it reads to the EEPROM and, by setbarcode(), the
\* log is named after it. A code of 13 to 15 digits is taken as well, with
\* other bytes in the place of the missing ones; one with fewer, or none, is
\* an exception after "ewp 0" and some of the "ewr". No answer is looked at:
\* a lost "ewp 0", "ewr" or "ewp 1" goes unnoticed.
SetAddr ==
    /\ At("barcode") \/ At("setaddr")
    /\ \/ /\ Ends(TRUE)
          /\ IF Now.do = "barcode" THEN Store ELSE UNCHANGED logVars
          /\ \E code \in Codes :
               \/ Fine  /\ Write(Address(code)) /\ Leave(TRUE) /\ Label(code)
               \/ /\ Fault /\ Label("none")
                  /\ \/ Write(Address("wrong")) /\ Leave(TRUE)
                     \/ Write(IF protect[board] THEN addr[board] ELSE Address(code)) /\ Leave(TRUE)
                     \/ Write(Address(code)) /\ Leave(FALSE)
       \/ /\ Dies /\ Fault
          /\ \E a \in Partly : Write(a)
          /\ Leave(FALSE) /\ Label("none")
          /\ UNCHANGED logVars
    /\ UNCHANGED <<bad, board, programmed, radio, heard>>

\* createLogFile() names the log after the address the board tells; without
\* an answer there is nothing to split.
ShortAddr ==
    /\ At("address")
    /\ \/ programmed[board] /\ Fine /\ Ends(TRUE) /\ Store
       \/ /\ programmed[board] => Fault
          /\ ~programmed[board] => Fine
          /\ Dies /\ UNCHANGED logVars
    /\ radio' \in {radio, [Silent EXCEPT !.at = <<100, 24>>]}
    /\ UNCHANGED <<bad, board, programmed, addr, protect, heard, coded>>

-----------------------------------------------------------------------------
(* The menu and the operator.                                              *)

Start ==
    /\ phase = "off"
    /\ phase' = "menu"
    /\ heard' = FALSE
    /\ sink' = "none"
    /\ result' = "none"
    /\ UNCHANGED <<boardVars, temp, archive, choice, todo, history>>

Begin(c) ==
    /\ choices < MaxChoices /\ choices' = choices + 1
    /\ phase' = "busy" /\ choice' = c /\ todo' = Choice[c] /\ result' = "none"
    /\ clean' = TRUE
    /\ UNCHANGED <<boardVars, heard, logVars, faults, coded>>

Choose == phase = "menu" /\ \E c \in Choices : Begin(c)

\* The sequence is done: the next board, a submenu, or the menu.
Done ==
    /\ phase = "busy" /\ todo = <<>>
    /\ phase' = IF choice \in Repeated THEN "prompt"
                ELSE IF choice \in DOMAIN Submenu THEN "submenu" ELSE "menu"
    /\ result' = "done"
    /\ UNCHANGED <<boardVars, heard, logVars, choice, todo, history>>

Again == phase = "prompt" /\ Begin(choice)

Pick ==
    /\ phase = "submenu"
    /\ todo' \in Submenu[choice]
    /\ phase' = "busy"
    /\ UNCHANGED <<boardVars, heard, logVars, choice, result, history>>

LeaveMenu ==
    /\ phase \in {"prompt", "submenu"}
    /\ phase' = "menu"
    /\ UNCHANGED <<boardVars, heard, logVars, choice, todo, result, history>>

\* The operator puts a board on the bench, which powers up.
Swap ==
    /\ phase \in {"off", "menu", "prompt"}
    /\ board' \in Boards
    /\ radio' = Silent
    /\ result' = "none"
    /\ UNCHANGED <<bad, programmed, addr, protect, heard, logVars, phase, choice, todo, history>>

\* The program is left at the menu, or killed in the middle of an operation,
\* between any two of its commands.
Shutdown ==
    /\ phase = "menu"
    /\ phase' = "off" /\ result' = "none"
    /\ UNCHANGED <<boardVars, heard, logVars, choice, todo, history>>

Kill ==
    /\ phase = "busy" /\ todo # <<>> /\ Fault
    /\ phase' = "off" /\ todo' = <<>> /\ result' = "none"
    /\ programmed' = IF At("write") THEN [programmed EXCEPT ![board] = FALSE] ELSE programmed
    /\ radio' \in IF At("measure") /\ programmed[board]
                    THEN {radio, During({})} ELSE {radio}
    /\ IF Now.do \in {"barcode", "setaddr"}
         THEN (\E a \in Partly : Write(a)) /\ Leave(FALSE) /\ Label("none")
         ELSE UNCHANGED <<addr, coded>> /\ Leave(protect[board] /\ Now.do \notin {"calib", "calibration", "base"})
    /\ UNCHANGED <<bad, board, heard, logVars, choice>>

Init ==
    /\ bad \in Defects
    /\ board \in Boards
    /\ \E p \in BOOLEAN : programmed = [b \in Boards |-> p]
    /\ addr = [b \in Boards |-> Blank]
    /\ protect = [b \in Boards |-> TRUE]
    /\ radio = Silent
    /\ heard = FALSE
    /\ temp = NoLog /\ archive = NoLog /\ sink = "none"
    /\ phase = "off" /\ choice = "1" /\ todo = <<>> /\ result = "none"
    /\ clean = TRUE /\ faults = 0 /\ choices = 0
    /\ coded = [b \in Boards |-> "none"]

Operation == WriteProg \/ AllTest \/ SetLog \/ Calib \/ E2pBase \/ RadioTest \/ CarrierSense
             \/ SetAddr \/ ShortAddr
Operator  == Start \/ Choose \/ Again \/ Pick \/ LeaveMenu \/ Swap \/ Shutdown \/ Kill
Next == Operation \/ Done \/ Operator

Spec == Init /\ [][Next]_vars

-----------------------------------------------------------------------------
(* Properties.                                                             *)

\* Every variable has its type, $log writes to a file that is there, and every
\* operation that writes to it finds it set.
TypeOK ==
    /\ bad \in Defects
    /\ board \in Boards
    /\ programmed \in [Boards -> BOOLEAN]
    /\ addr \in [Boards -> [prefix : {"blank", "vendor", "wrong"},
                            short : Codes \cup {"blank", "wrong"}]]
    /\ protect \in [Boards -> BOOLEAN]
    /\ radio \in [at : Channels \cup {NoChannel}, on : {"off", "tx", "rx"}, mod : BOOLEAN]
    /\ heard \in BOOLEAN
    /\ \A l \in {temp, archive} : l.choice \in Choices \cup {"none"} /\ l.board \in Boards \cup {NoBoard}
    /\ sink \in {"none", "temp", "archive"}
    /\ sink = "temp" => temp # NoLog
    /\ sink = "archive" => archive # NoLog
    /\ todo # <<>> /\ Now.do \in {"calib", "calibration", "measure", "sense", "barcode", "setaddr", "address"}
         => sink = "temp"
    /\ phase \in {"off", "menu", "prompt", "submenu", "busy"}
    /\ choice \in Choices
    /\ result \in Tests \cup {"none", "done", "died", "write"}
    /\ clean \in BOOLEAN
    /\ faults \in 0..MaxFaults
    /\ choices \in 0..MaxChoices
    /\ coded \in [Boards -> Codes \cup {"none"}]

\* The tests whose measurement shows the loss of any command of theirs.
Robust == {"io", "01", "03", "04"}

\* A stored log is of one board. It holds a PASS of every test of its choice, or
\* of the calibration a mere warning, and the board is good in each of them (in
\* frequency and 20 mW power, of the calibration), unless one of the test's own
\* commands was lost and the test is not one of those that show it: whatever
\* was lost in the other tests, whatever choices, boards, failures and kills
\* went before, and although no test looks at an answer.
LogMeansGood ==
    archive # NoLog =>
      /\ \A e \in archive.passed : e.board = archive.board
      /\ \A o \in Judged(archive.choice) :
           \/ o.do = "io" /\ "io" \notin bad[archive.board]
           \/ \E e \in archive.passed :
                /\ e.op = o /\ (e.says = "PASS" \/ o.do = "calib")
                /\ o.test \in bad[archive.board] => ~e.sure /\ o.test \notin Robust

\* In a choice in which nothing goes wrong no test fails a board that has its
\* program and an address and is good in it: no test depends on the radio
\* state that earlier tests, choices or faults have left.
FailureIsDefect ==
    result \in Tests /\ clean =>
      \/ result \in bad[board]
      \/ ~programmed[board]
      \/ result = "calib" /\ addr[board].short = "blank"

\* A board keeps the address of its last label through every later operation,
\* the base parameters of another calibration included.
AddressKept == \A b \in Boards : coded[b] # "none" => addr[b] = Address(coded[b])

\* When a choice has come to its end or a failure and nothing went wrong in it,
\* the board transmits nothing, and its EEPROM is protected if it was written.
LeftQuiet ==
    result \in Tests \cup {"done"} /\ phase \in {"menu", "prompt"} /\ clean /\ programmed[board] =>
      /\ choice \notin {"10", "12", "13"} => radio.on = "off"
      /\ choice \in {"1", "2", "4", "20"} /\ result # "io" => protect[board]
==============================================================================
