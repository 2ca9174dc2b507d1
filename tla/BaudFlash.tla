------------------------------ MODULE BaudFlash ------------------------------
(***************************************************************************)
(* The baud rate of a board: two words of Flash sector 0 that setup()      *)
(* reads after every reset, the "sb", "fer" and "fwr" commands that change *)
(* them, and the host procedure baud() that sends three of those commands  *)
(* without looking at the answers. A reset (the board's button, its power  *)
(* supply, the "rst" command) may come between any two Flash operations.   *)
(*                                                                         *)
(* One Flash operation is atomic. A line sent at a rate the board does not *)
(* run at is lost.                                                         *)
(***************************************************************************)
EXTENDS Integers, Sequences

CONSTANTS BaudList,          \* baud_list[]
          DefaultBaud,       \* what setup() stores when it finds none of them
          HostBaud,          \* @@baud_target: the rate the host opens the port at
          Targets,           \* the rates hosts and operators ask for
          Word,              \* the values a Flash word takes
          ProgramWord(_, _), \* the word left by programming the second over the first
          MaxResets,         \* bound: resets that no baud() call asked for
          MaxLine            \* bound: lines in flight to the board

Erased == 65535

Upper(b) == (b \div 65536) % 65536
Lower(b) == b % 65536

CheckBaud(b) == b \in BaudList

ASSUME BaudAssumption ==
    /\ BaudList \subseteq Nat \ {0}
    /\ DefaultBaud \in BaudList
    /\ HostBaud \in Nat
    /\ Targets \subseteq Nat
    /\ Word \subseteq 0..Erased /\ Erased \in Word
    /\ \A b \in Targets \cup BaudList : /\ Upper(b) \in Word /\ Lower(b) \in Word
    /\ \A b, c \in BaudList : Upper(b) = Upper(c) /\ Lower(b) = Lower(c) => b = c
    /\ \A v, w \in Word : ProgramWord(v, w) \in Word
    /\ \A w \in Word : ProgramWord(Erased, w) = w
    /\ MaxResets \in Nat /\ MaxLine \in Nat

VARIABLES flash,       \* the two words at addresses 0 and 1 of sector 0
          pc,          \* where the firmware is
          arg,         \* the rate "sb" is storing
          serialBaud,  \* the rate of Serial.begin(), 0 before the first one
          line,        \* commands sent to the board and not yet read
          host,        \* where baud() is
          target,      \* its argument
          asked,       \* history: every rate asked for
          clean,       \* history: nothing disturbed the last baud() call
          resets       \* how many resets came from outside

fwVars   == <<flash, pc, arg, serialBaud>>
hostVars == <<host, target>>
vars     == <<flash, pc, arg, serialBaud, line, host, target, asked, clean, resets>>

Booting == {"boot", "bootErased", "bootUpper"}
Storing == {"sbErased", "sbUpper"}
Up      == {"run"} \cup Storing

Commands == [op : {"fer", "rst"}]
            \cup [op : {"fwr"}, address : {0, 1}, data : Word]
            \cup [op : {"sb"}, baud : Targets]

\* What (Flash.read(0,0) << 16) + Flash.read(0,1) yields is b.
Stores(b) == flash[0] = Upper(b) /\ flash[1] = Lower(b)

EraseSector     == flash' = [a \in {0, 1} |-> Erased]
WriteWord(a, w) == flash' = [flash EXCEPT ![a] = ProgramWord(@, w)]

-----------------------------------------------------------------------------
(* The firmware.                                                           *)

\* Mutation: setup() reads the lower word only.
BootReadLowerWord ==
    /\ pc = "boot"
    /\ \/ \E b \in BaudList : /\ flash[1] = Lower(b)
                              /\ pc' = "run" /\ serialBaud' = b /\ UNCHANGED flash
       \/ /\ \A b \in BaudList : flash[1] # Lower(b)
          /\ pc' = "bootErased"
          /\ EraseSector
          /\ UNCHANGED serialBaud
    /\ UNCHANGED <<arg, line, hostVars, asked, clean, resets>>

BootRead ==
    /\ pc = "boot"
    /\ \/ \E b \in BaudList : Stores(b) /\ pc' = "run" /\ serialBaud' = b /\ UNCHANGED flash
       \/ /\ \A b \in BaudList : ~Stores(b)
          /\ pc' = "bootErased"
          /\ EraseSector
          /\ UNCHANGED serialBaud
    /\ UNCHANGED <<arg, line, hostVars, asked, clean, resets>>

BootWriteUpper ==
    /\ pc = "bootErased"
    /\ pc' = "bootUpper"
    /\ WriteWord(0, Upper(DefaultBaud))
    /\ UNCHANGED <<arg, serialBaud, line, hostVars, asked, clean, resets>>

BootWriteLower ==
    /\ pc = "bootUpper"
    /\ pc' = "run"
    /\ WriteWord(1, Lower(DefaultBaud))
    /\ serialBaud' = DefaultBaud
    /\ UNCHANGED <<arg, line, hostVars, asked, clean, resets>>

\* A reset loses the lines already in the board's receive buffer.
Restart ==
    /\ pc' = "boot"
    /\ \E n \in 0..Len(line) : line' = SubSeq(line, n + 1, Len(line))

Receive(op) ==
    /\ pc = "run"
    /\ line # <<>>
    /\ Head(line).op = op
    /\ serialBaud = HostBaud

LoseLine ==
    /\ pc = "run"
    /\ line # <<>>
    /\ serialBaud # HostBaud
    /\ line' = Tail(line)
    /\ UNCHANGED <<fwVars, hostVars, asked, clean, resets>>

Fer ==
    /\ Receive("fer")
    /\ EraseSector
    /\ line' = Tail(line)
    /\ UNCHANGED <<pc, arg, serialBaud, hostVars, asked, clean, resets>>

Fwr ==
    /\ Receive("fwr")
    /\ WriteWord(Head(line).address, Head(line).data)
    /\ line' = Tail(line)
    /\ UNCHANGED <<pc, arg, serialBaud, hostVars, asked, clean, resets>>

Sb ==
    /\ Receive("sb")
    /\ IF CheckBaud(Head(line).baud)
         THEN pc' = "sbErased" /\ arg' = Head(line).baud /\ EraseSector
         ELSE UNCHANGED <<pc, arg, flash>>
    /\ line' = Tail(line)
    /\ UNCHANGED <<serialBaud, hostVars, asked, clean, resets>>

SbWriteUpper ==
    /\ pc = "sbErased"
    /\ pc' = "sbUpper"
    /\ WriteWord(0, Upper(arg))
    /\ UNCHANGED <<arg, serialBaud, line, hostVars, asked, clean, resets>>

SbWriteLower ==
    /\ pc = "sbUpper"
    /\ pc' = "run"
    /\ WriteWord(1, Lower(arg))
    /\ UNCHANGED <<arg, serialBaud, line, hostVars, asked, clean, resets>>

Rst ==
    /\ Receive("rst")
    /\ Restart
    /\ clean' = FALSE
    /\ UNCHANGED <<flash, arg, serialBaud, hostVars, asked, resets>>

\* The reset button, or the supply: between any two steps of the firmware.
Disturb ==
    /\ resets < MaxResets
    /\ resets' = resets + 1
    /\ Restart
    /\ clean' = FALSE
    /\ UNCHANGED <<flash, arg, serialBaud, hostVars, asked>>

Firmware == \/ BootRead \/ BootWriteUpper \/ BootWriteLower
            \/ LoseLine \/ Fer \/ Fwr \/ Sb \/ SbWriteUpper \/ SbWriteLower \/ Rst

-----------------------------------------------------------------------------
(* The host. baud() ignores what set_reset() returns, so it goes on when   *)
(* the board was not reset.                                                *)

BaudStart ==
    /\ host = "idle"
    /\ \E b \in Targets : target' = b /\ asked' = asked \cup {b}
    /\ host' = "greeting"
    /\ clean' = FALSE
    /\ Restart \/ UNCHANGED <<pc, line>>
    /\ UNCHANGED <<flash, arg, serialBaud, resets>>

\* Two gets() of one second each outlast setup().
BaudGreeting ==
    /\ host = "greeting"
    /\ pc \in Up
    /\ host' = "fer"
    /\ clean' = (pc = "run" /\ serialBaud = HostBaud /\ line = <<>>)
    /\ UNCHANGED <<fwVars, line, target, asked, resets>>

Send(cmd) == Len(line) < MaxLine /\ line' = Append(line, cmd)

\* Mutation: baud() programs the words without erasing the sector.
BaudEraseSkipped ==
    /\ host = "fer"
    /\ host' = "fwrUpper"
    /\ UNCHANGED <<fwVars, line, target, asked, clean, resets>>

\* Each puts() is followed by a gets() that may time out: the next command
\* leaves whether or not the board has read this one.
BaudErase ==
    /\ host = "fer"
    /\ Send([op |-> "fer"])
    /\ host' = "fwrUpper"
    /\ UNCHANGED <<fwVars, target, asked, clean, resets>>

BaudUpper ==
    /\ host = "fwrUpper"
    /\ Send([op |-> "fwr", address |-> 0, data |-> Upper(target)])
    /\ host' = "fwrLower"
    /\ UNCHANGED <<fwVars, target, asked, clean, resets>>

BaudLower ==
    /\ host = "fwrLower"
    /\ Send([op |-> "fwr", address |-> 1, data |-> Lower(target)])
    /\ host' = "idle"
    /\ UNCHANGED <<fwVars, target, asked, clean, resets>>

\* An operator types "sb,<rate>" or "rst" while no baud() call is running.
OperatorSb ==
    /\ host = "idle"
    /\ \E b \in Targets : Send([op |-> "sb", baud |-> b]) /\ asked' = asked \cup {b}
    /\ clean' = FALSE
    /\ UNCHANGED <<fwVars, hostVars, resets>>

OperatorRst ==
    /\ host = "idle"
    /\ Send([op |-> "rst"])
    /\ clean' = FALSE
    /\ UNCHANGED <<fwVars, hostVars, asked, resets>>

Host == \/ BaudStart \/ BaudGreeting \/ BaudErase \/ BaudUpper \/ BaudLower
        \/ OperatorSb \/ OperatorRst

-----------------------------------------------------------------------------
Init ==
    /\ flash \in [{0, 1} -> Word]
    /\ pc = "boot"
    /\ arg = DefaultBaud
    /\ serialBaud = 0
    /\ line = <<>>
    /\ host = "idle"
    /\ target = DefaultBaud
    /\ asked = {b \in BaudList : Stores(b)}
    /\ clean = FALSE
    /\ resets = 0

Next == Firmware \/ Disturb \/ Host

Spec == Init /\ [][Next]_vars

-----------------------------------------------------------------------------
TypeOK ==
    /\ flash \in [{0, 1} -> Word]
    /\ pc \in Booting \cup Up
    /\ arg \in BaudList
    /\ serialBaud \in BaudList \cup {0}
    /\ line \in Seq(Commands)
    /\ host \in {"idle", "greeting", "fer", "fwrUpper", "fwrLower"}
    /\ target \in Targets \cup {DefaultBaud}
    /\ asked \subseteq Targets \cup BaudList
    /\ clean \in BOOLEAN
    /\ resets \in 0..MaxResets

\* A baud() call that no reset, no operator command and no rate mismatch
\* disturbed leaves its argument in the Flash once the board has read all
\* three commands, although the host looks at none of the answers.
CleanCallStores ==
    clean /\ host = "idle" /\ line = <<>> /\ pc = "run" => Stores(target)

\* Its inductive form: of the commands a clean call has sent, those the board
\* has not read are the last ones, and the Flash is what the others leave.
Script(b, i) ==
    IF i = 1 THEN [op |-> "fer"]
    ELSE IF i = 2 THEN [op |-> "fwr", address |-> 0, data |-> Upper(b)]
    ELSE [op |-> "fwr", address |-> 1, data |-> Lower(b)]

Sent == IF host = "fer" THEN 0 ELSE IF host = "fwrUpper" THEN 1
        ELSE IF host = "fwrLower" THEN 2 ELSE 3

Done == Sent - Len(line)

CleanInv ==
    clean => /\ host # "greeting" /\ pc = "run" /\ serialBaud = HostBaud
             /\ Done \in 0..3
             /\ \A i \in 1..Len(line) : line[i] = Script(target, Done + i)
             /\ Done = 1 => flash[0] = Erased /\ flash[1] = Erased
             /\ Done = 2 => flash[0] = Upper(target) /\ flash[1] = Erased
             /\ Done = 3 => Stores(target)

\* What parts of the rates in A leave in each word when they are programmed over
\* one another, and that they make up no rate outside A, if A holds the default.
WordsKeepApart(upper, lower) ==
    LET Rates == Targets \cup BaudList IN
    /\ upper \in [SUBSET Rates -> SUBSET Word] /\ lower \in [SUBSET Rates -> SUBSET Word]
    /\ \A A \in SUBSET Rates :
         /\ Erased \in upper[A] \cap lower[A]
         /\ \A b \in A : /\ \A w \in upper[A] : ProgramWord(w, Upper(b)) \in upper[A]
                         /\ \A w \in lower[A] : ProgramWord(w, Lower(b)) \in lower[A]
         /\ \A B \in SUBSET Rates : A \subseteq B => upper[A] \subseteq upper[B] /\ lower[A] \subseteq lower[B]
         /\ \A b \in BaudList :
              DefaultBaud \in A /\ Upper(b) \in upper[A] /\ Lower(b) \in lower[A] => b \in A

\* No interleaving of resets, half-done changes and fwr over words that are
\* already programmed makes the board run at a rate nobody asked for.
Setting == INSTANCE BaudSetting WITH rate <- serialBaud
ImplementsSetting == Setting!Spec

=============================================================================
