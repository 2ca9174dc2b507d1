----------------------------- MODULE Calibration -----------------------------
(***************************************************************************)
(* The host's e2p_base() and calibration(): the radio's oscillator and     *)
(* power registers are adjusted until a measuring instrument reads the     *)
(* wanted frequency and power, and are then stored in the board's EEPROM.  *)
(*                                                                         *)
(* Four adjustments follow each other: coarse and fine frequency, power in *)
(* 20 mW and in 1 mW mode. Each initialises the radio, which loads its     *)
(* registers from the EEPROM, turns the carrier on, and then measures,     *)
(* reads the register and either changes it or stores it. A command may be *)
(* lost: the host reads nothing, which fails only where it looks at the    *)
(* answer. Frequencies are errors in kHz, powers are in dBm.               *)
(***************************************************************************)
EXTENDS Integers, FiniteSets

CONSTANTS Boards,       \* the boards: what each measures with the base parameters
          Coarse, Fine, \* kHz by which one unit of OSC_ADJ2 and OSC_ADJ lowers the frequency
          MaxLost,      \* bound: commands lost
          MaxCalls      \* bound: calls

ASSUME CalibrationAssumption ==
    /\ Boards \subseteq [freq : Int, p20 : Int, p1 : Int, addr : BOOLEAN]
    /\ {Coarse, Fine} \subseteq Nat \ {0}
    /\ {MaxLost, MaxCalls} \subseteq Nat

Steps    == 1..4
Register == <<"osc2", "osc", "pa3", "pa1">>  \* the register each step adjusts
Base     == [osc2 |-> 8, osc |-> 48, pa3 |-> 7, pa1 |-> 7]
Erased   == [osc2 |-> 255, osc |-> 255, pa3 |-> 15, pa1 |-> 15]
Registers == DOMAIN Base
MaxNum   == 9                                \* @max_num
LoopEnd  == <<10, 10, 12, 12>>

VARIABLES board,    \* the board on the bench
          reg,      \* the radio's registers
          eeprom,   \* the EEPROM's
          protect,  \* EEPROM writes are ignored
          tx,       \* the carrier is on
          pc,
          step,     \* the adjustment
          num,      \* its loop counter
          summary,  \* the results of the adjustments
          verdict,  \* what calibration() returned
          lost,     \* what was lost in this call ...
          losses,   \* ... and how many so far
          calls,    \* calls so far
          before    \* the EEPROM before this call, and whether the board had just passed

boardVars == <<board, reg, eeprom, protect, tx>>
vars == <<boardVars, pc, step, num, summary, verdict, lost, losses, calls, before>>

NoResult == [frq |-> TRUE, lv20 |-> TRUE, lv1 |-> FALSE]

\* A command of kind k is executed, or lost when it may be.
Lose(k) == losses < MaxLost /\ losses' = losses + 1 /\ lost' = lost \cup {k}
Arrive  == UNCHANGED <<lost, losses>>

-----------------------------------------------------------------------------
(* The commands of the board.                                              *)

\* "rfw" takes eight bits of the value, which it does not check.
Rfw(r, v) == reg' = [reg EXCEPT ![r] = v % 256]

\* "ewr" answers whether or not the EEPROM is protected.
Ewr(r, v) == eeprom' = IF protect THEN eeprom ELSE [eeprom EXCEPT ![r] = v]

\* "ewp" drives the EEPROM's protection pin.
Ewp(p) == protect' = p

-----------------------------------------------------------------------------
(* Between the calls.                                                      *)

CanCall == pc = "idle" /\ calls < MaxCalls

\* e2p_base(): the base parameters are written; no answer is looked at. A lost
\* "ewr" leaves one as it was, a lost "ewp" leaves them all or unprotected.
E2pBase ==
    /\ CanCall
    /\ \E keep \in {{}, Registers} \cup {{r} : r \in Registers}, p \in BOOLEAN :
         /\ eeprom' = [r \in Registers |-> IF r \in keep THEN eeprom[r] ELSE Base[r]]
         /\ Ewp(p)
         /\ \/ keep = {} /\ p /\ UNCHANGED losses
            \/ /\ losses < MaxLost
               /\ losses' = losses + 1
               /\ \/ keep = {} /\ ~p
                  \/ Cardinality(keep) = 1 /\ p
                  \/ keep = Registers /\ protect /\ p
    /\ reg' = eeprom
    /\ tx' = FALSE
    /\ calls' = calls + 1
    /\ verdict' = "none"
    /\ lost' = {}
    /\ UNCHANGED <<board, pc, step, num, summary, before>>

\* calibration() up to the first adjustment: "ewp 0".
Calibrate ==
    /\ CanCall
    /\ calls' = calls + 1
    /\ pc' = "setup"
    /\ step' = 1
    /\ summary' = NoResult
    /\ before' = [eeprom |-> eeprom, passed |-> verdict = "nil" /\ lost = {}]
    /\ verdict' = "none"
    /\ \/ Ewp(FALSE) /\ lost' = {} /\ UNCHANGED losses
       \/ losses < MaxLost /\ losses' = losses + 1 /\ lost' = {"ewp0"} /\ UNCHANGED protect
    /\ UNCHANGED <<board, reg, eeprom, tx, num>>

-----------------------------------------------------------------------------
(* One adjustment.                                                         *)

Frequency(r) == board.freq - Coarse * (r.osc2 - Base.osc2) - Fine * (r.osc - Base.osc)
Power(r, s)  == IF s = 3 THEN board.p20 + r.pa3 - Base.pa3 ELSE board.p1 + r.pa1 - Base.pa1

\* Where a reading lies.
Band(x, lowest, highest) == IF x < lowest THEN "low" ELSE IF x > highest THEN "high" ELSE "in"

\* The bands of the four adjustments: the registers' own, without the noise.
Judged(r, s) ==
    CASE s = 1 -> Band(Frequency(r), -4, 4)
      [] s = 2 -> Band(Frequency(r), -2, 2)
      [] s = 3 -> Band(Power(r, 3), 9, 12)
      [] s = 4 -> Band(Power(r, 4), -4, -1)

\* Without a carrier the instrument reads noise.
Readings == IF tx THEN {Judged(reg, step)} ELSE {"low", "in", "high"}

\* A frequency is lowered, a power raised, by the next higher value.
Change(reading) == IF (reading = "high") = (step \in {1, 2}) THEN 1 ELSE -1

\* What "0x" + i.to_s makes of a number: its decimal digits, read as
\* hexadecimal by the board; a minus sign reads as 0.
AsHex(i) == IF i < 0 THEN 0 ELSE (i \div 100) * 256 + ((i \div 10) % 10) * 16 + (i % 10)

\* The value the host writes: to_s(16) is the number itself, in the register's
\* nibble; PA_ADJ3's is the upper one, below which the number is negative.
Written(i) ==
    IF step \in {1, 2} THEN AsHex(i)
    ELSE IF step = 3 /\ i < 0 THEN 0 ELSE i % 16

\* Mutation: the registers keep what the last adjustment left.
SetupNoReload ==
    /\ pc = "setup"
    /\ pc' = "txon"
    /\ num' = 1
    /\ \/ Arrive /\ tx' = FALSE
       \/ Lose("setup") /\ UNCHANGED tx
    /\ UNCHANGED <<board, reg, eeprom, protect, step, summary, verdict, calls, before>>

\* The radio is initialised: its registers are loaded from the EEPROM.
Setup ==
    /\ pc = "setup"
    /\ pc' = "txon"
    /\ num' = 1
    /\ \/ Arrive /\ reg' = eeprom /\ tx' = FALSE
       \/ Lose("setup") /\ UNCHANGED <<reg, tx>>
    /\ UNCHANGED <<board, eeprom, protect, step, summary, verdict, calls, before>>

TxOn ==
    /\ pc = "txon"
    /\ pc' = "adjust"
    /\ \/ Arrive /\ tx' = TRUE
       \/ Lose("txon") /\ UNCHANGED tx
    /\ UNCHANGED <<board, reg, eeprom, protect, step, num, summary, verdict, calls, before>>

\* The power nibble is at its end ("not enough adjustment").
AtEnd(i) == step > 2 /\ i % 16 = 15

\* The next adjustment, or the end of the last one.
Proceed == IF step = 4 THEN pc' = "address" /\ UNCHANGED step
           ELSE pc' = "setup" /\ step' = step + 1

\* Mutation: a failed adjustment goes straight to the judgement.
ResultSkips(ok) ==
    /\ IF ok THEN Proceed ELSE pc' = "log" /\ UNCHANGED step
    /\ num' = 1
    /\ \/ step < 3 /\ summary' = [summary EXCEPT !.frq = ok]
       \/ step = 3 /\ summary' = [summary EXCEPT !.lv20 = ok]
       \/ /\ step = 4
          /\ \E band \in BOOLEAN : summary' = [summary EXCEPT !.lv1 = ok /\ band]

\* An adjustment returns, 0 when it has not succeeded.
Result(ok) ==
    /\ Proceed
    /\ num' = 1
    /\ \/ step < 3 /\ summary' = [summary EXCEPT !.frq = ok]
       \/ step = 3 /\ summary' = [summary EXCEPT !.lv20 = ok]
       \/ /\ step = 4
          /\ \E band \in IF tx THEN {Power(reg, 4) = -1} ELSE BOOLEAN :
               summary' = [summary EXCEPT !.lv1 = ok /\ band]

\* The reading is in the band: the register's value goes into the EEPROM.
Store ==
    /\ Result(TRUE)
    /\ \/ Arrive /\ Ewr(Register[step], reg[Register[step]])
       \/ Lose("ewr") /\ UNCHANGED eeprom
    /\ UNCHANGED reg

\* Mutation: the counter is not compared, and the loop just ends.
AlterNoRaise(reading) ==
    LET i == reg[Register[step]] + Change(reading) IN
      /\ \/ Arrive /\ Rfw(Register[step], Written(i))
         \/ Lose("rw") /\ UNCHANGED reg
      /\ IF AtEnd(i) THEN Result(FALSE)
         ELSE IF num = LoopEnd[step] THEN Result(TRUE)
         ELSE num' = num + 1 /\ UNCHANGED <<pc, step, summary>>
      /\ UNCHANGED eeprom

\* The reading is not: the register is changed, and another round follows
\* unless the power nibble is at its end or the loop has run long enough.
Alter(reading) ==
    LET i == reg[Register[step]] + Change(reading) IN
      /\ \/ Arrive /\ Rfw(Register[step], Written(i))
         \/ Lose("rw") /\ UNCHANGED reg
      /\ IF AtEnd(i) \/ num > MaxNum THEN Result(FALSE)
         ELSE IF num = LoopEnd[step] THEN Result(TRUE)
         ELSE num' = num + 1 /\ UNCHANGED <<pc, step, summary>>
      /\ UNCHANGED eeprom

Adjust ==
    /\ pc = "adjust"
    /\ \E reading \in Readings :
         IF reading = "in" THEN Store ELSE Alter(reading)
    /\ UNCHANGED <<board, protect, tx, verdict, calls, before>>

\* calibration() returns at the "rescue".
Abort ==
    /\ pc' = "idle"
    /\ verdict' = "Error"
    /\ UNCHANGED <<boardVars, step, num, summary, calls, before>>

\* rr() has no answer to split: the power adjustment catches the exception.
NoRegister ==
    /\ pc = "adjust"
    /\ Lose("rr")
    /\ IF step < 3 THEN Abort
       ELSE Result(FALSE) /\ UNCHANGED <<boardVars, verdict, calls, before>>

-----------------------------------------------------------------------------
(* The end of the calibration.                                             *)

\* The own and the MAC address are read.
Address ==
    /\ pc = "address"
    /\ \/ /\ Arrive
          /\ pc' = "off"
          /\ UNCHANGED <<boardVars, step, num, summary, verdict, calls, before>>
       \/ Lose("address") /\ Abort

\* trxoff() and "ewp 1"; of a loss it may be either.
Off ==
    /\ pc = "off"
    /\ pc' = "log"
    /\ \/ Arrive /\ tx' = FALSE /\ Ewp(TRUE)
       \/ Lose("off") /\ tx' = FALSE /\ UNCHANGED protect
       \/ Lose("off") /\ Ewp(TRUE) /\ UNCHANGED tx
    /\ UNCHANGED <<board, reg, eeprom, step, num, summary, verdict, calls, before>>

\* The branches in their order: a 1 mW result outside its band is a warning,
\* and the address is looked at only without one.
Judgement ==
    CASE ~summary.frq  -> "Error"
      [] summary.frq /\ ~summary.lv20 -> "Error"
      [] summary.frq /\ summary.lv20 /\ ~summary.lv1 -> "nil"
      [] OTHER -> IF board.addr THEN "nil" ELSE "Error"

\* The registers are read for the log, then the results are judged.
Judge ==
    /\ pc = "log"
    /\ pc' = "idle"
    /\ \/ Arrive /\ verdict' = Judgement
       \/ Lose("log") /\ verdict' = "Error"
    /\ UNCHANGED <<boardVars, step, num, summary, calls, before>>

Init ==
    /\ board \in Boards
    /\ eeprom \in {Base, Erased}
    /\ reg = eeprom
    /\ protect \in BOOLEAN
    /\ tx = FALSE
    /\ pc = "idle"
    /\ step = 1
    /\ num = 1
    /\ summary = NoResult
    /\ verdict = "none"
    /\ lost = {}
    /\ losses = 0
    /\ calls = 0
    /\ before = [eeprom |-> eeprom, passed |-> FALSE]

Host == Setup \/ TxOn \/ Adjust \/ NoRegister \/ Address \/ Off \/ Judge

Next == E2pBase \/ Calibrate \/ Host

Spec == Init /\ [][Next]_vars

-----------------------------------------------------------------------------
(* Properties.                                                             *)

\* Every variable has its type.
TypeOK ==
    LET Stored == [osc2 : 0..255, osc : 0..255, pa3 : 0..15, pa1 : 0..15] IN
      /\ board \in Boards
      /\ {reg, eeprom, before.eeprom} \subseteq Stored
      /\ {protect, tx, before.passed} \subseteq BOOLEAN
      /\ pc \in {"idle", "setup", "txon", "adjust", "address", "off", "log"}
      /\ step \in Steps
      /\ num \in 1..LoopEnd[step]
      /\ summary \in [frq : BOOLEAN, lv20 : BOOLEAN, lv1 : BOOLEAN]
      /\ verdict \in {"none", "nil", "Error"}
      /\ lost \subseteq {"ewp0", "setup", "txon", "rr", "rw", "ewr", "address", "off", "log"}
      /\ losses \in 0..MaxLost
      /\ calls \in 0..MaxCalls

Returned == pc = "idle" /\ verdict # "none"

\* A board that passes has the parameters in its EEPROM with which it is
\* within the fine frequency band and the 20 mW power band, although the coarse
\* result is overwritten by the fine one and no write's answer is looked at: of
\* the commands that may be lost only those of "critical" can break it.
PassMeansCalibrated ==
    LET critical == {"ewp0", "setup", "txon", "ewr"} IN
      Returned /\ verdict = "nil" /\ lost \cap critical = {} =>
         Judged(eeprom, 2) = "in" /\ Judged(eeprom, 3) = "in"

\* A board that has passed passes again, with the same parameters: each
\* adjustment starts from what the ones before it stored.
PassesAgain ==
    Returned /\ before.passed /\ lost = {} => verdict = "nil" /\ eeprom = before.eeprom

\* However an adjustment ends, the EEPROM is protected when calibration()
\* returns, unless a command was lost.
LeftProtected == Returned /\ lost = {} => protect

\* The frequency of a board that single steps of the two registers can bring
\* into its bands is adjusted: line 45 adds 1 to the register it has read.
AdjustableIsAdjusted ==
    LET Near(f, w) == f \in (-w)..w
        adjustable == \E c, d \in (-9)..9 :
            /\ Near(board.freq - Coarse * c, 4)
            /\ Near(board.freq - Coarse * c - Fine * d, 2)
    IN Returned /\ lost = {} /\ before.eeprom = Base /\ adjustable => summary.frq
=============================================================================
