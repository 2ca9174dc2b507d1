-------------------------- MODULE Calibration_proofs --------------------------
(***************************************************************************)
(* The calibration, for every board, every effect of the two frequency     *)
(* registers and every number of calls and lost commands: how the EEPROM   *)
(* is left, what a pass says of what is stored in it, and that a board     *)
(* that has passed passes again.                                           *)
(*                                                                         *)
(* The last one needs to know how an adjustment that has failed would end  *)
(* if it were repeated: the fourth one may fail on a board that passes. A  *)
(* register goes one way only, up or down from what is stored, until the   *)
(* reading is in its band, the register at its end or the loop over.       *)
(***************************************************************************)
EXTENDS Calibration, TLAPS

Stored == [osc2 : 0..255, osc : 0..255, pa3 : 0..15, pa1 : 0..15]

\* What can be lost.
Kinds == {"ewp0", "setup", "txon", "rr", "rw", "ewr", "address", "off", "log"}

CalTypes ==
    /\ board \in Boards
    /\ reg \in Stored /\ eeprom \in Stored
    /\ protect \in BOOLEAN /\ tx \in BOOLEAN
    /\ before \in [eeprom : Stored, passed : BOOLEAN]
    /\ pc \in {"idle", "setup", "txon", "adjust", "address", "off", "log"}
    /\ step \in Steps
    /\ num \in 1..10
    /\ summary \in [frq : BOOLEAN, lv20 : BOOLEAN, lv1 : BOOLEAN]
    /\ verdict \in {"none", "nil", "Error"}
    /\ lost \subseteq Kinds
    /\ losses \in 0..MaxLost
    /\ calls \in 0..MaxCalls

\* No command that decides what is measured or stored has been lost in this call.
Intact  == lost \cap {"ewp0", "setup", "txon", "ewr"} = {}
Closing == pc \in {"address", "off", "log"}

\* The EEPROM is writable during the adjustments and protected after them.
ProtectInv ==
    /\ Intact /\ pc \in {"setup", "txon", "adjust", "address", "off"} => ~protect
    /\ lost = {} /\ pc = "log" => protect
    /\ LeftProtected

\* An adjustment starts with the registers of the EEPROM and changes only its own.
LoadedInv ==
    Intact =>
      /\ pc = "txon" => reg = eeprom /\ num = 1
      /\ pc = "adjust" => tx /\ \A r \in Registers \ {Register[step]} : reg[r] = eeprom[r]

\* What the adjustments so far have found is stored.
FoundInv ==
    /\ Closing => step = 4
    /\ Intact /\ pc # "idle" =>
         /\ step > 2 /\ summary.frq => Judged(eeprom, 2) = "in"
         /\ step = 4 /\ summary.lv20 => Judged(eeprom, 3) = "in"

\* The fourth adjustment's register after k rounds from the stored value e.
P1(e) == board.p1 + e - Base.pa1
Round(e, k) ==
    IF k = 0 THEN e
    ELSE IF P1(e) > -1 THEN e - k
    ELSE IF e < 15 THEN e + k
    ELSE k - 1

\* The adjustment has come that far.
Comes(e, k) ==
    k > 0 =>
      \/ P1(e) > -1 /\ P1(e) - k >= -1 /\ e - k >= 0
      \/ P1(e) < -4 /\ e < 15 /\ P1(e) + k =< -4 /\ e + k =< 14
      \/ P1(e) < -4 /\ e = 15

\* Started from e, it fails.
Hopeless(e) ==
    \/ P1(e) > -1 /\ \E k \in 0..9 : P1(e) - k > -1 /\ (e - k = 0 \/ k = 9)
    \/ P1(e) < -4 /\ e < 15 /\ \E k \in 0..9 : P1(e) + k < -4 /\ (e + k = 14 \/ k = 9)
    \/ P1(e) < -4 /\ e = 15

RoundInv ==
    /\ pc = "adjust" /\ step = 4 /\ lost = {} =>
         reg.pa1 = Round(eeprom.pa1, num - 1) /\ Comes(eeprom.pa1, num - 1)
    /\ Closing /\ lost = {} =>
         IF summary.lv1 THEN P1(eeprom.pa1) = -1
         ELSE P1(eeprom.pa1) \in (-4)..(-2) \/ Hopeless(eeprom.pa1)

\* A board with these parameters passes with them.
Settled(e) ==
    /\ Judged(e, 2) = "in" /\ Judged(e, 3) = "in"
    /\ \/ P1(e.pa1) \in (-4)..(-1) /\ (P1(e.pa1) = -1 => board.addr)
       \/ Hopeless(e.pa1)

AgainInv ==
    /\ pc = "idle" /\ verdict = "nil" /\ lost = {} => Settled(eeprom)
    /\ pc # "idle" /\ before.passed /\ lost = {} =>
         /\ Settled(eeprom) /\ eeprom = before.eeprom
         /\ summary.frq /\ summary.lv20
         /\ pc = "adjust" /\ step < 4 => reg = eeprom

CalInv ==
    /\ CalTypes /\ ProtectInv /\ LoadedInv /\ FoundInv /\ RoundInv /\ AgainInv
    /\ PassMeansCalibrated /\ PassesAgain

-----------------------------------------------------------------------------
(* The registers.                                                          *)

LEMMA RegisterOf ==
    /\ Register[1] = "osc2" /\ Register[2] = "osc" /\ Register[3] = "pa3" /\ Register[4] = "pa1"
    /\ Registers = {"osc2", "osc", "pa3", "pa1"}
    /\ Base \in Stored /\ Erased \in Stored
    /\ Base.osc2 = 8 /\ Base.osc = 48 /\ Base.pa3 = 7 /\ Base.pa1 = 7
  BY DEF Register, Registers, Base, Erased, Stored

\* The decimal digits of a number, read as hexadecimal.
LEMMA AsHexNatural == ASSUME NEW i \in Int PROVE AsHex(i) \in Nat
  <1>1. CASE i < 0
      BY <1>1 DEF AsHex
  <1>2. CASE i >= 0
    <2>1. (i \div 100) \in Nat /\ (i \div 10) \in Nat /\ (i % 10) \in Nat /\ ((i \div 10) % 10) \in Nat
        BY <1>2
    <2> QED
        BY <1>2, <2>1 DEF AsHex
  <1> QED
      BY <1>1, <1>2

\* What is written fits the register.
LEMMA WrittenFits ==
    ASSUME NEW i \in Int, step \in Steps
    PROVE  (Written(i) % 256) \in IF step \in {1, 2} THEN 0..255 ELSE 0..15
  <1>1. CASE step \in {1, 2}
    <2>1. Written(i) \in Nat
        BY <1>1, AsHexNatural DEF Written
    <2> QED
        BY <1>1, <2>1
  <1>2. CASE step \in {3, 4}
    <2>1. Written(i) \in 0..15
        BY <1>2 DEF Written
    <2>2. (Written(i) % 256) = Written(i)
        BY <2>1
    <2> QED
        BY <1>2, <2>1, <2>2
  <1> QED
      BY <1>1, <1>2 DEF Steps

LEMMA RegisterValue ==
    ASSUME step \in Steps, NEW r \in Stored
    PROVE  /\ Register[step] \in Registers /\ r[Register[step]] \in Int
           /\ r[Register[step]] \in IF step \in {1, 2} THEN 0..255 ELSE 0..15
  <1>1. step \in {1, 2, 3, 4}
      BY DEF Steps
  <1> QED
      BY <1>1, RegisterOf DEF Stored

\* A register is changed, the others are not.
LEMMA RegisterChanges ==
    ASSUME step \in Steps, NEW r \in Stored, NEW v,
           v \in IF step \in {1, 2} THEN 0..255 ELSE 0..15
    PROVE  /\ [r EXCEPT ![Register[step]] = v] \in Stored
           /\ [r EXCEPT ![Register[step]] = v][Register[step]] = v
           /\ \A q \in Registers \ {Register[step]} : [r EXCEPT ![Register[step]] = v][q] = r[q]
  <1>1. step \in {1, 2, 3, 4}
      BY DEF Steps
  <1> QED
      BY <1>1, RegisterOf DEF Stored

\* Registers that agree everywhere are the same.
LEMMA SameRegisters ==
    ASSUME NEW r \in Stored, NEW q \in Stored, \A n \in Registers : r[n] = q[n]
    PROVE  r = q
  BY RegisterOf DEF Stored

-----------------------------------------------------------------------------
(* The end of an adjustment.                                               *)

LEMMA ResultOutcome ==
    ASSUME CalTypes, NEW ok \in BOOLEAN, Result(ok)
    PROVE  /\ num' = 1 /\ step' \in Steps
           /\ summary' \in [frq : BOOLEAN, lv20 : BOOLEAN, lv1 : BOOLEAN]
           /\ step = 4 => pc' = "address" /\ step' = 4
           /\ step # 4 => pc' = "setup" /\ step' = step + 1
           /\ (summary'.frq <=> IF step < 3 THEN ok ELSE summary.frq)
           /\ (summary'.lv20 <=> IF step = 3 THEN ok ELSE summary.lv20)
           /\ step = 4 => /\ summary'.lv1 => ok
                          /\ tx /\ ok => (summary'.lv1 <=> Power(reg, 4) = -1)
  <1>1. /\ step \in 1..4 /\ summary \in [frq : BOOLEAN, lv20 : BOOLEAN, lv1 : BOOLEAN]
      BY DEF CalTypes, Steps
  <1>2. /\ num' = 1
        /\ step = 4 => pc' = "address" /\ step' = 4
        /\ step # 4 => pc' = "setup" /\ step' = step + 1
        /\ step' \in Steps
      BY <1>1 DEF Result, Proceed, Steps
  <1>3. CASE step < 3
    <2>1. summary' = [summary EXCEPT !.frq = ok]
        BY <1>1, <1>3 DEF Result
    <2>2. /\ summary' \in [frq : BOOLEAN, lv20 : BOOLEAN, lv1 : BOOLEAN]
          /\ summary'.frq = ok /\ summary'.lv20 = summary.lv20
        BY <1>1, <2>1
    <2> QED
        BY <1>1, <1>2, <1>3, <2>2
  <1>4. CASE step = 3
    <2>1. summary' = [summary EXCEPT !.lv20 = ok]
        BY <1>1, <1>4 DEF Result
    <2>2. /\ summary' \in [frq : BOOLEAN, lv20 : BOOLEAN, lv1 : BOOLEAN]
          /\ summary'.lv20 = ok /\ summary'.frq = summary.frq
        BY <1>1, <2>1
    <2> QED
        BY <1>1, <1>2, <1>4, <2>2
  <1>5. CASE step = 4
    <2>0. PICK band \in IF tx THEN {Power(reg, 4) = -1} ELSE BOOLEAN :
             summary' = [summary EXCEPT !.lv1 = ok /\ band]
        BY <1>1, <1>5 DEF Result
    <2>1. /\ summary' = [summary EXCEPT !.lv1 = ok /\ band]
          /\ tx => (band <=> Power(reg, 4) = -1)
        BY <2>0, Zenon
    <2>2. summary'.lv20 = summary.lv20 /\ summary'.frq = summary.frq /\ summary'.lv1 = (ok /\ band)
        BY <1>1, <2>1
    <2>3. (ok /\ band) \in BOOLEAN
        OBVIOUS
    <2>4. summary' \in [frq : BOOLEAN, lv20 : BOOLEAN, lv1 : BOOLEAN]
        BY <1>1, <2>1, <2>3
    <2>5. /\ summary'.lv1 => ok
          /\ tx /\ ok => (summary'.lv1 <=> Power(reg, 4) = -1)
        BY <2>1, <2>2, Zenon
    <2> QED
        BY <1>1, <1>2, <1>5, <2>2, <2>4, <2>5
  <1> QED
      BY <1>1, <1>3, <1>4, <1>5

-----------------------------------------------------------------------------
(* The types.                                                              *)

LEMMA CallTypes == ASSUME CalTypes, E2pBase \/ Calibrate PROVE CalTypes'
  <1> USE DEF CalTypes
  <1>0. MaxLost \in Nat /\ MaxCalls \in Nat
      BY CalibrationAssumption
  <1>1. CASE E2pBase
    <2>1. PICK keep \in {{}, Registers} \cup {{r} : r \in Registers}, p \in BOOLEAN :
            /\ eeprom' = [r \in Registers |-> IF r \in keep THEN eeprom[r] ELSE Base[r]]
            /\ protect' = p
            /\ losses' = losses \/ (losses < MaxLost /\ losses' = losses + 1)
        BY <1>1 DEF E2pBase, Ewp
    <2>2. eeprom' \in Stored
        BY <2>1, RegisterOf DEF Stored
    <2>3. losses' \in 0..MaxLost
        BY <1>0, <2>1
    <2>4. calls' \in 0..MaxCalls
        BY <1>0, <1>1 DEF E2pBase, CanCall
    <2> QED
        BY <1>1, <2>1, <2>2, <2>3, <2>4 DEF E2pBase
  <1>2. CASE Calibrate
    <2>1. protect' = FALSE \/ protect' = protect
        BY <1>2 DEF Calibrate, Ewp
    <2>2. losses' = losses \/ (losses < MaxLost /\ losses' = losses + 1)
        BY <1>2 DEF Calibrate
    <2>6. losses' \in 0..MaxLost
        BY <1>0, <2>2
    <2>7. calls' \in 0..MaxCalls
        BY <1>0, <1>2 DEF Calibrate, CanCall
    <2>8. lost' \subseteq Kinds
        BY <1>2 DEF Calibrate, Kinds
    <2>3. protect' \in BOOLEAN
        BY <2>1, Zenon
    <2>4. before' \in [eeprom : Stored, passed : BOOLEAN]
      <3>1. (verdict = "nil" /\ lost = {}) \in BOOLEAN
          OBVIOUS
      <3> QED
          BY <1>2, <3>1 DEF Calibrate
    <2>5. summary' \in [frq : BOOLEAN, lv20 : BOOLEAN, lv1 : BOOLEAN]
        BY <1>2 DEF Calibrate, NoResult
    <2> QED
        BY <1>2, <2>3, <2>4, <2>5, <2>6, <2>7, <2>8 DEF Calibrate, Steps
  <1> QED
      BY <1>1, <1>2

\* A command is executed or lost.
LEMMA LoseTypes ==
    ASSUME CalTypes, NEW k \in Kinds, Arrive \/ Lose(k)
    PROVE  lost' \subseteq Kinds /\ losses' \in 0..MaxLost
  <1>1. MaxLost \in Nat /\ losses \in 0..MaxLost /\ lost \subseteq Kinds
      BY CalibrationAssumption DEF CalTypes
  <1>2. CASE Arrive
      BY <1>1, <1>2 DEF Arrive
  <1>3. CASE Lose(k)
    <2>1. losses' = losses + 1 /\ losses < MaxLost /\ lost' = lost \cup {k}
        BY <1>3 DEF Lose
    <2>2. losses' \in 0..MaxLost
        BY <1>1, <2>1
    <2>3. lost' \subseteq Kinds
        BY <1>1, <2>1
    <2> QED
        BY <2>2, <2>3
  <1> QED
      BY <1>2, <1>3

\* What an adjustment does to the registers.
LEMMA AdjustOutcome ==
    ASSUME CalTypes, Adjust
    PROVE  /\ UNCHANGED <<board, protect, tx, verdict, calls, before>> /\ pc = "adjust"
           /\ reg' \in Stored /\ eeprom' \in Stored
           /\ \A r \in Registers \ {Register[step]} : reg'[r] = reg[r] /\ eeprom'[r] = eeprom[r]
  <1>1. PICK reading \in Readings : IF reading = "in" THEN Store ELSE Alter(reading)
      BY DEF Adjust
  <1>2. reg \in Stored /\ eeprom \in Stored /\ step \in Steps
      BY DEF CalTypes
  <1>3. CASE reading = "in"
    <2>1. reg' = reg /\ (eeprom' = eeprom \/ eeprom' = [eeprom EXCEPT ![Register[step]] = reg[Register[step]]])
        BY <1>1, <1>3 DEF Store, Ewr, Arrive, Lose
    <2>2. reg[Register[step]] \in IF step \in {1, 2} THEN 0..255 ELSE 0..15
        BY <1>2, RegisterValue
    <2> QED
      <3> DEFINE e == [eeprom EXCEPT ![Register[step]] = reg[Register[step]]]
      <3>1. e \in Stored /\ \A q \in Registers \ {Register[step]} : e[q] = eeprom[q]
          BY <1>2, <2>2, RegisterChanges
      <3> QED
          BY <1>2, <2>1, <3>1 DEF Adjust
  <1>4. CASE reading # "in"
    <2> DEFINE i == reg[Register[step]] + Change(reading)
    <2>1. eeprom' = eeprom /\ (reg' = reg \/ reg' = [reg EXCEPT ![Register[step]] = Written(i) % 256])
        BY <1>1, <1>4 DEF Alter, Rfw
    <2>2. i \in Int
      <3>1. reg[Register[step]] \in Int
          BY <1>2, RegisterValue
      <3>2. Change(reading) \in Int
          BY DEF Change
      <3> QED
          BY <3>1, <3>2
    <2> HIDE DEF i
    <2>3. (Written(i) % 256) \in IF step \in {1, 2} THEN 0..255 ELSE 0..15
        BY <1>2, <2>2, WrittenFits
    <2> QED
      <3> DEFINE e == [reg EXCEPT ![Register[step]] = Written(i) % 256]
      <3>1. e \in Stored /\ \A q \in Registers \ {Register[step]} : e[q] = reg[q]
          BY <1>2, <2>3, RegisterChanges
      <3> QED
          BY <1>2, <2>1, <3>1 DEF Adjust
  <1> QED
      BY <1>3, <1>4

\* The reading that decides.
LEMMA AdjustReading ==
    ASSUME Adjust
    PROVE  \E reading \in Readings :
             \/ reading = "in" /\ Store
             \/ reading # "in" /\ Alter(reading)
  BY DEF Adjust

LEMMA AdjustTypes == ASSUME CalTypes, Adjust PROVE CalTypes'
  <1>1. UNCHANGED <<board, protect, tx, verdict, calls, before>> /\ reg' \in Stored /\ eeprom' \in Stored
      BY AdjustOutcome
  <1>2. PICK reading \in Readings :
           \/ reading = "in" /\ Store
           \/ reading # "in" /\ Alter(reading)
      BY AdjustReading
  <1>3. lost' \subseteq Kinds /\ losses' \in 0..MaxLost
    <2>1. \E k \in Kinds : Arrive \/ Lose(k)
        BY <1>2 DEF Store, Alter, Kinds
    <2> QED
        BY <2>1, LoseTypes
  <1>4. ASSUME NEW ok \in BOOLEAN, Result(ok) PROVE CalTypes'
    <2>1. /\ num' = 1 /\ step' \in Steps /\ pc' \in {"address", "setup"}
          /\ summary' \in [frq : BOOLEAN, lv20 : BOOLEAN, lv1 : BOOLEAN]
        BY <1>4, ResultOutcome
    <2> QED
        BY <1>1, <1>3, <2>1 DEF CalTypes
  <1>5. CASE num =< MaxNum /\ num' = num + 1 /\ UNCHANGED <<pc, step, summary>>
      BY <1>1, <1>3, <1>5 DEF CalTypes, MaxNum
  <1>6. \/ Result(FALSE) \/ Result(TRUE)
        \/ num =< MaxNum /\ num' = num + 1 /\ UNCHANGED <<pc, step, summary>>
    <2>1. CASE Store
        BY <2>1 DEF Store
    <2>2. CASE Alter(reading)
      <3>1. num \in 1..10
          BY DEF CalTypes
      <3>2. Result(FALSE) \/ Result(TRUE) \/ (~(num > MaxNum) /\ num' = num + 1 /\ UNCHANGED <<pc, step, summary>>)
          BY <2>2 DEF Alter
      <3>3. num > MaxNum \/ num =< MaxNum
          BY <3>1 DEF MaxNum
      <3> QED
          BY <3>2, <3>3, Zenon
    <2> QED
        BY <1>2, <2>1, <2>2
  <1> QED
      BY <1>4, <1>5, <1>6

LEMMA HostTypes == ASSUME CalTypes, Host PROVE CalTypes'
  <1>1. CASE Setup
    <2>1. lost' \subseteq Kinds /\ losses' \in 0..MaxLost
        BY <1>1, LoseTypes DEF Setup, Kinds
    <2>2. reg' \in Stored /\ (tx' = FALSE \/ tx' = tx)
        BY <1>1 DEF Setup, CalTypes
    <2>3. tx' \in BOOLEAN
        BY <2>2, Zenon DEF CalTypes
    <2> QED
        BY <1>1, <2>1, <2>2, <2>3 DEF Setup, CalTypes
  <1>2. CASE TxOn
    <2>1. lost' \subseteq Kinds /\ losses' \in 0..MaxLost
        BY <1>2, LoseTypes DEF TxOn, Kinds
    <2>2. tx' = TRUE \/ tx' = tx
        BY <1>2 DEF TxOn
    <2>3. tx' \in BOOLEAN
        BY <2>2, Zenon DEF CalTypes
    <2> QED
        BY <1>2, <2>1, <2>3 DEF TxOn, CalTypes
  <1>3. CASE Adjust
      BY <1>3, AdjustTypes
  <1>4. CASE NoRegister
    <2>1. lost' \subseteq Kinds /\ losses' \in 0..MaxLost
        BY <1>4, LoseTypes DEF NoRegister, Kinds
    <2>2. CASE Abort
        BY <2>1, <2>2 DEF Abort, CalTypes, boardVars
    <2>3. CASE Result(FALSE) /\ UNCHANGED <<boardVars, verdict, calls, before>>
      <3>1. /\ num' = 1 /\ step' \in Steps /\ pc' \in {"address", "setup"}
            /\ summary' \in [frq : BOOLEAN, lv20 : BOOLEAN, lv1 : BOOLEAN]
          BY <2>3, ResultOutcome
      <3> QED
          BY <2>1, <2>3, <3>1 DEF CalTypes, boardVars
    <2> QED
        BY <1>4, <2>2, <2>3 DEF NoRegister
  <1>5. CASE Address
    <2>1. lost' \subseteq Kinds /\ losses' \in 0..MaxLost
        BY <1>5, LoseTypes DEF Address, Kinds
    <2> QED
        BY <1>5, <2>1 DEF Address, Abort, CalTypes, boardVars
  <1>6. CASE Off
    <2>1. lost' \subseteq Kinds /\ losses' \in 0..MaxLost
        BY <1>6, LoseTypes DEF Off, Kinds
    <2>2. (tx' = FALSE \/ tx' = tx) /\ (protect' = TRUE \/ protect' = protect)
        BY <1>6 DEF Off, Ewp
    <2>3. tx' \in BOOLEAN /\ protect' \in BOOLEAN
        BY <2>2, Zenon DEF CalTypes
    <2> QED
        BY <1>6, <2>1, <2>3 DEF Off, CalTypes
  <1>7. CASE Judge
    <2>1. lost' \subseteq Kinds /\ losses' \in 0..MaxLost
        BY <1>7, LoseTypes DEF Judge, Kinds
    <2>2. verdict' \in {"nil", "Error"}
        BY <1>7 DEF Judge, Judgement
    <2> QED
        BY <1>7, <2>1, <2>2 DEF Judge, CalTypes, boardVars
  <1> QED
      BY <1>1, <1>2, <1>3, <1>4, <1>5, <1>6, <1>7 DEF Host

-----------------------------------------------------------------------------
(* The fourth adjustment's rounds.                                         *)

\* A reading in the band: the adjustment is not a hopeless one, and from a
\* value within the band it ends in its first round.
LEMMA RoundIn ==
    ASSUME board.p1 \in Int, NEW e \in 0..15, NEW k \in 0..9, NEW r, r = Round(e, k), Comes(e, k),
           P1(r) \in (-4)..(-1)
    PROVE  ~Hopeless(e) /\ (P1(e) \in (-4)..(-1) => r = e)
  <1> DEFINE p == board.p1
  <1>1. Base.pa1 = 7
      BY RegisterOf
  <1>2. P1(r) = p + r - 7 /\ P1(e) = p + e - 7
      BY <1>1 DEF P1
  <1>3. CASE k = 0
    <2>1. r = e
        BY <1>3 DEF Round
    <2> QED
        BY <1>1, <1>2, <2>1 DEF Hopeless
  <1>4. CASE k > 0 /\ P1(e) > -1 /\ P1(e) - k >= -1 /\ e - k >= 0
    <2>1. r = e - k
        BY <1>4 DEF Round
    <2> QED
        BY <1>2, <1>4, <2>1 DEF Hopeless
  <1>5. CASE k > 0 /\ P1(e) < -4 /\ e < 15 /\ P1(e) + k =< -4 /\ e + k =< 14
    <2>1. r = e + k
        BY <1>2, <1>5 DEF Round
    <2> QED
        BY <1>2, <1>5, <2>1 DEF Hopeless
  <1>6. CASE k > 0 /\ P1(e) < -4 /\ e = 15
    <2>1. r = k - 1
        BY <1>2, <1>6 DEF Round
    <2> QED
        BY <1>2, <1>6, <2>1
  <1> QED
      BY <1>3, <1>4, <1>5, <1>6 DEF Comes

\* A reading above the band: one down, or a failure.
LEMMA RoundHigh ==
    ASSUME board.p1 \in Int, NEW e \in 0..15, NEW k \in 0..9, NEW r \in 0..15, r = Round(e, k), Comes(e, k),
           P1(r) > -1
    PROVE  /\ r = 0 \/ k = 9 => Hopeless(e)
           /\ r # 0 => r - 1 = Round(e, k + 1) /\ Comes(e, k + 1)
  <1> DEFINE p == board.p1
  <1>1. Base.pa1 = 7
      BY RegisterOf
  <1>2. P1(r) = p + r - 7 /\ P1(e) = p + e - 7
      BY <1>1 DEF P1
  <1>3. r = e - k /\ P1(e) > -1
    <2>1. CASE k = 0
        BY <1>2, <2>1 DEF Round
    <2>2. CASE k > 0
        BY <1>2, <2>2 DEF Round, Comes
    <2> QED
        BY <2>1, <2>2
  <1>4. ASSUME r = 0 \/ k = 9 PROVE Hopeless(e)
    <2>1. P1(e) - k > -1 /\ (e - k = 0 \/ k = 9)
        BY <1>2, <1>3, <1>4
    <2> QED
        BY <1>3, <2>1 DEF Hopeless
  <1>5. ASSUME r # 0 PROVE r - 1 = Round(e, k + 1) /\ Comes(e, k + 1)
      BY <1>2, <1>3, <1>5 DEF Round, Comes
  <1> QED
      BY <1>4, <1>5

\* A reading below the band: one up, past 15 to 0, or a failure.
LEMMA RoundLow ==
    ASSUME board.p1 \in Int, NEW e \in 0..15, NEW k \in 0..9, NEW r \in 0..15, r = Round(e, k), Comes(e, k),
           P1(r) < -4
    PROVE  /\ r = 14 \/ k = 9 => Hopeless(e)
           /\ r # 14 => (IF r = 15 THEN 0 ELSE r + 1) = Round(e, k + 1) /\ Comes(e, k + 1)
  <1> DEFINE p == board.p1
  <1>1. Base.pa1 = 7
      BY RegisterOf
  <1>2. P1(r) = p + r - 7 /\ P1(e) = p + e - 7
      BY <1>1 DEF P1
  <1>3. P1(e) < -4
    <2>1. CASE k = 0
        BY <1>2, <2>1 DEF Round
    <2>2. CASE k > 0
        BY <1>2, <2>2 DEF Round, Comes
    <2> QED
        BY <2>1, <2>2
  <1>4. CASE e = 15
    <2>1. Hopeless(e)
        BY <1>3, <1>4 DEF Hopeless
    <2>2. r = IF k = 0 THEN 15 ELSE k - 1
        BY <1>2, <1>3, <1>4 DEF Round
    <2>3. Round(e, k + 1) = k /\ Comes(e, k + 1)
        BY <1>2, <1>3, <1>4 DEF Round, Comes
    <2> QED
        BY <2>1, <2>2, <2>3
  <1>5. CASE e < 15
    <2>1. r = e + k /\ e + k =< 14
      <3>1. CASE k = 0
          BY <1>5, <3>1 DEF Round
      <3>2. CASE k > 0
          BY <1>2, <1>3, <1>5, <3>2 DEF Round, Comes
      <3> QED
          BY <3>1, <3>2
    <2>2. ASSUME r = 14 \/ k = 9 PROVE Hopeless(e)
      <3>1. P1(e) + k < -4 /\ (e + k = 14 \/ k = 9)
          BY <1>2, <2>1, <2>2
      <3> QED
          BY <1>3, <1>5, <3>1 DEF Hopeless
    <2>3. ASSUME r # 14 PROVE r + 1 = Round(e, k + 1) /\ Comes(e, k + 1) /\ r # 15
        BY <1>2, <1>3, <1>5, <2>1, <2>3 DEF Round, Comes
    <2> QED
        BY <2>2, <2>3
  <1> QED
      BY <1>4, <1>5

-----------------------------------------------------------------------------
(* The state before a step, for those steps in which nothing of            *)
(* importance has been lost.                                               *)

LEMMA LostGrows ==
    ASSUME NEW k, Arrive \/ Lose(k)
    PROVE  /\ Intact' => Intact
           /\ lost' = {} => Arrive /\ lost = {}
           /\ Intact' /\ k \in {"ewp0", "setup", "txon", "ewr"} => Arrive
  <1>1. lost' = lost \/ lost' = lost \cup {k}
      BY DEF Arrive, Lose
  <1>2. Arrive \/ lost' = lost \cup {k}
      BY DEF Lose
  <1> QED
      BY <1>1, <1>2 DEF Arrive, Intact

LEMMA SetupOutcome ==
    ASSUME Setup
    PROVE  /\ pc = "setup" /\ pc' = "txon" /\ num' = 1
           /\ UNCHANGED <<board, eeprom, protect, step, summary, verdict, calls, before>>
           /\ Intact' => Intact /\ reg' = eeprom
           /\ lost' = {} => lost = {}
  <1>1. Arrive \/ Lose("setup")
      BY DEF Setup
  <1>2. Intact' => Arrive
      BY <1>1, LostGrows
  <1>3. Arrive => reg' = eeprom \/ Lose("setup")
      BY DEF Setup
  <1>4. Intact' => ~Lose("setup")
      BY DEF Intact, Lose
  <1>5. (Intact' => Intact) /\ (lost' = {} => lost = {})
      BY <1>1, LostGrows
  <1>6. /\ pc = "setup" /\ pc' = "txon" /\ num' = 1
        /\ UNCHANGED <<board, eeprom, protect, step, summary, verdict, calls, before>>
      BY DEF Setup
  <1> QED
      BY <1>2, <1>3, <1>4, <1>5, <1>6

LEMMA TxOnOutcome ==
    ASSUME TxOn
    PROVE  /\ pc = "txon" /\ pc' = "adjust"
           /\ UNCHANGED <<board, reg, eeprom, protect, step, num, summary, verdict, calls, before>>
           /\ Intact' => Intact /\ tx'
           /\ lost' = {} => lost = {}
  <1>1. Arrive \/ Lose("txon")
      BY DEF TxOn
  <1>2. (Intact' => Intact) /\ (lost' = {} => lost = {})
      BY <1>1, LostGrows
  <1>3. Intact' => ~Lose("txon")
      BY DEF Intact, Lose
  <1>4. tx' \/ Lose("txon")
      BY DEF TxOn
  <1>5. /\ pc = "txon" /\ pc' = "adjust"
        /\ UNCHANGED <<board, reg, eeprom, protect, step, num, summary, verdict, calls, before>>
      BY DEF TxOn
  <1> QED
      BY <1>2, <1>3, <1>4, <1>5

LEMMA AdjustLoses ==
    ASSUME Adjust PROVE (Intact' => Intact) /\ (lost' = {} => lost = {})
  <1>1. PICK reading \in Readings :
           \/ reading = "in" /\ Store
           \/ reading # "in" /\ Alter(reading)
      BY AdjustReading
  <1>2. Arrive \/ Lose("ewr") \/ Lose("rw")
      BY <1>1 DEF Store, Alter
  <1> QED
      BY <1>2, LostGrows

\* An exception, or a failed power adjustment: something has been lost.
LEMMA NoRegisterOutcome ==
    ASSUME NoRegister, CalTypes
    PROVE  /\ pc = "adjust" /\ lost' # {} /\ (Intact' => Intact)
           /\ UNCHANGED boardVars /\ UNCHANGED before
           /\ \/ pc' = "idle" /\ verdict' = "Error" /\ UNCHANGED step
              \/ step > 2 /\ Result(FALSE) /\ UNCHANGED verdict
  <1>1. lost' # {}
      BY DEF NoRegister, Lose
  <1>2. Intact' => Intact
      BY LostGrows DEF NoRegister
  <1>3. CASE step < 3
    <2>1. pc = "adjust" /\ Abort
        BY <1>3 DEF NoRegister
    <2> QED
        BY <1>1, <1>2, <2>1 DEF Abort
  <1>4. CASE ~(step < 3)
    <2>1. pc = "adjust" /\ Result(FALSE) /\ UNCHANGED <<boardVars, verdict, calls, before>>
        BY <1>4 DEF NoRegister
    <2>2. step > 2
        BY <1>4 DEF CalTypes, Steps
    <2> QED
        BY <1>1, <1>2, <2>1, <2>2
  <1> QED
      BY <1>3, <1>4

LEMMA AddressOutcome ==
    ASSUME Address
    PROVE  /\ pc = "address" /\ UNCHANGED <<boardVars, step, num, summary, calls, before>>
           /\ Intact' => Intact
           /\ lost' = {} => lost = {}
           /\ \/ pc' = "off" /\ UNCHANGED verdict
              \/ pc' = "idle" /\ verdict' = "Error" /\ lost' # {}
  <1>1. Arrive \/ Lose("address")
      BY DEF Address
  <1>2. (Intact' => Intact) /\ (lost' = {} => lost = {})
      BY <1>1, LostGrows
  <1>3. Lose("address") => lost' # {}
      BY DEF Lose
  <1> QED
      BY <1>2, <1>3 DEF Address, Abort

LEMMA OffOutcome ==
    ASSUME Off
    PROVE  /\ pc = "off" /\ pc' = "log"
           /\ UNCHANGED <<board, reg, eeprom, step, num, summary, verdict, calls, before>>
           /\ Intact' => Intact
           /\ lost' = {} => lost = {} /\ protect'
  <1>1. Arrive \/ Lose("off")
      BY DEF Off
  <1>2. (Intact' => Intact) /\ (lost' = {} => lost = {})
      BY <1>1, LostGrows
  <1>3. protect' \/ Lose("off")
      BY DEF Off, Ewp
  <1>4. lost' = {} => ~Lose("off")
      BY DEF Lose
  <1>5. /\ pc = "off" /\ pc' = "log"
        /\ UNCHANGED <<board, reg, eeprom, step, num, summary, verdict, calls, before>>
      BY DEF Off
  <1> QED
      BY <1>2, <1>3, <1>4, <1>5

LEMMA JudgeOutcome ==
    ASSUME Judge
    PROVE  /\ pc = "log" /\ pc' = "idle"
           /\ UNCHANGED <<boardVars, step, num, summary, calls, before>>
           /\ Intact' => Intact
           /\ lost' = {} => lost = {} /\ verdict' = Judgement
           /\ verdict' # "Error" => verdict' = Judgement
  <1>1. Arrive \/ Lose("log")
      BY DEF Judge
  <1>2. (Intact' => Intact) /\ (lost' = {} => lost = {})
      BY <1>1, LostGrows
  <1>3. lost' = {} => ~Lose("log")
      BY DEF Lose
  <1>4. verdict' = Judgement \/ (Lose("log") /\ verdict' = "Error")
      BY DEF Judge
  <1>5. /\ pc = "log" /\ pc' = "idle"
        /\ UNCHANGED <<boardVars, step, num, summary, calls, before>>
      BY DEF Judge
  <1> QED
      BY <1>2, <1>3, <1>4, <1>5

\* A call begins with nothing lost but "ewp 0".
LEMMA CalibrateOutcome ==
    ASSUME Calibrate
    PROVE  /\ pc = "idle" /\ pc' = "setup" /\ step' = 1 /\ summary' = NoResult /\ verdict' = "none"
           /\ before' = [eeprom |-> eeprom, passed |-> verdict = "nil" /\ lost = {}]
           /\ UNCHANGED <<board, reg, eeprom, tx, num>>
           /\ Intact' => ~protect'
  <1>1. \/ protect' = FALSE
        \/ lost' = {"ewp0"}
      BY DEF Calibrate, Ewp
  <1> QED
      BY <1>1 DEF Calibrate, CanCall, Intact

\* With the carrier on, the reading is the register's: in the band, it is
\* stored in the EEPROM, which is writable; or not, and the loop does not just
\* end: its counter is compared before its end is.
LEMMA AdjustEnds ==
    ASSUME CalTypes, ProtectInv, LoadedInv, Adjust, Intact'
    PROVE  /\ Intact /\ tx /\ ~protect
           /\ \/ /\ Judged(reg, step) = "in" /\ Result(TRUE) /\ reg' = reg
                 /\ eeprom' = [eeprom EXCEPT ![Register[step]] = reg[Register[step]]]
              \/ /\ Judged(reg, step) # "in" /\ Alter(Judged(reg, step)) /\ eeprom' = eeprom
                 /\ \/ Result(FALSE)
                    \/ num =< MaxNum /\ num' = num + 1 /\ UNCHANGED <<pc, step, summary>>
  <1>1. pc = "adjust" /\ Intact
      BY AdjustLoses DEF Adjust
  <1>2. tx /\ ~protect
      BY <1>1 DEF LoadedInv, ProtectInv
  <1>3. Readings = {Judged(reg, step)}
      BY <1>2 DEF Readings
  <1>4. PICK reading \in Readings :
           \/ reading = "in" /\ Store
           \/ reading # "in" /\ Alter(reading)
      BY AdjustReading
  <1>5. reading = Judged(reg, step)
      BY <1>3, <1>4
  <1>6. CASE reading = "in" /\ Store
    <2>1. Result(TRUE) /\ reg' = reg
        BY <1>6 DEF Store
    <2>2. (Arrive /\ Ewr(Register[step], reg[Register[step]])) \/ Lose("ewr")
        BY <1>6 DEF Store
    <2>3. ~Lose("ewr")
        BY DEF Intact, Lose
    <2>4. eeprom' = [eeprom EXCEPT ![Register[step]] = reg[Register[step]]]
        BY <1>2, <2>2, <2>3 DEF Ewr
    <2> QED
        BY <1>1, <1>2, <1>5, <1>6, <2>1, <2>4
  <1>7. CASE reading # "in" /\ Alter(reading)
    <2> DEFINE atEnd == AtEnd(reg[Register[step]] + Change(reading))
    <2>1. /\ eeprom' = eeprom
          /\ IF atEnd \/ num > MaxNum THEN Result(FALSE)
             ELSE IF num = LoopEnd[step] THEN Result(TRUE)
             ELSE num' = num + 1 /\ UNCHANGED <<pc, step, summary>>
        BY <1>7 DEF Alter
    <2> HIDE DEF atEnd
    <2>2. num \in 1..10 /\ step \in {1, 2, 3, 4}
        BY DEF CalTypes, Steps
    <2>3. num > MaxNum \/ (num =< MaxNum /\ num # LoopEnd[step])
        BY <2>2 DEF MaxNum, LoopEnd
    <2>4. Result(FALSE) \/ (num =< MaxNum /\ num' = num + 1 /\ UNCHANGED <<pc, step, summary>>)
        BY <2>1, <2>3, Zenon
    <2> QED
        BY <1>1, <1>2, <1>5, <1>7, <2>1, <2>4
  <1> QED
      BY <1>4, <1>6, <1>7

-----------------------------------------------------------------------------
(* The EEPROM's protection.                                                *)

\* Every way out of calibration() that has lost nothing ends in "ewp 1".
LEMMA Protected == ASSUME CalTypes, ProtectInv, Next PROVE ProtectInv'
  <1> USE DEF ProtectInv, LeftProtected, Returned
  <1>1. CASE E2pBase
      BY <1>1 DEF E2pBase, CanCall
  <1>2. CASE Calibrate
      BY <1>2, CalibrateOutcome
  <1>3. CASE Setup
      BY <1>3, SetupOutcome
  <1>4. CASE TxOn
      BY <1>4, TxOnOutcome
  <1>5. CASE Adjust
    <2>1. pc' \in {"address", "setup", "adjust"} /\ pc = "adjust" /\ UNCHANGED protect
      <3>1. PICK reading \in Readings :
               \/ reading = "in" /\ Store
               \/ reading # "in" /\ Alter(reading)
          BY <1>5, AdjustReading
      <3>2. Result(FALSE) \/ Result(TRUE) \/ UNCHANGED pc
          BY <3>1 DEF Store, Alter
      <3>3. pc = "adjust" /\ UNCHANGED protect
          BY <1>5 DEF Adjust
      <3> QED
          BY <3>2, <3>3 DEF Result, Proceed
    <2> QED
        BY <1>5, <2>1, AdjustLoses
  <1>6. CASE NoRegister
    <2>1. /\ pc = "adjust" /\ lost' # {} /\ (Intact' => Intact) /\ UNCHANGED protect
          /\ pc' \in {"idle", "address", "setup"}
        BY <1>6, NoRegisterOutcome DEF Result, Proceed, boardVars
    <2> QED
        BY <2>1
  <1>7. CASE Address
      BY <1>7, AddressOutcome DEF boardVars
  <1>8. CASE Off
      BY <1>8, OffOutcome
  <1>9. CASE Judge
      BY <1>9, JudgeOutcome DEF boardVars
  <1> QED
      BY <1>1, <1>2, <1>3, <1>4, <1>5, <1>6, <1>7, <1>8, <1>9 DEF Next, Host

-----------------------------------------------------------------------------
(* The registers at the start of an adjustment.                            *)

LEMMA Loaded == ASSUME CalTypes, LoadedInv, Next PROVE LoadedInv'
  <1> USE DEF LoadedInv
  <1>1. CASE E2pBase
      BY <1>1 DEF E2pBase, CanCall
  <1>2. CASE Calibrate
      BY <1>2, CalibrateOutcome
  <1>3. CASE Setup
      BY <1>3, SetupOutcome
  <1>4. CASE TxOn
      BY <1>4, TxOnOutcome
  <1>5. CASE Adjust
    <2>1. PICK reading \in Readings :
             \/ reading = "in" /\ Store
             \/ reading # "in" /\ Alter(reading)
        BY <1>5, AdjustReading
    <2>2. pc' \in {"address", "setup"} \/ UNCHANGED <<pc, step>>
        BY <2>1 DEF Store, Alter, Result, Proceed
    <2>3. /\ pc = "adjust" /\ UNCHANGED tx /\ (Intact' => Intact)
          /\ \A r \in Registers \ {Register[step]} : reg'[r] = reg[r] /\ eeprom'[r] = eeprom[r]
        BY <1>5, AdjustOutcome, AdjustLoses
    <2> QED
        BY <2>2, <2>3
  <1>6. CASE NoRegister
    <2>1. pc' \in {"idle", "address", "setup"}
        BY <1>6, NoRegisterOutcome DEF Result, Proceed
    <2> QED
        BY <2>1
  <1>7. CASE Address
      BY <1>7, AddressOutcome
  <1>8. CASE Off
      BY <1>8, OffOutcome
  <1>9. CASE Judge
      BY <1>9, JudgeOutcome
  <1> QED
      BY <1>1, <1>2, <1>3, <1>4, <1>5, <1>6, <1>7, <1>8, <1>9 DEF Next, Host

-----------------------------------------------------------------------------
(* What the adjustments have found.                                        *)

\* The frequency is that of two registers, the power that of one.
LEMMA JudgedFrequency ==
    ASSUME UNCHANGED board, NEW e, eeprom'.osc2 = e.osc2, eeprom'.osc = e.osc
    PROVE  Judged(eeprom, 2)' = Judged(e, 2)
  BY DEF Judged, Frequency

LEMMA JudgedPower ==
    ASSUME UNCHANGED board, NEW e, eeprom'.pa3 = e.pa3
    PROVE  Judged(eeprom, 3)' = Judged(e, 3)
  BY DEF Judged, Power

\* What an adjustment that has stored its register leaves in the EEPROM.
LEMMA StoredRegister ==
    ASSUME NEW r \in Stored, NEW e \in Stored, NEW f, step \in Steps,
           f = [e EXCEPT ![Register[step]] = r[Register[step]]]
    PROVE  /\ step = 1 => f = [e EXCEPT !.osc2 = r.osc2]
           /\ step = 2 => f = [e EXCEPT !.osc = r.osc]
           /\ step = 3 => f = [e EXCEPT !.pa3 = r.pa3]
           /\ step = 4 => f = [e EXCEPT !.pa1 = r.pa1]
  BY RegisterOf

\* A successful adjustment's result is that of the parameters stored.
LEMMA AdjustFinds ==
    ASSUME CalTypes, ProtectInv, LoadedInv, FoundInv, Adjust, Intact', NEW ok \in BOOLEAN, Result(ok),
           \/ UNCHANGED eeprom /\ ~ok
           \/ Judged(reg, step) = "in" /\ eeprom' = [eeprom EXCEPT ![Register[step]] = reg[Register[step]]]
    PROVE  /\ step' > 2 /\ summary'.frq => Judged(eeprom, 2)' = "in"
           /\ step' = 4 /\ summary'.lv20 => Judged(eeprom, 3)' = "in"
  <1>1. /\ step = 4 => pc' = "address" /\ step' = 4
        /\ step # 4 => pc' = "setup" /\ step' = step + 1
        /\ (summary'.frq <=> IF step < 3 THEN ok ELSE summary.frq)
        /\ (summary'.lv20 <=> IF step = 3 THEN ok ELSE summary.lv20)
      BY ResultOutcome
  <1>2. /\ reg \in Stored /\ eeprom \in Stored /\ step \in {1, 2, 3, 4} /\ UNCHANGED board
        /\ pc = "adjust" /\ Intact /\ step \in Steps
      BY AdjustLoses DEF CalTypes, Steps, Adjust
  <1>3. \A r \in Registers \ {Register[step]} : reg[r] = eeprom[r]
      BY <1>2 DEF LoadedInv
  <1>4. /\ step > 2 /\ summary.frq => Judged(eeprom, 2) = "in"
        /\ step = 4 /\ summary.lv20 => Judged(eeprom, 3) = "in"
      BY <1>2 DEF FoundInv
  <1> DEFINE f == [eeprom EXCEPT ![Register[step]] = reg[Register[step]]]
  <1>5. /\ step = 1 => f = [eeprom EXCEPT !.osc2 = reg.osc2]
        /\ step = 2 => f = [eeprom EXCEPT !.osc = reg.osc]
        /\ step = 3 => f = [eeprom EXCEPT !.pa3 = reg.pa3]
        /\ step = 4 => f = [eeprom EXCEPT !.pa1 = reg.pa1]
      BY <1>2, StoredRegister
  <1>6. eeprom' = eeprom \/ eeprom' = f
      OBVIOUS
  <1> HIDE DEF f
  <1>7. CASE step = 1
      BY <1>1, <1>7
  <1>8. CASE step = 2
    <2>1. step' = 3 /\ (summary'.frq <=> ok)
        BY <1>1, <1>8
    <2>2. ASSUME ok PROVE Judged(eeprom, 2)' = "in"
      <3>1. Judged(reg, 2) = "in" /\ eeprom' = f
          BY <1>8, <2>2 DEF f
      <3>2. reg.osc2 = eeprom.osc2
          BY <1>3, <1>8, RegisterOf
      <3>3. eeprom'.osc2 = reg.osc2 /\ eeprom'.osc = reg.osc
          BY <1>2, <1>5, <1>8, <3>1, <3>2 DEF Stored
      <3> QED
          BY <1>2, <3>1, <3>3, JudgedFrequency
    <2> QED
        BY <2>1, <2>2
  <1>9. CASE step = 3
    <2>1. step' = 4 /\ (summary'.frq <=> summary.frq) /\ (summary'.lv20 <=> ok)
        BY <1>1, <1>9
    <2>2. eeprom'.osc2 = eeprom.osc2 /\ eeprom'.osc = eeprom.osc
        BY <1>2, <1>5, <1>6, <1>9 DEF Stored
    <2>3. Judged(eeprom, 2)' = Judged(eeprom, 2)
        BY <1>2, <2>2, JudgedFrequency
    <2>4. ASSUME ok PROVE Judged(eeprom, 3)' = "in"
      <3>1. Judged(reg, 3) = "in" /\ eeprom' = f
          BY <1>9, <2>4 DEF f
      <3>2. eeprom'.pa3 = reg.pa3
          BY <1>2, <1>5, <1>9, <3>1 DEF Stored
      <3> QED
          BY <1>2, <3>1, <3>2, JudgedPower
    <2> QED
        BY <1>4, <1>9, <2>1, <2>3, <2>4
  <1>10. CASE step = 4
    <2>1. (summary'.frq <=> summary.frq) /\ (summary'.lv20 <=> summary.lv20)
        BY <1>1, <1>10
    <2>2. eeprom'.osc2 = eeprom.osc2 /\ eeprom'.osc = eeprom.osc /\ eeprom'.pa3 = eeprom.pa3
        BY <1>2, <1>5, <1>6, <1>10 DEF Stored
    <2>3. Judged(eeprom, 2)' = Judged(eeprom, 2) /\ Judged(eeprom, 3)' = Judged(eeprom, 3)
        BY <1>2, <2>2, JudgedFrequency, JudgedPower
    <2> QED
        BY <1>4, <1>10, <2>1, <2>3
  <1> QED
      BY <1>2, <1>7, <1>8, <1>9, <1>10

LEMMA Found ==
    ASSUME CalTypes, ProtectInv, LoadedInv, FoundInv, Next PROVE FoundInv'
  <1>1. CASE E2pBase
      BY <1>1 DEF E2pBase, CanCall, FoundInv, Closing
  <1>2. CASE Calibrate
      BY <1>2, CalibrateOutcome DEF FoundInv, Closing
  <1>0. ASSUME UNCHANGED <<board, eeprom, step, summary>>, Intact' => Intact, pc # "idle",
               Closing' => Closing
        PROVE  FoundInv'
    <2>1. Judged(eeprom, 2)' = Judged(eeprom, 2) /\ Judged(eeprom, 3)' = Judged(eeprom, 3)
        BY <1>0, JudgedFrequency, JudgedPower
    <2> QED
        BY <1>0, <2>1 DEF FoundInv
  <1>3. CASE Setup
      BY <1>0, <1>3, SetupOutcome DEF Closing
  <1>4. CASE TxOn
      BY <1>0, <1>4, TxOnOutcome DEF Closing
  <1>5. CASE Adjust
    <2>1. Closing' => step' = 4
      <3>1. PICK reading \in Readings :
               \/ reading = "in" /\ Store
               \/ reading # "in" /\ Alter(reading)
          BY <1>5, AdjustReading
      <3>2. Result(FALSE) \/ Result(TRUE) \/ UNCHANGED pc
          BY <3>1 DEF Store, Alter
      <3> QED
          BY <1>5, <3>2 DEF Result, Proceed, Closing, Adjust
    <2>2. ASSUME Intact' PROVE /\ step' > 2 /\ summary'.frq => Judged(eeprom, 2)' = "in"
                               /\ step' = 4 /\ summary'.lv20 => Judged(eeprom, 3)' = "in"
      <3>1. CASE /\ Judged(reg, step) = "in" /\ Result(TRUE) /\ reg' = reg
                 /\ eeprom' = [eeprom EXCEPT ![Register[step]] = reg[Register[step]]]
          BY <1>5, <2>2, <3>1, AdjustFinds
      <3>2. CASE eeprom' = eeprom /\ Result(FALSE)
          BY <1>5, <2>2, <3>2, AdjustFinds
      <3>3. CASE eeprom' = eeprom /\ UNCHANGED <<pc, step, summary>>
        <4>1. FoundInv'
            BY <1>0, <1>5, <3>3, AdjustLoses DEF Adjust, Closing
        <4>2. pc' = "adjust"
            BY <1>5, <3>3 DEF Adjust
        <4> QED
            BY <2>2, <4>1, <4>2 DEF FoundInv
      <3> QED
          BY <1>5, <2>2, <3>1, <3>2, <3>3, AdjustEnds
    <2> QED
        BY <2>1, <2>2 DEF FoundInv
  <1>6. CASE NoRegister
    <2>1. CASE pc' = "idle"
        BY <2>1 DEF FoundInv, Closing
    <2>2. CASE step > 2 /\ Result(FALSE) /\ UNCHANGED verdict
      <3>0. step \in {3, 4}
          BY <2>2 DEF CalTypes, Steps
      <3>1. UNCHANGED <<board, eeprom>> /\ (Intact' => Intact) /\ pc = "adjust"
          BY <1>6, NoRegisterOutcome DEF boardVars
      <3>2. /\ step = 4 => pc' = "address" /\ step' = 4
            /\ step # 4 => pc' = "setup" /\ step' = step + 1
            /\ (summary'.frq <=> summary.frq)
            /\ (summary'.lv20 <=> step # 3 /\ summary.lv20)
        <4>1. /\ step = 4 => pc' = "address" /\ step' = 4
              /\ step # 4 => pc' = "setup" /\ step' = step + 1
              /\ (summary'.frq <=> IF step < 3 THEN FALSE ELSE summary.frq)
              /\ (summary'.lv20 <=> IF step = 3 THEN FALSE ELSE summary.lv20)
            BY <2>2, ResultOutcome
        <4> QED
            BY <3>0, <4>1
      <3>3. Judged(eeprom, 2)' = Judged(eeprom, 2) /\ Judged(eeprom, 3)' = Judged(eeprom, 3)
          BY <3>1, JudgedFrequency, JudgedPower
      <3> QED
          BY <3>0, <3>1, <3>2, <3>3 DEF FoundInv, Closing
    <2> QED
        BY <1>6, <2>1, <2>2, NoRegisterOutcome
  <1>7. CASE Address
    <2>1. CASE pc' = "idle"
        BY <2>1 DEF FoundInv, Closing
    <2>2. CASE pc' = "off"
        BY <1>0, <1>7, <2>2, AddressOutcome DEF Closing, boardVars
    <2> QED
        BY <1>7, <2>1, <2>2, AddressOutcome
  <1>8. CASE Off
      BY <1>0, <1>8, OffOutcome DEF Closing
  <1>9. CASE Judge
      BY <1>9, JudgeOutcome DEF FoundInv, Closing
  <1> QED
      BY <1>1, <1>2, <1>3, <1>4, <1>5, <1>6, <1>7, <1>8, <1>9 DEF Next, Host

\* The judgement passes a board only with a frequency and a 20 mW result.
LEMMA Calibrated ==
    ASSUME CalTypes, FoundInv, PassMeansCalibrated, Next PROVE PassMeansCalibrated'
  <1> USE DEF PassMeansCalibrated, Returned
  <1>1. CASE E2pBase
      BY <1>1 DEF E2pBase
  <1>2. CASE Calibrate
      BY <1>2, CalibrateOutcome
  <1>3. CASE Setup
      BY <1>3, SetupOutcome
  <1>4. CASE TxOn
      BY <1>4, TxOnOutcome
  <1>5. CASE Adjust
    <2>1. pc' # "idle"
      <3>1. PICK reading \in Readings :
               \/ reading = "in" /\ Store
               \/ reading # "in" /\ Alter(reading)
          BY <1>5, AdjustReading
      <3>2. Result(FALSE) \/ Result(TRUE) \/ UNCHANGED pc
          BY <3>1 DEF Store, Alter
      <3> QED
          BY <1>5, <3>2 DEF Result, Proceed, Adjust
    <2> QED
        BY <2>1
  <1>6. CASE NoRegister
    <2>1. pc' \in {"address", "setup"} \/ verdict' = "Error"
        BY <1>6, NoRegisterOutcome DEF Result, Proceed
    <2> QED
        BY <2>1
  <1>7. CASE Address
      BY <1>7, AddressOutcome
  <1>8. CASE Off
      BY <1>8, OffOutcome
  <1>9. CASE Judge
    <2> SUFFICES ASSUME verdict' = "nil", Intact'
                 PROVE  Judged(eeprom, 2)' = "in" /\ Judged(eeprom, 3)' = "in"
        BY DEF Intact
    <2>1. /\ pc = "log" /\ UNCHANGED <<board, eeprom>> /\ Intact /\ Judgement = "nil"
        BY <1>9, JudgeOutcome DEF boardVars
    <2>2. summary.frq /\ summary.lv20
        BY <2>1 DEF Judgement, CalTypes
    <2>3. Judged(eeprom, 2) = "in" /\ Judged(eeprom, 3) = "in"
        BY <2>1, <2>2 DEF FoundInv, Closing
    <2> QED
        BY <2>1, <2>3, JudgedFrequency, JudgedPower
  <1> QED
      BY <1>1, <1>2, <1>3, <1>4, <1>5, <1>6, <1>7, <1>8, <1>9 DEF Next, Host

-----------------------------------------------------------------------------
(* The fourth adjustment.                                                  *)

\* The register goes down from 0 to nowhere and up from 14 to nowhere; from 15
\* it goes up to 0.
LEMMA AlterPower ==
    ASSUME CalTypes, step = 4, NEW reading \in {"low", "high"}, Alter(reading), lost' = {}
    PROVE  /\ reading = "high" =>
                /\ reg.pa1 # 0 => reg'.pa1 = reg.pa1 - 1
                /\ \/ (reg.pa1 = 0 \/ num = 10) /\ Result(FALSE)
                   \/ reg.pa1 # 0 /\ num =< 9 /\ num' = num + 1 /\ UNCHANGED <<pc, step, summary>>
           /\ reading = "low" =>
                /\ reg'.pa1 = IF reg.pa1 = 15 THEN 0 ELSE reg.pa1 + 1
                /\ \/ (reg.pa1 = 14 \/ num = 10) /\ Result(FALSE)
                   \/ reg.pa1 # 14 /\ num =< 9 /\ num' = num + 1 /\ UNCHANGED <<pc, step, summary>>
  <1> DEFINE i == reg.pa1 + Change(reading)
  <1>1. /\ reg \in Stored /\ num \in 1..10 /\ Register[step] = "pa1"
        /\ LoopEnd[step] = 12
      BY RegisterOf DEF CalTypes, LoopEnd
  <1>2. reg.pa1 \in 0..15
      BY <1>1 DEF Stored
  <1>3. i = IF reading = "high" THEN reg.pa1 - 1 ELSE reg.pa1 + 1
      BY <1>2 DEF Change
  <1>4. ~Lose("rw")
      BY DEF Lose
  <1>5. reg' = [reg EXCEPT !.pa1 = Written(i) % 256]
      BY <1>1, <1>4 DEF Alter, Rfw
  <1>6. IF AtEnd(i) \/ num > MaxNum THEN Result(FALSE)
        ELSE IF num = LoopEnd[step] THEN Result(TRUE)
        ELSE num' = num + 1 /\ UNCHANGED <<pc, step, summary>>
      BY <1>1 DEF Alter
  <1> HIDE DEF i
  <1>7. i \in (-1)..16
      BY <1>2, <1>3
  <1>8. Written(i) = i % 16
      BY DEF Written
  <1>9. AtEnd(i) <=> i = 15 \/ i = -1
      BY <1>7 DEF AtEnd
  <1>10. i \in 0..16 => (Written(i) % 256) = IF i = 16 THEN 0 ELSE i
      BY <1>8
  <1>11. reg'.pa1 = Written(i) % 256
      BY <1>1, <1>5 DEF Stored
  <1>12. num # LoopEnd[step] /\ (num > MaxNum <=> num = 10) /\ (num = 10 \/ num =< 9)
      BY <1>1 DEF MaxNum
  <1>13. \/ (i = 15 \/ i = -1 \/ num = 10) /\ Result(FALSE)
         \/ i # 15 /\ i # -1 /\ num =< 9 /\ num' = num + 1 /\ UNCHANGED <<pc, step, summary>>
      BY <1>6, <1>9, <1>12, Zenon
  <1>14. CASE reading = "high"
    <2>1. i = reg.pa1 - 1
        BY <1>3, <1>14
    <2>2. (i = 15 \/ i = -1) <=> reg.pa1 = 0
        BY <1>2, <2>1
    <2>3. reg.pa1 # 0 => reg'.pa1 = reg.pa1 - 1
        BY <1>2, <1>10, <1>11, <2>1
    <2> QED
        BY <1>13, <1>14, <2>2, <2>3
  <1>15. CASE reading = "low"
    <2>1. i = reg.pa1 + 1
        BY <1>3, <1>15
    <2>2. (i = 15 \/ i = -1) <=> reg.pa1 = 14
        BY <1>2, <2>1
    <2>3. reg'.pa1 = IF reg.pa1 = 15 THEN 0 ELSE reg.pa1 + 1
        BY <1>2, <1>10, <1>11, <2>1
    <2> QED
        BY <1>13, <1>15, <2>2, <2>3
  <1> QED
      BY <1>14, <1>15

\* Nothing but the board and the stored value decides about a round.
LEMMA RoundKept ==
    ASSUME UNCHANGED board, NEW e, eeprom'.pa1 = e, NEW k, num' - 1 = k
    PROVE  /\ Round(eeprom.pa1, num - 1)' = Round(e, k)
           /\ Comes(eeprom.pa1, num - 1)' <=> Comes(e, k)
  BY DEF Round, Comes, P1

LEMMA EndKept ==
    ASSUME UNCHANGED board, NEW e, eeprom'.pa1 = e
    PROVE  P1(eeprom.pa1)' = P1(e) /\ (Hopeless(eeprom.pa1)' <=> Hopeless(e))
  <1>1. P1(eeprom.pa1)' = P1(e)
      BY DEF P1
  <1> QED
      BY <1>1 DEF Hopeless

LEMMA AdjustRound ==
    ASSUME CalTypes, ProtectInv, LoadedInv, RoundInv, Adjust, step = 4, lost' = {}
    PROVE  /\ UNCHANGED <<pc, step>> =>
                reg'.pa1 = Round(eeprom.pa1, num - 1)' /\ Comes(eeprom.pa1, num - 1)'
           /\ ~UNCHANGED pc =>
                IF summary'.lv1 THEN P1(eeprom.pa1)' = -1
                ELSE P1(eeprom.pa1)' \in (-4)..(-2) \/ Hopeless(eeprom.pa1)'
           /\ Hopeless(eeprom.pa1) \/ P1(eeprom.pa1) \in (-4)..(-1) => eeprom' = eeprom
  <1> DEFINE e == eeprom.pa1
             k == num - 1
             r == reg.pa1
  <1>1. /\ lost = {} /\ Intact' /\ pc = "adjust" /\ UNCHANGED board
      BY AdjustLoses DEF Adjust, Intact
  <1>2. /\ board.p1 \in Int /\ e \in 0..15 /\ r \in 0..15 /\ num \in 1..10 /\ k \in 0..9
        /\ reg \in Stored /\ eeprom \in Stored
      BY CalibrationAssumption DEF CalTypes, Stored
  <1>3. r = Round(e, k) /\ Comes(e, k)
      BY <1>1 DEF RoundInv
  <1>4. Judged(reg, step) = Band(P1(r), -4, -1) /\ Power(reg, 4) = P1(r)
      BY DEF Judged, Power, P1
  <1>5. P1(r) \in Int
      BY <1>2, RegisterOf DEF P1
  <1>6. CASE /\ Judged(reg, step) = "in" /\ Result(TRUE)
             /\ eeprom' = [eeprom EXCEPT ![Register[step]] = reg[Register[step]]]
    <2>1. P1(r) \in (-4)..(-1)
        BY <1>4, <1>5, <1>6 DEF Band
    <2>2. eeprom' = [eeprom EXCEPT !.pa1 = r]
        BY <1>6, RegisterOf
    <2>3. eeprom'.pa1 = r
        BY <1>2, <2>2 DEF Stored
    <2>4. P1(eeprom.pa1)' = P1(r)
        BY <1>1, <2>3, EndKept
    <2>5. pc' = "address" /\ (summary'.lv1 <=> P1(r) = -1)
        BY <1>1, <1>4, <1>6, ResultOutcome, AdjustEnds
    <2>6. ~Hopeless(e) /\ (P1(e) \in (-4)..(-1) => r = e)
        BY <1>2, <1>3, <2>1, RoundIn
    <2>7. r = e => eeprom' = eeprom
        BY <1>2, <2>2 DEF Stored
    <2>8. ~summary'.lv1 => P1(eeprom.pa1)' \in (-4)..(-2)
        BY <2>1, <2>4, <2>5
    <2> QED
        BY <1>1, <2>4, <2>5, <2>6, <2>7, <2>8
  <1>7. CASE Judged(reg, step) # "in" /\ Alter(Judged(reg, step)) /\ eeprom' = eeprom
    <2>1. eeprom'.pa1 = e
        BY <1>7
    <2>2. CASE P1(r) > -1
      <3>1. Judged(reg, step) = "high"
          BY <1>4, <1>5, <2>2 DEF Band
      <3>2. /\ r # 0 => reg'.pa1 = r - 1
            /\ \/ (r = 0 \/ num = 10) /\ Result(FALSE)
               \/ r # 0 /\ num =< 9 /\ num' = num + 1 /\ UNCHANGED <<pc, step, summary>>
          BY <1>7, <3>1, AlterPower
      <3>3. /\ r = 0 \/ k = 9 => Hopeless(e)
            /\ r # 0 => r - 1 = Round(e, k + 1) /\ Comes(e, k + 1)
          BY <1>2, <1>3, <2>2, RoundHigh
      <3>4. CASE (r = 0 \/ num = 10) /\ Result(FALSE)
        <4>1. Hopeless(eeprom.pa1)'
            BY <1>1, <1>2, <2>1, <3>3, <3>4, EndKept
        <4>2. pc' = "address" /\ ~summary'.lv1
            BY <3>4, ResultOutcome
        <4> QED
            BY <1>1, <1>7, <4>1, <4>2
      <3>5. CASE r # 0 /\ num =< 9 /\ num' = num + 1 /\ UNCHANGED <<pc, step, summary>>
        <4>1. num' - 1 = k + 1
            BY <1>2, <3>5
        <4> QED
            BY <1>1, <1>7, <2>1, <3>2, <3>3, <3>5, <4>1, RoundKept
      <3> QED
          BY <3>2, <3>4, <3>5
    <2>3. CASE P1(r) < -4
      <3>1. Judged(reg, step) = "low"
          BY <1>4, <1>5, <2>3 DEF Band
      <3>2. /\ reg'.pa1 = IF r = 15 THEN 0 ELSE r + 1
            /\ \/ (r = 14 \/ num = 10) /\ Result(FALSE)
               \/ r # 14 /\ num =< 9 /\ num' = num + 1 /\ UNCHANGED <<pc, step, summary>>
          BY <1>7, <3>1, AlterPower
      <3>3. /\ r = 14 \/ k = 9 => Hopeless(e)
            /\ r # 14 => (IF r = 15 THEN 0 ELSE r + 1) = Round(e, k + 1) /\ Comes(e, k + 1)
          BY <1>2, <1>3, <2>3, RoundLow
      <3>4. CASE (r = 14 \/ num = 10) /\ Result(FALSE)
        <4>1. Hopeless(eeprom.pa1)'
            BY <1>1, <1>2, <2>1, <3>3, <3>4, EndKept
        <4>2. pc' = "address" /\ ~summary'.lv1
            BY <3>4, ResultOutcome
        <4> QED
            BY <1>1, <1>7, <4>1, <4>2
      <3>5. CASE r # 14 /\ num =< 9 /\ num' = num + 1 /\ UNCHANGED <<pc, step, summary>>
        <4>1. num' - 1 = k + 1
            BY <1>2, <3>5
        <4> QED
            BY <1>1, <1>7, <2>1, <3>2, <3>3, <3>5, <4>1, RoundKept
      <3> QED
          BY <3>2, <3>4, <3>5
    <2>4. P1(r) > -1 \/ P1(r) < -4
        BY <1>4, <1>5, <1>7 DEF Band
    <2> QED
        BY <2>2, <2>3, <2>4
  <1> QED
      BY <1>1, <1>6, <1>7, AdjustEnds

\* Where an adjustment's step may lead.
LEMMA AdjustLeads ==
    ASSUME CalTypes, Adjust
    PROVE  /\ pc = "adjust"
           /\ \/ UNCHANGED <<pc, step>>
              \/ step = 4 /\ pc' = "address" /\ step' = 4
              \/ step # 4 /\ pc' = "setup"
  <1>1. PICK reading \in Readings :
           \/ reading = "in" /\ Store
           \/ reading # "in" /\ Alter(reading)
      BY AdjustReading
  <1>2. Result(FALSE) \/ Result(TRUE) \/ UNCHANGED <<pc, step>>
      BY <1>1 DEF Store, Alter
  <1>3. pc = "adjust"
      BY DEF Adjust
  <1> QED
      BY <1>2, <1>3 DEF Result, Proceed

LEMMA Rounds ==
    ASSUME CalTypes, ProtectInv, LoadedInv, FoundInv, RoundInv, Next PROVE RoundInv'
  <1>1. CASE E2pBase
      BY <1>1 DEF E2pBase, CanCall, RoundInv, Closing
  <1>2. CASE Calibrate
      BY <1>2, CalibrateOutcome DEF RoundInv, Closing
  <1>3. CASE Setup
      BY <1>3, SetupOutcome DEF RoundInv, Closing
  <1>4. CASE TxOn
    <2> SUFFICES ASSUME step = 4, lost' = {}
                 PROVE  reg'.pa1 = Round(eeprom.pa1, num - 1)' /\ Comes(eeprom.pa1, num - 1)'
        BY <1>4, TxOnOutcome DEF RoundInv, Closing
    <2>1. /\ lost = {} /\ UNCHANGED <<board, reg, eeprom, num>> /\ pc = "txon"
        BY <1>4, TxOnOutcome
    <2>2. reg = eeprom /\ num = 1
        BY <2>1 DEF LoadedInv, Intact
    <2>3. num' - 1 = 0 /\ eeprom'.pa1 = eeprom.pa1 /\ reg'.pa1 = eeprom.pa1
        BY <2>1, <2>2
    <2>4. Round(eeprom.pa1, 0) = eeprom.pa1 /\ Comes(eeprom.pa1, 0)
        BY DEF Round, Comes
    <2> QED
        BY <2>1, <2>3, <2>4, RoundKept
  <1>5. CASE Adjust
    <2>1. CASE step = 4 /\ lost' = {}
        BY <1>5, <2>1, AdjustRound, AdjustLeads DEF RoundInv, Closing
    <2>2. CASE ~(step = 4 /\ lost' = {})
        BY <1>5, <2>2, AdjustLeads DEF RoundInv, Closing
    <2> QED
        BY <2>1, <2>2
  <1>6. CASE NoRegister
      BY <1>6, NoRegisterOutcome DEF RoundInv
  <1>0. ASSUME UNCHANGED <<board, eeprom, summary>>, lost' = {} => lost = {}, Closing' => Closing, pc' # "adjust"
        PROVE  RoundInv'
      BY <1>0, EndKept DEF RoundInv
  <1>7. CASE Address
    <2>1. UNCHANGED <<board, eeprom, summary>> /\ (lost' = {} => lost = {}) /\ (Closing' => Closing) /\ pc' # "adjust"
        BY <1>7, AddressOutcome DEF Closing, boardVars
    <2> QED
        BY <1>0, <2>1
  <1>8. CASE Off
    <2>1. UNCHANGED <<board, eeprom, summary>> /\ (lost' = {} => lost = {}) /\ (Closing' => Closing) /\ pc' # "adjust"
        BY <1>8, OffOutcome DEF Closing
    <2> QED
        BY <1>0, <2>1
  <1>9. CASE Judge
      BY <1>9, JudgeOutcome DEF RoundInv, Closing
  <1> QED
      BY <1>1, <1>2, <1>3, <1>4, <1>5, <1>6, <1>7, <1>8, <1>9 DEF Next, Host

-----------------------------------------------------------------------------
(* A board that has passed.                                                *)

LEMMA SettledKept ==
    ASSUME UNCHANGED <<board, eeprom>> PROVE Settled(eeprom)' <=> Settled(eeprom)
  <1>1. P1(eeprom.pa1)' = P1(eeprom.pa1) /\ (Hopeless(eeprom.pa1)' <=> Hopeless(eeprom.pa1))
      BY EndKept
  <1>2. Judged(eeprom, 2)' = Judged(eeprom, 2) /\ Judged(eeprom, 3)' = Judged(eeprom, 3)
      BY JudgedFrequency, JudgedPower
  <1> QED
      BY <1>1, <1>2 DEF Settled

\* With what the judgement passes, a board is settled.
LEMMA JudgedSettled ==
    ASSUME CalTypes, FoundInv, RoundInv, pc = "log", lost = {}, Judgement = "nil"
    PROVE  Settled(eeprom)
  <1>1. summary.frq /\ summary.lv20 /\ (summary.lv1 => board.addr)
      BY DEF Judgement, CalTypes
  <1>2. Judged(eeprom, 2) = "in" /\ Judged(eeprom, 3) = "in"
      BY <1>1 DEF FoundInv, Closing, Intact
  <1>3. IF summary.lv1 THEN P1(eeprom.pa1) = -1
        ELSE P1(eeprom.pa1) \in (-4)..(-2) \/ Hopeless(eeprom.pa1)
      BY DEF RoundInv, Closing
  <1> QED
      BY <1>1, <1>2, <1>3 DEF Settled

\* A settled board is passed.
LEMMA SettledPasses ==
    ASSUME CalTypes, RoundInv, pc = "log", lost = {}, summary.frq, summary.lv20, Settled(eeprom)
    PROVE  Judgement = "nil"
  <1>1. CASE summary.lv1
    <2>1. P1(eeprom.pa1) = -1
        BY <1>1 DEF RoundInv, Closing
    <2>2. ~Hopeless(eeprom.pa1)
        BY <2>1 DEF Hopeless
    <2>3. board.addr
        BY <2>1, <2>2 DEF Settled
    <2> QED
        BY <1>1, <2>3 DEF Judgement
  <1>2. CASE ~summary.lv1
      BY <1>2 DEF Judgement
  <1> QED
      BY <1>1, <1>2

\* A settled board's adjustment stores what is stored already.
LEMMA AdjustAgain ==
    ASSUME CalTypes, ProtectInv, LoadedInv, RoundInv, AgainInv, Adjust, before.passed, lost' = {}
    PROVE  /\ UNCHANGED <<board, eeprom>>
           /\ summary'.frq /\ summary'.lv20
           /\ pc' = "adjust" => step' = 4
  <1>1. /\ lost = {} /\ Intact' /\ pc = "adjust" /\ UNCHANGED board
        /\ reg \in Stored /\ eeprom \in Stored /\ step \in {1, 2, 3, 4}
      BY AdjustLoses DEF Adjust, Intact, CalTypes, Steps
  <1>2. Settled(eeprom) /\ summary.frq /\ summary.lv20 /\ (step < 4 => reg = eeprom)
      BY <1>1 DEF AgainInv
  <1>3. CASE step = 4
    <2>1. eeprom' = eeprom
        BY <1>1, <1>2, <1>3, AdjustRound DEF Settled
    <2>2. Result(FALSE) \/ Result(TRUE) \/ UNCHANGED <<pc, step, summary>>
        BY <1>1, AdjustEnds
    <2>3. summary'.frq /\ summary'.lv20
      <3>1. ASSUME NEW ok \in BOOLEAN, Result(ok) PROVE summary'.frq /\ summary'.lv20
        <4>1. /\ (summary'.frq <=> IF step < 3 THEN ok ELSE summary.frq)
              /\ (summary'.lv20 <=> IF step = 3 THEN ok ELSE summary.lv20)
            BY <3>1, ResultOutcome
        <4> QED
            BY <1>2, <1>3, <4>1
      <3> QED
          BY <1>2, <2>2, <3>1
    <2>4. pc' = "adjust" => step' = 4
        BY <1>3, AdjustLeads
    <2> QED
        BY <1>1, <2>1, <2>3, <2>4
  <1>4. CASE step # 4
    <2>1. reg = eeprom
        BY <1>1, <1>2, <1>4
    <2>2. Judged(reg, step) = "in"
      <3>1. Judged(eeprom, 2) = "in" /\ Judged(eeprom, 3) = "in"
          BY <1>2 DEF Settled
      <3>2. Judged(eeprom, 2) = "in" => Judged(eeprom, 1) = "in"
        <4> DEFINE x == Frequency(eeprom)
        <4>1. Judged(eeprom, 1) = Band(x, -4, 4) /\ Judged(eeprom, 2) = Band(x, -2, 2)
            BY DEF Judged
        <4>2. x \in Int
          <5>1. board.freq \in Int /\ Coarse \in Int /\ Fine \in Int
              BY CalibrationAssumption DEF CalTypes
          <5>2. eeprom.osc2 - Base.osc2 \in Int /\ eeprom.osc - Base.osc \in Int
              BY <1>1, RegisterOf DEF Stored
          <5>3. \A a, b \in Int : a * b \in Int
              OBVIOUS
          <5>4. Coarse * (eeprom.osc2 - Base.osc2) \in Int /\ Fine * (eeprom.osc - Base.osc) \in Int
              BY <5>1, <5>2, <5>3
          <5> QED
              BY <5>1, <5>4 DEF Frequency
        <4> HIDE DEF x
        <4> QED
            BY <4>1, <4>2 DEF Band
      <3> QED
          BY <1>1, <1>4, <2>1, <3>1, <3>2
    <2>3. Result(TRUE) /\ eeprom' = [eeprom EXCEPT ![Register[step]] = reg[Register[step]]]
        BY <1>1, <2>2, AdjustEnds
    <2>4. eeprom' = eeprom
        BY <1>1, <2>1, <2>3 DEF Stored
    <2>5. summary'.frq /\ summary'.lv20 /\ pc' = "setup"
        BY <1>1, <1>2, <1>4, <2>3, ResultOutcome
    <2> QED
        BY <1>1, <2>4, <2>5
  <1> QED
      BY <1>3, <1>4

LEMMA Again ==
    ASSUME CalTypes, ProtectInv, LoadedInv, FoundInv, RoundInv, AgainInv, Next PROVE AgainInv'
  <1>1. CASE E2pBase
      BY <1>1 DEF E2pBase, CanCall, AgainInv
  <1>2. CASE Calibrate
    <2>1. /\ pc = "idle" /\ pc' = "setup" /\ summary' = NoResult /\ UNCHANGED <<board, eeprom>>
          /\ before' = [eeprom |-> eeprom, passed |-> verdict = "nil" /\ lost = {}]
        BY <1>2, CalibrateOutcome
    <2>2. before'.eeprom = eeprom /\ (before'.passed => verdict = "nil" /\ lost = {})
        BY <2>1
    <2>3. summary'.frq /\ summary'.lv20
        BY <2>1 DEF NoResult
    <2> QED
        BY <2>1, <2>2, <2>3, SettledKept DEF AgainInv
  <1>0. ASSUME UNCHANGED <<board, eeprom, summary, before>>, lost' = {} => lost = {}, pc # "idle", pc' # "idle",
               lost' = {} /\ pc' = "adjust" /\ step' < 4 => reg' = eeprom'
        PROVE  AgainInv'
      BY <1>0, SettledKept DEF AgainInv
  <1>3. CASE Setup
      BY <1>0, <1>3, SetupOutcome
  <1>4. CASE TxOn
    <2>1. lost' = {} => reg = eeprom
        BY <1>4, TxOnOutcome DEF LoadedInv, Intact
    <2> QED
        BY <1>0, <1>4, <2>1, TxOnOutcome
  <1>5. CASE Adjust
    <2>1. pc = "adjust" /\ pc' # "idle" /\ UNCHANGED before /\ (lost' = {} => lost = {})
        BY <1>5, AdjustLeads, AdjustLoses DEF Adjust
    <2>2. before'.passed = before.passed
        BY <2>1
    <2>3. ASSUME before.passed, lost' = {}
          PROVE  /\ UNCHANGED <<board, eeprom>> /\ summary'.frq /\ summary'.lv20
                 /\ pc' = "adjust" => step' = 4
        BY <1>5, <2>3, AdjustAgain
    <2> QED
        BY <2>1, <2>2, <2>3, SettledKept DEF AgainInv
  <1>6. CASE NoRegister
      BY <1>6, NoRegisterOutcome DEF AgainInv
  <1>7. CASE Address
    <2>1. CASE pc' = "off"
        BY <1>0, <1>7, <2>1, AddressOutcome DEF boardVars
    <2>2. CASE lost' # {}
        BY <2>2 DEF AgainInv
    <2> QED
        BY <1>7, <2>1, <2>2, AddressOutcome
  <1>8. CASE Off
      BY <1>0, <1>8, OffOutcome
  <1>9. CASE Judge
    <2>1. /\ pc = "log" /\ pc' = "idle" /\ UNCHANGED <<board, eeprom>>
          /\ lost' = {} => lost = {} /\ verdict' = Judgement
        BY <1>9, JudgeOutcome DEF boardVars
    <2> QED
        BY <2>1, JudgedSettled, SettledKept DEF AgainInv
  <1> QED
      BY <1>1, <1>2, <1>3, <1>4, <1>5, <1>6, <1>7, <1>8, <1>9 DEF Next, Host

LEMMA PassAgain ==
    ASSUME CalTypes, FoundInv, RoundInv, AgainInv, PassesAgain, Next PROVE PassesAgain'
  <1> USE DEF PassesAgain, Returned
  <1>1. CASE E2pBase
      BY <1>1 DEF E2pBase
  <1>2. CASE Calibrate
      BY <1>2, CalibrateOutcome
  <1>3. CASE Setup
      BY <1>3, SetupOutcome
  <1>4. CASE TxOn
      BY <1>4, TxOnOutcome
  <1>5. CASE Adjust
      BY <1>5, AdjustLeads
  <1>6. CASE NoRegister
      BY <1>6, NoRegisterOutcome
  <1>7. CASE Address
      BY <1>7, AddressOutcome
  <1>8. CASE Off
      BY <1>8, OffOutcome
  <1>9. CASE Judge
    <2> SUFFICES ASSUME before'.passed, lost' = {}
                 PROVE  verdict' = "nil" /\ eeprom' = before'.eeprom
        OBVIOUS
    <2>1. /\ pc = "log" /\ UNCHANGED <<board, eeprom, before>> /\ lost = {} /\ verdict' = Judgement
        BY <1>9, JudgeOutcome DEF boardVars
    <2>2. Settled(eeprom) /\ eeprom = before.eeprom /\ summary.frq /\ summary.lv20
        BY <2>1 DEF AgainInv
    <2> QED
        BY <2>1, <2>2, SettledPasses
  <1> QED
      BY <1>1, <1>2, <1>3, <1>4, <1>5, <1>6, <1>7, <1>8, <1>9 DEF Next, Host

-----------------------------------------------------------------------------
(* The theorems.                                                           *)

LEMMA InitSafe == ASSUME Init PROVE CalInv
  <1>1. CalTypes
    <2>1. eeprom \in Stored /\ reg \in Stored /\ step \in Steps /\ lost \subseteq Kinds
        BY RegisterOf DEF Init, Steps
    <2>2. summary \in [frq : BOOLEAN, lv20 : BOOLEAN, lv1 : BOOLEAN]
        BY DEF Init, NoResult
    <2>3. losses \in 0..MaxLost /\ calls \in 0..MaxCalls
        BY CalibrationAssumption DEF Init
    <2>4. before \in [eeprom : Stored, passed : BOOLEAN]
        BY <2>1 DEF Init
    <2>5. protect \in BOOLEAN /\ tx \in BOOLEAN
        BY Zenon DEF Init
    <2>6. board \in Boards /\ pc = "idle" /\ num = 1 /\ verdict = "none"
        BY DEF Init
    <2> QED
        BY <2>1, <2>2, <2>3, <2>4, <2>5, <2>6 DEF CalTypes
  <1> QED
      BY <1>1 DEF Init, CalInv, ProtectInv, LoadedInv, FoundInv, RoundInv, AgainInv, Closing,
                  LeftProtected, PassMeansCalibrated, PassesAgain, Returned

LEMMA NextTypes == ASSUME CalTypes, Next PROVE CalTypes'
  BY CallTypes, HostTypes DEF Next

\* The inductive invariant: what is protected, loaded, found and stored at
\* each point of a calibration, and what a board that has passed is like.
THEOREM CalibrationInductive == Spec => []CalInv
  <1>1. Init => CalInv
      BY InitSafe
  <1>2. CalInv /\ [Next]_vars => CalInv'
    <2> SUFFICES ASSUME CalInv, [Next]_vars PROVE CalInv'
        OBVIOUS
    <2>0. /\ CalTypes /\ ProtectInv /\ LoadedInv /\ FoundInv /\ RoundInv /\ AgainInv
          /\ PassMeansCalibrated /\ PassesAgain
        BY DEF CalInv
    <2>1. CASE Next
      <3>1. CalTypes' /\ ProtectInv' /\ LoadedInv'
          BY <2>0, <2>1, NextTypes, Protected, Loaded
      <3>2. FoundInv' /\ RoundInv' /\ AgainInv'
          BY <2>0, <2>1, Found, Rounds, Again
      <3>3. PassMeansCalibrated' /\ PassesAgain'
          BY <2>0, <2>1, Calibrated, PassAgain
      <3> QED
          BY <3>1, <3>2, <3>3 DEF CalInv
    <2>2. CASE UNCHANGED vars
      <3>1. UNCHANGED <<board, reg, eeprom, protect, tx, pc, step, num, summary, verdict, lost, losses, calls, before>>
          BY <2>2 DEF vars, boardVars
      <3>2. CalTypes' /\ ProtectInv' /\ LoadedInv'
          BY <2>0, <3>1 DEF CalTypes, ProtectInv, LoadedInv, LeftProtected, Returned, Intact
      <3>3. (Settled(eeprom)' <=> Settled(eeprom)) /\ Judged(eeprom, 2)' = Judged(eeprom, 2)
            /\ Judged(eeprom, 3)' = Judged(eeprom, 3)
          BY <3>1, SettledKept, JudgedFrequency, JudgedPower
      <3>4. FoundInv' /\ AgainInv' /\ PassMeansCalibrated' /\ PassesAgain'
          BY <2>0, <3>1, <3>3 DEF FoundInv, AgainInv, PassMeansCalibrated, PassesAgain, Returned, Intact, Closing
      <3>5. RoundInv'
          BY <2>0, <3>1, RoundKept, EndKept DEF RoundInv, Closing
      <3> QED
          BY <3>2, <3>4, <3>5 DEF CalInv
    <2> QED
        BY <2>1, <2>2
  <1> QED
      BY <1>1, <1>2, PTL DEF Spec

\* The type invariant.
THEOREM CalibrationTypes == Spec => []TypeOK
  <1>1. CalInv => TypeOK
    <2> SUFFICES ASSUME CalInv PROVE TypeOK
        OBVIOUS
    <2>1. CalTypes
        BY DEF CalInv
    <2>2. num \in 1..LoopEnd[step]
      <3>1. step \in {1, 2, 3, 4} /\ num \in 1..10
          BY <2>1 DEF CalTypes, Steps
      <3> QED
          BY <3>1 DEF LoopEnd
    <2> QED
        BY <2>1, <2>2 DEF CalTypes, TypeOK, Stored, Kinds
  <1> QED
      BY <1>1, CalibrationInductive, PTL

\* However an adjustment ends, calibration() leaves the EEPROM protected unless
\* a command was lost: none of its ways to the end goes past "ewp 1".
THEOREM ProtectionRestored == Spec => []LeftProtected
  <1>1. CalInv => LeftProtected
      BY DEF CalInv, ProtectInv
  <1> QED
      BY <1>1, CalibrationInductive, PTL

\* A board that passes has in its EEPROM what brings it within the fine
\* frequency band and the 20 mW power band, if the commands that decide what
\* is measured and stored have come through.
THEOREM PassesAreCalibrated == Spec => []PassMeansCalibrated
  <1>1. CalInv => PassMeansCalibrated
      BY DEF CalInv
  <1> QED
      BY <1>1, CalibrationInductive, PTL

\* calibration() is idempotent: a board that has passed passes again and
\* keeps its parameters.
THEOREM PassesRepeat == Spec => []PassesAgain
  <1>1. CalInv => PassesAgain
      BY DEF CalInv
  <1> QED
      BY <1>1, CalibrationInductive, PTL
=============================================================================
