---------------------------- MODULE Session_proofs ----------------------------
(***************************************************************************)
(* The production session, for every number of boards, codes, choices and  *)
(* faults and for every set of defects: the address a board has been       *)
(* labelled with, the log, the verdicts, and the state a board is left in. *)
(*                                                                         *)
(* Addresses stand by themselves: the one operation that writes a part of  *)
(* an address without a label, e2p_base(), writes what every label has     *)
(* there. The rest rests on the order of the operations: each has a stage, *)
(* a choice goes through the stages in their order, and what is left to do *)
(* therefore tells what has been done.                                     *)
(***************************************************************************)
EXTENDS Session, TLAPS

Addresses == [prefix : {"blank", "vendor", "wrong"}, short : Codes \cup {"blank", "wrong"}]

LabelTypes ==
    /\ board \in Boards
    /\ addr \in [Boards -> Addresses]
    /\ coded \in [Boards -> Codes \cup {"none"}]

LabelInv == LabelTypes /\ AddressKept

-----------------------------------------------------------------------------
(* What the operations do to addresses.                                    *)

\* Neither the addresses nor the labels are touched.
LEMMA UntouchedKept ==
    ASSUME LabelInv, board' \in Boards, addr' = addr, coded' = coded
    PROVE  LabelInv'
  BY DEF LabelInv, LabelTypes, AddressKept, Address

\* The vendor's part is written by e2p_base().
LEMMA BaseKept ==
    ASSUME LabelInv, BaseParameters, board' = board, coded' = coded
    PROVE  LabelInv'
  <1> USE DEF LabelInv, LabelTypes
  <1>1. addr' \in [Boards -> Addresses]
      BY DEF BaseParameters, Addresses
  <1>2. ASSUME NEW b \in Boards, coded[b] # "none" PROVE addr'[b] = addr[b]
    <2>1. addr[b] = Address(coded[b])
        BY <1>2 DEF AddressKept
    <2>2. CASE b = board
        BY <2>1, <2>2 DEF BaseParameters, Address, Addresses
    <2>3. CASE b # board
        BY <2>3 DEF BaseParameters
    <2> QED
        BY <2>2, <2>3
  <1> QED
      BY <1>1, <1>2 DEF AddressKept, Address

\* An address is written with the label that goes with it, if any does.
LEMMA WrittenKept ==
    ASSUME LabelInv, board' = board,
           NEW a \in Addresses, NEW c \in Codes \cup {"none"},
           c # "none" => a = Address(c),
           Write(a), Label(c)
    PROVE  LabelInv'
  <1> USE DEF LabelInv, LabelTypes
  <1>1. addr' \in [Boards -> Addresses] /\ coded' \in [Boards -> Codes \cup {"none"}]
      BY DEF Write, Label
  <1>2. ASSUME NEW b \in Boards, coded'[b] # "none" PROVE addr'[b] = Address(coded'[b])
    <2>1. CASE b = board
        BY <1>2, <2>1 DEF Write, Label
    <2>2. CASE b # board
      <3>1. coded'[b] = coded[b] /\ addr'[b] = addr[b]
          BY <2>2 DEF Write, Label
      <3> QED
          BY <1>2, <3>1 DEF AddressKept
    <2> QED
        BY <2>1, <2>2
  <1> QED
      BY <1>1, <1>2 DEF AddressKept, Address

\* What an interrupted set_addr() leaves is an address, the label of no code.
LEMMA PartlyKept ==
    ASSUME LabelInv, board' = board, \E a \in Partly : Write(a), Label("none")
    PROVE  LabelInv'
  <1>1. PICK a \in Partly : Write(a)
      OBVIOUS
  <1>2. addr[board] \in Addresses
      BY DEF LabelInv, LabelTypes
  <1>3. a \in Addresses
      BY <1>1, <1>2 DEF Partly, Addresses
  <1> QED
      BY <1>1, <1>3, WrittenKept

\* An address made from a code, a whole one or not.
LEMMA CodeIsAddress ==
    ASSUME NEW code \in Codes \cup {"wrong"}
    PROVE  Address(code) \in Addresses
  BY DEF Address, Addresses

-----------------------------------------------------------------------------

LEMMA SetAddrKept == ASSUME LabelInv, SetAddr PROVE LabelInv'
  <1>0. board' = board /\ addr[board] \in Addresses
      BY DEF SetAddr, LabelInv, LabelTypes
  <1>1. CASE \E code \in Codes : Write(Address(code)) /\ Label(code)
      BY <1>0, <1>1, WrittenKept, CodeIsAddress
  <1>2. CASE Label("none") /\ \E code \in Codes :
               \/ Write(Address("wrong")) \/ Write(Address(code)) \/ Write(addr[board])
    <2>1. \E a \in Addresses : Write(a)
        BY <1>0, <1>2, CodeIsAddress
    <2> QED
        BY <1>0, <1>2, <2>1, WrittenKept
  <1>3. CASE Label("none") /\ \E a \in Partly : Write(a)
      BY <1>0, <1>3, PartlyKept
  <1> QED
      BY <1>1, <1>2, <1>3, Zenon DEF SetAddr

LEMMA CalibKept == ASSUME LabelInv, Calib PROVE LabelInv'
  <1>1. board' = board /\ coded' = coded /\ (BaseParameters \/ addr' = addr)
      BY DEF Calib
  <1> QED
      BY <1>1, BaseKept, UntouchedKept DEF LabelInv, LabelTypes

LEMMA E2pBaseKept == ASSUME LabelInv, E2pBase PROVE LabelInv'
  <1>1. board' = board /\ coded' = coded /\ (BaseParameters \/ addr' = addr)
      BY DEF E2pBase
  <1> QED
      BY <1>1, BaseKept, UntouchedKept DEF LabelInv, LabelTypes

LEMMA KillKept == ASSUME LabelInv, Kill PROVE LabelInv'
  <1>1. board' = board
      BY DEF Kill
  <1>2. \/ Label("none") /\ \E a \in Partly : Write(a)
        \/ addr' = addr /\ coded' = coded
      BY DEF Kill
  <1> QED
      BY <1>1, <1>2, PartlyKept, UntouchedKept DEF LabelInv, LabelTypes

\* The other steps touch neither the addresses nor the labels.
LEMMA OthersKept ==
    ASSUME LabelInv,
           \/ WriteProg \/ AllTest \/ SetLog \/ RadioTest \/ CarrierSense \/ ShortAddr
           \/ Done \/ Start \/ Choose \/ Again \/ Pick \/ LeaveMenu \/ Swap \/ Shutdown
           \/ UNCHANGED vars
    PROVE  LabelInv'
  <1>1. addr' = addr /\ coded' = coded /\ board' \in Boards
      BY DEF LabelInv, LabelTypes, WriteProg, AllTest, SetLog, RadioTest, CarrierSense,
             ShortAddr, Done, Start, Choose, Again, Begin, Pick, LeaveMenu, Swap, Shutdown,
             Fine, Fault, boardVars, logVars, programVars, history, vars
  <1> QED
      BY <1>1, UntouchedKept

\* Every board keeps the address of its last label, for every number of boards,
\* codes, choices, lost commands and kills.
THEOREM LabelsHold == Spec => []AddressKept
  <1>1. Init => LabelInv
      BY DEF Init, LabelInv, LabelTypes, AddressKept, Addresses, Blank
  <1>2. LabelInv /\ [Next]_vars => LabelInv'
      BY SetAddrKept, CalibKept, E2pBaseKept, KillKept, OthersKept
         DEF Next, Operation, Operator
  <1>3. LabelInv => AddressKept
      BY DEF LabelInv
  <1> QED
      BY <1>1, <1>2, <1>3, PTL DEF Spec

-----------------------------------------------------------------------------
(* The order of the operations.                                            *)

Plain == {Do(op) : op \in {"write", "io", "setlog", "calib", "barcode", "address",
                           "base", "calibration", "setaddr"}}
Senses == [do : {"sense"}, test : {"09"}, at : Channels]
Measures ==
    {m \in [do : {"measure"}, test : Tests \ {"io", "calib", "09"}, at : Channels,
            on : {"off", "tx", "rx"}, mod : BOOLEAN, silence : {"pass", "fail", "either"},
            other : {"pass", "fail", "either", "own"}] :
       m.test \in {"01", "03", "04"} => /\ m.silence = "fail" /\ m.other \in {"fail", "own"}}
Ops == Plain \cup Senses \cup Measures

Stage(o) ==
    CASE o.do = "write"  -> 1
      [] o.do = "io"     -> 2
      [] o.do = "setlog" -> 3
      [] o.do = "calib"  -> 4
      [] o.do \in {"measure", "sense"} -> 5
      [] o.do \in {"barcode", "address"} -> 6
      [] OTHER -> 7

Follows(p, o) == Stage(o) < Stage(p) \/ (Stage(o) = 5 /\ Stage(p) = 5)

\* A sequence of operations of the stages lowest to highest, in their order.
Staged(s, lowest, highest) ==
    /\ s \in Seq(Ops)
    /\ \A i \in 1..Len(s) : Stage(s[i]) \in lowest..highest
    /\ \A i, j \in 1..Len(s) : i < j => Follows(s[j], s[i])

LEMMA RadioStaged ==
    ASSUME NEW s \in Seq(Senses \cup Measures)
    PROVE  Staged(s, 5, 5)
  <1>1. s \in Seq(Ops)
      BY DEF Ops
  <1>2. \A i \in 1..Len(s) : Stage(s[i]) = 5
      BY DEF Stage, Senses, Measures
  <1> QED
      BY <1>1, <1>2 DEF Staged, Follows

LEMMA TestsAreRadio ==
    /\ {Test01, Test02, Test03, Test04, Test05} \subseteq Seq(Senses \cup Measures)
    /\ {Test06, Test07, Test08, Test09, Test10} \subseteq Seq(Senses \cup Measures)
  <1>1. \A at \in Channels : Sense(at) \in Senses
      BY DEF Sense, Senses
  <1>2. ASSUME NEW t \in Tests \ {"io", "calib", "09"}, NEW at \in Channels,
        NEW on \in {"off", "tx", "rx"}, NEW mod \in BOOLEAN,
        NEW silence \in {"pass", "fail", "either"}, NEW other \in {"pass", "fail", "either", "own"},
        t \in {"01", "03", "04"} => silence = "fail" /\ other \in {"fail", "own"}
        PROVE Measure(t, at, on, mod, silence, other) \in Measures
      BY <1>2 DEF Measure, Measures
  <1>3. {<<50, 24>>, <<50, 61>>, <<100, 24>>, <<100, 42>>, <<100, 60>>} \subseteq Channels
      BY DEF Channels
  <1>4. \A x : x \in Measures \/ x \in Senses => <<x>> \in Seq(Senses \cup Measures)
      OBVIOUS
  <1>5. \A x, y \in Senses \cup Measures : <<x, y>> \in Seq(Senses \cup Measures)
      OBVIOUS
  <1>6. \A x, y, z \in Senses \cup Measures : <<x, y, z>> \in Seq(Senses \cup Measures)
      OBVIOUS
  <1>7. /\ "01" \in Tests /\ "02" \in Tests /\ "03" \in Tests /\ "04" \in Tests
        /\ "05" \in Tests /\ "06" \in Tests /\ "07" \in Tests /\ "08" \in Tests /\ "10" \in Tests
      BY DEF Tests
  <1>11. Test01 \in Seq(Senses \cup Measures)
      BY <1>2, <1>3, <1>4, <1>7 DEF Test01
  <1>12. Test02 \in Seq(Senses \cup Measures)
      BY <1>2, <1>3, <1>4, <1>7 DEF Test02
  <1>13. Test03 \in Seq(Senses \cup Measures)
      BY <1>2, <1>3, <1>4, <1>7 DEF Test03
  <1>14. Test04 \in Seq(Senses \cup Measures)
      BY <1>2, <1>3, <1>6, <1>7 DEF Test04
  <1>15. Test05 \in Seq(Senses \cup Measures)
      BY <1>2, <1>3, <1>4, <1>7 DEF Test05
  <1>16. Test06 \in Seq(Senses \cup Measures)
      BY <1>2, <1>3, <1>4, <1>7 DEF Test06
  <1>17. Test07 \in Seq(Senses \cup Measures)
      BY <1>2, <1>3, <1>4, <1>7 DEF Test07
  <1>18. Test08 \in Seq(Senses \cup Measures)
      BY <1>2, <1>3, <1>4, <1>7 DEF Test08
  <1>19. Test09 \in Seq(Senses \cup Measures)
      BY <1>1, <1>3, <1>5, <1>7 DEF Test09
  <1>20. Test10 \in Seq(Senses \cup Measures)
      BY <1>2, <1>3, <1>4, <1>7 DEF Test10
  <1> QED
      BY <1>11, <1>12, <1>13, <1>14, <1>15, <1>16, <1>17, <1>18, <1>19, <1>20

\* A stage after the other.
LEMMA StagedConcat ==
    ASSUME NEW s, NEW t, NEW a \in Nat, NEW b \in Nat, NEW c \in Nat, NEW d \in Nat,
           Staged(s, a, b), Staged(t, c, d), a <= b, c <= d, b <= c, b = c => b = 5
    PROVE  Staged(s \o t, a, d)
  <1> DEFINE u == s \o t
  <1>1. /\ s \in Seq(Ops) /\ t \in Seq(Ops) /\ u \in Seq(Ops) /\ Len(u) = Len(s) + Len(t)
        /\ \A i \in 1..Len(s) : u[i] = s[i]
        /\ \A i \in (Len(s) + 1)..Len(u) : u[i] = t[i - Len(s)]
      BY DEF Staged
  <1>2. /\ \A i \in 1..Len(s) : Stage(s[i]) \in a..b
        /\ \A i \in 1..Len(t) : Stage(t[i]) \in c..d
        /\ \A i, j \in 1..Len(s) : i < j => Follows(s[j], s[i])
        /\ \A i, j \in 1..Len(t) : i < j => Follows(t[j], t[i])
      BY DEF Staged
  <1> HIDE DEF u
  <1>3. \A i \in 1..Len(u) : Stage(u[i]) \in a..d
    <2> SUFFICES ASSUME NEW i \in 1..Len(u) PROVE Stage(u[i]) \in a..d
        OBVIOUS
    <2>1. CASE i \in 1..Len(s)
        BY <1>1, <1>2, <2>1
    <2>2. CASE i \in (Len(s) + 1)..Len(u)
      <3>1. i - Len(s) \in 1..Len(t) /\ u[i] = t[i - Len(s)]
          BY <1>1, <2>2
      <3> QED
          BY <1>2, <3>1
    <2> QED
        BY <1>1, <2>1, <2>2
  <1>4. ASSUME NEW i \in 1..Len(u), NEW j \in 1..Len(u), i < j PROVE Follows(u[j], u[i])
    <2>1. CASE j \in 1..Len(s)
        BY <1>1, <1>2, <1>4, <2>1
    <2>2. CASE i \in (Len(s) + 1)..Len(u)
      <3>1. /\ i - Len(s) \in 1..Len(t) /\ u[i] = t[i - Len(s)]
            /\ j - Len(s) \in 1..Len(t) /\ u[j] = t[j - Len(s)]
            /\ i - Len(s) < j - Len(s)
          BY <1>1, <1>4, <2>2
      <3> QED
          BY <1>2, <3>1
    <2>3. CASE i \in 1..Len(s) /\ j \in (Len(s) + 1)..Len(u)
      <3>1. j - Len(s) \in 1..Len(t) /\ u[j] = t[j - Len(s)] /\ u[i] = s[i]
          BY <1>1, <2>3
      <3>2. Stage(u[i]) \in a..b /\ Stage(u[j]) \in c..d
          BY <1>2, <2>3, <3>1
      <3> QED
          BY <3>2 DEF Follows
    <2> QED
        BY <1>1, <2>1, <2>2, <2>3
  <1> QED
      BY <1>1, <1>3, <1>4 DEF Staged, u

\* The parts of the choices.
LEMMA PartsStaged ==
    /\ Staged(Prepare, 1, 2) /\ Staged(Adjust, 3, 4)
    /\ Staged(Pretest, 5, 5) /\ Staged(Postest, 5, 5) /\ Staged(Trialtest, 5, 5)
    /\ Staged(<<Do("write")>>, 1, 1) /\ Staged(<<Do("io")>>, 2, 2) /\ Staged(<<Do("setlog")>>, 3, 3)
    /\ Staged(<<Do("barcode")>>, 6, 6) /\ Staged(<<Do("address")>>, 6, 6)
  <1> DEFINE R == Senses \cup Measures
  <1>1. Pretest \in Seq(R) /\ Postest \in Seq(R) /\ Trialtest \in Seq(R)
    <2>1. \A s, t \in Seq(R) : s \o t \in Seq(R)
        OBVIOUS
    <2> HIDE DEF R
    <2>2. /\ {Test01, Test02, Test03, Test04, Test05} \subseteq Seq(R)
          /\ {Test06, Test07, Test08, Test09, Test10} \subseteq Seq(R)
        BY TestsAreRadio DEF R
    <2> QED
        BY <2>1, <2>2, Zenon DEF Pretest, Postest, Trialtest
  <1>2. ASSUME NEW op \in {"write", "io", "setlog", "calib", "barcode", "address"}
        PROVE  /\ Do(op) \in Ops
               /\ Stage(Do(op)) = IF op = "write" THEN 1 ELSE IF op = "io" THEN 2
                                  ELSE IF op = "setlog" THEN 3 ELSE IF op = "calib" THEN 4 ELSE 6
    <2>1. Do(op).do = op /\ Do(op) \in Ops
        BY DEF Do, Ops, Plain
    <2> QED
        BY <2>1 DEF Stage
  <1>3. ASSUME NEW o \in Ops PROVE Staged(<<o>>, Stage(o), Stage(o))
    <2>1. Stage(o) \in Nat
        BY DEF Stage
    <2> QED
        BY <2>1 DEF Staged
  <1>4. ASSUME NEW o \in Ops, NEW p \in Ops, Stage(o) < Stage(p)
        PROVE Staged(<<o, p>>, Stage(o), Stage(p))
    <2>1. Stage(o) \in Nat /\ Stage(p) \in Nat
        BY DEF Stage
    <2>2. <<o, p>> \in Seq(Ops) /\ Len(<<o, p>>) = 2 /\ <<o, p>>[1] = o /\ <<o, p>>[2] = p
        OBVIOUS
    <2> QED
        BY <1>4, <2>1, <2>2 DEF Staged, Follows
  <1>5. Staged(Pretest, 5, 5) /\ Staged(Postest, 5, 5) /\ Staged(Trialtest, 5, 5)
      BY <1>1, RadioStaged
  <1>6. Staged(Prepare, 1, 2) /\ Staged(Adjust, 3, 4)
      BY <1>2, <1>4 DEF Prepare, Adjust
  <1> QED
      BY <1>2, <1>3, <1>5, <1>6

\* A sequence holds an operation of a stage.
Has(s, stage) == \E i \in 1..Len(s) : Stage(s[i]) = stage

LEMMA HasConcat ==
    ASSUME NEW s \in Seq(Ops), NEW t \in Seq(Ops), NEW stage, Has(s, stage) \/ Has(t, stage)
    PROVE  Has(s \o t, stage)
  <1>1. /\ Len(s \o t) = Len(s) + Len(t)
        /\ \A i \in 1..Len(s) : (s \o t)[i] = s[i]
        /\ \A i \in 1..Len(t) : (s \o t)[Len(s) + i] = t[i]
        /\ Len(s) \in Nat /\ Len(t) \in Nat
      OBVIOUS
  <1>2. CASE Has(s, stage)
    <2>1. PICK i \in 1..Len(s) : Stage(s[i]) = stage
        BY <1>2 DEF Has
    <2>2. i \in 1..Len(s \o t) /\ (s \o t)[i] = s[i]
        BY <1>1
    <2> QED
        BY <2>1, <2>2 DEF Has
  <1>3. CASE Has(t, stage)
    <2>1. PICK i \in 1..Len(t) : Stage(t[i]) = stage
        BY <1>3 DEF Has
    <2>2. Len(s) + i \in 1..Len(s \o t) /\ (s \o t)[Len(s) + i] = t[i]
        BY <1>1
    <2> QED
        BY <2>1, <2>2 DEF Has
  <1> QED
      BY <1>2, <1>3

LEMMA PartsHave ==
    /\ Has(<<Do("write")>>, 1) /\ Has(<<Do("io")>>, 2) /\ Has(<<Do("setlog")>>, 3)
    /\ Has(Prepare, 1) /\ Has(Adjust, 3) /\ Has(Adjust, 4)
    /\ Has(Postest, 5) /\ Has(Trialtest, 5)
  <1>1. ASSUME NEW op \in {"write", "io", "setlog", "calib"}
        PROVE  /\ Stage(Do(op)) = IF op = "write" THEN 1 ELSE IF op = "io" THEN 2
                                  ELSE IF op = "setlog" THEN 3 ELSE 4
    <2>1. Do(op).do = op
        BY DEF Do
    <2> QED
        BY <2>1 DEF Stage
  <1>2. \A o : Has(<<o>>, Stage(o))
      BY DEF Has
  <1>3. \A o, p : Has(<<o, p>>, Stage(o)) /\ Has(<<o, p>>, Stage(p))
    <2> SUFFICES ASSUME NEW o, NEW p PROVE Has(<<o, p>>, Stage(o)) /\ Has(<<o, p>>, Stage(p))
        OBVIOUS
    <2>1. Len(<<o, p>>) = 2 /\ <<o, p>>[1] = o /\ <<o, p>>[2] = p
        OBVIOUS
    <2> QED
        BY <2>1 DEF Has
  <1>4. Has(Postest, 5) /\ Has(Trialtest, 5)
    <2> DEFINE R == Senses \cup Measures
    <2>1. Staged(Postest, 5, 5) /\ Staged(Trialtest, 5, 5)
        BY PartsStaged
    <2>2. Len(Postest) > 0 /\ Len(Trialtest) > 0
      <3>1. \A s, t \in Seq(R) : s \o t \in Seq(R) /\ Len(s \o t) >= Len(t)
          OBVIOUS
      <3>2. Len(Test10) = 1 /\ Len(Test09) = 2
          BY DEF Test10, Test09
      <3> HIDE DEF R
      <3>3. /\ {Test01, Test02, Test03, Test04, Test05} \subseteq Seq(R)
            /\ {Test06, Test07, Test08, Test09, Test10} \subseteq Seq(R)
          BY TestsAreRadio DEF R
      <3>4. Len(Postest) >= Len(Test10) /\ Len(Trialtest) >= Len(Test09)
          BY <3>1, <3>3, Zenon DEF Postest, Trialtest
      <3>5. Len(Postest) \in Nat /\ Len(Trialtest) \in Nat
          BY <2>1 DEF Staged
      <3> QED
          BY <3>2, <3>4, <3>5
    <2>3. \A s : Staged(s, 5, 5) /\ Len(s) > 0 => Has(s, 5)
      <3> SUFFICES ASSUME NEW s, Staged(s, 5, 5), Len(s) > 0 PROVE Has(s, 5)
          OBVIOUS
      <3>1. 1 \in 1..Len(s) /\ Stage(s[1]) \in 5..5
          BY DEF Staged
      <3> QED
          BY <3>1 DEF Has
    <2> QED
        BY <2>1, <2>2, <2>3
  <1> QED
      BY <1>1, <1>2, <1>3, <1>4 DEF Prepare, Adjust

\* The choices grow by parts of later stages.
LEMMA StagesGrow ==
    ASSUME NEW s, NEW t
    PROVE  /\ Staged(s, 1, 2) /\ Staged(t, 3, 4) => Staged(s \o t, 1, 4)
           /\ Staged(s, 1, 4) /\ Staged(t, 5, 5) => Staged(s \o t, 1, 5)
           /\ Staged(s, 1, 5) /\ Staged(t, 6, 6) => Staged(s \o t, 1, 6)
           /\ Staged(s, 1, 1) \/ Staged(s, 2, 2) => Staged(s, 1, 2)
           /\ Staged(s, 3, 3) => Staged(s, 1, 4)
           /\ Staged(s, 1, 2) \/ Staged(s, 1, 4) \/ Staged(s, 1, 5) => Staged(s, 1, 6)
  <1>1. Staged(s, 1, 2) /\ Staged(t, 3, 4) => Staged(s \o t, 1, 4)
      BY StagedConcat
  <1>2. Staged(s, 1, 4) /\ Staged(t, 5, 5) => Staged(s \o t, 1, 5)
      BY StagedConcat
  <1>3. Staged(s, 1, 5) /\ Staged(t, 6, 6) => Staged(s \o t, 1, 6)
      BY StagedConcat
  <1>4. /\ Staged(s, 1, 1) \/ Staged(s, 2, 2) => Staged(s, 1, 2)
        /\ Staged(s, 3, 3) => Staged(s, 1, 4)
        /\ Staged(s, 1, 2) \/ Staged(s, 1, 4) \/ Staged(s, 1, 5) => Staged(s, 1, 6)
      BY DEF Staged
  <1> QED
      BY <1>1, <1>2, <1>3, <1>4

\* Two parts of a choice: their stages, and what the whole has.
LEMMA Appended ==
    ASSUME NEW s, NEW t,
           \/ Staged(s, 1, 2) /\ Staged(t, 3, 4)
           \/ Staged(s, 1, 4) /\ Staged(t, 5, 5)
           \/ Staged(s, 1, 5) /\ Staged(t, 6, 6)
    PROVE  /\ Staged(s, 1, 2) /\ Staged(t, 3, 4) => Staged(s \o t, 1, 4)
           /\ Staged(s, 1, 4) /\ Staged(t, 5, 5) => Staged(s \o t, 1, 5)
           /\ Staged(s, 1, 5) /\ Staged(t, 6, 6) => Staged(s \o t, 1, 6)
           /\ \A n : Has(s, n) \/ Has(t, n) => Has(s \o t, n)
  <1>1. \A q, a, b : Staged(q, a, b) => q \in Seq(Ops)
      BY DEF Staged
  <1>2. s \in Seq(Ops) /\ t \in Seq(Ops) => \A n : Has(s, n) \/ Has(t, n) => Has(s \o t, n)
      BY HasConcat
  <1> QED
      BY <1>1, <1>2, StagesGrow, Zenon

\* Every choice is in the order of the stages; it sets up a log before what writes
\* to it, and adjusts a board after programming it.
LEMMA ChoicesStaged ==
    ASSUME NEW c \in Choices
    PROVE  /\ Staged(Choice[c], 1, 6)
           /\ Has(Choice[c], 3) \/ \A i \in 1..Len(Choice[c]) : Stage(Choice[c][i]) < 3
           /\ c \in {"1", "2", "4", "20"} => Has(Choice[c], 4)
           /\ c \notin {"12", "13"} =>
                Has(Choice[c], 1) \/ Has(Choice[c], 2) \/ Has(Choice[c], 5)
           /\ c \in DOMAIN Submenu => Staged(Choice[c], 3, 3)
  <1>0. /\ DOMAIN Submenu = {"12", "13"}
        /\ Staged(<<Do("io")>>, 1, 2) /\ Staged(<<Do("write")>>, 1, 2) /\ Staged(<<Do("setlog")>>, 1, 4)
      BY PartsStaged, StagesGrow DEF Submenu
  <1>1. CASE c \in {"1", "4"}
    <2>1. /\ c = "1" => Choice[c] = Prepare \o Adjust \o Pretest
          /\ c = "4" => Choice[c] = Prepare \o Adjust \o Trialtest \o <<Do("barcode")>>
        BY <1>1 DEF Choice, Choices
    <2>2. Staged(Prepare \o Adjust, 1, 4) /\ \A n \in {1, 3, 4} : Has(Prepare \o Adjust, n)
        BY PartsStaged, PartsHave, Appended
    <2>3. \A t : Staged(t, 5, 5) =>
             Staged(Prepare \o Adjust \o t, 1, 5) /\ \A n \in {1, 3, 4} : Has(Prepare \o Adjust \o t, n)
        BY <2>2, Appended
    <2>4. Staged(Choice[c], 1, 6) /\ \A n \in {1, 3, 4} : Has(Choice[c], n)
        BY <1>1, <2>1, <2>3, PartsStaged, Appended, StagesGrow
    <2> QED
        BY <1>0, <1>1, <2>4
  <1>2. CASE c \in {"2", "20"}
    <2> DEFINE first == IF c = "2" THEN <<Do("io")>> ELSE <<Do("write")>>
    <2>1. Choice[c] = first \o Adjust \o Postest \o <<Do("barcode")>>
        BY <1>2 DEF Choice, Choices
    <2>2. Staged(first, 1, 2) /\ (Has(first, 1) \/ Has(first, 2))
        BY <1>0, PartsHave
    <2> HIDE DEF first
    <2>3. /\ Staged(first \o Adjust, 1, 4) /\ \A n \in {3, 4} : Has(first \o Adjust, n)
          /\ Has(first \o Adjust, 1) \/ Has(first \o Adjust, 2)
        BY <2>2, PartsStaged, PartsHave, Appended
    <2>4. /\ Staged(first \o Adjust \o Postest, 1, 5)
          /\ \A n \in {3, 4} : Has(first \o Adjust \o Postest, n)
          /\ Has(first \o Adjust \o Postest, 1) \/ Has(first \o Adjust \o Postest, 2)
        BY <2>3, PartsStaged, Appended
    <2>5. /\ Staged(Choice[c], 1, 6) /\ Has(Choice[c], 3) /\ Has(Choice[c], 4)
          /\ Has(Choice[c], 1) \/ Has(Choice[c], 2)
        BY <2>1, <2>4, PartsStaged, Appended
    <2> QED
        BY <1>0, <1>2, <2>5
  <1>3. CASE c \in {"3", "5"}
    <2>1. /\ c = "3" => Choice[c] = <<Do("setlog")>> \o Postest
          /\ c = "5" => Choice[c] = <<Do("setlog")>> \o Trialtest \o <<Do("address")>>
        BY <1>3 DEF Choice, Choices
    <2>2. \A t : Staged(t, 5, 5) /\ Has(t, 5) =>
             Staged(<<Do("setlog")>> \o t, 1, 5) /\ \A n \in {3, 5} : Has(<<Do("setlog")>> \o t, n)
        BY <1>0, PartsHave, Appended
    <2>3. Staged(Choice[c], 1, 6) /\ Has(Choice[c], 3) /\ Has(Choice[c], 5)
        BY <1>3, <2>1, <2>2, PartsStaged, PartsHave, Appended, StagesGrow
    <2> QED
        BY <1>0, <1>3, <2>3
  <1>4. CASE c \in {"10", "11"}
    <2>1. Choice[c] = IF c = "10" THEN <<Do("write")>> ELSE <<Do("io")>>
        BY <1>4 DEF Choice, Choices
    <2>2. Staged(Choice[c], 1, 2) /\ (Has(Choice[c], 1) \/ Has(Choice[c], 2))
        BY <1>0, <2>1, PartsHave
    <2>3. \A i \in 1..Len(Choice[c]) : Stage(Choice[c][i]) < 3
        BY <2>2 DEF Staged
    <2> QED
        BY <1>0, <1>4, <2>2, <2>3, StagesGrow
  <1>5. CASE c \in {"12", "13"}
    <2>1. Choice[c] = <<Do("setlog")>>
        BY <1>5 DEF Choice, Choices
    <2>2. Staged(Choice[c], 3, 3) /\ Staged(Choice[c], 1, 4) /\ Has(Choice[c], 3)
        BY <1>0, <2>1, PartsStaged, PartsHave
    <2> QED
        BY <1>5, <2>2, StagesGrow
  <1> QED
      BY <1>1, <1>2, <1>3, <1>4, <1>5 DEF Choices

\* The entries of the submenus are sequences of operations, none of which sets a log.
LEMMA SubmenusStaged ==
    ASSUME NEW c \in DOMAIN Submenu
    PROVE  Submenu[c] \subseteq Seq(Ops) /\ \A s \in Submenu[c] : \A i \in 1..Len(s) : Stage(s[i]) \in {5, 7}
  <1>1. CASE c = "12"
    <2>1. ASSUME NEW op \in {"base", "calibration", "setaddr"}
          PROVE  Do(op) \in Ops /\ Stage(Do(op)) = 7
      <3>1. Do(op).do = op /\ Do(op) \in Ops
          BY DEF Do, Ops, Plain
      <3> QED
          BY <3>1 DEF Stage
    <2>2. Submenu[c] = {<<Do("base")>>, <<Do("calibration")>>, <<Do("setaddr")>>}
        BY <1>1 DEF Submenu
    <2>3. \A o \in Ops : <<o>> \in Seq(Ops) /\ Len(<<o>>) = 1 /\ <<o>>[1] = o
        OBVIOUS
    <2> QED
        BY <2>1, <2>2, <2>3
  <1>2. CASE c = "13"
    <2>1. Submenu[c] = {Test01, Test02, Test03, Test04, Test05} \cup {Test06, Test07, Test08, Test09, Test10}
        BY <1>2 DEF Submenu
    <2>2. Submenu[c] \subseteq Seq(Senses \cup Measures)
        BY <2>1, TestsAreRadio
    <2>3. \A s \in Submenu[c] : Staged(s, 5, 5)
        BY <2>2, RadioStaged
    <2> QED
        BY <2>3 DEF Staged
  <1> QED
      BY <1>1, <1>2 DEF Submenu

-----------------------------------------------------------------------------
(* The inductive invariant.                                                *)

Says    == {"PASS", "WARNIG"}
Entries == [op : Ops, board : Boards, says : Says, sure : BOOLEAN]
Logs    == [choice : Choices \cup {"none"}, board : Boards \cup {NoBoard}, passed : SUBSET Entries]

Radios == [at : Channels \cup {NoChannel}, on : {"off", "tx", "rx"}, mod : BOOLEAN]

BenchTypes ==
    /\ bad \in [Boards -> SUBSET Tests]
    /\ programmed \in [Boards -> BOOLEAN]
    /\ protect \in [Boards -> BOOLEAN]
    /\ radio \in Radios
    /\ heard \in BOOLEAN

ProgramTypes ==
    /\ temp \in Logs /\ archive \in Logs
    /\ phase \in {"off", "menu", "prompt", "submenu", "busy"}
    /\ choice \in Choices
    /\ todo \in Seq(Ops)
    /\ clean \in BOOLEAN
    /\ faults \in Nat

\* In a choice that is no submenu, what is left to do is in order; in a submenu the
\* log is set up, then single tests are picked.
InOrder ==
    /\ phase = "submenu" => choice \in DOMAIN Submenu
    /\ phase = "busy" =>
         IF choice \in DOMAIN Submenu THEN \A i \in 1..Len(todo) : Stage(todo[i]) \in {3, 5, 7}
         ELSE Staged(todo, 1, 6)

\* A test of the choice has been passed, as far as a stored log promises.
Passed(o) ==
    IF o.do = "io" THEN "io" \notin bad[board]
    ELSE \E e \in temp.passed :
           /\ e.op = o /\ (e.says = "PASS" \/ o.do = "calib")
           /\ o.test \in bad[board] => ~e.sure /\ o.test \notin Robust

\* Before the log is set up nothing that writes to it has been done; then temp.log
\* is of this choice and this board, and has a line of every test that has been.
LogInv ==
    phase = "busy" /\ choice \notin DOMAIN Submenu /\ todo # <<>> =>
      /\ Has(todo, 3) => \A o \in Judged(choice) : o.do = "io" \/ o \in Range(todo)
      /\ ~Has(todo, 3) /\ (\E i \in 1..Len(todo) : Stage(todo[i]) > 3) =>
           /\ temp.choice = choice /\ sink = "temp"
           /\ \A e \in temp.passed : e.board = board
      /\ \A o \in Judged(choice) : o \in Range(todo) \/ Passed(o)

\* A failed test is shown at the menu only.
FailureInv == (result \in Tests => phase = "menu") /\ FailureIsDefect

\* Without faults, the board is quiet from the first operation on that turns its
\* radio off, and protected from the calibration on.
QuietInv ==
    phase = "busy" /\ clean /\ choice \notin DOMAIN Submenu =>
      /\ \/ radio.on = "off" \/ ~programmed[board]
         \/ Has(todo, 1) \/ Has(todo, 2) \/ Has(todo, 4) \/ Has(todo, 5)
      /\ choice \in {"1", "2", "4", "20"} =>
           \/ Has(todo, 4)
           \/ ~Has(todo, 1) /\ (programmed[board] => protect[board])

SessionInv ==
    /\ LabelInv /\ BenchTypes /\ ProgramTypes /\ InOrder
    /\ LogInv /\ LogMeansGood
    /\ FailureInv
    /\ QuietInv /\ LeftQuiet

-----------------------------------------------------------------------------
(* What is left to do.                                                     *)

\* The stage of an operation, and the test it is.
LEMMA StageOf ==
    ASSUME NEW o \in Ops
    PROVE  /\ Stage(o) \in 1..7
           /\ o.do = "write" <=> Stage(o) = 1
           /\ o.do = "io" <=> Stage(o) = 2
           /\ o.do = "setlog" <=> Stage(o) = 3
           /\ o.do = "calib" <=> Stage(o) = 4
           /\ o.do \in {"measure", "sense"} <=> Stage(o) = 5
           /\ o.do \in {"barcode", "address"} <=> Stage(o) = 6
           /\ o.do \in {"base", "calibration", "setaddr"} <=> Stage(o) = 7
           /\ Stage(o) = 1 => o.test = "write"
           /\ Stage(o) = 2 => o.test = "io"
           /\ Stage(o) = 3 => o.test = "setlog"
           /\ Stage(o) = 4 => o.test = "calib"
           /\ Stage(o) = 5 => o.test \in Tests \ {"io", "calib"}
           /\ Stage(o) \in {6, 7} => o.test \notin Tests
           /\ o.do = "measure" => o \in Measures
           /\ o.do = "sense" => o.test = "09" /\ o.at \in Channels
  <1>1. CASE o \in Plain
    <2>1. o.do \in {"write", "io", "setlog", "calib", "barcode", "address", "base", "calibration", "setaddr"}
          /\ o.test = o.do
        BY <1>1 DEF Plain, Do
    <2> QED
        BY <2>1 DEF Stage, Tests
  <1>2. CASE o \in Senses
    <2>1. o.do = "sense" /\ o.test = "09" /\ o.at \in Channels
        BY <1>2 DEF Senses
    <2> QED
        BY <2>1 DEF Stage, Tests
  <1>3. CASE o \in Measures
    <2>1. o.do = "measure" /\ o.test \in Tests \ {"io", "calib", "09"}
        BY <1>3 DEF Measures
    <2> QED
        BY <1>3, <2>1 DEF Stage
  <1> QED
      BY <1>1, <1>2, <1>3 DEF Ops

\* The first operation and those after it.
LEMMA Sequels ==
    ASSUME NEW s \in Seq(Ops), s # <<>>
    PROVE  /\ Head(s) \in Ops /\ Tail(s) \in Seq(Ops)
           /\ \A n : Has(Tail(s), n) => Has(s, n)
           /\ \A n : Has(s, n) => n = Stage(Head(s)) \/ Has(Tail(s), n)
           /\ Has(s, Stage(Head(s)))
           /\ \A o : o \in Range(s) => o = Head(s) \/ o \in Range(Tail(s))
           /\ \A a, b : (\A i \in 1..Len(s) : Stage(s[i]) \in a..b)
                          => \A i \in 1..Len(Tail(s)) : Stage(Tail(s)[i]) \in a..b
           /\ (\A i \in 1..Len(s) : Stage(s[i]) \in {3, 5, 7})
                => \A i \in 1..Len(Tail(s)) : Stage(Tail(s)[i]) \in {3, 5, 7}
  <1> DEFINE t == Tail(s)
  <1>1. /\ Head(s) \in Ops /\ t \in Seq(Ops) /\ Head(s) = s[1] /\ Len(t) = Len(s) - 1 /\ Len(s) \in Nat \ {0}
        /\ \A i \in 1..Len(t) : t[i] = s[i + 1] /\ i + 1 \in 1..Len(s)
        /\ DOMAIN s = 1..Len(s) /\ DOMAIN t = 1..Len(t)
      OBVIOUS
  <1>2. \A i \in 1..Len(s) : i = 1 \/ (i - 1 \in 1..Len(t) /\ t[i - 1] = s[i])
      BY <1>1
  <1> HIDE DEF t
  <1>3. \A n : Has(t, n) => Has(s, n)
      BY <1>1 DEF Has
  <1>4. \A n : Has(s, n) => n = Stage(Head(s)) \/ Has(t, n)
      BY <1>1, <1>2 DEF Has
  <1>5. Has(s, Stage(Head(s)))
      BY <1>1 DEF Has
  <1>6. ASSUME NEW o, o \in Range(s), o # Head(s) PROVE o \in Range(t)
    <2>1. PICK i \in 1..Len(s) : s[i] = o
        BY <1>1, <1>6 DEF Range
    <2>2. i - 1 \in DOMAIN t /\ t[i - 1] = o
        BY <1>1, <1>2, <1>6, <2>1
    <2> QED
        BY <2>2 DEF Range
  <1>7. /\ \A a, b : (\A i \in 1..Len(s) : Stage(s[i]) \in a..b) => \A i \in 1..Len(t) : Stage(t[i]) \in a..b
        /\ (\A i \in 1..Len(s) : Stage(s[i]) \in {3, 5, 7}) => \A i \in 1..Len(t) : Stage(t[i]) \in {3, 5, 7}
      BY <1>1
  <1> QED
      BY <1>1, <1>3, <1>4, <1>5, <1>6, <1>7 DEF t

\* In a sequence that is in order, later stages follow.
LEMMA StagedSequels ==
    ASSUME NEW s, Staged(s, 1, 6), s # <<>>
    PROVE  /\ Head(s) \in Ops /\ Stage(Head(s)) \in 1..6
           /\ Staged(Tail(s), 1, 6)
           /\ \A n \in 1..6 : Has(Tail(s), n) => Stage(Head(s)) < n \/ (n = 5 /\ Stage(Head(s)) = 5)
           /\ \A o \in Range(Tail(s)) : Follows(o, Head(s)) /\ o \in Ops
           /\ Stage(Head(s)) = 6 => Tail(s) = <<>>
  <1> DEFINE t == Tail(s)
  <1>1. /\ Head(s) \in Ops /\ t \in Seq(Ops) /\ Head(s) = s[1] /\ Len(t) = Len(s) - 1 /\ Len(s) \in Nat \ {0}
        /\ \A i \in 1..Len(t) : t[i] = s[i + 1] /\ i + 1 \in 1..Len(s)
        /\ DOMAIN s = 1..Len(s) /\ DOMAIN t = 1..Len(t) /\ s \in Seq(Ops)
        /\ Len(t) = 0 => t = <<>>
      BY DEF Staged
  <1> HIDE DEF t
  <1>2. /\ \A i \in 1..Len(s) : Stage(s[i]) \in 1..6
        /\ \A i, j \in 1..Len(s) : i < j => Follows(s[j], s[i])
      BY DEF Staged
  <1>3. /\ \A i \in 1..Len(t) : Stage(t[i]) \in 1..6 /\ Follows(t[i], Head(s)) /\ t[i] \in Ops
      BY <1>1, <1>2
  <1>4. Staged(t, 1, 6)
    <2>1. ASSUME NEW i \in 1..Len(t), NEW j \in 1..Len(t), i < j PROVE Follows(t[j], t[i])
      <3>1. i + 1 \in 1..Len(s) /\ j + 1 \in 1..Len(s) /\ i + 1 < j + 1
          BY <1>1, <2>1
      <3>2. Follows(s[j + 1], s[i + 1])
          BY <1>2, <3>1
      <3> QED
          BY <1>1, <3>2
    <2> QED
        BY <1>1, <1>3, <2>1 DEF Staged
  <1>5. ASSUME Stage(Head(s)) = 6 PROVE t = <<>>
    <2>1. ~(1 \in 1..Len(t))
        BY <1>3, <1>5 DEF Follows
    <2> QED
        BY <1>1, <2>1
  <1>6. \A n \in 1..6 : Has(t, n) => Stage(Head(s)) < n \/ (n = 5 /\ Stage(Head(s)) = 5)
      BY <1>3 DEF Has, Follows
  <1>7. \A o \in Range(t) : Follows(o, Head(s)) /\ o \in Ops
      BY <1>1, <1>3 DEF Range
  <1>8. Head(s) \in Ops /\ Stage(Head(s)) \in 1..6
      BY <1>1, <1>2
  <1> QED
      BY <1>4, <1>5, <1>6, <1>7, <1>8 DEF t

-----------------------------------------------------------------------------
(* What an operation of a choice that is no submenu comes to.              *)

Succeeds == todo' = Tail(todo) /\ UNCHANGED <<phase, result, choice>>
Fails    == todo' = <<>> /\ phase' = "menu" /\ result' = Now.test /\ UNCHANGED choice
Logged(says, sure) ==
    /\ temp' = [temp EXCEPT !.passed = @ \cup {[op |-> Now, board |-> board, says |-> says, sure |-> sure]}]
    /\ UNCHANGED <<archive, sink>>

\* A line that the log promises something about.
Honest(says, sure) ==
    /\ says = "PASS" \/ Now.do = "calib"
    /\ Now.test \in bad[board] => ~sure /\ Now.test \notin Robust

LEMMA EndsOutcome ==
    ASSUME NEW ok \in BOOLEAN, Ends(ok)
    PROVE  /\ choice \notin DOMAIN Submenu => IF ok THEN Succeeds ELSE Fails
           /\ choice \in DOMAIN Submenu => todo' \in {Tail(todo), <<>>} /\ UNCHANGED <<phase, result, choice>>
  BY DEF Ends, Succeeds, Fails

LEMMA LogOutcome ==
    ASSUME NEW ok \in BOOLEAN, NEW says, NEW sure, Log(ok, says, sure)
    PROVE  /\ UNCHANGED sink
           /\ choice \in DOMAIN Submenu \/ ~ok => UNCHANGED logVars
           /\ choice \notin DOMAIN Submenu /\ sink = "temp" /\ ok => Logged(says, sure)
  <1>1. CASE choice \in DOMAIN Submenu \/ ~ok
      BY <1>1 DEF Log, logVars
  <1>2. CASE choice \notin DOMAIN Submenu /\ ok
      BY <1>2 DEF Log, Logged
  <1> QED
      BY <1>1, <1>2

\* An operation that logs finds the log set up.
LEMMA LogIsSetUp ==
    ASSUME SessionInv, phase = "busy", choice \notin DOMAIN Submenu, todo # <<>>, Stage(Now) > 3
    PROVE  /\ sink = "temp" /\ temp.choice = choice /\ \A e \in temp.passed : e.board = board
  <1>1. Staged(todo, 1, 6) /\ todo \in Seq(Ops)
      BY DEF SessionInv, InOrder, ProgramTypes
  <1>2. ~Has(todo, 3)
    <2>1. Stage(Now) \in 1..6 /\ (Has(Tail(todo), 3) => Stage(Now) < 3)
        BY <1>1, StagedSequels DEF Now
    <2>2. Has(todo, 3) => 3 = Stage(Now) \/ Has(Tail(todo), 3)
        BY <1>1, Sequels DEF Now
    <2> QED
        BY <2>1, <2>2
  <1>3. \E i \in 1..Len(todo) : Stage(todo[i]) > 3
    <2>1. 1 \in 1..Len(todo) /\ Now = todo[1]
        BY <1>1 DEF Now
    <2> QED
        BY <2>1
  <1> QED
      BY <1>2, <1>3 DEF SessionInv, LogInv

\* A measurement passes a board that is bad in the test only if a command of the
\* test's own was lost, and only in a test that does not show it.
LEMMA RadioVerdict ==
    ASSUME BenchTypes, board \in Boards, Now \in Measures, NEW lost,
           Now.test \in bad[board], TRUE \in Verdicts(During(lost))
    PROVE  lost # {} /\ Now.test \notin Robust
  <1> DEFINE r == During(lost)
             seen == IF r.at # Now.at \/ (r.on = "off" /\ Now.on # "off") THEN Now.silence
                     ELSE IF r.on = Now.on /\ r.mod = Now.mod THEN "own" ELSE Now.other
  <1>1. /\ Now.test \in Tests \ {"io", "calib", "09"}
        /\ Now.silence \in {"pass", "fail", "either"}
        /\ Now.other \in {"pass", "fail", "either", "own"}
        /\ Now.test \in {"01", "03", "04"} => Now.silence = "fail" /\ Now.other \in {"fail", "own"}
        /\ Now.mod \in BOOLEAN
      BY DEF Measures
  <1>2. ~Own(Now.test)
      BY DEF Own
  <1>3. seen \notin {"own", "fail"}
    <2>1. Verdicts(r) = CASE seen = "pass" -> {TRUE} [] seen = "fail" -> {FALSE}
                          [] seen = "either" -> BOOLEAN [] seen = "own" -> {Own(Now.test)}
        BY DEF Verdicts
    <2> HIDE DEF seen
    <2>2. CASE seen = "own"
        BY <1>2, <2>1, <2>2
    <2>3. CASE seen = "fail"
        BY <1>2, <2>1, <2>3
    <2> QED
        BY <2>2, <2>3
  <1>4. ASSUME lost = {} PROVE FALSE
    <2>1. r = [at |-> Now.at, on |-> Now.on, mod |-> Now.mod]
        BY <1>1, <1>4 DEF During, Setup, Mod, TurnOn
    <2> QED
        BY <1>3, <2>1
  <1>5. Now.test \notin {"01", "03", "04", "io"}
      BY <1>1, <1>3
  <1> QED
      BY <1>4, <1>5 DEF Robust

\* What the operation does to the log: it need not, makes a new one, enters an
\* honest PASS, or stores the log; one that ends the choice leaves it alone.
Comes ==
    \/ Stage(Now) \in {1, 2} /\ Succeeds /\ UNCHANGED logVars /\ (Stage(Now) = 2 => "io" \notin bad[board])
    \/ Stage(Now) = 3 /\ Succeeds /\ temp' = NewLog /\ sink' = "temp" /\ UNCHANGED archive
    \/ Stage(Now) \in {4, 5} /\ Succeeds
       /\ \E says \in Says, sure \in BOOLEAN : Logged(says, sure) /\ Honest(says, sure)
    \/ Stage(Now) = 6 /\ Succeeds /\ Store
    \/ (Fails \/ Dies) /\ UNCHANGED logVars

\* What it does to the board when nothing goes wrong.
Cleanly ==
    clean' =>
      /\ clean
      /\ Fails /\ Now.test \in Tests =>
           \/ Now.test \in bad[board] \/ ~programmed'[board]
           \/ Now.test = "calib" /\ addr'[board].short = "blank"
      /\ programmed'[board] =>
           /\ Stage(Now) \in {1, 2, 4, 5} \/ radio.on = "off" => radio'.on = "off"
           /\ Stage(Now) # 1 => programmed[board]
           /\ Stage(Now) = 4 \/ protect[board] => protect'[board]

LEMMA InOperation ==
    ASSUME SessionInv, phase = "busy", todo # <<>>, choice \notin DOMAIN Submenu
    PROVE  Now \in Ops /\ Stage(Now) \in 1..6 /\ board \in Boards /\ BenchTypes /\ todo \in Seq(Ops)
  BY StagedSequels DEF SessionInv, InOrder, ProgramTypes, LabelInv, LabelTypes, Now

LEMMA MainWriteProg ==
    ASSUME SessionInv, WriteProg, choice \notin DOMAIN Submenu
    PROVE  bad' = bad /\ board' = board /\ Comes /\ Cleanly
  <1> USE DEF logVars, Fine, Fault, Comes, Cleanly, Succeeds, Fails
  <1>1. Now \in Ops /\ Stage(Now) = 1 /\ Now.test = "write" /\ board \in Boards /\ BenchTypes
      BY InOperation, StageOf DEF WriteProg, At
  <1>2. PICK ok \in BOOLEAN : /\ IF ok THEN Fine ELSE Fault
                              /\ programmed' = [programmed EXCEPT ![board] = ok]
                              /\ Ends(ok)
      BY DEF WriteProg
  <1>3. IF ok THEN Succeeds ELSE Fails
      BY <1>2, EndsOutcome
  <1>4. radio'.on = "off" /\ bad' = bad /\ board' = board /\ protect' = protect /\ UNCHANGED logVars
      BY DEF WriteProg, Silent
  <1> QED
      BY <1>1, <1>2, <1>3, <1>4 DEF Tests

LEMMA MainAllTest ==
    ASSUME SessionInv, AllTest, choice \notin DOMAIN Submenu
    PROVE  bad' = bad /\ board' = board /\ Comes /\ Cleanly
  <1> USE DEF logVars, Fine, Fault, Comes, Cleanly, Succeeds, Fails
  <1>1. /\ Now \in Ops /\ Stage(Now) = 2 /\ Now.test = "io" /\ board \in Boards /\ BenchTypes
        /\ phase = "busy"
      BY InOperation, StageOf DEF AllTest, At
  <1>2. radio'.on = "off" /\ bad' = bad /\ board' = board /\ protect' = protect
        /\ programmed' = programmed /\ UNCHANGED logVars
      BY DEF AllTest, Silent
  <1>3. \/ Fine /\ Ends(programmed[board] /\ Own("io"))
        \/ Fault /\ Ends(FALSE)
      BY DEF AllTest
  <1>4. CASE Fine /\ Ends(programmed[board] /\ Own("io"))
    <2>1. IF programmed[board] /\ Own("io") THEN Succeeds ELSE Fails
        BY <1>1, <1>4, EndsOutcome DEF BenchTypes, Own
    <2> QED
        BY <1>1, <1>2, <1>4, <2>1 DEF Own
  <1>5. CASE Fault /\ Ends(FALSE)
    <2>1. Fails
        BY <1>5, EndsOutcome
    <2> QED
        BY <1>1, <1>2, <1>5, <2>1
  <1> QED
      BY <1>3, <1>4, <1>5

LEMMA MainSetLog ==
    ASSUME SessionInv, SetLog, choice \notin DOMAIN Submenu
    PROVE  bad' = bad /\ board' = board /\ Comes /\ Cleanly
  <1> USE DEF logVars, boardVars, history, Comes, Cleanly, Succeeds, Fails
  <1>1. Now \in Ops /\ Stage(Now) = 3 /\ Now.test = "setlog" /\ board \in Boards /\ BenchTypes
      BY InOperation, StageOf DEF SetLog, At
  <1>2. Succeeds
      BY EndsOutcome DEF SetLog
  <1> QED
      BY <1>1, <1>2 DEF SetLog, Tests

LEMMA MainCalib ==
    ASSUME SessionInv, Calib, choice \notin DOMAIN Submenu
    PROVE  bad' = bad /\ board' = board /\ Comes /\ Cleanly
  <1> USE DEF Fine, Fault
  <1>1. /\ Now \in Ops /\ Stage(Now) = 4 /\ Now.test = "calib" /\ board \in Boards /\ BenchTypes
        /\ Now.do = "calib" /\ phase = "busy" /\ todo # <<>>
    <2>1. phase = "busy" /\ todo # <<>> /\ Now.do \in {"calib", "calibration"}
        BY DEF Calib, At
    <2> QED
        BY <2>1, InOperation, StageOf
  <1>2. sink = "temp"
      BY <1>1, LogIsSetUp
  <1>3. bad' = bad /\ board' = board /\ programmed' = programmed /\ addr \in [Boards -> Addresses]
      BY DEF Calib, SessionInv, LabelInv, LabelTypes
  <1>4. addr'[board].short = addr[board].short
    <2>1. BaseParameters \/ UNCHANGED addr
        BY <1>1 DEF Calib
    <2> QED
        BY <1>1, <1>3, <2>1 DEF BaseParameters, Addresses
  <1>5. ASSUME NEW ok \in BOOLEAN, NEW says \in Says, NEW sure \in BOOLEAN, Ends(ok),
               Log(ok, says, sure), ok => Honest(says, sure)
        PROVE  Comes /\ (IF ok THEN Succeeds ELSE Fails)
    <2>1. IF ok THEN Succeeds ELSE Fails
        BY <1>5, EndsOutcome
    <2>2. IF ok THEN Logged(says, sure) ELSE UNCHANGED logVars
        BY <1>2, <1>5, LogOutcome
    <2> QED
        BY <1>1, <1>5, <2>1, <2>2 DEF Comes
  <1>6. CASE /\ programmed[board] /\ Fine
             /\ \/ Ends(Own("calib")) /\ Log(Own("calib"), "WARNIG", TRUE)
                \/ LET ok == Own("calib") /\ addr[board].short # "blank"
                   IN  Ends(ok) /\ Log(ok, "PASS", TRUE)
             /\ radio'.on = "off"
             /\ protect' = [protect EXCEPT ![board] = TRUE]
    <2>1. PICK ok \in BOOLEAN, says \in Says :
                /\ Ends(ok) /\ Log(ok, says, TRUE)
                /\ ok => "calib" \notin bad[board]
                /\ ~ok => "calib" \in bad[board] \/ addr[board].short = "blank"
        BY <1>6 DEF Own, Says
    <2>2. ok => Honest(says, TRUE)
        BY <1>1, <2>1 DEF Honest
    <2>3. Comes /\ (IF ok THEN Succeeds ELSE Fails)
        BY <1>5, <2>1, <2>2
    <2>4. ~(Succeeds /\ Fails)
        BY <1>1 DEF Succeeds, Fails
    <2>5. protect'[board]
        BY <1>1, <1>6 DEF BenchTypes
    <2> QED
        BY <1>1, <1>3, <1>4, <1>6, <2>1, <2>3, <2>4, <2>5 DEF Cleanly
  <1>7. CASE /\ programmed[board] /\ Fault
             /\ \E ok \in BOOLEAN, says \in Says : Ends(ok) /\ Log(ok, says, FALSE)
    <2>1. PICK ok \in BOOLEAN, says \in Says : Ends(ok) /\ Log(ok, says, FALSE)
        BY <1>7
    <2>2. Honest(says, FALSE)
        BY <1>1 DEF Honest, Robust
    <2>3. Comes
        BY <1>5, <2>1, <2>2
    <2> QED
        BY <1>3, <1>7, <2>3 DEF Cleanly
  <1>8. CASE ~programmed[board] /\ Fine /\ Ends(FALSE) /\ Log(FALSE, "PASS", TRUE)
    <2>1. Comes
        BY <1>5, <1>8 DEF Says
    <2> QED
        BY <1>3, <1>8, <2>1 DEF Cleanly
  <1> QED
    <2>1. \/ /\ programmed[board] /\ Fine
             /\ \/ Ends(Own("calib")) /\ Log(Own("calib"), "WARNIG", TRUE)
                \/ LET ok == Own("calib") /\ addr[board].short # "blank"
                   IN  Ends(ok) /\ Log(ok, "PASS", TRUE)
             /\ radio'.on = "off"
             /\ protect' = [protect EXCEPT ![board] = TRUE]
          \/ /\ programmed[board] /\ Fault
             /\ \E ok \in BOOLEAN, says \in Says : Ends(ok) /\ Log(ok, says, FALSE)
          \/ ~programmed[board] /\ Fine /\ Ends(FALSE) /\ Log(FALSE, "PASS", TRUE)
        BY DEF Calib, Silent, Says
    <2> QED
        BY <1>6, <1>7, <1>8, <2>1

LEMMA MainRadioTest ==
    ASSUME SessionInv, RadioTest, choice \notin DOMAIN Submenu
    PROVE  bad' = bad /\ board' = board /\ Comes /\ Cleanly
  <1> USE DEF Fine, Fault
  <1>1. /\ Now \in Ops /\ Stage(Now) = 5 /\ board \in Boards /\ BenchTypes
        /\ Now.do = "measure" /\ phase = "busy" /\ todo # <<>> /\ Now \in Measures
    <2>1. phase = "busy" /\ todo # <<>> /\ Now.do = "measure"
        BY DEF RadioTest, At
    <2> QED
        BY <2>1, InOperation, StageOf
  <1>2. sink = "temp"
      BY <1>1, LogIsSetUp
  <1>3. bad' = bad /\ board' = board /\ programmed' = programmed /\ protect' = protect
      BY DEF RadioTest
  <1> DEFINE Commands == {"setup"} \cup (IF Now.on = "off" THEN {"frames"} ELSE {"on", "off"})
                                   \cup (IF Now.mod THEN {"mod"} ELSE {})
  <1>4. PICK lost \in IF programmed[board] THEN {{}} \cup {{c} : c \in Commands} ELSE {Commands} :
            /\ IF lost = {} \/ ~programmed[board] THEN Fine ELSE Fault
            /\ \E ok \in IF "frames" \in lost THEN {FALSE} ELSE Verdicts(During(lost)) :
                   Ends(ok) /\ Log(ok, "PASS", lost = {})
            /\ radio' = IF "off" \in lost \/ Now.on = "off" THEN During(lost) ELSE TrxOff(During(lost))
      BY DEF RadioTest
  <1>4a. PICK ok \in IF "frames" \in lost THEN {FALSE} ELSE Verdicts(During(lost)) :
                   Ends(ok) /\ Log(ok, "PASS", lost = {})
      BY <1>4
  <1>4b. ok \in BOOLEAN
    <2>1. Now.silence \in {"pass", "fail", "either"} /\ Now.other \in {"pass", "fail", "either", "own"}
        BY <1>1 DEF Measures
    <2>2. Verdicts(During(lost)) \subseteq BOOLEAN
        BY <2>1 DEF Verdicts, Own
    <2> QED
        BY <1>4a, <2>2
  <1>4c. programmed[board] \/ lost # {}
      BY <1>4
  <1>5. IF ok THEN Succeeds ELSE Fails
      BY <1>4a, <1>4b, EndsOutcome
  <1>6. IF ok THEN Logged("PASS", lost = {}) ELSE UNCHANGED logVars
      BY <1>2, <1>4a, <1>4b, LogOutcome
  <1>7. ok => Honest("PASS", lost = {})
    <2>1. ok => TRUE \in Verdicts(During(lost))
        BY <1>4a, <1>4b
    <2> QED
        BY <1>1, <2>1, RadioVerdict DEF Honest
  <1>8. Comes
      BY <1>1, <1>4b, <1>5, <1>6, <1>7 DEF Comes, Says
  <1>9. ASSUME clean', programmed'[board]
        PROVE  radio'.on = "off" /\ clean /\ (Fails => Now.test \in bad[board])
    <2>1. lost = {} /\ clean
        BY <1>3, <1>4, <1>4c, <1>9
    <2>2. /\ During(lost) = [at |-> Now.at, on |-> Now.on, mod |-> Now.mod] /\ Now.mod \in BOOLEAN
      <3>1. Now.mod \in BOOLEAN
          BY <1>1 DEF Measures
      <3> QED
          BY <2>1, <3>1 DEF During, Setup, Mod, TurnOn
    <2>3. radio'.on = "off"
        BY <1>4, <2>1, <2>2 DEF TrxOff
    <2>4. Verdicts(During(lost)) = {Own(Now.test)}
      <3> DEFINE r == During(lost)
      <3>1. r.at = Now.at /\ r.on = Now.on /\ r.mod = Now.mod
          BY <2>2
      <3> HIDE DEF r
      <3>2. Verdicts(r) = {Own(Now.test)}
          BY <3>1 DEF Verdicts
      <3> QED
          BY <3>2 DEF r
    <2>5. Fails => Now.test \in bad[board]
        BY <1>1, <1>4a, <1>4b, <1>5, <2>1, <2>4 DEF Own, Succeeds, Fails
    <2> QED
        BY <2>1, <2>3, <2>5
  <1>10. clean' => clean
      BY <1>4
  <1> QED
      BY <1>1, <1>3, <1>8, <1>9, <1>10 DEF Cleanly

LEMMA MainCarrierSense ==
    ASSUME SessionInv, CarrierSense, choice \notin DOMAIN Submenu
    PROVE  bad' = bad /\ board' = board /\ Comes /\ Cleanly
  <1> USE DEF Fine, Fault
  <1>1. /\ Now \in Ops /\ Stage(Now) = 5 /\ board \in Boards /\ BenchTypes
        /\ phase = "busy" /\ todo # <<>> /\ Now.test = "09" /\ faults \in Nat
    <2>1. phase = "busy" /\ todo # <<>> /\ Now.do = "sense"
        BY DEF CarrierSense, At
    <2> QED
        BY <2>1, InOperation, StageOf DEF SessionInv, ProgramTypes
  <1>2. sink = "temp"
      BY <1>1, LogIsSetUp
  <1>3. bad' = bad /\ board' = board /\ programmed' = programmed /\ protect' = protect
      BY DEF CarrierSense
  <1>4. heard' \in BOOLEAN
      BY <1>1 DEF CarrierSense, Own, BenchTypes
  <1>5. IF heard' THEN Succeeds ELSE Fails
      BY <1>4, EndsOutcome DEF CarrierSense
  <1>6. IF heard' THEN Logged("PASS", programmed[board] /\ faults' = faults) ELSE UNCHANGED logVars
      BY <1>2, <1>4, LogOutcome DEF CarrierSense
  <1>7. \/ programmed[board] /\ Fine /\ (heard' <=> Own("09")) /\ radio'.on = "off"
        \/ programmed[board] /\ Fault
        \/ ~programmed[board] /\ Fine
    <2>1. \/ programmed[board] /\ Fine /\ heard' = Own("09") /\ radio'.on = "off"
          \/ programmed[board] /\ Fault
          \/ ~programmed[board] /\ Fine
        BY DEF CarrierSense, Setup
    <2> QED
        BY <2>1, Zenon
  <1>8. heard' => Honest("PASS", programmed[board] /\ faults' = faults)
    <2>1. heard' /\ "09" \in bad[board] => ~(programmed[board] /\ faults' = faults)
        BY <1>1, <1>7 DEF Own
    <2> QED
        BY <1>1, <2>1 DEF Honest, Robust
  <1>9. (programmed[board] /\ faults' = faults) \in BOOLEAN
      OBVIOUS
  <1>10. Comes
      BY <1>1, <1>5, <1>6, <1>8, <1>9 DEF Comes, Says
  <1>11. Cleanly
    <2>1. Fails => ~heard'
        BY <1>1, <1>5 DEF Succeeds, Fails
    <2>2. CASE programmed[board] /\ Fine /\ (heard' <=> Own("09")) /\ radio'.on = "off"
        BY <1>1, <1>3, <2>1, <2>2 DEF Cleanly, Own
    <2>3. CASE programmed[board] /\ Fault
        BY <2>3 DEF Cleanly
    <2>4. CASE ~programmed[board] /\ Fine
        BY <1>3, <2>4 DEF Cleanly
    <2> QED
        BY <1>7, <2>2, <2>3, <2>4
  <1> QED
      BY <1>3, <1>10, <1>11

LEMMA MainSetAddr ==
    ASSUME SessionInv, SetAddr, choice \notin DOMAIN Submenu
    PROVE  bad' = bad /\ board' = board /\ Comes /\ Cleanly
  <1> USE DEF Fine, Fault
  <1>1. /\ Now \in Ops /\ Stage(Now) = 6 /\ board \in Boards /\ BenchTypes
        /\ Now.do = "barcode" /\ phase = "busy" /\ todo # <<>> /\ Now.test \notin Tests
    <2>1. phase = "busy" /\ todo # <<>> /\ Now.do \in {"barcode", "setaddr"}
        BY DEF SetAddr, At
    <2> QED
        BY <2>1, InOperation, StageOf
  <1>2. bad' = bad /\ board' = board /\ programmed' = programmed /\ radio' = radio
      BY DEF SetAddr
  <1>3. \/ Ends(TRUE) /\ Store
        \/ Dies /\ UNCHANGED logVars
      BY <1>1 DEF SetAddr
  <1>4. Comes
      BY <1>1, <1>3, EndsOutcome DEF Comes
  <1>5. \/ Fine /\ Leave(TRUE)
        \/ Fault
      BY DEF SetAddr
  <1>6. programmed'[board] /\ clean' => clean /\ protect'[board]
      BY <1>1, <1>2, <1>5 DEF Leave, BenchTypes
  <1>7. clean' => clean
      BY <1>5
  <1> QED
      BY <1>1, <1>2, <1>4, <1>6, <1>7 DEF Cleanly

LEMMA MainShortAddr ==
    ASSUME SessionInv, ShortAddr, choice \notin DOMAIN Submenu
    PROVE  bad' = bad /\ board' = board /\ Comes /\ Cleanly
  <1> USE DEF Fine, Fault
  <1>1. /\ Now \in Ops /\ Stage(Now) = 6 /\ board \in Boards /\ BenchTypes
        /\ phase = "busy" /\ todo # <<>> /\ Now.test \notin Tests
    <2>1. phase = "busy" /\ todo # <<>> /\ Now.do = "address"
        BY DEF ShortAddr, At
    <2> QED
        BY <2>1, InOperation, StageOf
  <1>2. bad' = bad /\ board' = board /\ programmed' = programmed /\ protect' = protect
        /\ (radio.on = "off" => radio'.on = "off")
      BY DEF ShortAddr, Silent
  <1>3. \/ Ends(TRUE) /\ Store
        \/ Dies /\ UNCHANGED logVars
      BY DEF ShortAddr
  <1>4. Comes
      BY <1>1, <1>3, EndsOutcome DEF Comes
  <1>5. clean' => clean
      BY DEF ShortAddr
  <1> QED
      BY <1>1, <1>2, <1>4, <1>5 DEF Cleanly

\* The operations of a choice that is no submenu.
LEMMA MainOperation ==
    ASSUME SessionInv, Operation, choice \notin DOMAIN Submenu
    PROVE  /\ phase = "busy" /\ todo # <<>>
           /\ bad' = bad /\ board' = board /\ Comes /\ Cleanly
  <1>1. phase = "busy" /\ todo # <<>>
      BY DEF Operation, At, WriteProg, AllTest, SetLog, Calib, E2pBase, RadioTest,
             CarrierSense, SetAddr, ShortAddr
  <1>2. ASSUME E2pBase PROVE FALSE
    <2>1. Now.do = "base"
        BY <1>2 DEF E2pBase, At
    <2>2. Now \in Ops /\ Stage(Now) \in 1..6
        BY <1>1, InOperation
    <2> QED
        BY <2>1, <2>2, StageOf
  <1> QED
      BY <1>1, <1>2, MainWriteProg, MainAllTest, MainSetLog, MainCalib, MainRadioTest,
         MainCarrierSense, MainSetAddr, MainShortAddr DEF Operation

-----------------------------------------------------------------------------
(* The operations keep the invariant.                                      *)

\* Every state a radio is set to is one.
LEMMA RadiosClosed ==
    ASSUME BenchTypes, board \in Boards
    PROVE  /\ Silent \in Radios
           /\ \A at \in Channels : [Silent EXCEPT !.at = at] \in Radios /\ Setup(radio, at) \in Radios
           /\ [at |-> <<100, 42>>, on |-> "tx", mod |-> FALSE] \in Radios
           /\ \A r \in Radios : TrxOff(r) \in Radios
           /\ Now \in Measures => \A lost : During(lost) \in Radios
           /\ <<100, 24>> \in Channels /\ <<100, 42>> \in Channels
  <1>1. /\ Silent \in Radios
        /\ \A at \in Channels : [Silent EXCEPT !.at = at] \in Radios /\ Setup(radio, at) \in Radios
      BY DEF Silent, Radios, Setup
  <1>2. <<100, 24>> \in Channels /\ <<100, 42>> \in Channels
      BY DEF Channels
  <1>3. [at |-> <<100, 42>>, on |-> "tx", mod |-> FALSE] \in Radios
      BY <1>2 DEF Radios
  <1>4. \A r \in Radios : TrxOff(r) \in Radios
      BY DEF Radios, TrxOff
  <1>5. ASSUME Now \in Measures, NEW lost PROVE During(lost) \in Radios
    <2>1. radio \in Radios /\ Now.at \in Channels /\ Now.on \in {"off", "tx", "rx"}
        BY <1>5 DEF BenchTypes, Measures
    <2> QED
        BY <2>1 DEF During, Setup, Mod, TurnOn, Radios
  <1> QED
      BY <1>1, <1>2, <1>3, <1>4, <1>5

LEMMA OperationBench ==
    ASSUME SessionInv, Operation
    PROVE  BenchTypes' /\ clean' \in BOOLEAN /\ faults' \in Nat
  <1>1. /\ board \in Boards /\ phase = "busy" /\ todo # <<>> /\ Now \in Ops /\ BenchTypes
        /\ clean \in BOOLEAN /\ faults \in Nat
    <2>1. phase = "busy" /\ todo # <<>>
        BY DEF Operation, At, WriteProg, AllTest, SetLog, Calib, E2pBase, RadioTest,
               CarrierSense, SetAddr, ShortAddr
    <2> QED
        BY <2>1, Sequels DEF LabelInv, LabelTypes, Now, SessionInv, ProgramTypes
  <1>2. bad' = bad /\ (Fine \/ Fault \/ UNCHANGED history)
    <2>1. CASE WriteProg \/ AllTest \/ SetLog \/ RadioTest \/ CarrierSense
        BY <2>1 DEF WriteProg, AllTest, SetLog, RadioTest, CarrierSense, boardVars
    <2>2. CASE Calib \/ E2pBase \/ SetAddr \/ ShortAddr
        BY <2>2 DEF Calib, E2pBase, SetAddr, ShortAddr
    <2> QED
        BY <2>1, <2>2 DEF Operation
  <1>3. clean' \in BOOLEAN /\ faults' \in Nat
    <2>1. clean' = clean \/ clean' = FALSE
        BY <1>2 DEF Fine, Fault, history
    <2>2. faults' = faults \/ faults' = faults + 1
        BY <1>2 DEF Fine, Fault, history
    <2>3. clean' \in BOOLEAN
        BY <1>1, <2>1, Zenon
    <2>4. faults' \in Nat
        BY <1>1, <2>2
    <2> QED
        BY <2>3, <2>4
  <1>4. programmed' = programmed \/ \E ok \in BOOLEAN : programmed' = [programmed EXCEPT ![board] = ok]
      BY DEF Operation, WriteProg, AllTest, SetLog, Calib, E2pBase, RadioTest,
               CarrierSense, SetAddr, ShortAddr, boardVars
  <1>5. protect' = protect \/ \E p \in BOOLEAN : protect' = [protect EXCEPT ![board] = p]
    <2>1. CASE WriteProg \/ AllTest \/ SetLog \/ RadioTest \/ CarrierSense \/ ShortAddr
        BY <2>1 DEF WriteProg, AllTest, SetLog, RadioTest, CarrierSense, ShortAddr, boardVars
    <2>2. CASE Calib \/ E2pBase
        BY <2>2 DEF Calib, E2pBase
    <2>3. CASE SetAddr
      <3>1. Leave(TRUE) \/ Leave(FALSE)
          BY <2>3 DEF SetAddr
      <3> QED
          BY <3>1 DEF Leave
    <2> QED
        BY <2>1, <2>2, <2>3 DEF Operation
  <1>6. heard' \in BOOLEAN
    <2>1. CASE WriteProg \/ AllTest \/ SetLog \/ RadioTest \/ ShortAddr \/ Calib \/ E2pBase \/ SetAddr
        BY <1>1, <2>1 DEF WriteProg, AllTest, SetLog, RadioTest, ShortAddr, Calib, E2pBase, SetAddr, BenchTypes
    <2>2. CASE CarrierSense
        BY <1>1, <2>2 DEF CarrierSense, Own, BenchTypes
    <2> QED
        BY <2>1, <2>2 DEF Operation
  <1>7. radio' \in Radios
    <2> USE RadiosClosed, <1>1
    <2>0. radio \in Radios
        BY DEF BenchTypes
    <2>1. CASE WriteProg \/ AllTest \/ SetLog \/ ShortAddr
        BY <2>0, <2>1 DEF WriteProg, AllTest, SetLog, ShortAddr, boardVars
    <2>2. CASE Calib \/ E2pBase \/ SetAddr
        BY <2>0, <2>2 DEF Calib, E2pBase, SetAddr
    <2>3. CASE RadioTest
      <3>1. Now \in Measures
          BY <2>3, StageOf DEF RadioTest, At
      <3>2. \E lost : radio' = IF "off" \in lost \/ Now.on = "off" THEN During(lost) ELSE TrxOff(During(lost))
          BY <2>3 DEF RadioTest
      <3> QED
          BY <3>1, <3>2
    <2>4. CASE CarrierSense
      <3>1. Now.at \in Channels
          BY <2>4, StageOf DEF CarrierSense, At
      <3> QED
          BY <2>0, <2>4, <3>1 DEF CarrierSense
    <2> QED
        BY <2>1, <2>2, <2>3, <2>4 DEF Operation
  <1> QED
      BY <1>1, <1>2, <1>3, <1>4, <1>5, <1>6, <1>7 DEF BenchTypes

\* A choice that is no submenu: the program's variables.
LEMMA MainProgram ==
    ASSUME SessionInv, Operation, choice \notin DOMAIN Submenu
    PROVE  ProgramTypes' /\ InOrder'
  <1>1. /\ phase = "busy" /\ todo # <<>> /\ Comes /\ Now \in Ops /\ board \in Boards
        /\ todo \in Seq(Ops) /\ Staged(todo, 1, 6)
      BY MainOperation, InOperation DEF SessionInv, InOrder
  <1>2. clean' \in BOOLEAN /\ faults' \in Nat
      BY OperationBench
  <1>3. temp \in Logs /\ archive \in Logs /\ choice \in Choices
      BY DEF SessionInv, ProgramTypes
  <1>4. temp' \in Logs /\ archive' \in Logs
    <2>1. NewLog \in Logs /\ NoLog \in Logs /\ [temp EXCEPT !.board = board] \in Logs
        BY <1>1, <1>3 DEF NewLog, NoLog, Logs
    <2>2. ASSUME NEW says \in Says, NEW sure \in BOOLEAN, Logged(says, sure) PROVE temp' \in Logs /\ archive' = archive
      <3>1. [op |-> Now, board |-> board, says |-> says, sure |-> sure] \in Entries
          BY <1>1 DEF Entries
      <3> QED
          BY <1>3, <2>2, <3>1 DEF Logged, Logs
    <2> QED
        BY <1>1, <1>3, <2>1, <2>2 DEF Comes, Store, logVars
  <1>5. /\ todo' \in {Tail(todo), <<>>} /\ choice' = choice
        /\ phase' \in {"busy", "menu", "off"}
        /\ phase' = "busy" => todo' = Tail(todo)
      BY <1>1 DEF Comes, Succeeds, Fails, Dies
  <1>6. Tail(todo) \in Seq(Ops) /\ Staged(Tail(todo), 1, 6)
      BY <1>1, Sequels, StagedSequels
  <1>7. InOrder'
      BY <1>5, <1>6 DEF InOrder
  <1>8. todo' \in Seq(Ops)
    <2>1. <<>> \in Seq(Ops)
        OBVIOUS
    <2> QED
        BY <1>5, <1>6, <2>1
  <1> QED
      BY <1>2, <1>3, <1>4, <1>5, <1>7, <1>8 DEF ProgramTypes

\* ... the log, ...
LEMMA MainLogInv ==
    ASSUME SessionInv, Operation, choice \notin DOMAIN Submenu
    PROVE  LogInv'
  <1>1. /\ phase = "busy" /\ todo # <<>> /\ Comes /\ Now \in Ops /\ board \in Boards
        /\ todo \in Seq(Ops) /\ Staged(todo, 1, 6) /\ bad' = bad /\ board' = board
      BY MainOperation, InOperation DEF SessionInv, InOrder
  <1>2. /\ Has(todo, 3) => \A o \in Judged(choice) : o.do = "io" \/ o \in Range(todo)
        /\ ~Has(todo, 3) /\ (\E i \in 1..Len(todo) : Stage(todo[i]) > 3) =>
             /\ temp.choice = choice /\ sink = "temp"
             /\ \A e \in temp.passed : e.board = board
        /\ \A o \in Judged(choice) : o \in Range(todo) \/ Passed(o)
      BY <1>1 DEF SessionInv, LogInv
  <1>3. /\ Tail(todo) \in Seq(Ops) /\ (Has(Tail(todo), 3) => Has(todo, 3))
        /\ Has(todo, 3) => 3 = Stage(Now) \/ Has(Tail(todo), 3)
        /\ Has(todo, Stage(Now))
        /\ \A o : o \in Range(todo) => o = Now \/ o \in Range(Tail(todo))
      BY <1>1, Sequels DEF Now
  <1>4. /\ Stage(Now) \in 1..6
        /\ Has(Tail(todo), 3) => Stage(Now) < 3
        /\ \A o \in Range(Tail(todo)) : Follows(o, Now) /\ o \in Ops
        /\ Stage(Now) = 6 => Tail(todo) = <<>>
      BY <1>1, StagedSequels DEF Now
  <1>5. \A o \in Judged(choice) : o.test \in Tests
      BY DEF Judged
  <1>6. CASE todo' = <<>> \/ phase' # "busy"
      BY <1>6 DEF LogInv
  <1>7. ASSUME Succeeds, todo' # <<>> PROVE todo' = Tail(todo) /\ choice' = choice
      BY <1>7 DEF Succeeds
  <1>8. ASSUME Succeeds, todo' # <<>>, UNCHANGED logVars, Stage(Now) \in {1, 2},
               Stage(Now) = 2 => "io" \notin bad[board]
        PROVE  LogInv'
    <2>1. todo' = Tail(todo) /\ choice' = choice /\ temp' = temp /\ sink' = sink
        BY <1>7, <1>8 DEF logVars
    <2>2. \A o : Passed(o)' <=> Passed(o)
        BY <1>1, <2>1 DEF Passed
    <2>3. Now \in Judged(choice) => Now.do = "io" /\ Passed(Now)
        BY <1>1, <1>5, <1>8, StageOf DEF Passed, Tests
    <2>4. Judged(choice') = Judged(choice)
        BY <2>1
    <2>5. \A o \in Judged(choice) : o \in Range(todo') \/ Passed(o)
        BY <1>2, <1>3, <2>1, <2>3
    <2>6. Has(todo', 3) => \A o \in Judged(choice) : o.do = "io" \/ o \in Range(todo')
        BY <1>2, <1>3, <2>1, <2>3
    <2>7. ~Has(todo', 3) /\ (\E i \in 1..Len(todo') : Stage(todo'[i]) > 3) =>
             /\ temp.choice = choice /\ sink = "temp"
             /\ \A e \in temp.passed : e.board = board
      <3> SUFFICES ASSUME ~Has(Tail(todo), 3), NEW i \in 1..Len(Tail(todo)), Stage(Tail(todo)[i]) > 3
                   PROVE  /\ temp.choice = choice /\ sink = "temp"
                          /\ \A e \in temp.passed : e.board = board
          BY <2>1
      <3>1. ~Has(todo, 3)
          BY <1>3, <1>8
      <3>2. i + 1 \in 1..Len(todo) /\ todo[i + 1] = Tail(todo)[i]
          BY <1>1
      <3> QED
          BY <1>2, <3>1, <3>2
    <2> QED
        BY <1>1, <2>1, <2>2, <2>4, <2>5, <2>6, <2>7 DEF LogInv
  <1>9. ASSUME Succeeds, todo' # <<>>, temp' = NewLog, sink' = "temp", Stage(Now) = 3
        PROVE  LogInv'
    <2>1. todo' = Tail(todo) /\ choice' = choice /\ temp'.choice = choice /\ temp'.passed = {}
        BY <1>7, <1>9 DEF NewLog
    <2>2. ~Has(todo', 3)
        BY <1>4, <1>9, <2>1
    <2>3. \A o \in Judged(choice) : o \in Range(todo') \/ Passed(o)'
      <3> SUFFICES ASSUME NEW o \in Judged(choice), o \notin Range(todo') PROVE Passed(o)'
          OBVIOUS
      <3>1. o # Now
          BY <1>1, <1>5, <1>9, StageOf DEF Tests
      <3>2. o \notin Range(todo)
          BY <1>3, <2>1, <3>1
      <3>3. o.do = "io" /\ Passed(o)
          BY <1>2, <1>3, <1>9, <3>2
      <3> QED
          BY <1>1, <3>3 DEF Passed
    <2> QED
        BY <1>9, <2>1, <2>2, <2>3 DEF LogInv
  <1>10. ASSUME Succeeds, todo' # <<>>, Stage(Now) \in {4, 5},
                NEW says \in Says, NEW sure \in BOOLEAN, Logged(says, sure), Honest(says, sure)
        PROVE  LogInv'
    <2> DEFINE entry == [op |-> Now, board |-> board, says |-> says, sure |-> sure]
    <2>1. todo' = Tail(todo) /\ choice' = choice /\ sink' = sink
        BY <1>7, <1>10 DEF Logged
    <2>2. sink = "temp" /\ temp.choice = choice /\ \A e \in temp.passed : e.board = board
        BY <1>1, <1>10, LogIsSetUp
    <2>3. temp'.choice = temp.choice /\ temp'.passed = temp.passed \cup {entry}
      <3>1. temp \in Logs
          BY DEF SessionInv, ProgramTypes
      <3> QED
          BY <1>10, <3>1 DEF Logged, Logs
    <2>4. entry.op = Now /\ entry.board = board /\ entry.says = says /\ entry.sure = sure
        OBVIOUS
    <2> HIDE DEF entry
    <2>5. ~Has(todo', 3)
        BY <1>4, <1>10, <2>1
    <2>6. ASSUME NEW o, o = Now PROVE Passed(o)'
      <3>1. Now.do # "io"
          BY <1>1, <1>10, StageOf
      <3>2. entry \in temp'.passed
          BY <2>3
      <3>3. /\ entry.op = o /\ (entry.says = "PASS" \/ o.do = "calib")
            /\ o.test \in bad'[board'] => ~entry.sure /\ o.test \notin Robust
          BY <1>1, <1>10, <2>4, <2>6 DEF Honest
      <3> QED
          BY <2>6, <3>1, <3>2, <3>3 DEF Passed
    <2>7. \A o : Passed(o) => Passed(o)'
        BY <1>1, <2>3 DEF Passed
    <2>8. \A o \in Judged(choice) : o \in Range(todo') \/ Passed(o)'
        BY <1>2, <1>3, <2>1, <2>6, <2>7, Zenon
    <2>9. \A e \in temp'.passed : e.board = board
        BY <2>2, <2>3, <2>4
    <2> QED
        BY <1>1, <2>1, <2>2, <2>3, <2>5, <2>8, <2>9 DEF LogInv
  <1>11. ASSUME Succeeds, Stage(Now) = 6 PROVE todo' = <<>>
      BY <1>4, <1>11 DEF Succeeds
  <1> QED
      BY <1>1, <1>6, <1>8, <1>9, <1>10, <1>11 DEF Comes, Fails, Dies

\* ... the log that is stored, ...
LEMMA MainArchive ==
    ASSUME SessionInv, Operation, choice \notin DOMAIN Submenu
    PROVE  LogMeansGood'
  <1>1. /\ phase = "busy" /\ todo # <<>> /\ Comes /\ Now \in Ops /\ board \in Boards
        /\ todo \in Seq(Ops) /\ Staged(todo, 1, 6) /\ bad' = bad /\ board' = board
      BY MainOperation, InOperation DEF SessionInv, InOrder
  <1>2. CASE archive' = archive
      BY <1>1, <1>2 DEF SessionInv, LogMeansGood
  <1>3. CASE Stage(Now) = 6 /\ Store
    <2>1. temp.choice = choice /\ \A e \in temp.passed : e.board = board
        BY <1>1, <1>3, LogIsSetUp
    <2>2. /\ archive'.choice = temp.choice /\ archive'.passed = temp.passed /\ archive'.board = board
      <3>1. temp \in Logs
          BY DEF SessionInv, ProgramTypes
      <3> QED
          BY <1>3, <3>1 DEF Store, Logs
    <2>3. ASSUME NEW o \in Judged(choice) PROVE Passed(o)
      <3>1. o.test \in Tests
          BY DEF Judged
      <3>2. o # Now
          BY <1>1, <1>3, <3>1, StageOf
      <3>3. Tail(todo) = <<>>
          BY <1>1, <1>3, StagedSequels DEF Now
      <3>4. o \notin Range(todo)
          BY <1>1, <3>2, <3>3, Sequels DEF Now, Range
      <3> QED
          BY <1>1, <3>4 DEF SessionInv, LogInv
    <2>4. \A o \in Judged(choice) :
             \/ o.do = "io" /\ "io" \notin bad[board]
             \/ \E e \in temp.passed : /\ e.op = o /\ (e.says = "PASS" \/ o.do = "calib")
                                       /\ o.test \in bad[board] => ~e.sure /\ o.test \notin Robust
        BY <2>3 DEF Passed
    <2> QED
        BY <1>1, <2>1, <2>2, <2>4 DEF LogMeansGood
  <1>4. archive' = archive \/ (Stage(Now) = 6 /\ Store)
      BY <1>1 DEF Comes, Logged, logVars
  <1> QED
      BY <1>2, <1>3, <1>4

\* ... what is shown of a failure, ...
LEMMA MainFailure ==
    ASSUME SessionInv, Operation, choice \notin DOMAIN Submenu
    PROVE  FailureInv'
  <1>1. /\ phase = "busy" /\ Comes /\ Cleanly /\ bad' = bad /\ board' = board
      BY MainOperation
  <1>2. CASE Succeeds
    <2>1. result' = result /\ result \notin Tests
        BY <1>1, <1>2 DEF Succeeds, SessionInv, FailureInv
    <2> QED
        BY <2>1 DEF FailureInv, FailureIsDefect
  <1>3. CASE Fails
    <2>1. result' = Now.test /\ phase' = "menu"
        BY <1>3 DEF Fails
    <2> QED
        BY <1>1, <1>3, <2>1 DEF Cleanly, FailureInv, FailureIsDefect
  <1>4. CASE Dies
    <2>1. result' \notin Tests
        BY <1>4 DEF Dies, Tests
    <2> QED
        BY <2>1 DEF FailureInv, FailureIsDefect
  <1> QED
      BY <1>1, <1>2, <1>3, <1>4 DEF Comes

\* ... and the state the board is left in.
LEMMA MainQuiet ==
    ASSUME SessionInv, Operation, choice \notin DOMAIN Submenu
    PROVE  QuietInv' /\ LeftQuiet'
  <1>1. /\ phase = "busy" /\ todo # <<>> /\ Comes /\ Cleanly /\ bad' = bad /\ board' = board
        /\ Now \in Ops /\ board \in Boards /\ BenchTypes
        /\ todo \in Seq(Ops) /\ Staged(todo, 1, 6)
      BY MainOperation, InOperation DEF SessionInv, InOrder
  <1>2. \A n \in 1..6 :
          /\ Has(Tail(todo), n) => Stage(Now) < n \/ (n = 5 /\ Stage(Now) = 5)
          /\ Has(todo, n) => n = Stage(Now) \/ Has(Tail(todo), n)
      BY <1>1, Sequels, StagedSequels DEF Now
  <1>3. Stage(Now) \in 1..6
      BY <1>1, StagedSequels DEF Now
  <1>4. ASSUME clean PROVE
          /\ \/ radio.on = "off" \/ ~programmed[board]
             \/ Has(todo, 1) \/ Has(todo, 2) \/ Has(todo, 4) \/ Has(todo, 5)
          /\ choice \in {"1", "2", "4", "20"} =>
               \/ Has(todo, 4)
               \/ ~Has(todo, 1) /\ (programmed[board] => protect[board])
      BY <1>1, <1>4 DEF SessionInv, QuietInv
  <1>5. Has(todo, Stage(Now))
      BY <1>1, Sequels DEF Now
  <1>6. CASE Succeeds
    <2>1. todo' = Tail(todo) /\ phase' = "busy" /\ choice' = choice
        BY <1>1, <1>6 DEF Succeeds
    <2>2. ASSUME clean', programmed'[board]
          PROVE  \/ radio'.on = "off"
                 \/ Has(Tail(todo), 1) \/ Has(Tail(todo), 2) \/ Has(Tail(todo), 4) \/ Has(Tail(todo), 5)
      <3>1. clean /\ (Stage(Now) \in {1, 2, 4, 5} \/ radio.on = "off" => radio'.on = "off")
            /\ (Stage(Now) # 1 => programmed[board])
          BY <1>1, <2>2 DEF Cleanly
      <3>2. CASE Stage(Now) \in {1, 2, 4, 5}
          BY <3>1, <3>2
      <3>3. CASE Stage(Now) \in {3, 6}
          BY <1>2, <1>4, <3>1, <3>3
      <3> QED
          BY <1>3, <3>2, <3>3
    <2>3. ASSUME clean', choice \in {"1", "2", "4", "20"}
          PROVE  \/ Has(Tail(todo), 4)
                 \/ ~Has(Tail(todo), 1) /\ (programmed'[board] => protect'[board])
      <3>1. clean /\ (programmed'[board] => /\ Stage(Now) # 1 => programmed[board]
                                            /\ Stage(Now) = 4 \/ protect[board] => protect'[board])
          BY <1>1, <2>3 DEF Cleanly
      <3>2. ~Has(Tail(todo), 1)
          BY <1>2, <1>3
      <3>3. CASE Stage(Now) = 1
          BY <1>2, <1>4, <1>5, <2>3, <3>1, <3>3
      <3>4. CASE Stage(Now) = 4
          BY <3>1, <3>2, <3>4
      <3>5. CASE Stage(Now) \notin {1, 4}
          BY <1>2, <1>4, <2>3, <3>1, <3>2, <3>5
      <3> QED
          BY <3>3, <3>4, <3>5
    <2> QED
        BY <1>1, <2>1, <2>2, <2>3 DEF QuietInv, LeftQuiet
  <1>7. CASE Fails
    <2>1. phase' = "menu" /\ result' = Now.test /\ choice' = choice
        BY <1>7 DEF Fails
    <2>2. ASSUME clean', programmed'[board], Now.test \in Tests
          PROVE  /\ radio'.on = "off"
                 /\ choice \in {"1", "2", "4", "20"} /\ Now.test # "io" => protect'[board]
      <3>1. /\ clean /\ (Stage(Now) \in {1, 2, 4, 5} => radio'.on = "off")
            /\ Stage(Now) # 1 => programmed[board]
            /\ Stage(Now) = 4 \/ protect[board] => protect'[board]
          BY <1>1, <2>2 DEF Cleanly
      <3>2. Stage(Now) \in {2, 4, 5} /\ (Stage(Now) = 2 => Now.test = "io")
          BY <1>1, <1>3, <2>2, StageOf DEF Tests
      <3>3. Stage(Now) = 5 => ~Has(todo, 4)
          BY <1>2
      <3> QED
          BY <1>4, <3>1, <3>2, <3>3
    <2>3. Now.test # "done"
      <3>1. \A o \in Ops : o.test # "done"
          BY DEF Ops, Plain, Senses, Measures, Do, Tests
      <3> QED
          BY <1>1, <3>1
    <2> QED
        BY <1>1, <2>1, <2>2, <2>3 DEF QuietInv, LeftQuiet
  <1>8. CASE Dies
      BY <1>8 DEF Dies, QuietInv, LeftQuiet, Tests
  <1> QED
      BY <1>1, <1>6, <1>7, <1>8 DEF Comes

-----------------------------------------------------------------------------
(* The operations of a submenu.                                            *)

LEMMA SubOperation ==
    ASSUME SessionInv, Operation, choice \in DOMAIN Submenu
    PROVE  /\ phase = "busy" /\ todo # <<>> /\ bad' = bad /\ board' = board
           /\ todo' \in {Tail(todo), <<>>} /\ choice' = choice /\ archive' = archive
           /\ temp' \in {temp, NewLog}
           /\ UNCHANGED <<phase, result>> \/ (phase' = "off" /\ result' = "died" /\ todo' = <<>>)
  <1>1. phase = "busy" /\ todo # <<>>
      BY DEF Operation, At, WriteProg, AllTest, SetLog, Calib, E2pBase, RadioTest,
             CarrierSense, SetAddr, ShortAddr
  <1>2. Now \in Ops /\ Stage(Now) \in {3, 5, 7} /\ board \in Boards /\ BenchTypes
    <2>1. todo \in Seq(Ops) /\ \A i \in 1..Len(todo) : Stage(todo[i]) \in {3, 5, 7}
        BY <1>1 DEF SessionInv, InOrder, ProgramTypes
    <2>2. 1 \in 1..Len(todo) /\ Now = todo[1]
        BY <1>1, <2>1 DEF Now
    <2> QED
        BY <2>1, <2>2 DEF SessionInv, LabelInv, LabelTypes
  <1>3. Now.do \in {"setlog", "measure", "sense", "base", "calibration", "setaddr"}
      BY <1>2, StageOf
  <1>4. \A ok \in BOOLEAN : Ends(ok) => todo' \in {Tail(todo), <<>>} /\ UNCHANGED <<phase, result, choice>>
      BY EndsOutcome
  <1>5. \A ok \in BOOLEAN : \A says, sure : Log(ok, says, sure) => UNCHANGED <<temp, archive>>
      BY LogOutcome DEF logVars
  <1>6. CASE SetLog
      BY <1>1, <1>4, <1>6 DEF SetLog, boardVars
  <1>7. CASE Calib
    <2>1. \E ok \in BOOLEAN : \E says, sure : Ends(ok) /\ Log(ok, says, sure)
        BY <1>7 DEF Calib, Own
    <2> QED
        BY <1>1, <1>4, <1>5, <1>7, <2>1 DEF Calib
  <1>8. CASE E2pBase
      BY <1>1, <1>4, <1>8 DEF E2pBase, logVars
  <1>9. CASE RadioTest
    <2>1. \A r : Verdicts(r) \subseteq BOOLEAN
      <3>1. Now \in Measures
          BY <1>2, <1>9, StageOf DEF RadioTest, At
      <3>2. Now.silence \in {"pass", "fail", "either"} /\ Now.other \in {"pass", "fail", "either", "own"}
          BY <3>1 DEF Measures
      <3> QED
          BY <3>2 DEF Verdicts, Own
    <2>2. \E lost : \E ok \in IF "frames" \in lost THEN {FALSE} ELSE Verdicts(During(lost)) :
             Ends(ok) /\ Log(ok, "PASS", lost = {})
        BY <1>9 DEF RadioTest
    <2>3. \E ok \in BOOLEAN : \E says, sure : Ends(ok) /\ Log(ok, says, sure)
        BY <2>1, <2>2
    <2> QED
        BY <1>1, <1>4, <1>5, <1>9, <2>3 DEF RadioTest
  <1>10. CASE CarrierSense
    <2>1. heard' \in BOOLEAN
        BY <1>2, <1>10 DEF CarrierSense, Own, BenchTypes
    <2>2. Ends(heard') /\ \E sure : Log(heard', "PASS", sure)
        BY <1>10 DEF CarrierSense
    <2> QED
        BY <1>1, <1>4, <1>5, <1>10, <2>1, <2>2 DEF CarrierSense
  <1>11. CASE SetAddr
    <2>1. \/ Ends(TRUE) /\ UNCHANGED logVars
          \/ Dies /\ UNCHANGED logVars
        BY <1>3, <1>11 DEF SetAddr
    <2> QED
        BY <1>1, <1>4, <1>11, <2>1 DEF SetAddr, Dies, logVars
  <1> QED
      BY <1>3, <1>6, <1>7, <1>8, <1>9, <1>10, <1>11
         DEF Operation, WriteProg, AllTest, ShortAddr, At

LEMMA SubKept ==
    ASSUME SessionInv, Operation, choice \in DOMAIN Submenu
    PROVE  /\ ProgramTypes' /\ InOrder' /\ LogInv' /\ LogMeansGood'
           /\ FailureInv' /\ QuietInv' /\ LeftQuiet'
  <1>1. /\ phase = "busy" /\ todo # <<>> /\ bad' = bad /\ board' = board
        /\ todo' \in {Tail(todo), <<>>} /\ choice' = choice /\ archive' = archive
        /\ temp' \in {temp, NewLog}
        /\ UNCHANGED <<phase, result>> \/ (phase' = "off" /\ result' = "died" /\ todo' = <<>>)
      BY SubOperation
  <1>2. /\ todo \in Seq(Ops) /\ \A i \in 1..Len(todo) : Stage(todo[i]) \in {3, 5, 7}
        /\ temp \in Logs /\ archive \in Logs /\ choice \in Choices
      BY <1>1 DEF SessionInv, ProgramTypes, InOrder
  <1>3. /\ Tail(todo) \in Seq(Ops)
        /\ \A i \in 1..Len(Tail(todo)) : Stage(Tail(todo)[i]) \in {3, 5, 7}
      BY <1>1, <1>2, Sequels
  <1>4. todo' \in Seq(Ops) /\ \A i \in 1..Len(todo') : Stage(todo'[i]) \in {3, 5, 7}
    <2>1. CASE todo' = Tail(todo)
        BY <1>3, <2>1
    <2>2. CASE todo' = <<>>
        BY <2>2
    <2> QED
        BY <1>1, <2>1, <2>2
  <1>5. ProgramTypes'
    <2>1. NewLog \in Logs
        BY <1>2 DEF NewLog, Logs
    <2> QED
        BY <1>1, <1>2, <1>4, <2>1, OperationBench DEF ProgramTypes
  <1>6. InOrder'
      BY <1>1, <1>4 DEF InOrder
  <1>7. LogInv' /\ QuietInv'
      BY <1>1 DEF LogInv, QuietInv
  <1>8. LogMeansGood'
      BY <1>1 DEF SessionInv, LogMeansGood
  <1>9. FailureInv' /\ LeftQuiet'
    <2>1. result' \notin Tests
        BY <1>1 DEF SessionInv, FailureInv, Tests
    <2>2. phase' \notin {"menu", "prompt"}
        BY <1>1
    <2> QED
        BY <2>1, <2>2 DEF FailureInv, FailureIsDefect, LeftQuiet
  <1> QED
      BY <1>5, <1>6, <1>7, <1>8, <1>9

-----------------------------------------------------------------------------
(* The menu, the operator and the kills.                                   *)

\* A choice begins.
LEMMA BeginKept ==
    ASSUME SessionInv, NEW c \in Choices, Begin(c)
    PROVE  /\ BenchTypes' /\ ProgramTypes' /\ InOrder' /\ LogInv' /\ LogMeansGood'
           /\ FailureInv' /\ QuietInv' /\ LeftQuiet'
  <1>1. /\ UNCHANGED <<bad, board, programmed, addr, protect, radio, heard, temp, archive, sink, faults>>
        /\ phase' = "busy" /\ choice' = c /\ todo' = Choice[c] /\ result' = "none" /\ clean' = TRUE
      BY DEF Begin, boardVars, logVars
  <1>2. /\ Staged(Choice[c], 1, 6)
        /\ Has(Choice[c], 3) \/ \A i \in 1..Len(Choice[c]) : Stage(Choice[c][i]) < 3
        /\ c \in {"1", "2", "4", "20"} => Has(Choice[c], 4)
        /\ c \notin {"12", "13"} =>
                Has(Choice[c], 1) \/ Has(Choice[c], 2) \/ Has(Choice[c], 5)
        /\ c \in DOMAIN Submenu => Staged(Choice[c], 3, 3)
      BY ChoicesStaged
  <1>3. /\ Choice[c] \in Seq(Ops)
        /\ c \in DOMAIN Submenu => \A i \in 1..Len(Choice[c]) : Stage(Choice[c][i]) \in {3, 5, 7}
      BY <1>2 DEF Staged
  <1>4. BenchTypes' /\ ProgramTypes'
      BY <1>1, <1>3 DEF SessionInv, BenchTypes, ProgramTypes
  <1>5. InOrder'
      BY <1>1, <1>2, <1>3 DEF InOrder
  <1>6. LogInv'
    <2>1. \A o \in Judged(c) : o \in Range(Choice[c])
        BY DEF Judged
    <2>2. ~Has(Choice[c], 3) => ~\E i \in 1..Len(Choice[c]) : Stage(Choice[c][i]) > 3
      <3> SUFFICES ASSUME ~Has(Choice[c], 3), NEW i \in 1..Len(Choice[c]), Stage(Choice[c][i]) > 3
                   PROVE FALSE
          OBVIOUS
      <3>1. Stage(Choice[c][i]) < 3 /\ Stage(Choice[c][i]) \in 1..6
          BY <1>2 DEF Staged
      <3> QED
          BY <3>1
    <2> QED
        BY <1>1, <2>1, <2>2 DEF LogInv
  <1>7. LogMeansGood'
      BY <1>1 DEF SessionInv, LogMeansGood
  <1>8. FailureInv' /\ LeftQuiet'
      BY <1>1 DEF FailureInv, FailureIsDefect, LeftQuiet, Tests
  <1>9. QuietInv'
      BY <1>1, <1>2 DEF QuietInv, Submenu
  <1> QED
      BY <1>4, <1>5, <1>6, <1>7, <1>8, <1>9

\* The program at a menu or prompt, or off.
LEMMA MenusKept ==
    ASSUME SessionInv, Done \/ Start \/ LeaveMenu \/ Swap \/ Shutdown \/ Pick
    PROVE  /\ BenchTypes' /\ ProgramTypes' /\ InOrder' /\ LogInv' /\ LogMeansGood'
           /\ FailureInv' /\ QuietInv' /\ LeftQuiet'
  <1> USE DEF boardVars, logVars, history
  <1>1. /\ BenchTypes /\ ProgramTypes /\ InOrder /\ LogMeansGood /\ FailureInv /\ QuietInv /\ LeftQuiet
      BY DEF SessionInv
  <1>2. BenchTypes'
    <2>0. board \in Boards /\ radio \in Radios
        BY <1>1 DEF SessionInv, LabelInv, LabelTypes, BenchTypes
    <2>1. radio' = radio \/ radio' = Silent
        BY DEF Done, Start, LeaveMenu, Swap, Shutdown, Pick
    <2>2. radio' \in Radios
        BY <1>1, <2>0, <2>1, RadiosClosed
    <2>3. heard' = heard \/ heard' = FALSE
        BY DEF Done, Start, LeaveMenu, Swap, Shutdown, Pick
    <2>4. heard' \in BOOLEAN
        BY <1>1, <2>3, Zenon DEF BenchTypes
    <2>5. UNCHANGED <<bad, programmed, protect>>
        BY DEF Done, Start, LeaveMenu, Swap, Shutdown, Pick
    <2> QED
        BY <1>1, <2>2, <2>4, <2>5 DEF BenchTypes
  <1>3. LogMeansGood'
      BY <1>1 DEF LogMeansGood, Done, Start, LeaveMenu, Swap, Shutdown, Pick
  <1>4. CASE Pick
    <2>1. /\ UNCHANGED <<bad, board, programmed, addr, protect, radio, temp, archive>>
          /\ UNCHANGED <<choice, result, clean, faults>>
          /\ phase = "submenu" /\ phase' = "busy" /\ todo' \in Submenu[choice]
        BY <1>4 DEF Pick
    <2>2. choice \in DOMAIN Submenu
        BY <1>1, <2>1 DEF InOrder
    <2>3. todo' \in Seq(Ops) /\ \A i \in 1..Len(todo') : Stage(todo'[i]) \in {5, 7}
        BY <2>1, <2>2, SubmenusStaged
    <2>4. ProgramTypes' /\ InOrder'
        BY <1>1, <2>1, <2>2, <2>3 DEF ProgramTypes, InOrder
    <2>5. LogInv' /\ QuietInv' /\ LeftQuiet'
        BY <2>1, <2>2 DEF LogInv, QuietInv, LeftQuiet
    <2>6. FailureInv'
        BY <1>1, <2>1 DEF FailureInv, FailureIsDefect
    <2> QED
        BY <1>2, <1>3, <2>4, <2>5, <2>6
  <1>5. CASE Done \/ Start \/ LeaveMenu \/ Swap \/ Shutdown
    <2>1. /\ UNCHANGED <<temp, archive, choice, todo, clean, faults>>
          /\ phase' \in {"off", "menu", "prompt", "submenu"}
          /\ phase' = "submenu" => choice \in DOMAIN Submenu
        BY <1>5 DEF Done, Start, LeaveMenu, Swap, Shutdown
    <2>2. ProgramTypes' /\ InOrder' /\ LogInv' /\ QuietInv'
        BY <1>1, <2>1 DEF ProgramTypes, InOrder, LogInv, QuietInv
    <2>3. ASSUME result' = "none" PROVE FailureInv' /\ LeftQuiet'
        BY <2>3 DEF FailureInv, FailureIsDefect, LeftQuiet, Tests
    <2>4. ASSUME Done PROVE FailureInv' /\ LeftQuiet'
      <3>1. /\ phase = "busy" /\ todo = <<>> /\ result' = "done" /\ "done" \notin Tests
            /\ UNCHANGED <<bad, board, programmed, addr, protect, radio>>
          BY <2>4 DEF Done, Tests
      <3>2. \A n : ~Has(todo, n)
          BY <3>1 DEF Has
      <3>3. choice \in DOMAIN Submenu => phase' \notin {"menu", "prompt"}
          BY <2>4 DEF Done, Repeated, Submenu
      <3>4. LeftQuiet'
          BY <1>1, <2>1, <3>1, <3>2, <3>3 DEF QuietInv, LeftQuiet
      <3> QED
          BY <3>1, <3>4 DEF FailureInv, FailureIsDefect
    <2>5. ASSUME LeaveMenu PROVE FailureInv' /\ LeftQuiet'
      <3>1. /\ phase \in {"prompt", "submenu"} /\ phase' = "menu" /\ result' = result
            /\ UNCHANGED <<bad, board, programmed, addr, protect, radio>>
          BY <2>5 DEF LeaveMenu
      <3>2. choice \in DOMAIN Submenu \/ phase = "prompt"
          BY <1>1, <3>1 DEF InOrder
      <3>3. DOMAIN Submenu = {"12", "13"}
          BY DEF Submenu
      <3> QED
          BY <1>1, <2>1, <3>1, <3>2, <3>3 DEF FailureInv, FailureIsDefect, LeftQuiet
    <2>6. Done \/ LeaveMenu \/ result' = "none"
        BY <1>5 DEF Start, Swap, Shutdown
    <2> QED
        BY <1>2, <1>3, <2>2, <2>3, <2>4, <2>5, <2>6
  <1> QED
      BY <1>4, <1>5

LEMMA KillSafe ==
    ASSUME SessionInv, Kill
    PROVE  /\ BenchTypes' /\ ProgramTypes' /\ InOrder' /\ LogInv' /\ LogMeansGood'
           /\ FailureInv' /\ QuietInv' /\ LeftQuiet'
  <1> USE DEF logVars, Fault
  <1>1. /\ phase = "busy" /\ todo # <<>> /\ todo \in Seq(Ops) /\ Now \in Ops /\ board \in Boards
        /\ BenchTypes /\ ProgramTypes /\ LogMeansGood
    <2>1. phase = "busy" /\ todo # <<>>
        BY DEF Kill
    <2> QED
        BY <2>1, Sequels DEF SessionInv, ProgramTypes, LabelInv, LabelTypes, Now
  <1>2. /\ phase' = "off" /\ todo' = <<>> /\ result' = "none" /\ clean' = FALSE /\ faults' = faults + 1
        /\ UNCHANGED <<bad, board, heard, temp, archive, choice>>
      BY DEF Kill
  <1>3. programmed' \in [Boards -> BOOLEAN]
      BY <1>1 DEF Kill, BenchTypes
  <1>4. protect' \in [Boards -> BOOLEAN]
    <2>1. \E p : p \in BOOLEAN /\ Leave(p)
        BY <1>1 DEF Kill, BenchTypes
    <2> QED
        BY <1>1, <2>1 DEF Leave, BenchTypes
  <1>5. radio' \in Radios
    <2>1. CASE At("measure")
      <3>1. Now \in Measures
          BY <1>1, <2>1, StageOf DEF At
      <3>2. During({}) \in Radios /\ radio \in Radios
          BY <1>1, <3>1, RadiosClosed DEF BenchTypes
      <3> QED
          BY <3>2 DEF Kill
    <2>2. CASE ~At("measure")
        BY <1>1, <2>2 DEF Kill, BenchTypes
    <2> QED
        BY <2>1, <2>2
  <1>6. BenchTypes'
      BY <1>1, <1>2, <1>3, <1>4, <1>5 DEF BenchTypes
  <1>7. ProgramTypes'
    <2>1. <<>> \in Seq(Ops)
        OBVIOUS
    <2>2. clean' \in BOOLEAN
        BY <1>2, Zenon
    <2>3. faults' \in Nat
        BY <1>1, <1>2 DEF ProgramTypes
    <2> QED
        BY <1>1, <1>2, <2>1, <2>2, <2>3 DEF ProgramTypes
  <1>8. InOrder' /\ LogInv' /\ QuietInv' /\ LeftQuiet' /\ FailureInv'
      BY <1>2 DEF InOrder, LogInv, QuietInv, LeftQuiet, FailureInv, FailureIsDefect, Tests
  <1>9. LogMeansGood'
      BY <1>1, <1>2 DEF LogMeansGood
  <1> QED
      BY <1>6, <1>7, <1>8, <1>9

-----------------------------------------------------------------------------

LEMMA InitSafe == Init => SessionInv
  <1> SUFFICES ASSUME Init PROVE SessionInv
      OBVIOUS
  <1> USE DEF Init
  <1>1. LabelInv
      BY DEF LabelInv, LabelTypes, AddressKept, Addresses, Blank
  <1>2. BenchTypes
    <2>1. bad \in [Boards -> SUBSET Tests]
        BY SessionAssumption
    <2>2. programmed \in [Boards -> BOOLEAN] /\ protect \in [Boards -> BOOLEAN]
        OBVIOUS
    <2>3. radio \in Radios
        BY DEF Silent, Radios
    <2>4. heard \in BOOLEAN
        BY Zenon
    <2> QED
        BY <2>1, <2>2, <2>3, <2>4 DEF BenchTypes
  <1>3. ProgramTypes
    <2>1. "1" \in Choices /\ <<>> \in Seq(Ops)
        BY DEF Choices
    <2> QED
        BY <2>1 DEF ProgramTypes, NoLog, Logs
  <1>4. InOrder /\ LogInv /\ LogMeansGood /\ QuietInv
      BY DEF InOrder, LogInv, LogMeansGood, QuietInv
  <1>5. FailureInv /\ LeftQuiet
      BY DEF FailureInv, FailureIsDefect, LeftQuiet, Tests
  <1> QED
      BY <1>1, <1>2, <1>3, <1>4, <1>5 DEF SessionInv

\* The labels' part, which is inductive by itself.
LEMMA LabelKept == ASSUME LabelInv, [Next]_vars PROVE LabelInv'
  BY SetAddrKept, CalibKept, E2pBaseKept, KillKept, OthersKept DEF Next, Operation, Operator

\* The inductive invariant.
THEOREM SessionInductive == Spec => []SessionInv
  <1>1. ASSUME SessionInv, [Next]_vars PROVE SessionInv'
    <2>0. LabelInv'
        BY <1>1, LabelKept DEF SessionInv
    <2>1. CASE Operation /\ choice \notin DOMAIN Submenu
        BY <1>1, <2>0, <2>1, OperationBench, MainProgram, MainLogInv, MainArchive, MainFailure, MainQuiet
           DEF SessionInv
    <2>2. CASE Operation /\ choice \in DOMAIN Submenu
        BY <1>1, <2>0, <2>2, OperationBench, SubKept DEF SessionInv
    <2>3. CASE Choose \/ Again
      <3>1. \E c \in Choices : Begin(c)
          BY <1>1, <2>3 DEF Choose, Again, SessionInv, ProgramTypes
      <3> QED
          BY <1>1, <2>0, <3>1, BeginKept DEF SessionInv
    <2>4. CASE Done \/ Start \/ LeaveMenu \/ Swap \/ Shutdown \/ Pick
        BY <1>1, <2>0, <2>4, MenusKept DEF SessionInv
    <2>5. CASE Kill
        BY <1>1, <2>0, <2>5, KillSafe DEF SessionInv
    <2>6. CASE UNCHANGED vars
      <3>1. UNCHANGED <<bad, board, programmed, addr, protect, radio, heard, temp, archive, sink,
                        phase, choice, todo, result, clean, faults>>
          BY <2>6 DEF vars, boardVars, logVars, programVars, history
      <3>2. BenchTypes' /\ ProgramTypes' /\ InOrder' /\ FailureInv' /\ LeftQuiet' /\ QuietInv'
          BY <1>1, <3>1 DEF SessionInv, BenchTypes, ProgramTypes, InOrder, FailureInv, FailureIsDefect,
                            LeftQuiet, QuietInv
      <3>3. LogInv' /\ LogMeansGood'
        <4>1. \A o : Passed(o)' <=> Passed(o)
            BY <3>1 DEF Passed
        <4> QED
            BY <1>1, <3>1, <4>1 DEF SessionInv, LogInv, LogMeansGood
      <3> QED
          BY <2>0, <3>2, <3>3 DEF SessionInv
    <2> QED
        BY <1>1, <2>1, <2>2, <2>3, <2>4, <2>5, <2>6 DEF Next, Operator
  <1> QED
      BY <1>1, InitSafe, PTL DEF Spec

\* A stored log is of one board, has a PASS of every test of its choice (of the
\* calibration a PASS or a warning), and means that the board is good in each test
\* of which no command was lost.
THEOREM LogsMeanGood == Spec => []LogMeansGood
  <1>1. SessionInv => LogMeansGood
      BY DEF SessionInv
  <1> QED
      BY <1>1, SessionInductive, PTL

\* Without a fault a test fails only a board that is defective in it, that has no
\* program, or, in the calibration, that has no address yet.
THEOREM FailuresAreDefects == Spec => []FailureIsDefect
  <1>1. SessionInv => FailureIsDefect
      BY DEF SessionInv, FailureInv
  <1> QED
      BY <1>1, SessionInductive, PTL

\* A choice that has ended or failed without a fault leaves the transmitter off and
\* the EEPROM protected.
THEOREM BoardsLeftQuiet == Spec => []LeftQuiet
  <1>1. SessionInv => LeftQuiet
      BY DEF SessionInv
  <1> QED
      BY <1>1, SessionInductive, PTL

-----------------------------------------------------------------------------
(* The types, and the file that $log writes to.                            *)

Bounds ==
    /\ bad \in Defects
    /\ faults \in 0..MaxFaults /\ choices \in 0..MaxChoices
    /\ result \in Tests \cup {"none", "done", "died", "write"}

\* In a submenu the log is set up before any test.
SinkInv ==
    /\ sink \in {"none", "temp", "archive"}
    /\ sink = "temp" => temp.choice # "none"
    /\ sink = "archive" => archive.board # NoBoard
    /\ phase = "submenu" => sink = "temp"
    /\ phase # "busy" => todo = <<>>
    /\ phase = "busy" /\ choice \in DOMAIN Submenu =>
         IF Has(todo, 3) THEN Len(todo) = 1 ELSE sink = "temp"

LEMMA BoundsKept == ASSUME SessionInv, Bounds, [Next]_vars PROVE Bounds'
  <1> USE DEF Bounds
  <1>1. bad' = bad /\ choices' \in 0..MaxChoices /\ faults' \in 0..MaxFaults
    <2>0. /\ choices \in 0..MaxChoices /\ faults \in 0..MaxFaults /\ MaxChoices \in Nat /\ MaxFaults \in Nat
        BY SessionAssumption
    <2>1. bad' = bad
        BY DEF Next, Operation, Operator, WriteProg, AllTest, SetLog, Calib, E2pBase, RadioTest,
               CarrierSense, SetAddr, ShortAddr, Done, Start, Choose, Again, Begin, Pick, LeaveMenu,
               Swap, Shutdown, Kill, boardVars, vars
    <2>2. \/ UNCHANGED <<faults, choices>>
          \/ faults < MaxFaults /\ faults' = faults + 1 /\ UNCHANGED choices
          \/ choices < MaxChoices /\ choices' = choices + 1 /\ UNCHANGED faults
      <3>1. CASE Operation
        <4>1. Fine \/ Fault \/ UNCHANGED history
          <5>1. CASE WriteProg \/ AllTest \/ SetLog \/ RadioTest \/ CarrierSense
              BY <5>1 DEF WriteProg, AllTest, SetLog, RadioTest, CarrierSense
          <5>2. CASE Calib \/ E2pBase \/ SetAddr \/ ShortAddr
              BY <5>2 DEF Calib, E2pBase, SetAddr, ShortAddr
          <5> QED
              BY <3>1, <5>1, <5>2 DEF Operation
        <4> QED
            BY <4>1 DEF Fine, Fault, history
      <3>2. CASE Done \/ Operator \/ UNCHANGED vars
          BY <3>2 DEF Operator, Done, Start, Choose, Again, Begin, Pick, LeaveMenu,
                      Swap, Shutdown, Kill, Fault, history, vars
      <3> QED
          BY <3>1, <3>2 DEF Next
    <2> QED
        BY <2>0, <2>1, <2>2
  <1>2. result' \in Tests \cup {"none", "done", "died", "write"}
    <2>1. CASE Operation /\ choice \notin DOMAIN Submenu
      <3>1. Comes /\ phase = "busy" /\ todo # <<>>
          BY <2>1, MainOperation
      <3>2. Now \in Ops /\ Stage(Now) \in 1..6
          BY <2>1, <3>1, InOperation
      <3>3. CASE Succeeds \/ Dies
          BY <3>3 DEF Succeeds, Dies
      <3>4. CASE Fails
        <4>1. Stage(Now) \notin {3, 6}
          <5>1. SetLog => Ends(TRUE)
              BY DEF SetLog
          <5>2. SetAddr => Ends(TRUE) \/ Dies
              BY DEF SetAddr
          <5>3. ShortAddr => Ends(TRUE) \/ Dies
              BY DEF ShortAddr
          <5>4. ~Ends(TRUE) /\ ~Dies
              BY <2>1, <3>1, <3>4, EndsOutcome DEF Fails, Succeeds, Dies
          <5>5. WriteProg \/ AllTest \/ Calib \/ E2pBase \/ RadioTest \/ CarrierSense
              BY <2>1, <5>1, <5>2, <5>3, <5>4 DEF Operation
          <5>6. Now.do \in {"write", "io", "calib", "calibration", "base", "measure", "sense"}
              BY <5>5 DEF WriteProg, AllTest, Calib, E2pBase, RadioTest, CarrierSense, At
          <5> QED
              BY <3>2, <5>6, StageOf
        <4> QED
            BY <3>2, <3>4, <4>1, StageOf DEF Fails, Tests
      <3> QED
          BY <3>1, <3>3, <3>4 DEF Comes
    <2>2. CASE Operation /\ choice \in DOMAIN Submenu
        BY <2>2, SubOperation
    <2>3. CASE Done \/ Operator \/ UNCHANGED vars
        BY <2>3 DEF Operator, Done, Start, Choose, Again, Begin, Pick, LeaveMenu,
                    Swap, Shutdown, Kill, vars, programVars
    <2> QED
        BY <2>1, <2>2, <2>3 DEF Next
  <1> QED
      BY <1>1, <1>2

LEMMA SinkKept == ASSUME SessionInv, SinkInv, [Next]_vars PROVE SinkInv'
  <1>0. /\ temp \in Logs /\ archive \in Logs /\ choice \in Choices /\ todo \in Seq(Ops)
        /\ board \in Boards /\ NoBoard \notin Boards /\ "none" \notin Choices
      BY SessionAssumption DEF SessionInv, ProgramTypes, LabelInv, LabelTypes, Choices
  <1>1. CASE Operation /\ choice \notin DOMAIN Submenu
    <2>1. /\ Comes /\ phase = "busy" /\ choice' = choice /\ phase' # "submenu"
          /\ phase' = "busy" \/ todo' = <<>>
        BY <1>1, MainOperation DEF Comes, Succeeds, Fails, Dies
    <2>2. CASE UNCHANGED logVars
        BY <1>1, <2>1, <2>2 DEF SinkInv, logVars
    <2>3. CASE temp' = NewLog /\ sink' = "temp"
        BY <1>0, <1>1, <2>1, <2>3 DEF SinkInv, NewLog
    <2>4. ASSUME NEW says, NEW sure, Logged(says, sure) PROVE SinkInv'
        BY <1>0, <1>1, <2>1, <2>4 DEF SinkInv, Logged, Logs
    <2>5. CASE Store
        BY <1>0, <1>1, <2>1, <2>5 DEF SinkInv, Store, Logs
    <2> QED
        BY <2>1, <2>2, <2>3, <2>4, <2>5 DEF Comes
  <1>2. CASE Operation /\ choice \in DOMAIN Submenu
    <2>1. /\ phase = "busy" /\ todo # <<>> /\ board' = board
          /\ todo' \in {Tail(todo), <<>>} /\ choice' = choice /\ archive' = archive
          /\ UNCHANGED phase \/ (phase' = "off" /\ todo' = <<>>)
        BY <1>2, SubOperation
    <2>2. CASE SetLog
      <3>1. temp' = NewLog /\ sink' = "temp"
          BY <2>2 DEF SetLog
      <3>2. todo' = Tail(todo)
          BY <2>2 DEF SetLog, Ends
      <3>3. ~Has(Tail(todo), 3)
        <4>1. Has(todo, 3)
            BY <1>0, <2>1, <2>2, Sequels, StageOf DEF SetLog, At, Now
        <4>2. Len(Tail(todo)) = 0
            BY <1>0, <1>2, <2>1, <4>1 DEF SinkInv
        <4> QED
            BY <4>2 DEF Has
      <3> QED
          BY <1>0, <2>1, <3>1, <3>2, <3>3 DEF SinkInv, NewLog
    <2>3. CASE ~SetLog
      <3>1. Now \in Ops /\ Stage(Now) \in {3, 5, 7} /\ Now = Head(todo)
        <4>1. \A i \in 1..Len(todo) : Stage(todo[i]) \in {3, 5, 7}
            BY <1>2, <2>1 DEF SessionInv, InOrder
        <4>2. 1 \in 1..Len(todo) /\ Now = todo[1]
            BY <1>0, <2>1 DEF Now
        <4> QED
            BY <1>0, <4>1, <4>2 DEF Now
      <3>2. UNCHANGED <<temp, sink>> /\ Now.do # "setlog"
        <4>1. Calib \/ E2pBase \/ RadioTest \/ CarrierSense \/ SetAddr
            BY <1>2, <2>3, <3>1, StageOf DEF Operation, WriteProg, AllTest, ShortAddr, At
        <4>2. \A ok, says, sure : Log(ok, says, sure) => UNCHANGED <<temp, sink>>
            BY <1>2 DEF Log
        <4>3. Now.do \in {"calib", "calibration", "base", "measure", "sense", "barcode", "setaddr"}
            BY <4>1 DEF Calib, E2pBase, RadioTest, CarrierSense, SetAddr, At
        <4>4. Now.do # "barcode"
            BY <3>1, StageOf
        <4>5. CASE E2pBase \/ SetAddr
            BY <4>3, <4>4, <4>5 DEF E2pBase, SetAddr, logVars
        <4>6. CASE Calib \/ RadioTest \/ CarrierSense
          <5>1. \E ok, says, sure : Log(ok, says, sure)
            <6>1. Calib => \E ok, says, sure : Log(ok, says, sure)
                BY DEF Calib
            <6>2. RadioTest => \E ok, says, sure : Log(ok, says, sure)
                BY DEF RadioTest
            <6>3. CarrierSense => \E ok, says, sure : Log(ok, says, sure)
                BY DEF CarrierSense
            <6> QED
                BY <4>6, <6>1, <6>2, <6>3
          <5> QED
              BY <4>2, <4>3, <5>1
        <4> QED
            BY <4>1, <4>3, <4>5, <4>6
      <3>3. ~Has(todo, 3)
        <4>1. Stage(Now) # 3
            BY <3>1, <3>2, StageOf
        <4>2. Len(todo) = 1 => ~Has(todo, 3)
            BY <1>0, <2>1, <3>1, <4>1 DEF Has
        <4> QED
            BY <1>2, <2>1, <4>2 DEF SinkInv
      <3>4. ~Has(todo', 3)
        <4>1. ~Has(Tail(todo), 3)
            BY <1>0, <2>1, <3>3, Sequels
        <4>2. ~Has(<<>>, 3)
            BY DEF Has
        <4> QED
            BY <2>1, <4>1, <4>2
      <3> QED
          BY <1>2, <2>1, <3>2, <3>3, <3>4 DEF SinkInv
    <2> QED
        BY <2>2, <2>3
  <1>3. CASE Choose \/ Again
    <2>1. PICK c \in Choices : Begin(c)
        BY <1>0, <1>3 DEF Choose, Again
    <2>2. UNCHANGED <<temp, archive, sink>> /\ phase' = "busy" /\ choice' = c /\ todo' = Choice[c]
        BY <2>1 DEF Begin, logVars
    <2>3. ASSUME c \in DOMAIN Submenu PROVE Has(Choice[c], 3) /\ Len(Choice[c]) = 1
      <3>1. Choice[c] = <<Do("setlog")>>
          BY <2>3 DEF Choice, Choices, Submenu
      <3> QED
          BY <3>1, PartsHave
    <2> QED
        BY <2>2, <2>3 DEF SinkInv
  <1>4. CASE Pick
    <2>1. /\ UNCHANGED <<temp, archive, sink, choice>> /\ phase = "submenu" /\ phase' = "busy"
        BY <1>4 DEF Pick, logVars
    <2> QED
      <3>1. choice \in DOMAIN Submenu /\ todo' \in Submenu[choice]
          BY <1>4, <2>1 DEF Pick, SessionInv, InOrder
      <3>2. ~Has(todo', 3)
          BY <3>1, SubmenusStaged DEF Has
      <3> QED
          BY <2>1, <3>2 DEF SinkInv
  <1>5. CASE Done
    <2>1. /\ UNCHANGED <<temp, archive, sink>> /\ phase = "busy" /\ todo = <<>> /\ phase' # "busy"
          /\ UNCHANGED todo
          /\ phase' = "submenu" => choice \in DOMAIN Submenu
        BY <1>5 DEF Done, logVars
    <2>2. ~Has(todo, 3)
        BY <2>1 DEF Has
    <2> QED
        BY <2>1, <2>2 DEF SinkInv
  <1>6. CASE Start \/ LeaveMenu \/ Swap \/ Shutdown \/ Kill \/ UNCHANGED vars
    <2>1. /\ UNCHANGED <<temp, archive>> /\ sink' \in {sink, "none"}
          /\ \/ phase' \in {"off", "menu", "prompt"} /\ (todo' = <<>> \/ (UNCHANGED todo /\ phase # "busy"))
             \/ UNCHANGED <<phase, choice, todo, sink>>
        BY <1>6 DEF Start, LeaveMenu, Swap, Shutdown, Kill, logVars, vars, programVars
    <2> QED
        BY <2>1 DEF SinkInv
  <1> QED
      BY <1>1, <1>2, <1>3, <1>4, <1>5, <1>6 DEF Next, Operator

\* Every variable has its type, and what writes to the log finds it set up.
THEOREM SessionTypes == Spec => []TypeOK
  <1>1. Init => Bounds /\ SinkInv
      BY SessionAssumption DEF Init, Bounds, SinkInv
  <1>2. SessionInv /\ Bounds /\ SinkInv /\ [Next]_vars => Bounds' /\ SinkInv'
      BY BoundsKept, SinkKept
  <1>3. ASSUME SessionInv, Bounds, SinkInv PROVE TypeOK
    <2>1. /\ LabelTypes /\ BenchTypes /\ ProgramTypes
        BY <1>3 DEF SessionInv, LabelInv
    <2>2. (sink = "temp" => temp # NoLog) /\ (sink = "archive" => archive # NoLog)
        BY <1>3 DEF SinkInv, NoLog
    <2>3. \A l \in {temp, archive} : l.choice \in Choices \cup {"none"} /\ l.board \in Boards \cup {NoBoard}
        BY <2>1 DEF ProgramTypes, Logs
    <2>4. ASSUME todo # <<>>,
                 Now.do \in {"calib", "calibration", "measure", "sense", "barcode", "setaddr", "address"}
          PROVE  sink = "temp"
      <3>1. todo \in Seq(Ops) /\ Now \in Ops /\ Now = todo[1] /\ Len(todo) >= 1
          BY <2>1, <2>4 DEF ProgramTypes, Now
      <3>2. Stage(Now) > 3
          BY <2>4, <3>1, StageOf
      <3>3. CASE phase = "busy" /\ choice \notin DOMAIN Submenu
          BY <1>3, <2>4, <3>2, <3>3, LogIsSetUp
      <3>4. CASE phase = "busy" /\ choice \in DOMAIN Submenu
        <4>1. Len(todo) = 1 => ~Has(todo, 3)
            BY <3>1, <3>2 DEF Has
        <4> QED
            BY <1>3, <3>4, <4>1 DEF SinkInv
      <3>5. phase = "busy"
          BY <1>3, <2>4 DEF SinkInv
      <3> QED
          BY <3>3, <3>4, <3>5
    <2> QED
        BY <1>3, <2>1, <2>2, <2>3, <2>4
           DEF TypeOK, LabelTypes, BenchTypes, ProgramTypes, Bounds, SinkInv, Addresses, Radios
  <1> QED
      BY <1>1, <1>2, <1>3, SessionInductive, PTL DEF Spec
==============================================================================
