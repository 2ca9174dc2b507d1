--------------------------- MODULE BaudFlash_proofs ---------------------------
(***************************************************************************)
(* Theorems of BaudFlash, for every list of rates, every set of requested  *)
(* rates and every way a Flash word may be programmed that satisfies       *)
(* BaudAssumption.                                                         *)
(***************************************************************************)
EXTENDS BaudFlash, SequenceTheorems, TLAPS

\* A queue that loses its first n elements is still a queue of commands.
LEMMA DropType ==
    ASSUME NEW S, NEW s \in Seq(S), NEW n \in 0..Len(s)
    PROVE  SubSeq(s, n + 1, Len(s)) \in Seq(S)
  OBVIOUS

LEMMA RateWords ==
    ASSUME NEW b \in Targets \cup BaudList
    PROVE  Upper(b) \in Word /\ Lower(b) \in Word
  BY BaudAssumption DEF BaudAssumption

LEMMA Parameters ==
    /\ DefaultBaud \in BaudList
    /\ Targets \subseteq Nat /\ BaudList \subseteq Nat
    /\ MaxResets \in Nat
  BY BaudAssumption DEF BaudAssumption

\* What the board and the host hold has its type, in every reachable state.
THEOREM TypeCorrect == Spec => []TypeOK
<1>1. Init => TypeOK
  BY Parameters DEF Init, TypeOK, Booting, Up
<1>2. TypeOK /\ [Next]_vars => TypeOK'
  <2> SUFFICES ASSUME TypeOK, [Next]_vars PROVE TypeOK'
    OBVIOUS
  <2> USE DEF TypeOK, Booting, Up, Storing, fwVars, hostVars
  <2>1. ASSUME NEW a \in {0, 1}, NEW w \in Word, WriteWord(a, w)
        PROVE  flash' \in [{0, 1} -> Word]
    BY <2>1, BaudAssumption DEF BaudAssumption, WriteWord
  <2>2. ASSUME EraseSector PROVE flash' \in [{0, 1} -> Word]
    BY <2>2, BaudAssumption DEF BaudAssumption, EraseSector
  <2>3. ASSUME line # <<>>
        PROVE  Tail(line) \in Seq(Commands) /\ Head(line) \in Commands
    BY <2>3
  <2>4. ASSUME Restart PROVE pc' = "boot" /\ line' \in Seq(Commands)
    BY <2>4, DropType DEF Restart
  <2>5. ASSUME NEW c \in Commands, Send(c) PROVE line' \in Seq(Commands)
    BY <2>5 DEF Send
  <2>6. CASE BootRead
    BY <2>6, <2>2 DEF BootRead
  <2>7. CASE BootWriteUpper
    BY <2>7, <2>1, RateWords, Parameters DEF BootWriteUpper
  <2>8. CASE BootWriteLower
    BY <2>8, <2>1, RateWords, Parameters DEF BootWriteLower
  <2>9. CASE LoseLine
    BY <2>9, <2>3 DEF LoseLine
  <2>10. CASE Fer
    BY <2>10, <2>2, <2>3 DEF Fer, Receive
  <2>11. CASE Fwr
    <3>1. Head(line).address \in {0, 1} /\ Head(line).data \in Word
      BY <2>11, <2>3 DEF Fwr, Receive, Commands
    <3> QED
      BY <2>11, <2>1, <2>3, <3>1 DEF Fwr, Receive
  <2>12. CASE Sb
    BY <2>12, <2>2, <2>3 DEF Sb, Receive, CheckBaud
  <2>13. CASE SbWriteUpper
    BY <2>13, <2>1, RateWords DEF SbWriteUpper
  <2>14. CASE SbWriteLower
    BY <2>14, <2>1, RateWords DEF SbWriteLower
  <2>15. CASE Rst
    BY <2>15, <2>4 DEF Rst
  <2>16. CASE Disturb
    <3>1. resets' \in 0..MaxResets
      BY <2>16, Parameters DEF Disturb
    <3> QED
      BY <2>16, <2>4, <3>1 DEF Disturb
  <2>17. CASE BaudStart
    BY <2>17, <2>4 DEF BaudStart
  <2>18. CASE BaudGreeting
    BY <2>18 DEF BaudGreeting
  <2>19. CASE BaudErase
    BY <2>19, <2>5 DEF BaudErase, Commands
  <2>20. CASE BaudUpper
    <3>1. [op |-> "fwr", address |-> 0, data |-> Upper(target)] \in Commands
      BY RateWords, Parameters DEF Commands
    <3> QED
      BY <2>20, <2>5, <3>1 DEF BaudUpper
  <2>21. CASE BaudLower
    <3>1. [op |-> "fwr", address |-> 1, data |-> Lower(target)] \in Commands
      BY RateWords, Parameters DEF Commands
    <3> QED
      BY <2>21, <2>5, <3>1 DEF BaudLower
  <2>22. CASE OperatorSb
    <3>1. PICK b \in Targets : Send([op |-> "sb", baud |-> b]) /\ asked' = asked \cup {b}
      BY <2>22 DEF OperatorSb
    <3>2. [op |-> "sb", baud |-> b] \in Commands
      BY DEF Commands
    <3> QED
      BY <2>22, <2>5, <3>1, <3>2 DEF OperatorSb
  <2>23. CASE OperatorRst
    BY <2>23, <2>5 DEF OperatorRst, Commands
  <2>24. CASE UNCHANGED vars
    BY <2>24 DEF vars
  <2> QED
    BY <2>6, <2>7, <2>8, <2>9, <2>10, <2>11, <2>12, <2>13, <2>14, <2>15, <2>16, <2>17,
       <2>18, <2>19, <2>20, <2>21, <2>22, <2>23, <2>24 DEF Next, Firmware, Host
<1> QED
  BY <1>1, <1>2, PTL DEF Spec

-----------------------------------------------------------------------------
(* The inductive invariant of a clean baud() call: what the board has read *)
(* of the three commands decides what the Flash holds.                     *)

\* A host step that is not part of a clean call, and a reset, end it.
LEMMA CleanHost ==
    ASSUME TypeOK, CleanInv,
           Disturb \/ Rst \/ BaudStart \/ OperatorSb \/ OperatorRst
    PROVE  CleanInv'
  BY DEF CleanInv, Disturb, Rst, BaudStart, OperatorSb, OperatorRst

\* The firmware is up during a clean call, so it is in none of setup()'s or
\* sb()'s steps, and its rate is the host's.
LEMMA CleanBoot ==
    ASSUME TypeOK, CleanInv,
           \/ BootRead \/ BootWriteUpper \/ BootWriteLower \/ LoseLine
           \/ SbWriteUpper \/ SbWriteLower
    PROVE  CleanInv'
  BY DEF CleanInv, BootRead, BootWriteUpper, BootWriteLower, LoseLine, SbWriteUpper, SbWriteLower

\* Reading a command makes it the last one done.
LEMMA CleanTail ==
    ASSUME TypeOK, CleanInv, clean, line # <<>>,
           line' = Tail(line), host' = host, target' = target
    PROVE  /\ Done' = Done + 1
           /\ Done \in 0..2
           /\ Head(line) = Script(target, Done + 1)
           /\ \A i \in 1..Len(line') : line'[i] = Script(target, Done' + i)
<1> DEFINE n == Len(line)
<1>1. n \in Nat /\ n > 0 /\ line = [i \in 1..n |-> line[i]]
  BY DEF TypeOK
<1>2. Len(line') = n - 1 /\ Head(line) = line[1] /\ \A i \in 1..(n - 1) : line'[i] = line[i + 1]
  BY <1>1 DEF TypeOK
<1>3. Sent' = Sent /\ Sent \in 0..3
  BY DEF Sent
<1>4. Done' = Done + 1 /\ Done \in 0..2
  BY <1>1, <1>2, <1>3 DEF CleanInv, Done
<1>6. \A i \in 1..(n - 1) : line[i + 1] = Script(target, Done + (i + 1))
  BY <1>1 DEF CleanInv
<1>7. \A i \in 1..(n - 1) : Done + (i + 1) = Done' + i
  BY <1>4
<1>8. line[1] = Script(target, Done + 1)
  BY <1>1 DEF CleanInv
<1> QED
  BY <1>1, <1>2, <1>4, <1>6, <1>7, <1>8

\* Sending the next command of the script leaves what is done as it is.
LEMMA CleanAppend ==
    ASSUME TypeOK, CleanInv, clean, NEW c,
           line' = Append(line, c), Sent' = Sent + 1, c = Script(target, Sent + 1), target' = target
    PROVE  /\ Done' = Done
           /\ \A i \in 1..Len(line') : line'[i] = Script(target, Done' + i)
<1> DEFINE n == Len(line)
<1>1. n \in Nat /\ Len(line') = n + 1 /\ line'[n + 1] = c /\ \A i \in 1..n : line'[i] = line[i]
  BY DEF TypeOK
<1>2. Sent \in 0..3
  BY DEF Sent
<1>3. Done' = Done /\ Done \in Int /\ Done + (n + 1) = Sent + 1
  BY <1>1, <1>2 DEF Done
<1>5. \A i \in 1..n : line[i] = Script(target, Done + i)
  BY DEF CleanInv
<1>6. \A i \in 1..(n + 1) : i \in 1..n \/ i = n + 1
  BY <1>1
<1> QED
  BY <1>1, <1>3, <1>5, <1>6

\* In an undisturbed call the Flash holds what the commands read so far have
\* written, and the rest of the commands is still to come.
THEOREM CleanInductive == Spec => []CleanInv
<1>1. Init => CleanInv
  BY DEF Init, CleanInv
<1>2. TypeOK /\ CleanInv /\ [Next]_vars => CleanInv'
  <2> SUFFICES ASSUME TypeOK, CleanInv, [Next]_vars PROVE CleanInv'
    OBVIOUS
  <2>1. CASE Disturb \/ Rst \/ BaudStart \/ OperatorSb \/ OperatorRst
    BY <2>1, CleanHost
  <2>2. CASE \/ BootRead \/ BootWriteUpper \/ BootWriteLower \/ LoseLine
             \/ SbWriteUpper \/ SbWriteLower
    BY <2>2, CleanBoot
  <2>3. CASE Fer
    <3> SUFFICES ASSUME clean PROVE CleanInv'
      BY <2>3 DEF Fer, CleanInv
    <3>1. /\ line # <<>> /\ line' = Tail(line) /\ host' = host /\ target' = target
          /\ clean' = clean /\ pc' = pc /\ serialBaud' = serialBaud
          /\ Head(line).op = "fer"
      BY <2>3 DEF Fer, Receive, hostVars
    <3>2. /\ Done' = Done + 1 /\ Done \in 0..2 /\ Head(line) = Script(target, Done + 1)
          /\ \A i \in 1..Len(line') : line'[i] = Script(target, Done' + i)
      BY <3>1, CleanTail
    <3>3. Done = 0
      BY <3>1, <3>2 DEF Script
    <3>4. flash'[0] = Erased /\ flash'[1] = Erased
      BY <2>3 DEF Fer, EraseSector
    <3> QED
      BY <3>1, <3>2, <3>3, <3>4 DEF CleanInv, Stores
  <2>4. CASE Fwr
    <3> SUFFICES ASSUME clean PROVE CleanInv'
      BY <2>4 DEF Fwr, CleanInv
    <3>1. /\ line # <<>> /\ line' = Tail(line) /\ host' = host /\ target' = target
          /\ clean' = clean /\ pc' = pc /\ serialBaud' = serialBaud
          /\ Head(line).op = "fwr"
          /\ WriteWord(Head(line).address, Head(line).data)
      BY <2>4 DEF Fwr, Receive, hostVars
    <3>2. /\ Done' = Done + 1 /\ Done \in 0..2 /\ Head(line) = Script(target, Done + 1)
          /\ \A i \in 1..Len(line') : line'[i] = Script(target, Done' + i)
      BY <3>1, CleanTail
    <3>3. \A w \in Word : ProgramWord(Erased, w) = w
      BY BaudAssumption DEF BaudAssumption
    <3>4. Upper(target) \in Word /\ Lower(target) \in Word
      BY RateWords, Parameters DEF TypeOK
    <3>5. CASE Done = 1
      <4>1. Head(line).address = 0 /\ Head(line).data = Upper(target)
        BY <3>2, <3>5 DEF Script
      <4>2. flash'[0] = Upper(target) /\ flash'[1] = Erased
        BY <3>1, <3>3, <3>4, <3>5, <4>1 DEF WriteWord, CleanInv, TypeOK
      <4>3. Upper(target)' = Upper(target)
        BY <3>1 DEF Upper
      <4> QED
        BY <3>1, <3>2, <3>5, <4>2, <4>3 DEF CleanInv
    <3>6. CASE Done = 2
      <4>1. Head(line).address = 1 /\ Head(line).data = Lower(target)
        BY <3>2, <3>6 DEF Script
      <4>2. flash'[0] = Upper(target) /\ flash'[1] = Lower(target)
        BY <3>1, <3>3, <3>4, <3>6, <4>1 DEF WriteWord, CleanInv, TypeOK
      <4>3. Stores(target)'
        BY <3>1, <4>2 DEF Stores, Upper, Lower
      <4> QED
        BY <3>1, <3>2, <3>6, <4>3 DEF CleanInv
    <3>7. Done # 0
      BY <3>1, <3>2 DEF Script
    <3> QED
      BY <3>2, <3>5, <3>6, <3>7
  <2>5. CASE Sb
    <3> SUFFICES ASSUME clean PROVE FALSE
      BY <2>5 DEF Sb, CleanInv
    <3>1. line # <<>> /\ Head(line).op = "sb"
      BY <2>5 DEF Sb, Receive
    <3>2. Head(line) = line[1] /\ Len(line) \in Nat /\ Len(line) > 0
      BY <3>1 DEF TypeOK
    <3>3. Head(line) = Script(target, Done + 1) /\ Done \in 0..3
      BY <3>2 DEF CleanInv
    <3> QED
      BY <3>1, <3>3 DEF Script
  <2>6. CASE BaudGreeting
    <3> SUFFICES ASSUME clean' PROVE CleanInv'
      BY DEF CleanInv
    <3>1. /\ pc' = "run" /\ serialBaud' = HostBaud /\ line' = <<>> /\ host' = "fer"
      BY <2>6 DEF BaudGreeting, fwVars
    <3>2. Len(line') = 0 /\ Sent' = 0
      BY <3>1 DEF Sent
    <3>3. Done' = 0
      BY <3>2 DEF Done
    <3> QED
      BY <3>1, <3>2, <3>3 DEF CleanInv
  <2>7. CASE BaudErase \/ BaudUpper \/ BaudLower
    <3> SUFFICES ASSUME clean PROVE CleanInv'
      BY <2>7 DEF BaudErase, BaudUpper, BaudLower, CleanInv
    <3>1. PICK c : /\ line' = Append(line, c)
                   /\ Sent' = Sent + 1 /\ Sent \in 0..2 /\ c = Script(target, Sent + 1)
      <4>1. CASE BaudErase
        BY <4>1 DEF BaudErase, Send, Sent, Script
      <4>2. CASE BaudUpper
        BY <4>2 DEF BaudUpper, Send, Sent, Script
      <4>3. CASE BaudLower
        BY <4>3 DEF BaudLower, Send, Sent, Script
      <4> QED
        BY <2>7, <4>1, <4>2, <4>3
    <3>2. /\ host' # "greeting" /\ target' = target /\ clean' = clean
          /\ flash' = flash /\ pc' = pc /\ serialBaud' = serialBaud
      BY <2>7 DEF BaudErase, BaudUpper, BaudLower, fwVars
    <3>3. Done' = Done /\ \A i \in 1..Len(line') : line'[i] = Script(target, Done' + i)
      BY <3>1, <3>2, CleanAppend
    <3> QED
      BY <3>2, <3>3 DEF CleanInv, Stores, Upper, Lower
  <2>8. CASE UNCHANGED vars
    BY <2>8 DEF vars, CleanInv, Done, Sent, Script, Stores, Upper, Lower
  <2> QED
    BY <2>1, <2>2, <2>3, <2>4, <2>5, <2>6, <2>7, <2>8 DEF Next, Firmware, Host
<1> QED
  BY <1>1, <1>2, TypeCorrect, PTL DEF Spec

\* A baud() call nothing disturbed stores its argument although the host
\* looks at none of the board's answers.
THEOREM CleanCallsStore == Spec => []CleanCallStores
<1>1. TypeOK /\ CleanInv => CleanCallStores
  <2> SUFFICES ASSUME TypeOK, CleanInv, clean, host = "idle", line = <<>> PROVE Stores(target)
    BY DEF CleanCallStores
  <2>1. Done = 3
    BY DEF Done, Sent
  <2> QED
    BY <2>1 DEF CleanInv
<1> QED
  BY <1>1, TypeCorrect, CleanInductive, PTL

-----------------------------------------------------------------------------
(* No rate nobody asked for. The rates known so far are those asked for and *)
(* the default; every command on its way, and the Flash once setup() has    *)
(* looked at it, consist of parts of known rates.                           *)

Rates == Targets \cup BaudList
Known == asked \cup {DefaultBaud}

CommandsFor(A) ==
    {[op |-> "fer"], [op |-> "rst"]}
    \cup {[op |-> "fwr", address |-> 0, data |-> Upper(b)] : b \in A}
    \cup {[op |-> "fwr", address |-> 1, data |-> Lower(b)] : b \in A}
    \cup {[op |-> "sb", baud |-> b] : b \in A}

\* Both words are left by programming known rates, erased or not.
MadeOf(upper, lower, A) == flash[0] \in upper[A] /\ flash[1] \in lower[A]

\* What a board was shipped with counts as asked for.
Untouched == pc = "boot" /\ \A b \in BaudList : Stores(b) => b \in asked

KnownInv(upper, lower) ==
    /\ MadeOf(upper, lower, Known) \/ Untouched
    /\ line \in Seq(CommandsFor(Known))
    /\ arg \in Known /\ target \in Known

\* A rate's own words are among those its parts leave.
LEMMA OwnWords ==
    ASSUME NEW upper, NEW lower, WordsKeepApart(upper, lower),
           NEW A \in SUBSET Rates, NEW b \in A
    PROVE  Upper(b) \in upper[A] /\ Lower(b) \in lower[A]
<1>1. Upper(b) \in Word /\ Lower(b) \in Word
  BY RateWords DEF Rates
<1>2. ProgramWord(Erased, Upper(b)) = Upper(b) /\ ProgramWord(Erased, Lower(b)) = Lower(b)
  BY <1>1, BaudAssumption DEF BaudAssumption
<1>3. Erased \in upper[A] /\ Erased \in lower[A]
  BY DEF WordsKeepApart, Rates
<1>4. ProgramWord(Erased, Upper(b)) \in upper[A] /\ ProgramWord(Erased, Lower(b)) \in lower[A]
  BY <1>3 DEF WordsKeepApart, Rates
<1> QED
  BY <1>2, <1>4

\* Programming a part of a known rate, or erasing, keeps the words made of known ones.
LEMMA MadeByWriting ==
    ASSUME TypeOK, NEW upper, NEW lower, WordsKeepApart(upper, lower),
           NEW A \in SUBSET Rates, NEW b \in A, MadeOf(upper, lower, A),
           WriteWord(0, Upper(b)) \/ WriteWord(1, Lower(b))
    PROVE  MadeOf(upper, lower, A)'
<1>1. /\ ProgramWord(flash[0], Upper(b)) \in upper[A]
      /\ ProgramWord(flash[1], Lower(b)) \in lower[A]
  BY DEF WordsKeepApart, Rates, MadeOf
<1>2. flash \in [{0, 1} -> Word]
  BY DEF TypeOK
<1> QED
  BY <1>1, <1>2 DEF MadeOf, WriteWord

LEMMA MadeByErasing ==
    ASSUME NEW upper, NEW lower, WordsKeepApart(upper, lower),
           NEW A \in SUBSET Rates, EraseSector
    PROVE  MadeOf(upper, lower, A)'
<1>1. Erased \in upper[A] /\ Erased \in lower[A]
  BY DEF WordsKeepApart, Rates
<1>2. flash'[0] = Erased /\ flash'[1] = Erased
  BY DEF EraseSector
<1> QED
  BY <1>1, <1>2 DEF MadeOf

\* To ask for one more rate leaves everything made of known rates.
LEMMA KnownGrows ==
    ASSUME TypeOK, NEW upper, NEW lower, WordsKeepApart(upper, lower),
           KnownInv(upper, lower), asked \subseteq asked', asked' \subseteq Rates
    PROVE  /\ MadeOf(upper, lower, Known) => MadeOf(upper, lower, Known')
           /\ line \in Seq(CommandsFor(Known'))
           /\ arg \in Known' /\ target \in Known'
<1>1. Known \in SUBSET Rates /\ Known' \in SUBSET Rates /\ Known \subseteq Known'
  BY Parameters DEF TypeOK, Known, Rates
<1>2. upper[Known] \subseteq upper[Known'] /\ lower[Known] \subseteq lower[Known']
  BY <1>1 DEF WordsKeepApart, Rates
<1>3. CommandsFor(Known) \subseteq CommandsFor(Known')
  BY <1>1 DEF CommandsFor
<1>4. line \in Seq(CommandsFor(Known'))
  BY <1>3 DEF KnownInv
<1> QED
  BY <1>1, <1>2, <1>4 DEF KnownInv, MadeOf

\* Reading a line, or losing some, leaves commands for known rates.
LEMMA KnownLine ==
    ASSUME NEW C, line \in Seq(C)
    PROVE  /\ line # <<>> => Tail(line) \in Seq(C) /\ Head(line) \in C
           /\ Restart => pc' = "boot" /\ line' \in Seq(C)
           /\ \A c \in C : Send(c) => line' \in Seq(C)
<1>1. Restart => pc' = "boot" /\ line' \in Seq(C)
  BY DropType DEF Restart
<1> QED
  BY <1>1 DEF Send

\* Whatever the board stores, is about to store or is asked to store is made of
\* the parts of known rates.
THEOREM KnownInductive ==
    ASSUME NEW upper, NEW lower, WordsKeepApart(upper, lower)
    PROVE  Spec => []KnownInv(upper, lower)
<1>1. Init => KnownInv(upper, lower)
  BY DEF Init, KnownInv, Untouched, Known
<1>2. TypeOK /\ TypeOK' /\ KnownInv(upper, lower) /\ [Next]_vars => KnownInv(upper, lower)'
  <2> SUFFICES ASSUME TypeOK, TypeOK', KnownInv(upper, lower), [Next]_vars
               PROVE  KnownInv(upper, lower)'
    OBVIOUS
  <2> DEFINE C == CommandsFor(Known)
  <2>1. Known \in SUBSET Rates /\ DefaultBaud \in Known
    BY Parameters DEF TypeOK, Known, Rates
  <2>2. line \in Seq(C) /\ arg \in Known /\ target \in Known
    BY DEF KnownInv
  <2>3. asked' = asked => Known' = Known
    BY DEF Known
  <2>4. CASE BootRead
    <3>1. /\ asked' = asked /\ line' = line /\ arg' = arg /\ target' = target
      BY <2>4 DEF BootRead, hostVars
    <3>2. MadeOf(upper, lower, Known)'
      <4>1. CASE EraseSector
        BY <2>1, <2>3, <3>1, <4>1, MadeByErasing DEF MadeOf
      <4>2. CASE flash' = flash /\ \E b \in BaudList : Stores(b)
        <5>1. PICK b \in BaudList : Stores(b)
          BY <4>2
        <5>2. CASE Untouched
          <6>1. b \in Known
            BY <5>1, <5>2 DEF Untouched, Known
          <6> QED
            BY <2>1, <2>3, <3>1, <4>2, <5>1, <6>1, OwnWords DEF Stores, MadeOf
        <5>3. CASE MadeOf(upper, lower, Known)
          BY <2>3, <3>1, <4>2, <5>3 DEF MadeOf
        <5> QED
          BY <5>2, <5>3 DEF KnownInv
      <4> QED
        BY <2>4, <4>1, <4>2 DEF BootRead
    <3> QED
      BY <2>2, <2>3, <3>1, <3>2 DEF KnownInv
  <2>5. ASSUME pc # "boot" PROVE MadeOf(upper, lower, Known)
    BY <2>5 DEF KnownInv, Untouched
  <2>6. CASE BootWriteUpper \/ BootWriteLower \/ SbWriteUpper \/ SbWriteLower
    <3>1. /\ asked' = asked /\ line' = line /\ arg' = arg /\ target' = target /\ pc # "boot"
      BY <2>6 DEF BootWriteUpper, BootWriteLower, SbWriteUpper, SbWriteLower, hostVars
    <3>2. PICK b \in Known : WriteWord(0, Upper(b)) \/ WriteWord(1, Lower(b))
      BY <2>1, <2>2, <2>6 DEF BootWriteUpper, BootWriteLower, SbWriteUpper, SbWriteLower
    <3>3. MadeOf(upper, lower, Known)'
      BY <2>1, <2>3, <2>5, <3>1, <3>2, MadeByWriting DEF MadeOf
    <3> QED
      BY <2>2, <2>3, <3>1, <3>3 DEF KnownInv
  <2>7. CASE LoseLine
    <3>1. /\ asked' = asked /\ flash' = flash /\ arg' = arg /\ target' = target
          /\ pc # "boot" /\ line # <<>> /\ line' = Tail(line)
      BY <2>7 DEF LoseLine, fwVars, hostVars
    <3> QED
      BY <2>2, <2>3, <2>5, <3>1, KnownLine DEF KnownInv, MadeOf
  <2>8. CASE Fer \/ Sb
    <3>1. /\ asked' = asked /\ target' = target /\ pc # "boot" /\ line # <<>> /\ line' = Tail(line)
          /\ EraseSector \/ flash' = flash
          /\ arg' = arg \/ (Head(line).op = "sb" /\ arg' = Head(line).baud)
      BY <2>8 DEF Fer, Sb, Receive, hostVars
    <3>2. Tail(line) \in Seq(C) /\ Head(line) \in C
      BY <2>2, <3>1, KnownLine
    <3>3. Head(line).op = "sb" => Head(line).baud \in Known
      BY <3>2 DEF CommandsFor
    <3>4. MadeOf(upper, lower, Known)'
      <4>1. CASE EraseSector
        BY <2>1, <2>3, <3>1, <4>1, MadeByErasing DEF MadeOf
      <4>2. CASE flash' = flash
        BY <2>3, <2>5, <3>1, <4>2 DEF MadeOf
      <4> QED
        BY <3>1, <4>1, <4>2
    <3> QED
      BY <2>2, <2>3, <3>1, <3>2, <3>3, <3>4 DEF KnownInv
  <2>9. CASE Fwr
    <3>1. /\ asked' = asked /\ target' = target /\ arg' = arg /\ pc # "boot"
          /\ line # <<>> /\ line' = Tail(line)
          /\ Head(line).op = "fwr" /\ WriteWord(Head(line).address, Head(line).data)
      BY <2>9 DEF Fwr, Receive, hostVars
    <3>2. Tail(line) \in Seq(C) /\ Head(line) \in C
      BY <2>2, <3>1, KnownLine
    <3>3. PICK b \in Known : WriteWord(0, Upper(b)) \/ WriteWord(1, Lower(b))
      BY <3>1, <3>2 DEF CommandsFor
    <3>4. MadeOf(upper, lower, Known)'
      BY <2>1, <2>3, <2>5, <3>1, <3>3, MadeByWriting DEF MadeOf
    <3> QED
      BY <2>2, <2>3, <3>1, <3>2, <3>4 DEF KnownInv
  <2>10. CASE Rst \/ Disturb
    <3>1. /\ asked' = asked /\ target' = target /\ arg' = arg /\ flash' = flash /\ Restart
      BY <2>10 DEF Rst, Disturb, hostVars
    <3>2. pc' = "boot" /\ line' \in Seq(C)
      BY <2>2, <3>1, KnownLine
    <3>3. (MadeOf(upper, lower, Known) \/ Untouched)'
      BY <2>3, <3>1, <3>2 DEF KnownInv, MadeOf, Untouched, Stores
    <3> QED
      BY <2>2, <2>3, <3>1, <3>2, <3>3 DEF KnownInv
  <2>11. asked \subseteq asked' => /\ MadeOf(upper, lower, Known) => MadeOf(upper, lower, Known')
                                  /\ line \in Seq(CommandsFor(Known'))
                                  /\ arg \in Known' /\ target \in Known'
    <3> SUFFICES asked' \subseteq Rates
      BY KnownGrows
    <3> QED
      BY DEF TypeOK, Rates
  <2>12. CASE BaudStart
    <3>1. PICK b \in Targets : target' = b /\ asked' = asked \cup {b}
      BY <2>12 DEF BaudStart
    <3>2. /\ arg' = arg /\ flash' = flash
          /\ Restart \/ (pc' = pc /\ line' = line)
      BY <2>12 DEF BaudStart
    <3>3. line' \in Seq(CommandsFor(Known'))
      BY <2>11, <3>1, <3>2, KnownLine
    <3>4. Untouched => Untouched'
      BY <3>1, <3>2 DEF Untouched, Restart, Stores
    <3>5. (MadeOf(upper, lower, Known) \/ Untouched)'
      BY <2>11, <3>1, <3>2, <3>4 DEF KnownInv, MadeOf
    <3>6. target' \in Known'
      BY <3>1 DEF Known
    <3> QED
      BY <2>11, <3>1, <3>2, <3>3, <3>5, <3>6 DEF KnownInv
  <2>13. CASE BaudGreeting \/ UNCHANGED vars
    <3>1. /\ asked' = asked /\ target' = target /\ arg' = arg /\ flash' = flash /\ pc' = pc /\ line' = line
      BY <2>13 DEF BaudGreeting, fwVars, vars
    <3> QED
      BY <2>2, <2>3, <3>1 DEF KnownInv, MadeOf, Untouched, Stores
  <2>14. CASE BaudErase \/ BaudUpper \/ BaudLower \/ OperatorRst
    <3>1. /\ asked' = asked /\ target' = target /\ arg' = arg /\ flash' = flash /\ pc' = pc
      BY <2>14 DEF BaudErase, BaudUpper, BaudLower, OperatorRst, fwVars, hostVars
    <3>2. PICK c \in C : Send(c)
      BY <2>2, <2>14 DEF BaudErase, BaudUpper, BaudLower, OperatorRst, CommandsFor
    <3>3. line' \in Seq(C)
      BY <2>2, <3>2, KnownLine
    <3> QED
      BY <2>2, <2>3, <3>1, <3>3 DEF KnownInv, MadeOf, Untouched, Stores
  <2>15. CASE OperatorSb
    <3>1. PICK b \in Targets : Send([op |-> "sb", baud |-> b]) /\ asked' = asked \cup {b}
      BY <2>15 DEF OperatorSb
    <3>2. /\ arg' = arg /\ flash' = flash /\ target' = target /\ pc' = pc
      BY <2>15 DEF OperatorSb, fwVars, hostVars
    <3>3. [op |-> "sb", baud |-> b] \in CommandsFor(Known')
      BY <3>1 DEF CommandsFor, Known
    <3>4. line' \in Seq(CommandsFor(Known'))
      BY <2>11, <3>1, <3>3, KnownLine
    <3>5. Untouched => Untouched'
      BY <3>1, <3>2 DEF Untouched, Stores
    <3>6. (MadeOf(upper, lower, Known) \/ Untouched)'
      BY <2>11, <3>1, <3>2, <3>5 DEF KnownInv, MadeOf
    <3> QED
      BY <2>11, <3>1, <3>2, <3>4, <3>6 DEF KnownInv
  <2> QED
    BY <2>4, <2>6, <2>7, <2>8, <2>9, <2>10, <2>12, <2>13, <2>14, <2>15 DEF Next, Firmware, Host
<1> QED
  BY <1>1, <1>2, TypeCorrect, PTL DEF Spec

\* Under the hypothesis on the words of the rates, a rate the board comes up at is
\* supported and was asked for, is the default, or is the one it ran at: whatever
\* resets, half-done changes and fwr over programmed words did before.
THEOREM SettingImplemented ==
    ASSUME NEW upper, NEW lower, WordsKeepApart(upper, lower)
    PROVE  Spec => ImplementsSetting
<1>1. Init => Setting!Init
  BY DEF Init, Setting!Init
<1>2. TypeOK /\ KnownInv(upper, lower) /\ [Next]_vars => [Setting!Next]_(Setting!vars)
  <2> SUFFICES ASSUME TypeOK, KnownInv(upper, lower), [Next]_vars
               PROVE  [Setting!Next]_(Setting!vars)
    OBVIOUS
  <2> USE DEF Setting!Next, Setting!Ask, Setting!Boot, Setting!vars
  <2>1. CASE BootRead
    <3>1. CASE EraseSector /\ UNCHANGED serialBaud
      BY <2>1, <3>1 DEF BootRead
    <3>2. CASE \E b \in BaudList : Stores(b) /\ serialBaud' = b
      <4>1. PICK b \in BaudList : Stores(b) /\ serialBaud' = b
        BY <3>2
      <4>2. b \in Known
        <5>1. CASE Untouched
          BY <4>1, <5>1 DEF Untouched, Known
        <5>2. CASE MadeOf(upper, lower, Known)
          <6>1. Known \in SUBSET (Targets \cup BaudList) /\ DefaultBaud \in Known
            BY Parameters DEF TypeOK, Known
          <6>2. Upper(b) \in upper[Known] /\ Lower(b) \in lower[Known]
            BY <4>1, <5>2 DEF Stores, MadeOf
          <6> QED
            BY <6>1, <6>2 DEF WordsKeepApart
        <5> QED
          BY <5>1, <5>2 DEF KnownInv
      <4> QED
        BY <2>1, <4>1, <4>2 DEF BootRead, Known
    <3> QED
      BY <2>1, <3>1, <3>2 DEF BootRead
  <2>2. CASE BootWriteLower
    BY <2>2, Parameters DEF BootWriteLower
  <2>3. CASE BootWriteUpper \/ LoseLine \/ Fer \/ Fwr \/ Sb \/ SbWriteUpper \/ SbWriteLower \/ Rst
    BY <2>3 DEF BootWriteUpper, LoseLine, Fer, Fwr, Sb, SbWriteUpper, SbWriteLower, Rst, fwVars
  <2>4. CASE \/ Disturb \/ BaudStart \/ BaudGreeting \/ BaudErase \/ BaudUpper \/ BaudLower
             \/ OperatorSb \/ OperatorRst
    BY <2>4 DEF Disturb, BaudStart, BaudGreeting, BaudErase, BaudUpper, BaudLower, OperatorSb,
                OperatorRst, fwVars
  <2>5. CASE UNCHANGED vars
    BY <2>5 DEF vars
  <2> QED
    BY <2>1, <2>2, <2>3, <2>4, <2>5 DEF Next, Firmware, Host
<1>3. Spec => []KnownInv(upper, lower)
  BY KnownInductive
<1> QED
  BY <1>1, <1>2, <1>3, TypeCorrect, PTL DEF Spec, ImplementsSetting, Setting!Spec
=============================================================================
