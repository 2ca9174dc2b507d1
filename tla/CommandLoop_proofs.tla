-------------------------- MODULE CommandLoop_proofs --------------------------
(***************************************************************************)
(* The main loop and the radio interrupt, for every set of commands and    *)
(* every number of lines and frames: a frame is consumed once and used     *)
(* again only by the two paths that do so, an event or the LED tells of a  *)
(* frame that waits, little is executed after the remote mode, and the     *)
(* host's lines are taken apart as they were sent.                         *)
(***************************************************************************)
EXTENDS CommandLoop, SequenceTheorems, TLAPS

LEMMA LoopConstants ==
    /\ SerialCommands \subseteq Commands /\ RemoteCommands \subseteq Commands
    /\ BinaryLimit \in Nat /\ BinaryLength \in 0..BinaryLimit /\ LongLength \in Nat
    /\ LongLength > BinaryLimit /\ MaxLines \in Nat /\ MaxFrames \in Nat
    /\ Garbage \notin Commands /\ EOL \notin Commands /\ Data \notin Commands /\ EOL # Data
  BY LoopAssumption DEF LoopAssumption, Commands, Garbage, EOL, Data

LEMMA Announces ==
    /\ Announced("wb") = BinaryLength /\ Announced("wbLong") = LongLength
    /\ \A c : c \notin {"wb", "wbLong"} => Announced(c) = 0
    /\ \A c : Announced(c) \in Nat
  <1>1. Announced("wb") = BinaryLength
      BY DEF Announced
  <1>2. Announced("wbLong") = LongLength
      BY DEF Announced
  <1>3. ASSUME NEW c, c \notin {"wb", "wbLong"} PROVE Announced(c) = 0
      BY <1>3 DEF Announced
  <1> QED
      BY <1>1, <1>2, <1>3, LoopConstants

-----------------------------------------------------------------------------
(* Types.                                                                  *)

\* A frame the radio holds is the last one that arrived, rbuf holds one, and
\* write_binary() reads no more than its limit.
SlotInv ==
    /\ slot # NoFrame => slot.id = frames /\ frames > 0
    /\ rbuf # NoFrame => rbuf.id > 0
    /\ pc = "wb" => Announced(cmd) <= BinaryLimit

LEMMA FrameType ==
    /\ NoFrame \in Frame
    /\ \A f \in Frame : f.id \in 0..MaxFrames /\ f.cmd \in Commands \cup {Garbage}
  BY LoopConstants DEF NoFrame, Frame

LEMMA WaitingFrame ==
    ASSUME TypeOK, SlotInv, slot # NoFrame
    PROVE  slot.id \in 1..MaxFrames
  BY LoopConstants DEF TypeOK, SlotInv, Frame

LEMMA TakenType ==
    ASSUME TypeOK
    PROVE  /\ taken \in Seq(Taking) /\ Len(taken) \in Nat /\ DOMAIN taken = 1..Len(taken)
           /\ \A i \in DOMAIN taken : taken[i] \in Taking /\ taken[i].id \in 1..MaxFrames
           /\ \A i \in DOMAIN taken : taken[i].id \in Nat
  <1>1. taken \in Seq(Taking)
      BY DEF TypeOK
  <1>2. Len(taken) \in Nat /\ DOMAIN taken = 1..Len(taken)
      BY <1>1
  <1>3. \A i \in 1..Len(taken) : taken[i] \in Taking
      BY <1>1, ElementOfSeq
  <1>4. \A i \in 1..Len(taken) : taken[i].id \in 1..MaxFrames
      BY <1>3 DEF Taking
  <1> QED
      BY <1>1, <1>2, <1>3, <1>4, LoopConstants

\* One more entry.
LEMMA TakeType ==
    ASSUME TypeOK, NEW id \in 1..MaxFrames, NEW how \in {"command", "print", "reprint", "again"}, Take(id, how)
    PROVE  /\ taken' \in Seq(Taking)
           /\ Len(taken') = Len(taken) + 1 /\ DOMAIN taken' = 1..Len(taken) + 1
           /\ \A i \in 1..Len(taken) : taken'[i] = taken[i]
           /\ taken'[Len(taken) + 1] = [id |-> id, how |-> how]
           /\ taken'[Len(taken) + 1].id = id /\ taken'[Len(taken) + 1].how = how
  <1> DEFINE e == [id |-> id, how |-> how]
  <1>1. e \in Taking /\ e.id = id /\ e.how = how
      BY DEF Taking
  <1>2. taken' = Append(taken, e)
      BY DEF Take
  <1> HIDE DEF e
  <1>3. /\ taken' \in Seq(Taking)
        /\ Len(taken') = Len(taken) + 1 /\ DOMAIN taken' = 1..Len(taken) + 1
        /\ \A i \in 1..Len(taken) : taken'[i] = taken[i]
        /\ taken'[Len(taken) + 1] = e
      BY <1>1, <1>2, TakenType
  <1> QED
      BY <1>1, <1>3 DEF e

LEMMA OutputType ==
    ASSUME TypeOK, SlotInv, Output
    PROVE  taken' \in Seq(Taking)
  <1>1. CASE slot = NoFrame
      BY <1>1 DEF Output, TypeOK
  <1>2. CASE slot # NoFrame
      BY <1>2, WaitingFrame, TakeType DEF Output
  <1> QED
      BY <1>1, <1>2

\* How an execution is counted after the remote mode.
LEMMA LateType ==
    ASSUME TypeOK, NEW how \in {"command", "again"},
           late' = IF bRemote THEN <<>> ELSE Append(late, how)
    PROVE  late' \in Seq({"command", "again"})
  BY DEF TypeOK

LEMMA ReadFrame ==
    ASSUME TypeOK, SlotInv, rbuf # NoFrame
    PROVE  rbuf.id \in 1..MaxFrames
  BY LoopConstants DEF TypeOK, SlotInv, Frame

LEMMA ReadDataType ==
    ASSUME TypeOK, SlotInv, ReadData
    PROVE  /\ slot' \in Frame /\ rbuf' \in Frame /\ slot' = NoFrame
           /\ rbuf' # NoFrame => rbuf'.id > 0
  <1>1. slot \in Frame /\ rbuf \in Frame
      BY DEF TypeOK
  <1> QED
      BY <1>1, FrameType DEF ReadData, SlotInv

LEMMA DecoderType ==
    ASSUME TypeOK, SlotInv, Decoder
    PROVE  TypeOK' /\ SlotInv'
  <1> USE LoopConstants DEF TypeOK, SlotInv, Decode, Return, serialVars, radioVars, flagVars, loopVars,
          historyVars
  <1>1. CASE First \/ Second
      BY <1>1 DEF First, Second
  <1>2. CASE SecondChain
    <2>1. rbuf # NoFrame
        BY <1>2 DEF SecondChain, NoFrame, Garbage
    <2>2. taken' \in Seq(Taking)
        BY <1>2, <2>1, ReadFrame, TakeType DEF SecondChain
    <2>3. late' \in Seq({"command", "again"})
        BY <1>2, LateType DEF SecondChain
    <2>4. cmd' \in Commands \cup {Garbage}
        BY <1>2 DEF SecondChain, Commands
    <2> QED
        BY <1>2, <2>2, <2>3, <2>4 DEF SecondChain
  <1>9. CASE Sgra \/ Sgre
      BY <1>9 DEF Sgra, Sgre
  <1>10. CASE Sgrd \/ Sgssm
      BY <1>10 DEF Sgrd, Sgssm
  <1>3. CASE SgrLed
      BY <1>3 DEF SgrLed
  <1>12. CASE Sgremote
    <2>1. late' \in Seq({"command", "again"})
        BY <1>12 DEF Sgremote
    <2>2. bRemote' \in BOOLEAN
        BY <1>12 DEF Sgremote
    <2>3. pending' \in BOOLEAN
        BY <1>12, <2>2, Zenon DEF Sgremote
    <2> QED
        BY <1>12, <2>1, <2>2, <2>3 DEF Sgremote
  <1>4. CASE Sgi
      BY <1>4, FrameType DEF Sgi
  <1>5. CASE SgrRead
    <2>1. taken' \in Seq(Taking)
        BY <1>5, OutputType, ReadFrame, TakeType DEF SgrRead
    <2>2. /\ slot' \in Frame /\ rbuf' \in Frame /\ slot' = NoFrame
          /\ rbuf' # NoFrame => rbuf'.id > 0
        BY <1>5, ReadDataType DEF SgrRead
    <2> QED
        BY <1>5, <2>1, <2>2 DEF SgrRead
  <1>6. CASE WriteBinary
    <2>1. windex' \in 0..BinaryLimit
        BY <1>6 DEF WriteBinary
    <2>2. cutLine' \in BOOLEAN
        BY <1>6, Zenon DEF WriteBinary
    <2>3. pc' \in {"wb", "rx", "rxClear"} /\ (pc' = "wb" => Announced(cmd') <= BinaryLimit)
        BY <1>6 DEF WriteBinary
    <2> QED
        BY <1>6, <2>1, <2>2, <2>3 DEF WriteBinary
  <1>11. CASE WriteBinaryEnd
      BY <1>11 DEF WriteBinaryEnd
  <1>7. CASE WriteBinaryByte
    <2>1. uart' \in Seq(Unit)
        BY <1>7 DEF WriteBinaryByte
    <2>2. windex' \in 0..BinaryLimit
        BY <1>7, Announces DEF WriteBinaryByte
    <2> QED
        BY <1>7, <2>1, <2>2 DEF WriteBinaryByte
  <1>8. CASE Rst
    <2>1. uart' \in Seq(Unit)
        BY <1>8 DEF Rst
    <2>2. cmdbuf' \in Seq(Unit) /\ windex' \in 0..BinaryLimit
        BY <1>8 DEF Rst
    <2>3. late' \in Seq({"command", "again"})
        BY <1>8 DEF Rst
    <2> QED
        BY <1>8, <2>1, <2>2, <2>3, FrameType DEF Rst
  <1> QED
      BY <1>1, <1>2, <1>3, <1>4, <1>5, <1>6, <1>7, <1>8, <1>9, <1>10, <1>11, <1>12 DEF Decoder

LEMMA LoopType ==
    ASSUME TypeOK, SlotInv, Loop
    PROVE  TypeOK' /\ SlotInv'
  <1> USE LoopConstants DEF TypeOK, SlotInv, serialVars, radioVars, flagVars, loopVars, historyVars
  <1>1. CASE ReadSerial
    <2>1. Head(uart) \in Unit /\ Tail(uart) \in Seq(Unit)
        BY <1>1 DEF ReadSerial
    <2>2. cmdbuf' \in Seq(Unit)
      <3>1. cmdbuf' = <<>> \/ cmdbuf' = Append(cmdbuf, Head(uart))
          BY <1>1 DEF ReadSerial
      <3>2. Append(cmdbuf, Head(uart)) \in Seq(Unit) /\ <<>> \in Seq(Unit)
          BY <2>1
      <3> QED
          BY <3>1, <3>2
    <2>3. cmd' \in Commands \cup {Garbage}
        BY <1>1 DEF ReadSerial
    <2> QED
        BY <1>1, <2>1, <2>2, <2>3 DEF ReadSerial
  <1>2. CASE SerialEmpty \/ NoEvent \/ NoOutput
      BY <1>2 DEF SerialEmpty, NoEvent, NoOutput
  <1>5. CASE RxClear \/ RxLed \/ SgoutLed
      BY <1>5 DEF RxClear, RxLed, SgoutLed
  <1>3. CASE RxExecute
    <2>1. /\ slot' \in Frame /\ rbuf' \in Frame /\ slot' = NoFrame
          /\ rbuf' # NoFrame => rbuf'.id > 0
        BY <1>3, ReadDataType DEF RxExecute
    <2>2. CASE slot = NoFrame
        BY <1>3, <2>1, <2>2 DEF RxExecute
    <2>3. CASE slot # NoFrame
      <3>1. rbuf'.id \in 1..MaxFrames
          BY <1>3, <2>3, WaitingFrame DEF RxExecute, ReadData
      <3>2. taken' \in Seq(Taking)
          BY <1>3, <2>3, <3>1, TakeType DEF RxExecute
      <3>3. cmd' \in Commands \cup {Garbage}
          BY <1>3, <2>1, <2>3, FrameType DEF RxExecute
      <3>4. late' \in Seq({"command", "again"})
          BY <1>3, <2>3, LateType DEF RxExecute
      <3> QED
          BY <1>3, <2>1, <2>3, <3>2, <3>3, <3>4 DEF RxExecute
    <2> QED
        BY <2>2, <2>3
  <1>4. CASE SgoutRead
    <2>1. taken' \in Seq(Taking)
        BY <1>4, OutputType DEF SgoutRead
    <2>2. /\ slot' \in Frame /\ rbuf' \in Frame /\ slot' = NoFrame
          /\ rbuf' # NoFrame => rbuf'.id > 0
        BY <1>4, ReadDataType DEF SgoutRead
    <2> QED
        BY <1>4, <2>1, <2>2 DEF SgoutRead
  <1> QED
      BY <1>1, <1>2, <1>3, <1>4, <1>5, DecoderType DEF Loop

LEMMA OutsideType ==
    ASSUME TypeOK, SlotInv, HostSend \/ Receive
    PROVE  TypeOK' /\ SlotInv'
  <1> USE LoopConstants DEF TypeOK, SlotInv, serialVars, radioVars, flagVars, loopVars, historyVars
  <1>1. CASE HostSend
    <2>1. PICK c \in SerialCommands :
            uart' = uart \o <<c, EOL>> \o [i \in 1..Announced(c) |-> Data]
        BY <1>1 DEF HostSend
    <2>2. uart \o <<c, EOL>> \in Seq(Unit)
        BY DEF Unit
    <2>3. [i \in 1..Announced(c) |-> Data] \in Seq(Unit)
        BY Announces DEF Unit
    <2>4. uart' \in Seq(Unit)
        BY <2>1, <2>2, <2>3
    <2> QED
        BY <1>1, <2>4 DEF HostSend
  <1>2. CASE Receive
    <2>1. Handling \in BOOLEAN
        BY DEF Handling
    <2>2. slot' \in Frame /\ slot'.id = frames' /\ frames' \in 1..MaxFrames
        BY <1>2, <2>1 DEF Receive, Frame
    <2> QED
        BY <1>2, <2>2 DEF Receive, RxCallback
  <1> QED
      BY <1>1, <1>2

LEMMA LoopInit ==
    ASSUME Init
    PROVE  TypeOK
  <1>1. uart \in Seq(Unit) /\ cmdbuf \in Seq(Unit) /\ taken \in Seq(Taking)
        /\ late \in Seq({"command", "again"})
      BY DEF Init
  <1>2. lines \in 0..MaxLines /\ frames \in 0..MaxFrames /\ windex \in 0..BinaryLimit
      BY LoopConstants DEF Init
  <1>3. slot \in Frame /\ rbuf \in Frame /\ slot = NoFrame
      BY FrameType DEF Init
  <1> QED
      BY <1>1, <1>2, <1>3 DEF Init, TypeOK

LEMMA LoopNext ==
    ASSUME TypeOK, SlotInv, [Next]_vars
    PROVE  TypeOK' /\ SlotInv'
  <1>1. CASE UNCHANGED vars
      BY <1>1 DEF vars, serialVars, radioVars, flagVars, loopVars, historyVars, TypeOK, SlotInv
  <1> QED
      BY <1>1, OutsideType, LoopType DEF Next

-----------------------------------------------------------------------------
(* What frames are taken, and by what they are told.                       *)

\* The frame in the radio came after every frame that was taken, rbuf holds the
\* last one taken, and what a remote sgr has put there it has printed.
TakenInv ==
    /\ TakenOnce
    /\ \A i \in DOMAIN taken : taken[i].id <= frames
    /\ slot # NoFrame => \A i \in DOMAIN taken : taken[i].id < slot.id
    /\ rbuf # NoFrame => Len(taken) > 0 /\ taken[Len(taken)].id = rbuf.id
    /\ pc = "cmd" /\ ctx = "remote" => cmd = rbuf.cmd
    /\ pc = "sgrLed" /\ ctx = "remote" /\ rbuf.cmd = "second" =>
         Len(taken) > 0 /\ taken[Len(taken)] = [id |-> rbuf.id, how |-> "print"]

\* Between readData() and the statements that turn the notifications off the
\* radio holds at most a frame that came meanwhile.
ToldInv ==
    /\ Handling => slot = NoFrame \/ slot.handling
    /\ EventTellsFrame
    /\ LedTellsFrame

\* With the remote mode off a frame is executed only if the host left its event
\* behind, or the event of the one that is executed is still to be cleared.
RemoteInv ==
    /\ RemoteOffHolds
    /\ bRemote => late = <<>>
    /\ ~bRemote /\ sgRxEvent =>
         \/ pending /\ late = <<>>
         \/ pc = "rxClear"
         \/ pc \in {"cmd", "wb", "sgrLed"} /\ ctx = "remote"
    /\ ~bRemote /\ ctx = "remote" /\ (pc = "sgrLed" \/ (pc = "cmd" /\ cmd \in {"sgr", "sgrb"})) =>
         pending /\ late = <<"command">>

\* An entry that keeps the order.
LEMMA TakeOrder ==
    ASSUME TypeOK, TakenOnce, NEW id \in 1..MaxFrames,
           NEW how \in {"command", "print", "reprint", "again"}, Take(id, how),
           \A i \in DOMAIN taken : taken[i].id <= id,
           how \in {"command", "print"} => \A i \in DOMAIN taken : taken[i].id < id,
           how = "again" => Len(taken) > 0 /\ taken[Len(taken)] = [id |-> id, how |-> "print"]
    PROVE  TakenOnce'
  <1> DEFINE n == Len(taken)
  <1>1. n \in Nat /\ DOMAIN taken = 1..n
      BY TakenType
  <1>2. /\ DOMAIN taken' = 1..n + 1
        /\ \A i \in 1..n : taken'[i] = taken[i]
        /\ taken'[n + 1].id = id /\ taken'[n + 1].how = how
      BY TakeType
  <1> HIDE DEF n
  <1>3. ASSUME NEW i \in 1..n + 1, NEW j \in 1..n + 1, i < j
        PROVE  /\ taken'[i].id <= taken'[j].id
               /\ taken'[i].id = taken'[j].id => taken'[j].how \in {"reprint", "again"}
    <2>1. CASE j <= n
      <3>1. i \in DOMAIN taken /\ j \in DOMAIN taken /\ taken'[i] = taken[i] /\ taken'[j] = taken[j]
          BY <1>1, <1>2, <1>3, <2>1
      <3> QED
          BY <1>3, <3>1 DEF TakenOnce
    <2>2. CASE j = n + 1
      <3>1. i \in DOMAIN taken /\ taken'[i] = taken[i] /\ taken[i].id \in Nat
          BY <1>1, <1>2, <1>3, <2>2, TakenType
      <3> QED
          BY <1>2, <2>2, <3>1
    <2> QED
        BY <1>1, <2>1, <2>2
  <1>4. ASSUME NEW i \in 1..n + 1, taken'[i].how = "again"
        PROVE  i > 1 /\ taken'[i - 1] = [id |-> taken'[i].id, how |-> "print"]
    <2>1. CASE i <= n
      <3>1. i \in DOMAIN taken /\ taken'[i] = taken[i]
          BY <1>1, <1>2, <2>1
      <3>2. i > 1 /\ taken[i - 1] = [id |-> taken[i].id, how |-> "print"]
          BY <1>4, <3>1 DEF TakenOnce
      <3>3. taken'[i - 1] = taken[i - 1]
          BY <1>1, <1>2, <2>1, <3>2
      <3> QED
          BY <3>1, <3>2, <3>3
    <2>2. CASE i = n + 1
      <3>1. n > 0 /\ taken[n] = [id |-> id, how |-> "print"]
          BY <1>2, <1>4, <2>2 DEF n
      <3>2. taken'[n] = taken[n] /\ i - 1 = n
          BY <1>1, <1>2, <2>2, <3>1
      <3> QED
          BY <1>1, <1>2, <2>2, <3>1, <3>2
    <2> QED
        BY <1>1, <2>1, <2>2
  <1> QED
      BY <1>2, <1>3, <1>4 DEF TakenOnce

\* The frame that waits is consumed.
LEMMA ConsumeKept ==
    ASSUME TypeOK, SlotInv, TakenInv, slot # NoFrame, NEW how \in {"command", "print"}, Take(slot.id, how)
    PROVE  /\ TakenOnce'
           /\ \A i \in DOMAIN taken' : taken'[i].id <= frames
           /\ Len(taken') > 0 /\ taken'[Len(taken')].id = slot.id
           /\ taken'[Len(taken')] = [id |-> slot.id, how |-> how]
  <1>1. slot.id \in 1..MaxFrames /\ slot.id = frames
      BY WaitingFrame DEF SlotInv
  <1>2. \A i \in DOMAIN taken : taken[i].id < slot.id /\ taken[i].id \in Nat
      BY TakenType DEF TakenInv
  <1>3. TakenOnce'
      BY <1>1, <1>2, TakeOrder DEF TakenInv
  <1>4. /\ Len(taken') = Len(taken) + 1 /\ DOMAIN taken' = 1..Len(taken) + 1
        /\ \A i \in 1..Len(taken) : taken'[i] = taken[i]
        /\ taken'[Len(taken) + 1] = [id |-> slot.id, how |-> how]
        /\ taken'[Len(taken) + 1].id = slot.id
      BY <1>1, TakeType
  <1>5. Len(taken) \in Nat /\ DOMAIN taken = 1..Len(taken)
      BY TakenType
  <1>6. \A i \in DOMAIN taken' : taken'[i].id <= frames
      BY <1>1, <1>2, <1>4, <1>5, LoopConstants
  <1> QED
      BY <1>3, <1>4, <1>5, <1>6

\* The frame in rbuf, the last one taken, is used again.
LEMMA UseAgainKept ==
    ASSUME TypeOK, SlotInv, TakenInv, rbuf # NoFrame, NEW how \in {"reprint", "again"}, Take(rbuf.id, how),
           how = "again" => taken[Len(taken)] = [id |-> rbuf.id, how |-> "print"]
    PROVE  /\ TakenOnce'
           /\ \A i \in DOMAIN taken' : taken'[i].id <= frames
           /\ slot # NoFrame => \A i \in DOMAIN taken' : taken'[i].id < slot.id
           /\ Len(taken') > 0 /\ taken'[Len(taken')].id = rbuf.id
  <1>1. rbuf.id \in 1..MaxFrames /\ Len(taken) > 0 /\ taken[Len(taken)].id = rbuf.id
      BY ReadFrame DEF TakenInv
  <1>2. Len(taken) \in Nat /\ DOMAIN taken = 1..Len(taken) /\ \A i \in DOMAIN taken : taken[i].id \in Nat
      BY TakenType
  <1>3. \A i \in DOMAIN taken : taken[i].id <= rbuf.id
    <2>1. TAKE i \in DOMAIN taken
    <2>2. CASE i = Len(taken)
        BY <1>1, <1>2, <2>2
    <2>3. CASE i < Len(taken)
        BY <1>1, <1>2, <2>3 DEF TakenInv, TakenOnce
    <2> QED
        BY <1>2, <2>2, <2>3
  <1>4. TakenOnce'
      BY <1>1, <1>3, TakeOrder DEF TakenInv
  <1>5. /\ Len(taken') = Len(taken) + 1 /\ DOMAIN taken' = 1..Len(taken) + 1
        /\ \A i \in 1..Len(taken) : taken'[i] = taken[i]
        /\ taken'[Len(taken) + 1].id = rbuf.id
      BY <1>1, TakeType
  <1>6. Len(taken) \in DOMAIN taken /\ rbuf.id <= frames /\ (slot # NoFrame => rbuf.id < slot.id)
      BY <1>1, <1>2 DEF TakenInv
  <1>7. \A i \in DOMAIN taken' : taken'[i].id <= frames
      BY <1>2, <1>5, <1>6 DEF TakenInv
  <1>8. slot # NoFrame => \A i \in DOMAIN taken' : taken'[i].id < slot.id
      BY <1>2, <1>5, <1>6 DEF TakenInv
  <1> QED
      BY <1>2, <1>4, <1>5, <1>7, <1>8

LEMMA TakenKept ==
    ASSUME TypeOK, SlotInv, TakenInv, [Next]_vars
    PROVE  TakenInv'
  <1> USE DEF Decode, Return, serialVars, radioVars, flagVars, loopVars, historyVars
  <1>1. CASE Receive
    <2>1. /\ taken' = taken /\ rbuf' = rbuf /\ pc' = pc /\ ctx' = ctx /\ cmd' = cmd
          /\ frames' = frames + 1 /\ slot'.id = frames' /\ frames \in Nat
        BY <1>1, LoopConstants DEF Receive, TypeOK
    <2> QED
        BY <2>1, TakenType DEF TakenInv, TakenOnce
  <1>2. CASE SgrRead
    <2>1. /\ slot' = NoFrame /\ rbuf' = (IF slot = NoFrame THEN rbuf ELSE slot) /\ frames' = frames
          /\ pc = "cmd" /\ pc' = "sgrLed" /\ ctx' = ctx /\ cmd \in {"sgr", "sgrb"}
        BY <1>2 DEF SgrRead, ReadData
    <2>2. CASE slot # NoFrame
      <3>1. Take(slot.id, "print")
          BY <1>2, <2>2 DEF SgrRead, Output
      <3> QED
          BY <2>1, <2>2, <3>1, ConsumeKept DEF TakenInv
    <2>3. CASE slot = NoFrame /\ UNCHANGED taken
        BY <2>1, <2>3 DEF TakenInv, TakenOnce
    <2>4. CASE slot = NoFrame /\ rbuf # NoFrame /\ Take(rbuf.id, "reprint")
        BY <2>1, <2>4, UseAgainKept DEF TakenInv
    <2> QED
        BY <1>2, <2>2, <2>3, <2>4 DEF SgrRead, Output
  <1>3. CASE SgoutRead
    <2>1. /\ slot' = NoFrame /\ rbuf' = (IF slot = NoFrame THEN rbuf ELSE slot) /\ frames' = frames
          /\ pc' = "autoLed"
        BY <1>3 DEF SgoutRead, ReadData
    <2>2. CASE slot # NoFrame
      <3>1. Take(slot.id, "print")
          BY <1>3, <2>2 DEF SgoutRead, Output
      <3> QED
          BY <2>1, <2>2, <3>1, ConsumeKept DEF TakenInv
    <2>3. CASE slot = NoFrame
        BY <1>3, <2>1, <2>3 DEF SgoutRead, Output, TakenInv, TakenOnce
    <2> QED
        BY <2>2, <2>3
  <1>4. CASE RxExecute
    <2>1. slot' = NoFrame /\ rbuf' = (IF slot = NoFrame THEN rbuf ELSE slot) /\ frames' = frames
        BY <1>4 DEF RxExecute, ReadData
    <2>2. CASE slot # NoFrame
      <3>1. Take(slot.id, "command") /\ pc' = "cmd" /\ cmd' = rbuf'.cmd
          BY <1>4, <2>1, <2>2 DEF RxExecute
      <3> QED
          BY <2>1, <2>2, <3>1, ConsumeKept DEF TakenInv
    <2>3. CASE slot = NoFrame
        BY <1>4, <2>1, <2>3 DEF RxExecute, TakenInv, TakenOnce
    <2> QED
        BY <2>2, <2>3
  <1>5. CASE \/ HostSend \/ ReadSerial \/ SerialEmpty \/ NoEvent \/ RxClear \/ RxLed \/ NoOutput
             \/ SgoutLed \/ UNCHANGED vars
      BY <1>5 DEF HostSend, ReadSerial, SerialEmpty, NoEvent, RxClear, RxLed, NoOutput, SgoutLed, vars,
          TakenInv, TakenOnce
  <1>6. CASE First \/ Second \/ Sgra \/ Sgre \/ Sgrd \/ Sgssm \/ SgrLed \/ Sgremote
             \/ WriteBinary \/ WriteBinaryByte \/ WriteBinaryEnd
      BY <1>6 DEF First, Second, Sgra, Sgre, Sgrd, Sgssm, SgrLed, Sgremote,
          WriteBinary, WriteBinaryByte, WriteBinaryEnd, TakenInv, TakenOnce
  <1>7. CASE Sgi \/ Rst
      BY <1>7 DEF Sgi, Rst, TakenInv, TakenOnce
  <1>8. CASE SecondChain
    <2>1. /\ rbuf # NoFrame /\ rbuf.cmd = "second" /\ pc = "sgrLed" /\ ctx = "remote" /\ Take(rbuf.id, "again")
          /\ pc' = "cmd" /\ cmd' = rbuf'.cmd /\ rbuf' = rbuf /\ slot' = slot /\ frames' = frames
        BY <1>8 DEF SecondChain, NoFrame, Garbage
    <2>2. taken[Len(taken)] = [id |-> rbuf.id, how |-> "print"]
        BY <2>1 DEF TakenInv
    <2> QED
        BY <2>1, <2>2, UseAgainKept DEF TakenInv
  <1> QED
      BY <1>1, <1>2, <1>3, <1>4, <1>5, <1>6, <1>7, <1>8 DEF Next, Loop, Decoder

LEMMA AppendPair ==
    ASSUME NEW a, NEW b
    PROVE  Append(<<a>>, b) = <<a, b>>
  <1> DEFINE S == {a, b}
             s == Append(<<a>>, b)
             t == <<a, b>>
  <1>0. a \in S /\ b \in S
      OBVIOUS
  <1> HIDE DEF S
  <1>1. s \in Seq(S) /\ Len(s) = 2 /\ s[1] = a /\ s[2] = b
      BY <1>0
  <1>2. t \in Seq(S) /\ Len(t) = 2 /\ t[1] = a /\ t[2] = b
      BY <1>0
  <1> HIDE DEF s, t
  <1>3. s = t
      BY <1>1, <1>2, SeqEqual
  <1> QED
      BY <1>3 DEF s, t

\* The invariants of the flags.
LEMMA FlagsKept ==
    ASSUME TypeOK, ToldInv, RemoteInv, [Next]_vars
    PROVE  ToldInv' /\ RemoteInv'
  <1> USE DEF ToldInv, RemoteInv, RemoteOffHolds, EventTellsFrame, LedTellsFrame, Handling, Decode, Return,
          serialVars, radioVars, flagVars, loopVars, historyVars
  <1>0. /\ ctx \in {"serial", "remote"} /\ pending \in BOOLEAN
        /\ bRemote \in BOOLEAN /\ sgRxEvent \in BOOLEAN /\ led \in BOOLEAN
      BY DEF TypeOK
  <1>1. CASE HostSend \/ UNCHANGED vars
      BY <1>1 DEF HostSend, vars
  <1>2. CASE Receive
    <2>1. slot'.remote = bRemote /\ (slot'.handling <=> Handling)
        BY <1>2 DEF Receive
    <2> QED
        BY <1>0, <1>2, <2>1 DEF Receive, RxCallback
  <1>3. CASE ReadSerial
      BY <1>0, <1>3 DEF ReadSerial
  <1>4. CASE SerialEmpty \/ NoEvent \/ NoOutput
      BY <1>0, <1>4 DEF SerialEmpty, NoEvent, NoOutput
  <1>5. CASE RxExecute
    <2>1. CASE slot = NoFrame
        BY <1>0, <1>5, <2>1 DEF RxExecute, ReadData
    <2>2. CASE slot # NoFrame /\ bRemote
        BY <1>0, <1>5, <2>2 DEF RxExecute, ReadData
    <2>3. CASE slot # NoFrame /\ ~bRemote
      <3>1. pending /\ late = <<>>
          BY <1>0, <1>5, <2>3 DEF RxExecute
      <3>2. late' = <<"command">>
          BY <1>5, <2>3, <3>1 DEF RxExecute
      <3> QED
          BY <1>0, <1>5, <2>3, <3>1, <3>2 DEF RxExecute, ReadData
    <2> QED
        BY <1>0, <2>1, <2>2, <2>3
  <1>6. CASE RxClear
      BY <1>0, <1>6 DEF RxClear
  <1>7. CASE RxLed \/ SgoutLed
      BY <1>0, <1>7 DEF RxLed, SgoutLed
  <1>8. CASE SgoutRead
      BY <1>0, <1>8 DEF SgoutRead, ReadData
  <1>9. CASE First \/ Second
      BY <1>0, <1>9 DEF First, Second
  <1>10. CASE Sgra \/ Sgre \/ Sgrd \/ Sgssm
      BY <1>0, <1>10 DEF Sgra, Sgre, Sgrd, Sgssm
  <1>11. CASE Sgi
      BY <1>0, <1>11 DEF Sgi
  <1>12. CASE SgrRead \/ SgrLed
      BY <1>0, <1>12 DEF SgrRead, SgrLed, ReadData
  <1>13. CASE Sgremote
      BY <1>0, <1>13 DEF Sgremote
  <1>14. CASE WriteBinary \/ WriteBinaryByte \/ WriteBinaryEnd
      BY <1>0, <1>14 DEF WriteBinary, WriteBinaryByte, WriteBinaryEnd
  <1>15. CASE Rst
      BY <1>0, <1>15 DEF Rst
  <1>16. CASE SecondChain
    <2>1. CASE bRemote
        BY <1>0, <1>16, <2>1 DEF SecondChain
    <2>2. CASE ~bRemote
      <3>0. pc = "sgrLed" /\ ctx = "remote" /\ late' = Append(late, "again")
          BY <1>16, <2>2 DEF SecondChain
      <3>1. pending /\ late = <<"command">>
          BY <2>2, <3>0, Zenon
      <3>2. late' = <<"command", "again">>
          BY <3>0, <3>1, AppendPair
      <3> QED
          BY <1>0, <1>16, <2>2, <3>1, <3>2 DEF SecondChain
    <2> QED
        BY <1>0, <2>1, <2>2
  <1> QED
      BY <1>1, <1>2, <1>3, <1>4, <1>5, <1>6, <1>7, <1>8, <1>9, <1>10, <1>11, <1>12, <1>13, <1>14, <1>15, <1>16
         DEF Next, Loop, Decoder

-----------------------------------------------------------------------------
(* The lines of the host. What is expected next on the serial port is a    *)
(* number: 0 is a command, n > 0 stands for n units of data, and -1 - n for *)
(* the end of a line that announces n units.                               *)

After(q, u, r) ==
    \/ q = 0 /\ u \in Commands /\ r = -1 - Announced(u)
    \/ q < 0 /\ u = EOL /\ r = -1 - q
    \/ q > 0 /\ u = Data /\ r = q - 1

\* From q on, s takes the reader to the end of a line or of data.
WellSent(s, q) ==
    \E f \in [1..Len(s) + 1 -> Int] :
        /\ f[1] = q /\ f[Len(s) + 1] = 0
        /\ \A i \in 1..Len(s) : After(f[i], s[i], f[i + 1])

Due ==
    IF cmdbuf # <<>> THEN -1 - Announced(cmdbuf[1])
    ELSE IF pc = "cmd" /\ ctx = "serial" THEN Announced(cmd)
    ELSE IF pc = "wb" THEN Announced(cmd) - windex ELSE 0

LinesInv ==
    ~cutLine =>
        /\ WellSent(uart, Due)
        /\ cmdbuf = <<>> \/ \E c \in Commands : cmdbuf = <<c>>
        /\ pc = "cmd" /\ ctx = "serial" => cmd \in Commands /\ cmdbuf = <<>>
        /\ pc \in {"wb", "sgrLed"} /\ ctx = "serial" => cmdbuf = <<>>
        /\ pc = "wb" => ctx = "serial"

LEMMA SentEmpty == WellSent(<<>>, 0)
  <1> DEFINE f == [i \in 1..Len(<<>>) + 1 |-> 0]
  <1>1. f \in [1..Len(<<>>) + 1 -> Int] /\ f[1] = 0 /\ f[Len(<<>>) + 1] = 0
      OBVIOUS
  <1>2. \A i \in 1..Len(<<>>) : After(f[i], <<>>[i], f[i + 1])
      OBVIOUS
  <1> QED
      BY <1>1, <1>2 DEF WellSent

\* The first unit is one that is expected.
LEMMA SentRead ==
    ASSUME NEW s \in Seq(Unit), s # <<>>, NEW q \in Int, WellSent(s, q)
    PROVE  \E r \in Int : After(q, Head(s), r) /\ WellSent(Tail(s), r)
  <1>1. PICK f \in [1..Len(s) + 1 -> Int] :
            /\ f[1] = q /\ f[Len(s) + 1] = 0
            /\ \A i \in 1..Len(s) : After(f[i], s[i], f[i + 1])
      BY DEF WellSent
  <1>2. /\ Len(s) \in Nat /\ Len(s) > 0 /\ Head(s) = s[1] /\ Len(Tail(s)) = Len(s) - 1
        /\ \A i \in 1..Len(s) - 1 : Tail(s)[i] = s[i + 1]
      OBVIOUS
  <1> DEFINE g == [i \in 1..Len(Tail(s)) + 1 |-> f[i + 1]]
  <1>3. g \in [1..Len(Tail(s)) + 1 -> Int]
      BY <1>2
  <1>4. g[1] = f[2] /\ g[Len(Tail(s)) + 1] = 0
      BY <1>1, <1>2
  <1>5. ASSUME NEW i \in 1..Len(Tail(s)) PROVE After(g[i], Tail(s)[i], g[i + 1])
    <2>1. g[i] = f[i + 1] /\ g[i + 1] = f[(i + 1) + 1] /\ Tail(s)[i] = s[i + 1] /\ i + 1 \in 1..Len(s)
        BY <1>2
    <2> QED
        BY <1>1, <2>1
  <1>6. WellSent(Tail(s), f[2])
      BY <1>3, <1>4, <1>5 DEF WellSent
  <1>7. After(q, Head(s), f[2]) /\ f[2] \in Int
      BY <1>1, <1>2
  <1> QED
      BY <1>6, <1>7

\* Whole lines may follow.
LEMMA SentMore ==
    ASSUME NEW s \in Seq(Unit), NEW t \in Seq(Unit), NEW q \in Int, WellSent(s, q), WellSent(t, 0)
    PROVE  WellSent(s \o t, q)
  <1>1. PICK f \in [1..Len(s) + 1 -> Int] :
            /\ f[1] = q /\ f[Len(s) + 1] = 0
            /\ \A i \in 1..Len(s) : After(f[i], s[i], f[i + 1])
      BY DEF WellSent
  <1>2. PICK g \in [1..Len(t) + 1 -> Int] :
            /\ g[1] = 0 /\ g[Len(t) + 1] = 0
            /\ \A i \in 1..Len(t) : After(g[i], t[i], g[i + 1])
      BY DEF WellSent
  <1>3. /\ Len(s) \in Nat /\ Len(t) \in Nat /\ Len(s \o t) = Len(s) + Len(t)
        /\ \A i \in 1..Len(s \o t) : (s \o t)[i] = IF i <= Len(s) THEN s[i] ELSE t[i - Len(s)]
      BY ConcatProperties
  <1> DEFINE h == [i \in 1..Len(s \o t) + 1 |-> IF i <= Len(s) THEN f[i] ELSE g[i - Len(s)]]
  <1>4. h \in [1..Len(s \o t) + 1 -> Int]
      BY <1>3
  <1>5. h[1] = q /\ h[Len(s \o t) + 1] = 0
    <2>1. Len(s) = 0 => h[1] = g[1]
        BY <1>3
    <2>2. Len(s) # 0 => h[1] = f[1]
        BY <1>3
    <2>3. h[Len(s \o t) + 1] = g[Len(t) + 1]
        BY <1>3
    <2> QED
        BY <1>1, <1>2, <1>3, <2>1, <2>2, <2>3
  <1>6. ASSUME NEW i \in 1..Len(s \o t) PROVE After(h[i], (s \o t)[i], h[i + 1])
    <2>1. CASE i < Len(s)
      <3>1. h[i] = f[i] /\ h[i + 1] = f[i + 1] /\ (s \o t)[i] = s[i] /\ i \in 1..Len(s)
          BY <1>3, <2>1
      <3> QED
          BY <1>1, <3>1
    <2>2. CASE i = Len(s)
      <3>1. h[i] = f[i] /\ h[i + 1] = g[1] /\ (s \o t)[i] = s[i] /\ i \in 1..Len(s)
          BY <1>3, <2>2
      <3>2. f[i + 1] = g[1]
          BY <1>1, <1>2, <2>2
      <3> QED
          BY <1>1, <3>1, <3>2
    <2>3. CASE i > Len(s)
      <3> DEFINE j == i - Len(s)
      <3>1. h[i] = g[j] /\ h[i + 1] = g[j + 1] /\ (s \o t)[i] = t[j] /\ j \in 1..Len(t)
          BY <1>3, <2>3
      <3> QED
          BY <1>2, <3>1
    <2> QED
        BY <1>3, <2>1, <2>2, <2>3
  <1> QED
      BY <1>4, <1>5, <1>6 DEF WellSent

\* What the host sends at once is a line and its data.
LEMMA SentLine ==
    ASSUME NEW c \in Commands
    PROVE  LET data == [i \in 1..Announced(c) |-> Data]
           IN  data \in Seq(Unit) /\ WellSent(<<c, EOL>> \o data, 0)
  <1> DEFINE n == Announced(c)
             data == [i \in 1..n |-> Data]
             s == <<c, EOL>> \o data
             f == [i \in 1..n + 3 |-> IF i = 1 THEN 0 ELSE IF i = 2 THEN -1 - n ELSE n + 3 - i]
  <1>0. n \in Nat
      BY Announces
  <1> HIDE DEF n
  <1>1. data \in Seq(Unit) /\ Len(data) = n /\ \A i \in 1..n : data[i] = Data
      BY <1>0 DEF Unit
  <1>2. <<c, EOL>> \in Seq(Unit) /\ Len(<<c, EOL>>) = 2 /\ <<c, EOL>>[1] = c /\ <<c, EOL>>[2] = EOL
      BY DEF Unit
  <1>3. Len(s) = n + 2 /\ \A i \in 1..n + 2 : s[i] = IF i <= 2 THEN <<c, EOL>>[i] ELSE data[i - 2]
      BY <1>0, <1>1, <1>2, ConcatProperties
  <1>4. s[1] = c /\ s[2] = EOL /\ \A i \in 3..n + 2 : s[i] = Data
      BY <1>0, <1>1, <1>2, <1>3
  <1> HIDE DEF data, s
  <1>5. f \in [1..Len(s) + 1 -> Int] /\ f[1] = 0 /\ f[Len(s) + 1] = 0
      BY <1>0, <1>3
  <1>6. ASSUME NEW i \in 1..Len(s) PROVE After(f[i], s[i], f[i + 1])
    <2>1. CASE i = 1
      <3>1. f[i] = 0 /\ f[i + 1] = -1 - n /\ s[i] = c
          BY <1>0, <1>3, <1>4, <2>1
      <3> QED
          BY <3>1 DEF After, n
    <2>2. CASE i = 2
      <3>1. f[i] = -1 - n /\ f[i + 1] = n /\ s[i] = EOL
          BY <1>0, <1>3, <1>4, <2>2
      <3> QED
          BY <1>0, <3>1 DEF After
    <2>3. CASE i > 2
      <3>1. f[i] = n + 3 - i /\ f[i + 1] = n + 3 - (i + 1)
          BY <1>0, <1>3, <2>3
      <3> QED
          BY <1>0, <1>3, <1>4, <2>3, <3>1 DEF After
    <2> QED
        BY <1>0, <1>3, <2>1, <2>2, <2>3
  <1>7. WellSent(s, 0)
      BY <1>5, <1>6 DEF WellSent
  <1> QED
      BY <1>1, <1>7 DEF s, data, n

LEMMA DueType ==
    ASSUME TypeOK
    PROVE  Due \in Int
  BY Announces DEF Due, TypeOK

\* Nothing of the serial port is read, and what is expected stays the same.
LEMMA LinesUntouched ==
    ASSUME LinesInv, serialVars' = serialVars, cutLine' = cutLine,
           \/ pc' = pc /\ ctx' = ctx /\ cmd' = cmd /\ windex' = windex
           \/ /\ pc' \notin {"wb", "sgrLed"} /\ (pc' = "cmd" => ctx' = "remote")
              /\ pc \notin {"cmd", "wb"} \/ ctx = "remote" \/ (pc = "cmd" /\ Announced(cmd) = 0)
    PROVE  LinesInv'
  BY DEF LinesInv, Due, serialVars

LEMMA ReadSerialKept ==
    ASSUME TypeOK, LinesInv, ReadSerial
    PROVE  LinesInv'
  <1> SUFFICES ASSUME ~cutLine' PROVE LinesInv'
      BY DEF LinesInv
  <1>1. ~cutLine /\ pc = "top" /\ uart # <<>> /\ uart \in Seq(Unit) /\ uart' = Tail(uart)
      BY DEF ReadSerial, historyVars, TypeOK
  <1>2. PICK r \in Int : After(Due, Head(uart), r) /\ WellSent(Tail(uart), r)
      BY <1>1, SentRead, DueType DEF LinesInv
  <1>3. CASE cmdbuf = <<>>
    <2>1. Due = 0 /\ Head(uart) \in Commands /\ r = -1 - Announced(Head(uart))
        BY <1>1, <1>2, <1>3 DEF Due, After
    <2>2. cmdbuf' = <<Head(uart)>> /\ pc' = "rx"
        BY <1>3, <2>1, LoopConstants DEF ReadSerial
    <2>3. Due' = r
        BY <2>1, <2>2 DEF Due
    <2> QED
        BY <1>1, <1>2, <2>1, <2>2, <2>3 DEF LinesInv
  <1>4. CASE cmdbuf # <<>>
    <2>1. PICK c \in Commands : cmdbuf = <<c>>
        BY <1>1, <1>4 DEF LinesInv
    <2>2. Due = -1 - Announced(c) /\ Head(uart) = EOL /\ r = Announced(c)
        BY <1>2, <1>4, <2>1, Announces DEF Due, After
    <2>3. cmdbuf' = <<>> /\ cmd' = c /\ ctx' = "serial" /\ pc' = "cmd"
        BY <2>1, <2>2 DEF ReadSerial
    <2>4. Due' = r
        BY <2>2, <2>3 DEF Due
    <2> QED
        BY <1>1, <1>2, <2>1, <2>3, <2>4 DEF LinesInv
  <1> QED
      BY <1>3, <1>4

LEMMA WriteBinaryKept ==
    ASSUME TypeOK, LinesInv, WriteBinaryByte
    PROVE  LinesInv'
  <1> SUFFICES ASSUME ~cutLine' PROVE LinesInv'
      BY DEF LinesInv
  <1>1. /\ ~cutLine /\ pc = "wb" /\ uart # <<>> /\ uart \in Seq(Unit) /\ uart' = Tail(uart)
        /\ windex < Announced(cmd) /\ windex' = windex + 1
        /\ cmdbuf' = cmdbuf /\ pc' = pc /\ ctx' = ctx /\ cmd' = cmd
        /\ windex \in Nat
      BY DEF WriteBinaryByte, historyVars, TypeOK
  <1>2. PICK r \in Int : After(Due, Head(uart), r) /\ WellSent(Tail(uart), r)
      BY <1>1, SentRead, DueType DEF LinesInv
  <1>3. ctx = "serial" /\ cmdbuf = <<>> /\ Due = Announced(cmd) - windex /\ Due' = Announced(cmd) - (windex + 1)
      BY <1>1 DEF LinesInv, Due
  <1>4. r = Due'
      BY <1>1, <1>2, <1>3, Announces DEF After
  <1> QED
      BY <1>1, <1>2, <1>3, <1>4 DEF LinesInv

LEMMA HostSendKept ==
    ASSUME TypeOK, LinesInv, HostSend
    PROVE  LinesInv'
  <1> SUFFICES ASSUME ~cutLine' PROVE LinesInv'
      BY DEF LinesInv
  <1>1. PICK c \in SerialCommands :
          uart' = uart \o <<c, EOL>> \o [i \in 1..Announced(c) |-> Data]
      BY DEF HostSend
  <1> DEFINE data == [i \in 1..Announced(c) |-> Data]
  <1>2. c \in Commands /\ uart \in Seq(Unit) /\ <<c, EOL>> \in Seq(Unit)
      BY LoopConstants DEF TypeOK, Unit
  <1>3. data \in Seq(Unit) /\ WellSent(<<c, EOL>> \o data, 0)
      BY <1>2, SentLine
  <1> HIDE DEF data
  <1>4. uart' = uart \o (<<c, EOL>> \o data) /\ <<c, EOL>> \o data \in Seq(Unit)
    <2>1. uart' = (uart \o <<c, EOL>>) \o data
        BY <1>1 DEF data
    <2>2. (uart \o <<c, EOL>>) \o data = uart \o (<<c, EOL>> \o data)
        BY <1>2, <1>3, ConcatAssociative
    <2>3. <<c, EOL>> \o data \in Seq(Unit)
        BY <1>2, <1>3
    <2> QED
        BY <2>1, <2>2, <2>3
  <1>5. ~cutLine /\ Due' = Due /\ cmdbuf' = cmdbuf /\ pc' = pc /\ ctx' = ctx /\ cmd' = cmd
      BY DEF HostSend, Due, loopVars, historyVars
  <1>6. WellSent(uart', Due)
      BY <1>2, <1>3, <1>4, <1>5, SentMore, DueType DEF LinesInv
  <1> QED
      BY <1>5, <1>6 DEF LinesInv

LEMMA LinesInvKept ==
    ASSUME TypeOK, LinesInv, [Next]_vars
    PROVE  LinesInv'
  <1> USE DEF Decode, Return, serialVars, loopVars, historyVars
  <1>1. CASE Receive \/ UNCHANGED vars
      BY <1>1, LinesUntouched DEF Receive, vars
  <1>2. CASE SerialEmpty \/ NoEvent \/ RxClear \/ RxLed \/ NoOutput \/ SgoutRead \/ SgoutLed
      BY <1>2, LinesUntouched DEF SerialEmpty, NoEvent, RxClear, RxLed, NoOutput, SgoutRead, SgoutLed
  <1>3. CASE RxExecute
      BY <1>3, LinesUntouched DEF RxExecute
  <1>4. CASE First \/ Second \/ Sgra \/ Sgre \/ Sgrd \/ Sgssm
      BY <1>4, LinesUntouched, Announces DEF First, Second, Sgra, Sgre, Sgrd, Sgssm, Garbage
  <1>5. CASE Sgi \/ Sgremote
      BY <1>5, LinesUntouched, Announces DEF Sgi, Sgremote
  <1>6. CASE SgrRead \/ SgrLed
      BY <1>6, Announces DEF SgrRead, SgrLed, LinesInv, Due, TypeOK
  <1>10. CASE SecondChain
      BY <1>10, LinesUntouched DEF SecondChain
  <1>7. CASE WriteBinary
    <2> SUFFICES ASSUME ~cutLine' PROVE LinesInv'
        BY DEF LinesInv
    <2>1. CASE Announced(cmd) <= BinaryLimit
      <3>1. /\ ~cutLine /\ ctx = "serial" /\ cmdbuf = <<>> /\ Due = Announced(cmd)
            /\ uart' = uart /\ cmdbuf' = cmdbuf /\ pc' = "wb" /\ ctx' = ctx /\ cmd' = cmd /\ windex' = 0
          BY <1>7, <2>1 DEF WriteBinary, LinesInv, Due, TypeOK
      <3>2. Due' = Announced(cmd)
          BY <3>1, Announces DEF Due
      <3> QED
          BY <3>1, <3>2 DEF LinesInv
    <2>2. CASE ~(Announced(cmd) <= BinaryLimit)
      <3>1. ~cutLine /\ ctx = "remote"
          BY <1>7, <2>2 DEF WriteBinary, TypeOK
      <3>2. cutLine' = cutLine
          BY <1>7, <2>2, <3>1, Zenon DEF WriteBinary, TypeOK
      <3> QED
          BY <1>7, <2>2, <3>1, <3>2, LinesUntouched DEF WriteBinary
    <2> QED
        BY <2>1, <2>2
  <1>9. CASE WriteBinaryEnd
    <2> SUFFICES ASSUME ~cutLine' PROVE LinesInv'
        BY DEF LinesInv
    <2>1. ~cutLine /\ ctx = "serial" /\ cmdbuf = <<>> /\ Due = Announced(cmd) - Announced(cmd)
        BY <1>9 DEF WriteBinaryEnd, LinesInv, Due
    <2>2. Due' = 0 /\ Due = 0
        BY <1>9, <2>1, Announces DEF WriteBinaryEnd, Due
    <2> QED
        BY <1>9, <2>1, <2>2 DEF WriteBinaryEnd, LinesInv
  <1>8. CASE Rst
      BY <1>8 DEF Rst, LinesInv
  <1> QED
      BY <1>1, <1>2, <1>3, <1>4, <1>5, <1>6, <1>7, <1>8, <1>9, <1>10, ReadSerialKept, WriteBinaryKept, HostSendKept
         DEF Next, Loop, Decoder

-----------------------------------------------------------------------------
IInv == TypeOK /\ SlotInv /\ TakenInv /\ ToldInv /\ RemoteInv /\ LinesInv

\* The inductive invariant: the frame's number against those taken, the flags
\* against the loop's position, the lines against what is due.
THEOREM LoopInductive == Spec => []IInv
  <1>1. Init => IInv
    <2> SUFFICES ASSUME Init PROVE TakenInv /\ ToldInv /\ RemoteInv /\ LinesInv /\ SlotInv
        BY LoopInit DEF IInv
    <2>1. TakenInv /\ ToldInv /\ RemoteInv /\ SlotInv
        BY DEF Init, TakenInv, TakenOnce, ToldInv, Handling, EventTellsFrame, LedTellsFrame, RemoteInv,
            RemoteOffHolds, SlotInv, NoFrame
    <2>2. LinesInv
        BY SentEmpty DEF Init, LinesInv, Due
    <2> QED
        BY <2>1, <2>2
  <1>2. IInv /\ [Next]_vars => IInv'
      BY LoopNext, TakenKept, FlagsKept, LinesInvKept DEF IInv
  <1> QED
      BY <1>1, <1>2, PTL DEF Spec

\* The type invariant, the bounds of lines and frames included.
THEOREM LoopTypes == Spec => []TypeOK
  BY LoopInductive, PTL DEF IInv

\* However the interrupt falls, frames are consumed in the order they came,
\* each once; one is used again only where sgr() prints the last frame again,
\* and where the decoder reads a frame that a remote sgr has just printed.
THEOREM FramesTakenOnce == Spec => []TakenOnce
  <1>1. IInv => TakenOnce
      BY DEF IInv, TakenInv
  <1> QED
      BY <1>1, LoopInductive, PTL

\* A frame that waits in the remote mode has its event, unless it came while
\* the loop was handling another one.
THEOREM EventsTell == Spec => []EventTellsFrame
  <1>1. IInv => EventTellsFrame
      BY DEF IInv, ToldInv
  <1> QED
      BY <1>1, LoopInductive, PTL

\* Likewise, it has lit the LED, on which the automatic output depends.
THEOREM LedTells == Spec => []LedTellsFrame
  <1>1. IInv => LedTellsFrame
      BY DEF IInv, ToldInv
  <1> QED
      BY <1>1, LoopInductive, PTL

\* With the remote mode off the radio has nothing executed, but for one frame
\* (and what that frame reads) when the host left an event pending.
THEOREM RemoteOff == Spec => []RemoteOffHolds
  <1>1. IInv => RemoteOffHolds
      BY DEF IInv, RemoteInv
  <1> QED
      BY <1>1, LoopInductive, PTL

\* No line of the host is lost in another one, for every limit and length of
\* the binary data and every number of lines, unless a remote "wb", a reset or
\* an announcement above the limit comes in between.
THEOREM LinesAreKept == Spec => []LinesKept
  <1>1. IInv => LinesKept
      BY LoopConstants DEF IInv, LinesInv, LinesKept
  <1> QED
      BY <1>1, LoopInductive, PTL

=============================================================================
