-------------------------- MODULE UsbDevices_proofs --------------------------
(***************************************************************************)
(* Device objects and their references, for every tree of devices, every   *)
(* order of plugging, opening, polling and handling messages, and every    *)
(* number of each.                                                         *)
(***************************************************************************)
EXTENDS UsbDevices, FiniteSetTheorems, SequenceTheorems, TLAPS

-----------------------------------------------------------------------------
(* The inductive invariant.                                                *)

Messages == ({"arrived", "left"} \X Objects) \cup {<<"none", 0>>}

\* The object that is being opened.
Opening == IF app \in {"open", "no_device", "failed"} THEN {arg} ELSE {}

ObjectTypes ==
    /\ session \in Seq(Devices)
    /\ parent \in [Objects -> Objects \cup {0}]
    /\ refcnt \in [Objects -> Int]
    /\ usb_devs \subseteq Objects /\ unannounced \subseteq Objects
    /\ devs \subseteq Objects /\ enum \subseteq Objects
    /\ Handles \subseteq Objects /\ Opening \subseteq Objects
    /\ found \in Objects \cup {0}
    /\ transfers \subseteq (1..MaxTransfers) \X Objects /\ lost \subseteq transfers

QueueTypes ==
    /\ say \in Seq(Messages) /\ hotplug_pipe \in Seq(Messages)
    /\ events.msg \in Messages

BusTypes ==
    /\ present \subseteq Devices
    /\ \A d \in present : Parent[d] \in present \cup {"none"}
    /\ uevents \in Seq({"add", "remove"} \X Devices)
    /\ app = "scan" => arg \subseteq Devices

\* What is written and found is written and dropped before the lock is released.
LockInv ==
    /\ app \in {"scan", "polling", "failed"} <=> lock = "app"
    /\ lock = "nobody" \/ app = "scan" => say = <<>> /\ found = 0
    /\ app \in Starting => say = <<>> /\ hotplug_pipe = <<>> /\ events.msg = <<"none", 0>>
    /\ app = "init" => uevents = <<>> /\ usb_devs = {} /\ Handles = {}
    /\ app # "enumerate" => enum = {}
    /\ app \in {"exiting", "exited"} => /\ say = <<>> /\ found = 0 /\ devs = {} /\ Handles = {}
                                        /\ events.msg = <<"none", 0>>
    /\ app = "exited" => uevents = <<>> /\ hotplug_pipe = <<>> /\ usb_devs = {}

Shape == ObjectTypes /\ QueueTypes /\ BusTypes /\ LockInv

\* An object's parent is one of its device's hub.
ForestInv == \A c \in Objects : parent[c] # 0 => /\ Parent[session[c]] \in Devices
                                                 /\ session[parent[c]] = Parent[session[c]]

\* The objects that a queue says have left; none of them twice.
LeftIn(q)  == {q[i][2] : i \in {j \in DOMAIN q : q[j][1] = "left"}}
OneEach(q) == \A i, j \in DOMAIN q : q[i] = q[j] /\ q[i][1] = "left" => i = j

Message == <<events.msg>>
Leaving == LeftIn(say) \cup LeftIn(hotplug_pipe) \cup LeftIn(Message)

\* An object is in the list, or one message says that it left, or it left
\* before there was a pipe.
LeftOnce ==
    /\ OneEach(say) /\ OneEach(hotplug_pipe)
    /\ LeftIn(say) \cap LeftIn(hotplug_pipe) = {}
    /\ LeftIn(Message) \cap (LeftIn(say) \cup LeftIn(hotplug_pipe)) = {}
    /\ Leaving \cap (usb_devs \cup unannounced) = {}
    /\ usb_devs \cap unannounced = {}

\* After a message that an object arrived, it is in the list, or the message that
\* it left is still to come.
ArrivedInv ==
    /\ \A i \in DOMAIN say : say[i][1] = "arrived" => say[i][2] \in usb_devs
    /\ \A i \in DOMAIN hotplug_pipe : hotplug_pipe[i][1] = "arrived" =>
          \/ hotplug_pipe[i][2] \in usb_devs \cup LeftIn(say)
          \/ \E j \in DOMAIN hotplug_pipe : j > i /\ hotplug_pipe[j] = <<"left", hotplug_pipe[i][2]>>
    /\ events.msg[1] = "arrived" =>
          events.msg[2] \in usb_devs \cup LeftIn(say) \cup LeftIn(hotplug_pipe)

\* Each reference has one holder.
One(S, o)   == IF o \in S THEN 1 ELSE 0
Held(o)     == One(usb_devs, o) + One(unannounced, o) + One({found}, o) + One(Opening, o)
               + One(devs, o) + One(enum, o) + One(Handles, o) + One(Leaving, o)
TransferRefs(o) == Cardinality({t \in transfers : t[2] = o})
Claims(o)   == Held(o) + TransferRefs(o)
Children(o) == {c \in Objects : parent[c] = o /\ refcnt[c] > 0}
CountInv    == \A o \in Objects : refcnt[o] = Claims(o) + Cardinality(Children(o))

\* An object is opened once, the application has one list, and a transfer in flight
\* is one of an open handle.
AppInv ==
    /\ Opening \cap Handles = {}
    /\ app \in {"poll", "polling", "snapshot"} /\ arg \notin Callbacks => devs = {}
    /\ \A t \in transfers \ lost : t[2] \in Handles

\* Of the uevents about a device, the last one tells whether it is there.
Mentioned(d) == \E i \in DOMAIN uevents : uevents[i][2] = d
LastTells ==
    \A i \in DOMAIN uevents :
        (\A j \in DOMAIN uevents : j > i => uevents[j][2] # uevents[i][2])
            => (uevents[i][1] = "add" <=> uevents[i][2] \in present)

Removal(d) == \E i \in DOMAIN uevents : uevents[i] = <<"remove", d>>

\* The list and the bus differ in devices with a uevent that is not yet read.
SessionsApart == \A o, p \in usb_devs : session[o] = session[p] => o = p
ListOnBus     == \A o \in usb_devs : session[o] \in present \/ Mentioned(session[o])
HungUpLeft    == \A o \in Handles \cap usb_devs : fds[o] = "hungup" => Removal(session[o])
BusInList     == \A d \in present \ dropped : \/ ObjectsOf(d) # {} \/ Mentioned(d)
                                              \/ app = "scan" /\ d \in arg

ListInv ==
    /\ LastTells /\ SessionsApart
    /\ app # "exiting" => ListOnBus /\ HungUpLeft
    /\ app \notin {"init", "started", "exiting", "exited"} => BusInList

-----------------------------------------------------------------------------
(* What the helpers of the actions do to the objects.                      *)

\* A transfer is submitted, or ends.
Transferring ==
    \/ \E n \in 1..MaxTransfers, o \in Objects, refused \in BOOLEAN :
           libusb_submit_transfer(n, o, refused)
    \/ \E t \in transfers : usbi_handle_transfer_completion(t)

LEMMA Constants ==
    /\ "none" \notin Devices
    /\ Parent \in [Devices -> Devices \cup {"none"}]
    /\ \A d \in Devices : Parent[d] \in Devices => Parent[Parent[d]] = "none"
    /\ MaxTransfers \in Nat
  BY DeviceAssumption DEF DeviceAssumption

\* Elements at the end of a sequence.
LEMMA AddOne ==
    ASSUME NEW S, NEW s \in Seq(S), NEW a \in S
    PROVE  /\ s \o <<a>> \in Seq(S) /\ Len(s \o <<a>>) = Len(s) + 1
           /\ s \o <<a>> \in [1..(Len(s) + 1) -> S]
           /\ \A i \in 1..Len(s) : (s \o <<a>>)[i] = s[i]
           /\ (s \o <<a>>)[Len(s) + 1] = a
<1>1. <<a>> \in Seq(S) /\ Len(<<a>>) = 1
  OBVIOUS
<1>2. /\ s \o <<a>> \in Seq(S) /\ Len(s \o <<a>>) = Len(s) + 1
      /\ \A i \in 1..Len(s) + 1 : (s \o <<a>>)[i] = IF i <= Len(s) THEN s[i] ELSE <<a>>[i - Len(s)]
  BY <1>1, ConcatProperties
<1>3. Len(s) \in Nat /\ <<a>>[1] = a
  OBVIOUS
<1>4. s \o <<a>> \in [1..(Len(s) + 1) -> S]
  BY <1>2, LenProperties
<1> QED
  BY <1>2, <1>3, <1>4

LEMMA AddTwo ==
    ASSUME NEW S, NEW s \in Seq(S), NEW a \in S, NEW b \in S
    PROVE  /\ s \o <<a, b>> \in Seq(S) /\ Len(s \o <<a, b>>) = Len(s) + 2
           /\ s \o <<a, b>> \in [1..(Len(s) + 2) -> S]
           /\ \A i \in 1..Len(s) : (s \o <<a, b>>)[i] = s[i]
           /\ (s \o <<a, b>>)[Len(s) + 1] = a /\ (s \o <<a, b>>)[Len(s) + 2] = b
<1>1. <<a, b>> \in Seq(S) /\ Len(<<a, b>>) = 2
  OBVIOUS
<1>2. /\ s \o <<a, b>> \in Seq(S) /\ Len(s \o <<a, b>>) = Len(s) + 2
      /\ \A i \in 1..Len(s) + 2 : (s \o <<a, b>>)[i] = IF i <= Len(s) THEN s[i] ELSE <<a, b>>[i - Len(s)]
  BY <1>1, ConcatProperties
<1>3. Len(s) \in Nat /\ <<a, b>>[1] = a /\ <<a, b>>[2] = b
  OBVIOUS
<1>4. s \o <<a, b>> \in [1..(Len(s) + 2) -> S]
  BY <1>2, LenProperties
<1> QED
  BY <1>2, <1>3, <1>4

LEMMA ShortSequences ==
    ASSUME NEW S, NEW s \in Seq(S), NEW a \in S, NEW b \in S
    PROVE  <<>> \in Seq(S) /\ <<a>> \in Seq(S) /\ <<a, b>> \in Seq(S) /\ Append(s, a) \in Seq(S)
  OBVIOUS

LEMMA ObjectNumbers ==
    ASSUME ObjectTypes
    PROVE  /\ Len(session) \in Nat /\ Objects = 1..Len(session) /\ 0 \notin Objects
           /\ \A o \in Objects : session[o] \in Devices /\ o \in Nat /\ o > 0
<1>1. session \in Seq(Devices)
  BY DEF ObjectTypes
<1>2. \A o \in 1..Len(session) : session[o] \in Devices
  BY <1>1, ElementOfSeq
<1> QED
  BY <1>1, <1>2 DEF Objects

\* Nothing is enumerated.
NothingMade == UNCHANGED objVars /\ say' = <<>>

\* m objects are made, the last of them for d, the first of two for its hub, which
\* is the parent "up" of the last.
Made(d, m, up) ==
    /\ m \in {1, 2} /\ d \in present
    /\ Len(session') = Len(session) + m /\ session' \in Seq(Devices)
    /\ \A o \in Objects : session'[o] = session[o] /\ parent'[o] = parent[o]
    /\ session'[Len(session) + m] = d /\ parent'[Len(session) + m] = up
    /\ m = 2 => /\ session'[Len(session) + 1] = Parent[d] /\ parent'[Len(session) + 1] = 0
                /\ up = Len(session) + 1 /\ ObjectsOf(Parent[d]) = {} /\ Parent[d] \in Devices
    /\ m = 1 => \/ up = 0
                \/ up \in usb_devs /\ session[up] = Parent[d] /\ Parent[d] \in Devices
    /\ parent' \in [1..(Len(session) + m) -> Nat]
    /\ refcnt' = [o \in 1..(Len(session) + m) |->
                     (IF o > Len(session) THEN 1 ELSE refcnt[o]) + (IF o = up THEN 1 ELSE 0)]
    /\ usb_devs' = usb_devs \cup (Len(session) + 1)..(Len(session) + m)
    /\ say' = IF ~HasPipe THEN <<>>
              ELSE IF m = 1 THEN <<<<"arrived", Len(session) + 1>>>>
              ELSE <<<<"arrived", Len(session) + 1>>, <<"arrived", Len(session) + 2>>>>
    /\ unannounced' = unannounced
    /\ ObjectsOf(d) = {}

LEMMA EnumerateMakes ==
    ASSUME ObjectTypes, BusTypes, NEW d \in Devices, Enumerate(d)
    PROVE  \/ NothingMade /\ (d \in present => ObjectsOf(d) # {})
           \/ \E m, up : Made(d, m, up)
<1>1. CASE d \notin present \/ ObjectsOf(d) # {}
  BY <1>1 DEF Enumerate, NothingMade
<1>2. CASE d \in present /\ ObjectsOf(d) = {}
  <2> DEFINE n   == Len(session)
             hub == Parent[d]
  <2>1. hub \in Devices \cup {"none"} /\ "none" \notin Devices
    BY Constants
  <2>2. n \in Nat /\ Objects = 1..n /\ 0 \notin Objects /\ session \in Seq(Devices)
    BY ObjectNumbers DEF ObjectTypes
  <2>3. parent \in Seq(Nat) /\ Len(parent) = n
    BY <2>2 DEF ObjectTypes
  <2>4. CASE hub # "none" /\ ObjectsOf(hub) = {}
    <3>1. /\ session' = session \o <<hub, d>>
          /\ parent' = parent \o <<0, n + 1>>
          /\ refcnt' = [o \in 1..(n + 2) |-> (IF o > n THEN 1 ELSE refcnt[o]) + (IF o = n + 1 THEN 1 ELSE 0)]
          /\ usb_devs' = usb_devs \cup (n + 1)..(n + 2)
          /\ say' = IF ~HasPipe THEN <<>> ELSE [i \in DOMAIN <<hub, d>> |-> <<"arrived", n + i>>]
          /\ unannounced' = unannounced
      BY <1>2, <2>4 DEF Enumerate
    <3>2. [i \in DOMAIN <<hub, d>> |-> <<"arrived", n + i>>] = <<<<"arrived", n + 1>>, <<"arrived", n + 2>>>>
      OBVIOUS
    <3>3. hub \in Devices
      BY <2>1, <2>4
    <3>4. /\ Len(session') = n + 2 /\ session' \in Seq(Devices)
          /\ \A o \in 1..n : session'[o] = session[o]
          /\ session'[n + 1] = hub /\ session'[n + 2] = d
      BY <2>2, <3>1, <3>3, AddTwo
    <3>5. n + 1 \in Nat /\ 0 \in Nat
      BY <2>2
    <3>6. /\ \A o \in 1..n : parent'[o] = parent[o]
          /\ parent'[n + 1] = 0 /\ parent'[n + 2] = n + 1 /\ parent' \in [1..(n + 2) -> Nat]
      <4>1. /\ \A o \in 1..Len(parent) : (parent \o <<0, n + 1>>)[o] = parent[o]
            /\ (parent \o <<0, n + 1>>)[Len(parent) + 1] = 0
            /\ (parent \o <<0, n + 1>>)[Len(parent) + 2] = n + 1
            /\ parent \o <<0, n + 1>> \in [1..(Len(parent) + 2) -> Nat]
        <5>1. parent \in Seq(Nat) /\ 0 \in Nat
          BY <2>3
        <5>2. \A e \in Nat : LET q == parent \o <<0, e>> IN
                 /\ \A o \in 1..Len(parent) : q[o] = parent[o]
                 /\ q[Len(parent) + 1] = 0 /\ q[Len(parent) + 2] = e
                 /\ q \in [1..(Len(parent) + 2) -> Nat]
          BY <5>1, AddTwo
        <5> QED
          BY <3>5, <5>2
      <4> QED
        BY <2>3, <3>1, <4>1
    <3>7. /\ \A o \in Objects : session'[o] = session[o] /\ parent'[o] = parent[o]
          /\ say' = IF ~HasPipe THEN <<>> ELSE <<<<"arrived", n + 1>>, <<"arrived", n + 2>>>>
      BY <2>2, <3>1, <3>2, <3>4, <3>6
    <3>8. Made(d, 2, n + 1)
      <4>1. 2 \in {1, 2} /\ 2 # 1
        OBVIOUS
      <4> QED
        BY <1>2, <2>4, <3>1, <3>3, <3>4, <3>6, <3>7, <4>1, Zenon DEF Made
    <3> QED
      BY <3>8
  <2>5. CASE ~(hub # "none" /\ ObjectsOf(hub) = {})
    <3>1. PICK up :
          /\ up = 0 \/ (up \in ObjectsOf(hub) /\ hub # "none")
          /\ session' = session \o <<d>>
          /\ parent' = parent \o <<up>>
          /\ refcnt' = [o \in 1..(n + 1) |-> (IF o > n THEN 1 ELSE refcnt[o]) + (IF o = up THEN 1 ELSE 0)]
          /\ usb_devs' = usb_devs \cup (n + 1)..(n + 1)
          /\ say' = IF ~HasPipe THEN <<>> ELSE [i \in DOMAIN <<d>> |-> <<"arrived", n + i>>]
          /\ unannounced' = unannounced
      <4> DEFINE u == IF hub = "none" THEN 0
                      ELSE IF ObjectsOf(hub) = {} THEN n + 1 ELSE CHOOSE o \in ObjectsOf(hub) : TRUE
      <4>1. u = 0 \/ (u \in ObjectsOf(hub) /\ hub # "none")
        BY <2>5
      <4>2. /\ session' = session \o <<d>>
            /\ parent' = parent \o <<u>>
            /\ refcnt' = [o \in 1..(n + 1) |-> (IF o > n THEN 1 ELSE refcnt[o]) + (IF o = u THEN 1 ELSE 0)]
            /\ usb_devs' = usb_devs \cup (n + 1)..(n + 1)
            /\ say' = IF ~HasPipe THEN <<>> ELSE [i \in DOMAIN <<d>> |-> <<"arrived", n + i>>]
            /\ unannounced' = unannounced
        <5>1. CASE hub = "none"
          BY <1>2, <5>1 DEF Enumerate
        <5>2. CASE hub # "none" /\ ObjectsOf(hub) # {}
          <6>1. Len(<<d>>) = 1 /\ 1 # 2
            OBVIOUS
          <6> QED
            BY <1>2, <5>2, <6>1, Zenon DEF Enumerate
        <5> QED
          BY <2>5, <5>1, <5>2
      <4> HIDE DEF u
      <4> QED
        BY <4>1, <4>2
    <3>2. [i \in DOMAIN <<d>> |-> <<"arrived", n + i>>] = <<<<"arrived", n + 1>>>>
      OBVIOUS
    <3>3. up = 0 \/ (up \in usb_devs /\ session[up] = hub /\ hub \in Devices)
      BY <2>1, <3>1 DEF ObjectsOf
    <3>4. up \in Nat
      <4>1. usb_devs \subseteq Objects
        BY DEF ObjectTypes
      <4>2. \A o \in Objects : o \in Nat
        BY <2>2
      <4>3. 0 \in Nat
        OBVIOUS
      <4> QED
        BY <3>3, <4>1, <4>2, <4>3, Zenon
    <3>5. /\ Len(session') = n + 1 /\ session' \in Seq(Devices)
          /\ \A o \in 1..n : session'[o] = session[o]
          /\ session'[n + 1] = d
      BY <2>2, <3>1, AddOne
    <3>6. /\ \A o \in 1..n : parent'[o] = parent[o]
          /\ parent'[n + 1] = up /\ parent' \in [1..(n + 1) -> Nat]
      <4>1. /\ \A o \in 1..Len(parent) : (parent \o <<up>>)[o] = parent[o]
            /\ (parent \o <<up>>)[Len(parent) + 1] = up
            /\ parent \o <<up>> \in [1..(Len(parent) + 1) -> Nat]
        BY <2>3, <3>4, AddOne
      <4> QED
        BY <2>3, <3>1, <4>1
    <3>7. /\ \A o \in Objects : session'[o] = session[o] /\ parent'[o] = parent[o]
          /\ say' = IF ~HasPipe THEN <<>> ELSE <<<<"arrived", n + 1>>>>
      BY <2>2, <3>1, <3>2, <3>5, <3>6
    <3>8. Made(d, 1, up)
      <4>1. 1 \in {1, 2} /\ 1 # 2
        OBVIOUS
      <4> QED
        BY <1>2, <3>1, <3>3, <3>5, <3>6, <3>7, <4>1, Zenon DEF Made
    <3> QED
      BY <3>8
  <2> QED
    BY <2>4, <2>5
<1> QED
  BY <1>1, <1>2

\* An object leaves the list; those who asked for it by its session id have found it.
Dropped(o) ==
    /\ o \in usb_devs /\ found' = o /\ refcnt' = Ref({o}) /\ usb_devs' = usb_devs \ {o}
    /\ session' = session /\ parent' = parent
    /\ \/ ~HasPipe /\ say' = <<>> /\ unannounced' = unannounced \cup {o}
       \/ HasPipe /\ say' = <<<<"left", o>>>> /\ unannounced' = unannounced

LEMMA DisconnectDrops ==
    ASSUME NEW d, Disconnect(d)
    PROVE  \/ NothingMade /\ found' = 0 /\ ObjectsOf(d) = {}
           \/ \E o \in ObjectsOf(d) : Dropped(o)
<1>1. CASE ObjectsOf(d) = {}
  BY <1>1 DEF Disconnect, NothingMade
<1>2. CASE ObjectsOf(d) # {}
  <2>1. PICK o \in ObjectsOf(d) : o = CHOOSE x \in ObjectsOf(d) : TRUE
    BY <1>2
  <2>2. o \in usb_devs
    BY DEF ObjectsOf
  <2>3. Dropped(o)
    BY <1>2, <2>1, <2>2, Zenon DEF Disconnect, Dropped
  <2> QED
    BY <2>3
<1> QED
  BY <1>1, <1>2

\* What a uevent comes to.
LEMMA UeventDoes ==
    ASSUME ObjectTypes, BusTypes, NEW u \in {"add", "remove"} \X Devices, HandleUevent(u)
    PROVE  \/ UNCHANGED <<objVars, say, found>> /\ app = "exiting"
           \/ NothingMade /\ found' = found /\ app # "exiting" /\ u[1] = "add"
              /\ (u[2] \in present => ObjectsOf(u[2]) # {})
           \/ NothingMade /\ found' = 0 /\ app # "exiting" /\ u[1] = "remove" /\ ObjectsOf(u[2]) = {}
           \/ /\ found' = found /\ app # "exiting" /\ u[1] = "add"
              /\ \E m, up : Made(u[2], m, up)
           \/ /\ app # "exiting" /\ u[1] = "remove" /\ \E o \in ObjectsOf(u[2]) : Dropped(o)
<1>1. u[2] \in Devices
  OBVIOUS
<1>2. CASE u[1] = "add" /\ app # "exiting" /\ Enumerate(u[2]) /\ UNCHANGED found
  BY <1>1, <1>2, EnumerateMakes
<1>3. CASE u[1] = "remove" /\ app # "exiting" /\ Disconnect(u[2])
  BY <1>3, DisconnectDrops
<1> QED
  BY <1>2, <1>3 DEF HandleUevent

-----------------------------------------------------------------------------
(* Types.                                                                  *)

LEMMA FiniteObjects ==
    ASSUME ObjectTypes, NEW S \in SUBSET Objects
    PROVE  IsFiniteSet(S) /\ Cardinality(S) \in Nat
<1>1. Len(session) \in Nat /\ Objects = 1..Len(session)
  BY ObjectNumbers
<1>2. IsFiniteSet(Objects)
  BY <1>1, FS_Interval
<1> QED
  BY <1>2, FS_Subset, FS_CardinalityType

LEMMA RefTypes ==
    ASSUME ObjectTypes, NEW S \in SUBSET Objects
    PROVE  Ref(S) \in [Objects -> Int] /\ Unref(S) \in [Objects -> Int]
<1>1. \A o \in Objects : refcnt[o] \in Int
  BY DEF ObjectTypes
<1>2. Ref(S) \in [Objects -> Int]
  BY <1>1 DEF Ref
<1> DEFINE left  == [o \in Objects |-> IF o \in S THEN refcnt[o] - 1 ELSE refcnt[o]]
           freed == {o \in S : left[o] = 0}
<1>3. \A o \in Objects : left[o] \in Int
  BY <1>1
<1>4. \A o \in Objects : {c \in freed : parent[c] = o} \in SUBSET Objects
  OBVIOUS
<1>5. \A o \in Objects : Cardinality({c \in freed : parent[c] = o}) \in Nat
  BY <1>4, FiniteObjects
<1>6. Unref(S) = [o \in Objects |-> left[o] - Cardinality({c \in freed : parent[c] = o})]
  BY DEF Unref
<1> HIDE DEF left, freed
<1> QED
  BY <1>2, <1>3, <1>5, <1>6

\* Making objects adds to the numbers of objects.
LEMMA MadeTypes ==
    ASSUME ObjectTypes, NEW d, NEW m, NEW up, Made(d, m, up)
    PROVE  /\ Objects' = 1..(Len(session) + m) /\ Objects \subseteq Objects'
           /\ Objects' = Objects \cup (Len(session) + 1)..(Len(session) + m)
           /\ parent' \in [Objects' -> Objects' \cup {0}]
           /\ refcnt' \in [Objects' -> Int]
           /\ usb_devs' \subseteq Objects' /\ unannounced' \subseteq Objects'
           /\ up \in Objects' \cup {0}
<1>1. Len(session) \in Nat /\ Objects = 1..Len(session) /\ m \in {1, 2}
  BY ObjectNumbers DEF Made
<1>2. session' \in Seq(Devices) /\ Len(session') = Len(session) + m
  BY DEF Made
<1>3. Objects' = 1..(Len(session) + m)
  BY <1>1, <1>2 DEF Objects
<1>4. /\ usb_devs \subseteq Objects /\ unannounced \subseteq Objects
      /\ parent \in [Objects -> Objects \cup {0}] /\ refcnt \in [Objects -> Int]
  BY DEF ObjectTypes
<1>5. Objects \subseteq Objects' /\ Objects' = Objects \cup (Len(session) + 1)..(Len(session) + m)
  BY <1>1, <1>3
<1>6. up \in Objects' \cup {0}
  <2>1. m = 2 => up = Len(session) + 1
    BY DEF Made
  <2>2. m = 1 => up = 0 \/ up \in usb_devs
    BY DEF Made
  <2> QED
    <3>1. Len(session) + 1 \in 1..(Len(session) + m)
      BY <1>1
    <3> QED
      BY <1>1, <1>3, <1>4, <1>5, <2>1, <2>2, <3>1
<1>7. parent' \in [Objects' -> Objects' \cup {0}]
  <2>1. /\ DOMAIN parent' = Objects'
        /\ \A o \in Objects : parent'[o] = parent[o]
        /\ parent'[Len(session) + m] = up
        /\ m = 2 => parent'[Len(session) + 1] = 0
    BY <1>3 DEF Made
  <2>2. \A o \in Objects' : o \in Objects \/ o = Len(session) + m \/ (m = 2 /\ o = Len(session) + 1)
    BY <1>1, <1>3
  <2>3. \A o \in Objects' : parent'[o] \in Objects' \cup {0}
    BY <1>4, <1>5, <1>6, <2>1, <2>2
  <2>4. parent' \in [Objects' -> Nat]
    BY <1>3 DEF Made
  <2> QED
    BY <2>1, <2>3, <2>4
<1>8. refcnt' \in [Objects' -> Int]
  <2>1. refcnt' = [o \in 1..(Len(session) + m) |->
                     (IF o > Len(session) THEN 1 ELSE refcnt[o]) + (IF o = up THEN 1 ELSE 0)]
    BY DEF Made
  <2>2. \A o \in 1..(Len(session) + m) : o > Len(session) \/ o \in Objects
    BY <1>1
  <2> QED
    BY <1>3, <1>4, <2>1, <2>2
<1>9. usb_devs' \subseteq Objects' /\ unannounced' \subseteq Objects'
  BY <1>4, <1>5 DEF Made
<1> QED
  BY <1>3, <1>5, <1>6, <1>7, <1>8, <1>9

\* Whoever has the lock drops it with nothing left to write and nothing found.
LEMMA LockStep == ASSUME Shape, [Next]_vars PROVE LockInv'
<1> USE DEF LockInv, Starting, Handles, busVars, objVars, lockVars, cbVars, appVars, transferVars
<1>1. LockInv /\ usb_devs \cap {0} = {} /\ ObjectTypes /\ BusTypes
  BY ObjectNumbers DEF Shape, ObjectTypes
<1>2. CASE \E d \in Devices : Plug(d) \/ MakeNode(d) \/ Unplug(d)
  BY <1>1, <1>2 DEF Plug, MakeNode, Unplug, Notify, Handles
<1>3. ASSUME NEW u, uevents # <<>>, u = Head(uevents), HandleUevent(u)
      PROVE  /\ uevents # <<>>
             /\ app = "exiting" => say' = say /\ found' = found /\ usb_devs' = usb_devs
             /\ app \in Starting => say' = <<>>
  <2>1. u \in {"add", "remove"} \X Devices
    BY <1>1, <1>3 DEF BusTypes
  <2> QED
    BY <1>1, <1>3, <2>1, UeventDoes DEF NothingMade, Made, Dropped, HasPipe
<1>4. CASE MonitorReads
  BY <1>1, <1>3, <1>4 DEF MonitorReads
<1>5. CASE WriteMessage
  BY <1>1, <1>5 DEF WriteMessage
<1>6. CASE Unfind \/ Unlock
  BY <1>1, <1>6 DEF Unfind, Unlock, Through
<1>7. CASE ReadMessage \/ Matched \/ \E c \in Callbacks, finished \in BOOLEAN : MatchCallback(c, finished)
  BY <1>1, <1>7 DEF ReadMessage, Matched, MatchCallback, Handling, Idle
<1>8. CASE \E o \in Handles : HangUp(o)
  BY <1>1, <1>8 DEF HangUp, Handling, Handles
<1>9. CASE StartMonitor \/ linux_scan_devices \/ Scanned \/ usbi_io_init
  BY <1>1, <1>9 DEF StartMonitor, linux_scan_devices, Scanned, usbi_io_init
<1>10. CASE \E d \in Devices : ScanDevice(d)
  <2>1. PICK d \in Devices : ScanDevice(d)
    BY <1>10
  <2>2. say' = <<>>
    BY <1>1, <2>1, EnumerateMakes DEF ScanDevice, NothingMade, Made, HasPipe
  <2> QED
    BY <1>1, <2>1, <2>2 DEF ScanDevice
<1>11. CASE PollLock \/ PollUnlock \/ Snapshot \/ Enumerated
  BY <1>1, <1>11 DEF PollLock, PollUnlock, Snapshot, Enumerated, Through
<1>12. CASE PollReads
  BY <1>1, <1>3, <1>12 DEF PollReads
<1>13. CASE OpenNode
  BY <1>1, <1>13 DEF OpenNode, Handles
<1>14. CASE OpenDisconnects \/ OpenFails
  BY <1>1, <1>14 DEF OpenDisconnects, OpenFails, Through
<1>15. CASE Teardown
  BY <1>1, <1>15 DEF Teardown
<1>16. CASE GetDeviceList \/ libusb_free_device_list \/ BeginExit
  BY <1>1, <1>16 DEF GetDeviceList, libusb_free_device_list, BeginExit, Idle
<1>17. CASE \E c \in Callbacks, enumerate \in BOOLEAN : RegisterCallback(c, enumerate)
  BY <1>1, <1>17 DEF RegisterCallback
<1>18. CASE \E c \in Callbacks : libusb_hotplug_deregister_callback(c)
  BY <1>1, <1>18 DEF libusb_hotplug_deregister_callback
<1>19. CASE \E o \in Objects : libusb_open(o) \/ libusb_close(o)
  BY <1>1, <1>19 DEF libusb_open, libusb_close, Handles
<1>20. CASE UNCHANGED vars
  BY <1>1, <1>20 DEF vars, Handles
<1>21. CASE Transferring
  BY <1>1, <1>21 DEF Transferring, libusb_submit_transfer, usbi_handle_transfer_completion
<1> QED
  BY <1>2, <1>4, <1>5, <1>6, <1>7, <1>8, <1>9, <1>10, <1>11, <1>12, <1>13, <1>14, <1>15, <1>16,
     <1>17, <1>18, <1>19, <1>20, <1>21 DEF Next, Library, Events, Call, Transferring

LEMMA ObjectsGrow == ASSUME Shape, [Next]_vars PROVE ObjectTypes' /\ Objects \subseteq Objects'
<1> USE DEF busVars, objVars, lockVars, cbVars, appVars, transferVars
<1>1. ObjectTypes /\ BusTypes /\ QueueTypes
  BY DEF Shape
\* The numbers of objects stay.
<1>2. ASSUME UNCHANGED <<session, parent>>, refcnt' \in [Objects -> Int],
             usb_devs' \cup unannounced' \cup devs' \cup enum' \cup Handles' \cup Opening' \subseteq Objects,
             found' \in Objects \cup {0},
             transfers' \subseteq (1..MaxTransfers) \X Objects, lost' \subseteq transfers'
      PROVE  ObjectTypes' /\ Objects \subseteq Objects'
  BY <1>1, <1>2 DEF ObjectTypes, Objects
<1>3. /\ usb_devs \cup unannounced \cup devs \cup enum \cup Handles \cup Opening \subseteq Objects
      /\ found \in Objects \cup {0} /\ refcnt \in [Objects -> Int]
      /\ transfers \subseteq (1..MaxTransfers) \X Objects /\ lost \subseteq transfers
  BY <1>1 DEF ObjectTypes
<1>4. ASSUME NEW S \in SUBSET Objects PROVE Ref(S) \in [Objects -> Int] /\ Unref(S) \in [Objects -> Int]
  BY <1>1, RefTypes
\* An object is dropped, or some are made, and nobody else moves.
<1>5. ASSUME UNCHANGED <<devs, enum, transfers, lost>>, Handles' = Handles, Opening' \subseteq Opening,
             \/ UNCHANGED <<objVars, found>>
             \/ NothingMade /\ found' \in {0, found}
             \/ (\E d, m, up : Made(d, m, up)) /\ found' = found
             \/ \E o : Dropped(o)
      PROVE  ObjectTypes' /\ Objects \subseteq Objects'
  <2>1. CASE UNCHANGED <<objVars, found>> \/ (NothingMade /\ found' \in {0, found})
    BY <1>2, <1>3, <1>5, <2>1 DEF NothingMade
  <2>2. CASE \E o : Dropped(o)
    <3>1. PICK o \in usb_devs : Dropped(o)
      BY <2>2 DEF Dropped
    <3>2. o \in Objects /\ Ref({o}) \in [Objects -> Int]
      BY <1>3, <1>4
    <3> QED
      BY <1>2, <1>3, <1>5, <3>1, <3>2 DEF Dropped
  <2>3. CASE (\E d, m, up : Made(d, m, up)) /\ found' = found
    <3>1. PICK d, m, up : Made(d, m, up)
      BY <2>3
    <3>2. /\ Objects \subseteq Objects'
          /\ parent' \in [Objects' -> Objects' \cup {0}] /\ refcnt' \in [Objects' -> Int]
          /\ usb_devs' \subseteq Objects' /\ unannounced' \subseteq Objects'
      BY <1>1, <3>1, MadeTypes
    <3>3. session' \in Seq(Devices)
      BY <3>1 DEF Made
    <3> QED
      BY <1>3, <1>5, <2>3, <3>2, <3>3 DEF ObjectTypes
  <2> QED
    BY <1>5, <2>1, <2>2, <2>3
<1>6. ASSUME NEW u, uevents # <<>>, u = Head(uevents), HandleUevent(u)
      PROVE  \/ UNCHANGED <<objVars, found>>
             \/ NothingMade /\ found' \in {0, found}
             \/ (\E d, m, up : Made(d, m, up)) /\ found' = found
             \/ \E o : Dropped(o)
  <2>1. u \in {"add", "remove"} \X Devices
    BY <1>1, <1>6 DEF BusTypes
  <2> QED
    BY <1>1, <1>6, <2>1, UeventDoes
<1>7. CASE MonitorReads \/ PollReads
  BY <1>5, <1>6, <1>7 DEF MonitorReads, PollReads, Opening, Handles
<1>8. CASE \E d \in Devices : ScanDevice(d)
  <2>1. PICK d \in Devices : ScanDevice(d)
    BY <1>8
  <2> QED
    BY <1>1, <1>5, <2>1, EnumerateMakes DEF ScanDevice, Opening, Handles
<1>9. CASE OpenDisconnects
  <2>1. \/ UNCHANGED <<objVars, found>> \/ (NothingMade /\ found' \in {0, found}) \/ \E o : Dropped(o)
    BY <1>9, DisconnectDrops DEF OpenDisconnects
  <2> QED
    BY <1>5, <1>9, <2>1 DEF OpenDisconnects, Opening, Handles
<1>10. CASE \E o \in Handles : HangUp(o)
  <2>1. PICK o \in Handles : HangUp(o)
    BY <1>10
  <2>2. \/ UNCHANGED <<objVars, found>> \/ (NothingMade /\ found' \in {0, found}) \/ \E p : Dropped(p)
    BY <2>1, DisconnectDrops DEF HangUp
  <2> QED
    BY <1>5, <2>1, <2>2 DEF HangUp, Opening, Handles
<1>11. CASE Unfind
  BY <1>2, <1>3, <1>4, <1>11 DEF Unfind, Opening, Handles
<1>12. CASE Matched
  <2>1. events.msg[1] = "left" => events.msg[2] \in Objects
    BY <1>1 DEF QueueTypes, Messages
  <2> QED
    BY <1>2, <1>3, <1>4, <1>12, <2>1 DEF Matched, Opening, Handles
<1>13. CASE Snapshot \/ Enumerated \/ libusb_free_device_list
  BY <1>2, <1>3, <1>4, <1>13 DEF Snapshot, Enumerated, libusb_free_device_list, Opening, Handles
<1>14. CASE OpenFails
  <2>1. arg \in Objects
    BY <1>3, <1>14 DEF OpenFails, Opening
  <2> QED
    BY <1>2, <1>3, <1>4, <1>14, <2>1 DEF OpenFails, Opening, Handles
<1>15. CASE Teardown
  <2>1. {o \in Objects : \E i \in DOMAIN hotplug_pipe : hotplug_pipe[i] = <<"left", o>>} \cup usb_devs
           \subseteq Objects
    BY <1>3
  <2> QED
    BY <1>2, <1>3, <1>4, <1>15, <2>1 DEF Teardown, Opening, Handles
<1>16. CASE \E o \in Objects : libusb_open(o) \/ libusb_close(o)
  <2>1. PICK o \in Objects : libusb_open(o) \/ libusb_close(o)
    BY <1>16
  <2>2. Ref({o}) \in [Objects -> Int] /\ Unref({o}) \in [Objects -> Int]
    BY <1>4
  <2> QED
    BY <1>2, <1>3, <2>1, <2>2 DEF libusb_open, libusb_close, Opening, Handles
<1>17. CASE OpenNode
  BY <1>2, <1>3, <1>17 DEF OpenNode, Opening, Handles
<1>18. CASE \E d \in Devices : Plug(d) \/ MakeNode(d) \/ Unplug(d)
  BY <1>2, <1>3, <1>18 DEF Plug, MakeNode, Unplug, Opening, Handles
<1>19. CASE \/ WriteMessage \/ Unlock \/ ReadMessage
            \/ \E c \in Callbacks, finished \in BOOLEAN : MatchCallback(c, finished)
  BY <1>2, <1>3, <1>19 DEF WriteMessage, Unlock, ReadMessage, MatchCallback, Opening, Handles
<1>20. CASE StartMonitor \/ linux_scan_devices \/ Scanned \/ usbi_io_init \/ PollLock \/ PollUnlock
  BY <1>2, <1>3, <1>20
     DEF StartMonitor, linux_scan_devices, Scanned, usbi_io_init, PollLock, PollUnlock, Opening, Handles
<1>21. CASE \/ GetDeviceList \/ BeginExit
            \/ \E c \in Callbacks, enumerate \in BOOLEAN : RegisterCallback(c, enumerate)
            \/ \E c \in Callbacks : libusb_hotplug_deregister_callback(c)
  BY <1>2, <1>3, <1>21 DEF GetDeviceList, BeginExit, RegisterCallback,
                           libusb_hotplug_deregister_callback, Opening, Handles
<1>22. CASE UNCHANGED vars
  BY <1>2, <1>3, <1>22 DEF vars, Opening, Handles
<1>23. CASE Transferring
  <2>1. CASE \E n \in 1..MaxTransfers, o \in Objects, refused \in BOOLEAN :
                 libusb_submit_transfer(n, o, refused)
    <3>1. PICK n \in 1..MaxTransfers, o \in Objects, refused \in BOOLEAN :
              libusb_submit_transfer(n, o, refused)
      BY <2>1
    <3>2. refcnt' \in [Objects -> Int]
      BY <1>4, <3>1 DEF libusb_submit_transfer
    <3>3. transfers' \subseteq (1..MaxTransfers) \X Objects /\ lost' \subseteq transfers'
      BY <1>3, <3>1 DEF libusb_submit_transfer
    <3> QED
      BY <1>2, <1>3, <3>1, <3>2, <3>3 DEF libusb_submit_transfer, Opening, Handles
  <2>2. CASE \E t \in transfers : usbi_handle_transfer_completion(t)
    <3>1. PICK t \in transfers : usbi_handle_transfer_completion(t)
      BY <2>2
    <3>2. t[2] \in Objects
      BY <1>3, <3>1
    <3>3. refcnt' \in [Objects -> Int]
      BY <1>4, <3>1, <3>2 DEF usbi_handle_transfer_completion
    <3>4. transfers' \subseteq (1..MaxTransfers) \X Objects /\ lost' \subseteq transfers'
      BY <1>3, <3>1 DEF usbi_handle_transfer_completion
    <3> QED
      BY <1>2, <1>3, <3>1, <3>3, <3>4 DEF usbi_handle_transfer_completion, Opening, Handles
  <2> QED
    BY <1>23, <2>1, <2>2 DEF Transferring
<1> QED
  BY <1>7, <1>8, <1>9, <1>10, <1>11, <1>12, <1>13, <1>14, <1>15, <1>16, <1>17, <1>18, <1>19,
     <1>20, <1>21, <1>22, <1>23 DEF Next, Library, Events, Call, Transferring

LEMMA QueueStep == ASSUME Shape, [Next]_vars PROVE QueueTypes'
<1> USE DEF busVars, objVars, lockVars, cbVars, appVars, transferVars
<1>1. ObjectTypes /\ BusTypes /\ QueueTypes
  BY DEF Shape
<1>2. ObjectTypes' /\ Objects \subseteq Objects'
  BY ObjectsGrow
<1>3. Messages \subseteq Messages' /\ <<"none", 0>> \in Messages
  BY <1>2 DEF Messages
<1>4. say \in Seq(Messages') /\ hotplug_pipe \in Seq(Messages') /\ events.msg \in Messages'
  BY <1>1, <1>3 DEF QueueTypes
<1>5. ASSUME say' = say \/ say' = <<>> \/ (\E d, m, up : Made(d, m, up)) \/ (\E o : Dropped(o))
      PROVE  say' \in Seq(Messages')
  <2>1. CASE \E d, m, up : Made(d, m, up)
    <3>1. PICK d, m, up : Made(d, m, up)
      BY <2>1
    <3>2. /\ m \in {1, 2} /\ Len(session) \in Nat
          /\ Objects' = Objects \cup (Len(session) + 1)..(Len(session) + m)
      <4>1. Objects' = Objects \cup (Len(session) + 1)..(Len(session) + m)
        BY <1>1, <3>1, MadeTypes
      <4>2. m \in {1, 2}
        BY <3>1 DEF Made
      <4> QED
        BY <1>1, <4>1, <4>2, ObjectNumbers
    <3>3. /\ <<"arrived", Len(session) + 1>> \in Messages'
          /\ m = 2 => <<"arrived", Len(session) + 2>> \in Messages'
      BY <3>2 DEF Messages
    <3>4. \/ say' = <<>> \/ say' = <<<<"arrived", Len(session) + 1>>>>
          \/ m = 2 /\ say' = <<<<"arrived", Len(session) + 1>>, <<"arrived", Len(session) + 2>>>>
      BY <3>1, <3>2 DEF Made
    <3> QED
      <4>1. CASE say' = <<>> \/ say' = <<<<"arrived", Len(session) + 1>>>>
        BY <1>4, <3>3, <4>1, ShortSequences
      <4>2. CASE m = 2 /\ say' = <<<<"arrived", Len(session) + 1>>, <<"arrived", Len(session) + 2>>>>
        <5>1. \A T : \A a, b \in T : <<a, b>> \in Seq(T)
          OBVIOUS
        <5> QED
          BY <3>3, <4>2, <5>1
      <4> QED
        BY <3>4, <4>1, <4>2
  <2>2. CASE \E o : Dropped(o)
    <3>1. PICK o : Dropped(o)
      BY <2>2
    <3>2. o \in Objects
      BY <1>1, <3>1 DEF Dropped, ObjectTypes
    <3>3. <<"left", o>> \in Messages'
      BY <1>2, <3>2 DEF Messages
    <3>4. say' = <<>> \/ say' = <<<<"left", o>>>>
      BY <3>1 DEF Dropped
    <3> QED
      BY <1>4, <3>3, <3>4, ShortSequences
  <2>3. CASE say' = say \/ say' = <<>>
    BY <1>4, <2>3, ShortSequences
  <2> QED
    BY <1>5, <2>1, <2>2, <2>3
<1>6. ASSUME NEW u, uevents # <<>>, u = Head(uevents), HandleUevent(u)
      PROVE  say' = say \/ say' = <<>> \/ (\E d, m, up : Made(d, m, up)) \/ (\E o : Dropped(o))
  <2>1. u \in {"add", "remove"} \X Devices
    BY <1>1, <1>6 DEF BusTypes
  <2> QED
    BY <1>1, <1>6, <2>1, UeventDoes DEF NothingMade
<1>7. CASE MonitorReads \/ PollReads
  BY <1>4, <1>5, <1>6, <1>7 DEF MonitorReads, PollReads, QueueTypes
<1>8. CASE \E d \in Devices : ScanDevice(d)
  <2>1. PICK d \in Devices : ScanDevice(d)
    BY <1>8
  <2>2. say' \in Seq(Messages')
    BY <1>1, <1>5, <2>1, EnumerateMakes DEF ScanDevice, NothingMade
  <2> QED
    BY <1>4, <2>1, <2>2 DEF ScanDevice, QueueTypes
<1>9. CASE OpenDisconnects \/ \E o \in Handles : HangUp(o)
  <2>1. say' = say \/ say' = <<>> \/ \E o : Dropped(o)
    BY <1>9, DisconnectDrops DEF OpenDisconnects, HangUp, NothingMade
  <2> QED
    BY <1>4, <1>5, <1>9, <2>1 DEF OpenDisconnects, HangUp, QueueTypes
<1>10. CASE WriteMessage
  <2>1. Tail(say) \in Seq(Messages') /\ Head(say) \in Messages'
    BY <1>4, <1>10 DEF WriteMessage
  <2> QED
    BY <1>4, <1>10, <2>1 DEF WriteMessage, QueueTypes
<1>11. CASE ReadMessage
  <2>1. Tail(hotplug_pipe) \in Seq(Messages') /\ Head(hotplug_pipe) \in Messages'
    BY <1>4, <1>11 DEF ReadMessage
  <2> QED
    BY <1>4, <1>11, <2>1 DEF ReadMessage, QueueTypes
<1>12. CASE \/ Matched \/ Teardown
            \/ \E c \in Callbacks : libusb_hotplug_deregister_callback(c)
  <2>1. <<"none", 0>> \in Messages'
    BY <1>3
  <2>2. Append(hotplug_pipe, <<"none", 0>>) \in Seq(Messages') /\ <<>> \in Seq(Messages')
    BY <1>4, <2>1, ShortSequences
  <2> QED
    <3>1. CASE Matched
      <4>1. events'.msg = <<"none", 0>> /\ say' = say /\ hotplug_pipe' = hotplug_pipe
        BY <3>1 DEF Matched, Idle
      <4> QED
        BY <1>4, <2>1, <4>1, Zenon DEF QueueTypes
    <3>3. CASE Teardown
      <4>1. events' = events /\ say' = say /\ hotplug_pipe' = <<>>
        BY <3>3 DEF Teardown
      <4> QED
        BY <1>4, <2>2, <4>1, Zenon DEF QueueTypes
    <3>2. CASE \E c \in Callbacks : libusb_hotplug_deregister_callback(c)
      <4>1. /\ hotplug_pipe' = Append(hotplug_pipe, <<"none", 0>>)
            /\ say' = say /\ events' = events
        BY <3>2 DEF libusb_hotplug_deregister_callback
      <4>2. hotplug_pipe' \in Seq(Messages')
        BY <2>2, <4>1, Zenon
      <4> QED
        BY <1>4, <4>1, <4>2, Zenon DEF QueueTypes
    <3> QED
      BY <1>12, <3>1, <3>2, <3>3
<1>13. CASE \E c \in Callbacks, finished \in BOOLEAN : MatchCallback(c, finished)
  <2>1. events'.msg = events.msg
    BY <1>13 DEF MatchCallback
  <2> QED
    BY <1>4, <1>13, <2>1 DEF MatchCallback, QueueTypes
<1>14. ASSUME UNCHANGED <<say, hotplug_pipe, events>> PROVE QueueTypes'
  BY <1>4, <1>14 DEF QueueTypes
<1>15. CASE \/ \E d \in Devices : Plug(d) \/ MakeNode(d) \/ Unplug(d)
            \/ Unfind \/ Unlock \/ UNCHANGED vars
  BY <1>14, <1>15 DEF Plug, MakeNode, Unplug, Unfind, Unlock, vars
<1>16. CASE \/ StartMonitor \/ linux_scan_devices \/ Scanned \/ usbi_io_init
            \/ PollLock \/ PollUnlock \/ Snapshot \/ Enumerated
  BY <1>14, <1>16 DEF StartMonitor, linux_scan_devices, Scanned, usbi_io_init, PollLock,
                      PollUnlock, Snapshot, Enumerated
<1>17. CASE \/ OpenNode \/ OpenFails \/ GetDeviceList \/ libusb_free_device_list \/ BeginExit
            \/ \E c \in Callbacks, enumerate \in BOOLEAN : RegisterCallback(c, enumerate)
            \/ \E o \in Objects : libusb_open(o) \/ libusb_close(o)
  BY <1>14, <1>17 DEF OpenNode, OpenFails, GetDeviceList, libusb_free_device_list, BeginExit,
                      RegisterCallback, libusb_open, libusb_close
<1>18. CASE Transferring
  BY <1>14, <1>18 DEF Transferring, libusb_submit_transfer, usbi_handle_transfer_completion
<1> QED
  BY <1>7, <1>8, <1>9, <1>10, <1>11, <1>12, <1>13, <1>15, <1>16, <1>17, <1>18
  DEF Next, Library, Events, Call, Transferring

LEMMA BusStep == ASSUME Shape, [Next]_vars PROVE BusTypes'
<1> USE DEF busVars, objVars, lockVars, cbVars, appVars, transferVars
<1>1. BusTypes
  BY DEF Shape
<1>2. present \subseteq Devices /\ uevents \in Seq({"add", "remove"} \X Devices)
  BY <1>1 DEF BusTypes
<1>3. CASE \E d \in Devices : Plug(d) \/ Unplug(d)
  <2>1. PICK d \in Devices : Plug(d) \/ Unplug(d)
    BY <1>3
  <2>2. \A U : \A a, b \in U : \A q \in Seq(U) :
           <<>> \in Seq(U) /\ q \o <<a>> \in Seq(U) /\ q \o <<b>> \in Seq(U)
    BY AddOne
  <2>3. uevents' = <<>> \/ uevents' = uevents \o <<<<"add", d>>>> \/ uevents' = uevents \o <<<<"remove", d>>>>
    BY <2>1 DEF Plug, Unplug, Notify
  <2>4. uevents' \in Seq({"add", "remove"} \X Devices)
    <3>1. <<"add", d>> \in {"add", "remove"} \X Devices /\ <<"remove", d>> \in {"add", "remove"} \X Devices
      OBVIOUS
    <3> QED
      BY <1>2, <2>2, <2>3, <3>1, Zenon
  <2>5. present' \subseteq Devices /\ \A e \in present' : Parent[e] \in present' \cup {"none"}
    BY <1>1, <2>1 DEF Plug, Unplug, BusTypes
  <2> QED
    BY <1>1, <2>1, <2>4, <2>5 DEF Plug, Unplug, BusTypes
<1>4. CASE MonitorReads \/ PollReads
  <2>1. Tail(uevents) \in Seq({"add", "remove"} \X Devices)
    BY <1>2, <1>4 DEF MonitorReads, PollReads
  <2> QED
    BY <1>1, <1>4, <2>1 DEF MonitorReads, PollReads, BusTypes
<1>5. CASE Teardown
  BY <1>1, <1>5 DEF Teardown, BusTypes
<1>6. ASSUME UNCHANGED <<present, uevents>>, app' = "scan" => arg' \subseteq Devices PROVE BusTypes'
  BY <1>1, <1>6 DEF BusTypes
<1>7. app = "scan" => arg \subseteq Devices
  BY <1>1 DEF BusTypes
<1>8. CASE \E d \in Devices : MakeNode(d) \/ ScanDevice(d)
  BY <1>6, <1>7, <1>8 DEF MakeNode, ScanDevice
<1>9. CASE StartMonitor \/ linux_scan_devices \/ Scanned \/ usbi_io_init \/ PollLock \/ PollUnlock
  BY <1>2, <1>6, <1>7, <1>9
     DEF StartMonitor, linux_scan_devices, Scanned, usbi_io_init, PollLock, PollUnlock
<1>10. CASE \/ WriteMessage \/ Unfind \/ Unlock \/ ReadMessage \/ Matched \/ UNCHANGED vars
            \/ \E c \in Callbacks, finished \in BOOLEAN : MatchCallback(c, finished)
            \/ \E o \in Handles : HangUp(o)
  BY <1>6, <1>7, <1>10 DEF WriteMessage, Unfind, Unlock, ReadMessage, Matched, MatchCallback, HangUp, vars
<1>11. CASE \/ Snapshot \/ Enumerated \/ OpenNode \/ OpenDisconnects \/ OpenFails
  BY <1>6, <1>7, <1>11 DEF Snapshot, Enumerated, OpenNode, OpenDisconnects, OpenFails
<1>12. CASE \/ GetDeviceList \/ libusb_free_device_list \/ BeginExit
            \/ \E c \in Callbacks, enumerate \in BOOLEAN : RegisterCallback(c, enumerate)
            \/ \E c \in Callbacks : libusb_hotplug_deregister_callback(c)
            \/ \E o \in Objects : libusb_open(o) \/ libusb_close(o)
  BY <1>6, <1>7, <1>12 DEF GetDeviceList, libusb_free_device_list, BeginExit, RegisterCallback,
                           libusb_hotplug_deregister_callback, libusb_open, libusb_close
<1>13. CASE Transferring
  BY <1>6, <1>7, <1>13 DEF Transferring, libusb_submit_transfer, usbi_handle_transfer_completion
<1> QED
  BY <1>3, <1>4, <1>5, <1>8, <1>9, <1>10, <1>11, <1>12, <1>13
  DEF Next, Library, Events, Call, Transferring

LEMMA ShapeHolds == Spec => []Shape
<1>1. Init => Shape
  <2> SUFFICES ASSUME Init PROVE Shape
    OBVIOUS
  <2>1. present \subseteq Devices /\ \A d \in present : Parent[d] \in present \cup {"none"}
    BY DEF Init
  <2>2. session = <<>> /\ parent = <<>> /\ refcnt = <<>> /\ Objects = {}
    BY DEF Init, Objects
  <2>3. <<>> \in [{} -> Int] /\ <<>> \in [{} -> {0}] /\ <<>> \in Seq(Devices)
    OBVIOUS
  <2>4. ObjectTypes
    BY <2>2, <2>3 DEF Init, ObjectTypes, Opening, Handles
  <2>5. QueueTypes /\ BusTypes /\ LockInv
    BY <2>1 DEF Init, QueueTypes, BusTypes, LockInv, Messages, Idle, Starting, Handles
  <2> QED
    BY <2>4, <2>5 DEF Shape
<1>2. Shape /\ [Next]_vars => Shape'
  BY LockStep, ObjectsGrow, QueueStep, BusStep DEF Shape
<1> QED
  BY <1>1, <1>2, PTL DEF Spec

-----------------------------------------------------------------------------
(* Objects and their hubs.                                                 *)

\* Session ids and parents change where objects are made, and only there.
LEMMA SessionStep ==
    ASSUME Shape, [Next]_vars
    PROVE  UNCHANGED <<session, parent>> \/ \E d, m, up : Made(d, m, up)
<1> USE DEF busVars, objVars, lockVars, cbVars, appVars, transferVars
<1>1. ObjectTypes /\ BusTypes
  BY DEF Shape
<1>2. ASSUME NEW u, uevents # <<>>, u = Head(uevents), HandleUevent(u)
      PROVE  UNCHANGED <<session, parent>> \/ \E d, m, up : Made(d, m, up)
  <2>1. u \in {"add", "remove"} \X Devices
    BY <1>1, <1>2 DEF BusTypes
  <2> QED
    BY <1>1, <1>2, <2>1, UeventDoes DEF NothingMade, Dropped
<1>3. CASE MonitorReads \/ PollReads
  BY <1>2, <1>3 DEF MonitorReads, PollReads
<1>4. CASE \E d \in Devices : ScanDevice(d)
  BY <1>1, <1>4, EnumerateMakes DEF ScanDevice, NothingMade
<1>5. CASE OpenDisconnects \/ \E o \in Handles : HangUp(o)
  BY <1>5, DisconnectDrops DEF OpenDisconnects, HangUp, NothingMade, Dropped
<1>6. CASE \/ WriteMessage \/ Unfind \/ Unlock \/ ReadMessage \/ Matched \/ UNCHANGED vars
           \/ \E c \in Callbacks, finished \in BOOLEAN : MatchCallback(c, finished)
           \/ \E d \in Devices : Plug(d) \/ MakeNode(d) \/ Unplug(d)
  BY <1>6 DEF WriteMessage, Unfind, Unlock, ReadMessage, Matched, MatchCallback, Plug, MakeNode, Unplug, vars
<1>7. CASE \/ StartMonitor \/ linux_scan_devices \/ Scanned \/ usbi_io_init \/ PollLock \/ PollUnlock
           \/ Snapshot \/ Enumerated \/ OpenNode \/ OpenFails \/ Teardown
  BY <1>7 DEF StartMonitor, linux_scan_devices, Scanned, usbi_io_init, PollLock, PollUnlock,
              Snapshot, Enumerated, OpenNode, OpenFails, Teardown
<1>8. CASE \/ GetDeviceList \/ libusb_free_device_list \/ BeginExit
           \/ \E c \in Callbacks, enumerate \in BOOLEAN : RegisterCallback(c, enumerate)
           \/ \E c \in Callbacks : libusb_hotplug_deregister_callback(c)
           \/ \E o \in Objects : libusb_open(o) \/ libusb_close(o)
  BY <1>8 DEF GetDeviceList, libusb_free_device_list, BeginExit, RegisterCallback,
              libusb_hotplug_deregister_callback, libusb_open, libusb_close
<1>9. CASE Transferring
  BY <1>9 DEF Transferring, libusb_submit_transfer, usbi_handle_transfer_completion
<1> QED
  BY <1>3, <1>4, <1>5, <1>6, <1>7, <1>8, <1>9 DEF Next, Library, Events, Call, Transferring

LEMMA ForestHolds == Spec => []ForestInv
<1>1. Init => ForestInv
  BY DEF Init, ForestInv, Objects
<1>2. Shape /\ ForestInv /\ [Next]_vars => ForestInv'
  <2> SUFFICES ASSUME Shape, ForestInv, [Next]_vars PROVE ForestInv'
    OBVIOUS
  <2>1. ObjectTypes
    BY DEF Shape
  <2>2. CASE UNCHANGED <<session, parent>>
    BY <2>2 DEF ForestInv, Objects
  <2>3. CASE \E d, m, up : Made(d, m, up)
    <3>1. PICK d, m, up : Made(d, m, up)
      BY <2>3
    <3> DEFINE n == Len(session)
    <3>2. n \in Nat /\ Objects = 1..n /\ m \in {1, 2} /\ Objects' = 1..(n + m)
      <4>1. n \in Nat /\ Objects = 1..n
        BY <2>1, ObjectNumbers
      <4>2. Objects' = 1..(n + m)
        BY <2>1, <3>1, MadeTypes
      <4> QED
        BY <3>1, <4>1, <4>2 DEF Made
    <3>3. /\ \A o \in Objects : session'[o] = session[o] /\ parent'[o] = parent[o]
          /\ session'[n + m] = d /\ parent'[n + m] = up
          /\ m = 2 => /\ session'[n + 1] = Parent[d] /\ parent'[n + 1] = 0
                      /\ up = n + 1 /\ Parent[d] \in Devices
          /\ m = 1 => \/ up = 0
                      \/ up \in usb_devs /\ session[up] = Parent[d] /\ Parent[d] \in Devices
      BY <3>1 DEF Made
    <3>4. usb_devs \subseteq Objects /\ \A c \in Objects : parent[c] \in Objects \cup {0}
      BY <2>1 DEF ObjectTypes
    <3>5. ASSUME NEW c \in Objects', parent'[c] # 0
          PROVE  Parent[session'[c]] \in Devices /\ session'[parent'[c]] = Parent[session'[c]]
      <4>1. CASE c \in Objects
        <5>1. parent[c] \in Objects
          BY <3>3, <3>4, <3>5, <4>1
        <5> QED
          BY <3>3, <3>5, <4>1, <5>1 DEF ForestInv
      <4>2. CASE c = n + m
        <5>1. CASE m = 2
          BY <3>3, <4>2, <5>1
        <5>2. CASE m = 1
          <6>1. up \in Objects
            BY <3>3, <3>4, <3>5, <4>2, <5>2
          <6> QED
            BY <3>3, <3>5, <4>2, <5>2, <6>1
        <5> QED
          BY <3>2, <5>1, <5>2
      <4>3. CASE m = 2 /\ c = n + 1
        BY <3>3, <3>5, <4>3
      <4> QED
        BY <3>2, <4>1, <4>2, <4>3
    <3> QED
      BY <3>5 DEF ForestInv
  <2> QED
    BY <2>2, <2>3, SessionStep
<1> QED
  BY <1>1, <1>2, ShapeHolds, PTL DEF Spec

\* No hub is on a hub.
LEMMA NoGrandparent ==
    ASSUME ObjectTypes, ForestInv, NEW c \in Objects, parent[c] # 0
    PROVE  parent[c] \in Objects /\ parent[parent[c]] = 0
<1>1. parent[c] \in Objects /\ session[c] \in Devices
  BY ObjectNumbers DEF ObjectTypes
<1>2. Parent[session[c]] \in Devices /\ session[parent[c]] = Parent[session[c]]
  BY DEF ForestInv
<1>3. Parent[session[parent[c]]] \notin Devices
  BY <1>1, <1>2, Constants
<1> QED
  BY <1>1, <1>3 DEF ForestInv

-----------------------------------------------------------------------------
(* Queues of messages.                                                     *)

LEMMA LeftMeans ==
    ASSUME NEW q \in Seq(Messages)
    PROVE  /\ LeftIn(q) = {o \in Objects : \E i \in DOMAIN q : q[i] = <<"left", o>>}
           /\ \A i \in DOMAIN q : q[i][1] = "left" => q[i] = <<"left", q[i][2]>> /\ q[i][2] \in LeftIn(q)
<1>1. \A i \in DOMAIN q : q[i] \in Messages
  OBVIOUS
<1>2. \A m \in Messages : m[1] = "left" => m = <<"left", m[2]>> /\ m[2] \in Objects
  BY DEF Messages
<1>3. \A i \in DOMAIN q : q[i][1] = "left" => q[i] = <<"left", q[i][2]>> /\ q[i][2] \in Objects
  BY <1>1, <1>2
<1>4. \A o : <<"left", o>>[1] = "left" /\ <<"left", o>>[2] = o
  OBVIOUS
<1>5. \A o : o \in LeftIn(q) <=> \E i \in DOMAIN q : q[i][1] = "left" /\ o = q[i][2]
  BY DEF LeftIn
<1>6. \A o : o \in LeftIn(q) <=> o \in Objects /\ \E i \in DOMAIN q : q[i] = <<"left", o>>
  <2>1. ASSUME NEW o, o \in LeftIn(q) PROVE o \in Objects /\ \E i \in DOMAIN q : q[i] = <<"left", o>>
    <3>1. PICK i \in DOMAIN q : q[i][1] = "left" /\ o = q[i][2]
      BY <1>5, <2>1
    <3> QED
      BY <1>3, <3>1
  <2>2. ASSUME NEW o, NEW i \in DOMAIN q, q[i] = <<"left", o>> PROVE o \in LeftIn(q)
    <3>1. q[i][1] = "left" /\ q[i][2] = o
      BY <1>4, <2>2
    <3> QED
      BY <1>5, <3>1
  <2> QED
    BY <2>1, <2>2
<1>7. \A i \in DOMAIN q : q[i][1] = "left" => q[i][2] \in LeftIn(q)
  BY <1>5
<1> QED
  BY <1>3, <1>6, <1>7

LEMMA ShortLeft ==
    /\ LeftIn(<<>>) = {} /\ OneEach(<<>>)
    /\ \A m : LeftIn(<<m>>) = (IF m[1] = "left" THEN {m[2]} ELSE {}) /\ OneEach(<<m>>)
    /\ \A a, b : a[1] = "arrived" /\ b[1] = "arrived" => LeftIn(<<a, b>>) = {} /\ OneEach(<<a, b>>)
<1>1. LeftIn(<<>>) = {} /\ OneEach(<<>>)
  BY DEF LeftIn, OneEach
<1>2. ASSUME NEW m PROVE LeftIn(<<m>>) = (IF m[1] = "left" THEN {m[2]} ELSE {}) /\ OneEach(<<m>>)
  BY DEF LeftIn, OneEach
<1>3. ASSUME NEW a, NEW b, a[1] = "arrived", b[1] = "arrived" PROVE LeftIn(<<a, b>>) = {} /\ OneEach(<<a, b>>)
  BY <1>3 DEF LeftIn, OneEach
<1> QED
  BY <1>1, <1>2, <1>3

LEMMA OneLeft ==
    ASSUME NEW m \in Messages
    PROVE  \A o : o \in LeftIn(<<m>>) <=> m = <<"left", o>> /\ o \in Objects
<1>1. m[1] = "left" => m = <<"left", m[2]>> /\ m[2] \in Objects
  BY DEF Messages
<1>2. \A o : m = <<"left", o>> => m[1] = "left" /\ m[2] = o
  OBVIOUS
<1>3. CASE m[1] = "left"
  BY <1>1, <1>2, <1>3, ShortLeft
<1>4. CASE m[1] # "left"
  BY <1>2, <1>4, ShortLeft
<1> QED
  BY <1>3, <1>4

LEMMA TailLeft ==
    ASSUME NEW q \in Seq(Messages), q # <<>>, OneEach(q)
    PROVE  /\ OneEach(Tail(q)) /\ LeftIn(Tail(q)) = LeftIn(q) \ LeftIn(<<Head(q)>>)
           /\ LeftIn(<<Head(q)>>) \subseteq LeftIn(q)
<1>1. Tail(q) \in Seq(Messages) /\ Head(q) = q[1] /\ 1 \in DOMAIN q
  OBVIOUS
<1>2. \A i \in DOMAIN Tail(q) : i + 1 \in DOMAIN q /\ Tail(q)[i] = q[i + 1] /\ i \in Nat /\ i + 1 # 1
  OBVIOUS
<1>3. \A i \in DOMAIN q : i = 1 \/ (i - 1 \in DOMAIN Tail(q) /\ Tail(q)[i - 1] = q[i])
  OBVIOUS
<1>4. OneEach(Tail(q))
  BY <1>2 DEF OneEach
<1>5. ASSUME NEW o PROVE o \in LeftIn(Tail(q)) <=> o \in LeftIn(q) /\ ~(q[1] = <<"left", o>>)
  <2>1. ASSUME o \in LeftIn(Tail(q)) PROVE o \in LeftIn(q) /\ q[1] # <<"left", o>>
    <3>1. PICK i \in DOMAIN Tail(q) : Tail(q)[i] = <<"left", o>> /\ o \in Objects
      BY <1>1, <2>1, LeftMeans
    <3>2. q[i + 1] = <<"left", o>> /\ i + 1 \in DOMAIN q /\ i + 1 # 1
      BY <1>2, <3>1
    <3>3. q[1] # <<"left", o>>
      BY <1>1, <3>2 DEF OneEach
    <3> QED
      BY <3>1, <3>2, <3>3, LeftMeans
  <2>2. ASSUME o \in LeftIn(q), q[1] # <<"left", o>> PROVE o \in LeftIn(Tail(q))
    <3>1. PICK i \in DOMAIN q : q[i] = <<"left", o>> /\ o \in Objects
      BY <2>2, LeftMeans
    <3>2. i # 1
      BY <2>2, <3>1
    <3>3. i - 1 \in DOMAIN Tail(q) /\ Tail(q)[i - 1] = <<"left", o>>
      BY <1>3, <3>1, <3>2
    <3>4. \E k \in DOMAIN Tail(q) : Tail(q)[k] = <<"left", o>>
      BY <3>3
    <3> QED
      BY <1>1, <3>1, <3>4, LeftMeans
  <2> QED
    BY <2>1, <2>2
<1>6. \A o : o \in LeftIn(<<Head(q)>>) <=> q[1] = <<"left", o>> /\ o \in Objects
  <2>1. Head(q) \in Messages /\ Head(q) = q[1]
    OBVIOUS
  <2> QED
    BY <2>1, OneLeft
<1>7. LeftIn(<<Head(q)>>) \subseteq LeftIn(q) /\ LeftIn(q) \subseteq Objects
  BY <1>1, <1>6, LeftMeans
<1> QED
  BY <1>4, <1>5, <1>6, <1>7

LEMMA AppendLeft ==
    ASSUME NEW q \in Seq(Messages), NEW m \in Messages
    PROVE  /\ LeftIn(Append(q, m)) = LeftIn(q) \cup LeftIn(<<m>>)
           /\ OneEach(q) /\ LeftIn(q) \cap LeftIn(<<m>>) = {} => OneEach(Append(q, m))
<1> DEFINE p == Append(q, m)
<1>1. p \in Seq(Messages) /\ Len(q) \in Nat /\ DOMAIN q = 1..Len(q) /\ DOMAIN p = 1..(Len(q) + 1)
  OBVIOUS
<1>2. p[Len(q) + 1] = m /\ \A i \in DOMAIN q : p[i] = q[i]
  OBVIOUS
<1>3. \A i \in DOMAIN p : i = Len(q) + 1 \/ i \in DOMAIN q
  BY <1>1
<1>4. \A o : o \in LeftIn(<<m>>) <=> m = <<"left", o>> /\ o \in Objects
  BY OneLeft
<1>5. LeftIn(p) = {o \in Objects : \E i \in DOMAIN p : p[i] = <<"left", o>>}
  BY <1>1, LeftMeans
<1>6. LeftIn(q) = {o \in Objects : \E i \in DOMAIN q : q[i] = <<"left", o>>}
  BY LeftMeans
<1>7. Len(q) + 1 \in DOMAIN p /\ DOMAIN q \subseteq DOMAIN p
  BY <1>1
<1> HIDE DEF p
<1>8. LeftIn(p) = LeftIn(q) \cup LeftIn(<<m>>)
  BY <1>2, <1>3, <1>4, <1>5, <1>6, <1>7, Zenon
<1>9. ASSUME OneEach(q), LeftIn(q) \cap LeftIn(<<m>>) = {} PROVE OneEach(p)
  <2>1. \A i \in DOMAIN q : q[i] = m => m[1] # "left"
    BY <1>4, <1>9, LeftMeans
  <2> QED
    BY <1>1, <1>2, <1>3, <1>9, <2>1, Zenon DEF OneEach
<1> QED
  BY <1>8, <1>9 DEF p

-----------------------------------------------------------------------------
(* What moves between the queues: a step keeps that each object that left  *)
(* is in one of them once, and these lemmas say which objects are.         *)

LEMMA LeavingObjects ==
    ASSUME QueueTypes
    PROVE  LeftIn(say) \subseteq Objects /\ LeftIn(hotplug_pipe) \subseteq Objects
           /\ LeftIn(Message) \subseteq Objects /\ Leaving \subseteq Objects
<1>1. say \in Seq(Messages) /\ hotplug_pipe \in Seq(Messages) /\ <<events.msg>> \in Seq(Messages)
  BY DEF QueueTypes
<1> QED
  BY <1>1, LeftMeans DEF Leaving, Message

LEMMA QuietMoves ==
    ASSUME LeftOnce, UNCHANGED <<say, hotplug_pipe, usb_devs, unannounced>>, events'.msg = events.msg
    PROVE  LeftOnce' /\ Leaving' = Leaving
BY DEF LeftOnce, Leaving, Message

LEMMA WriteMoves ==
    ASSUME QueueTypes, LeftOnce, WriteMessage
    PROVE  LeftOnce' /\ Leaving' = Leaving
<1> DEFINE h == LeftIn(<<Head(say)>>)
<1>1. say \in Seq(Messages) /\ hotplug_pipe \in Seq(Messages) /\ say # <<>> /\ OneEach(say) /\ Head(say) \in Messages
  BY DEF QueueTypes, LeftOnce, WriteMessage
<1>2. /\ say' = Tail(say) /\ hotplug_pipe' = Append(hotplug_pipe, Head(say))
      /\ UNCHANGED <<events, usb_devs, unannounced>>
  BY DEF WriteMessage, objVars
<1>3. OneEach(say') /\ LeftIn(say') = LeftIn(say) \ h /\ h \subseteq LeftIn(say)
  BY <1>1, <1>2, TailLeft
<1>4. /\ LeftIn(hotplug_pipe') = LeftIn(hotplug_pipe) \cup h
      /\ OneEach(hotplug_pipe) /\ LeftIn(hotplug_pipe) \cap h = {} => OneEach(hotplug_pipe')
  BY <1>1, <1>2, AppendLeft
<1>5. Message' = Message
  BY <1>2 DEF Message
<1> HIDE DEF h
<1> QED
  BY <1>2, <1>3, <1>4, <1>5 DEF LeftOnce, Leaving

LEMMA ReadMoves ==
    ASSUME QueueTypes, LeftOnce, ReadMessage
    PROVE  LeftOnce' /\ Leaving' = Leaving
<1> DEFINE h == LeftIn(<<Head(hotplug_pipe)>>)
<1>1. hotplug_pipe \in Seq(Messages) /\ hotplug_pipe # <<>> /\ OneEach(hotplug_pipe)
  BY DEF QueueTypes, LeftOnce, ReadMessage
<1>2. /\ hotplug_pipe' = Tail(hotplug_pipe) /\ UNCHANGED <<say, usb_devs, unannounced>>
      /\ events.msg = <<"none", 0>> /\ Message' = <<Head(hotplug_pipe)>>
  BY DEF ReadMessage, objVars, lockVars, Idle, Message
<1>3. OneEach(hotplug_pipe') /\ LeftIn(hotplug_pipe') = LeftIn(hotplug_pipe) \ h /\ h \subseteq LeftIn(hotplug_pipe)
  BY <1>1, <1>2, TailLeft
<1>4. LeftIn(Message) = {} /\ LeftIn(Message') = h
  BY <1>2, ShortLeft DEF Message
<1> HIDE DEF h
<1> QED
  BY <1>2, <1>3, <1>4 DEF LeftOnce, Leaving

LEMMA MatchedMoves ==
    ASSUME LeftOnce, Matched
    PROVE  LeftOnce' /\ Leaving' = Leaving \ LeftIn(Message)
           /\ LeftIn(Message) = (IF events.msg[1] = "left" THEN {events.msg[2]} ELSE {})
<1>1. UNCHANGED <<say, hotplug_pipe, usb_devs, unannounced>> /\ events'.msg = <<"none", 0>>
  BY DEF Matched, objVars, lockVars, Idle
<1>2. LeftIn(Message') = {}
  BY <1>1, ShortLeft DEF Message
<1>3. LeftIn(Message) = (IF events.msg[1] = "left" THEN {events.msg[2]} ELSE {})
  BY ShortLeft DEF Message
<1> QED
  BY <1>1, <1>2, <1>3 DEF LeftOnce, Leaving

LEMMA WakeMoves ==
    ASSUME QueueTypes, LeftOnce, NEW c, libusb_hotplug_deregister_callback(c)
    PROVE  LeftOnce' /\ Leaving' = Leaving
<1> DEFINE wake == <<"none", 0>>
<1>1. hotplug_pipe \in Seq(Messages) /\ wake \in Messages
  BY DEF QueueTypes, Messages
<1>2. /\ hotplug_pipe' = Append(hotplug_pipe, wake)
      /\ UNCHANGED <<say, events, usb_devs, unannounced>>
  BY DEF libusb_hotplug_deregister_callback, objVars, lockVars
<1>3. LeftIn(<<wake>>) = {}
  BY ShortLeft
<1> HIDE DEF wake
<1>4. LeftIn(hotplug_pipe') = LeftIn(hotplug_pipe) /\ (OneEach(hotplug_pipe) => OneEach(hotplug_pipe'))
  BY <1>1, <1>2, <1>3, AppendLeft
<1>5. Message' = Message
  BY <1>2 DEF Message
<1> QED
  BY <1>2, <1>4, <1>5 DEF LeftOnce, Leaving

LEMMA TeardownMoves ==
    ASSUME Shape, LeftOnce, Teardown
    PROVE  /\ LeftOnce' /\ Leaving' = {}
           /\ Leaving = {o \in Objects : \E i \in DOMAIN hotplug_pipe : hotplug_pipe[i] = <<"left", o>>}
<1>1. hotplug_pipe \in Seq(Messages) /\ say = <<>> /\ events.msg = <<"none", 0>>
  BY DEF Shape, QueueTypes, LockInv, Teardown
<1>2. hotplug_pipe' = <<>> /\ usb_devs' = {} /\ UNCHANGED <<say, events, unannounced>>
  BY DEF Teardown, lockVars
<1>3. LeftIn(say) = {} /\ LeftIn(Message) = {} /\ OneEach(say)
  BY <1>1, ShortLeft DEF Message
<1>4. LeftIn(say') = {} /\ LeftIn(Message') = {} /\ OneEach(say') /\ LeftIn(hotplug_pipe') = {} /\ OneEach(hotplug_pipe')
  BY <1>1, <1>2, ShortLeft DEF Message
<1>5. Leaving = LeftIn(hotplug_pipe)
  BY <1>3 DEF Leaving
<1> QED
  BY <1>1, <1>2, <1>4, <1>5, LeftMeans DEF LeftOnce, Leaving

LEMMA MadeMoves ==
    ASSUME Shape, LeftOnce, NEW d, NEW m, NEW up, Made(d, m, up), say = <<>>,
           UNCHANGED <<hotplug_pipe, events>>
    PROVE  LeftOnce' /\ Leaving' = Leaving
<1>1. /\ Leaving \subseteq Objects /\ unannounced \subseteq Objects
      /\ Objects = 1..Len(session) /\ Len(session) \in Nat
  BY LeavingObjects, ObjectNumbers DEF Shape, ObjectTypes
<1>2. /\ usb_devs' = usb_devs \cup (Len(session) + 1)..(Len(session) + m) /\ unannounced' = unannounced
      /\ \/ say' = <<>> \/ say' = <<<<"arrived", Len(session) + 1>>>>
         \/ say' = <<<<"arrived", Len(session) + 1>>, <<"arrived", Len(session) + 2>>>>
  BY DEF Made
<1>3. LeftIn(say') = {} /\ OneEach(say')
  <2>1. \A a, b : <<"arrived", a>>[1] = "arrived" /\ <<"arrived", b>>[1] = "arrived" /\ "arrived" # "left"
    OBVIOUS
  <2> QED
    BY <1>2, <2>1, ShortLeft
<1>4. LeftIn(say) = {} /\ Message' = Message
  BY ShortLeft DEF Message
<1>5. Leaving' = Leaving
  BY <1>3, <1>4 DEF Leaving
<1>6. Objects \cap (Len(session) + 1)..(Len(session) + m) = {}
  BY <1>1
<1>7. Leaving' \cap (usb_devs' \cup unannounced') = {} /\ usb_devs' \cap unannounced' = {}
  BY <1>1, <1>2, <1>5, <1>6 DEF LeftOnce
<1> QED
  BY <1>2, <1>3, <1>4, <1>5, <1>7 DEF LeftOnce

LEMMA DroppedMoves ==
    ASSUME LeftOnce, NEW o, Dropped(o), say = <<>>, UNCHANGED <<hotplug_pipe, events>>
    PROVE  /\ LeftOnce' /\ o \notin Leaving /\ o \notin unannounced
           /\ \/ Leaving' = Leaving \cup {o} /\ unannounced' = unannounced
              \/ Leaving' = Leaving /\ unannounced' = unannounced \cup {o}
<1>1. o \in usb_devs /\ usb_devs' = usb_devs \ {o}
  BY DEF Dropped
<1>2. \/ say' = <<>> /\ unannounced' = unannounced \cup {o}
      \/ say' = <<<<"left", o>>>> /\ unannounced' = unannounced
  BY DEF Dropped
<1>3. LeftIn(say) = {} /\ Message' = Message
  BY ShortLeft DEF Message
<1>4. o \notin Leaving /\ o \notin unannounced
  BY <1>1 DEF LeftOnce
<1>5. CASE say' = <<>> /\ unannounced' = unannounced \cup {o}
  <2>1. LeftIn(say') = {} /\ OneEach(say')
    BY <1>5, ShortLeft
  <2> QED
    BY <1>1, <1>3, <1>4, <1>5, <2>1 DEF LeftOnce, Leaving
<1>6. CASE say' = <<<<"left", o>>>> /\ unannounced' = unannounced
  <2> DEFINE m == <<"left", o>>
  <2>1. m[1] = "left" /\ m[2] = o
    OBVIOUS
  <2>2. say' = <<m>>
    BY <1>6
  <2> HIDE DEF m
  <2>3. LeftIn(say') = {o} /\ OneEach(say')
    BY <2>1, <2>2, ShortLeft
  <2> QED
    BY <1>1, <1>3, <1>4, <1>6, <2>3 DEF LeftOnce, Leaving
<1> QED
  BY <1>2, <1>5, <1>6

-----------------------------------------------------------------------------
(* Counting references.                                                    *)

LEMMA HeldCounts ==
    ASSUME NEW o, NEW S
    PROVE  One(S, o) \in {0, 1} /\ Held(o) \in Nat
<1>1. \A T : One(T, o) \in {0, 1}
  BY DEF One
<1> QED
  BY <1>1 DEF Held

LEMMA ChildrenFinite ==
    ASSUME ObjectTypes, NEW o
    PROVE  IsFiniteSet(Children(o)) /\ Cardinality(Children(o)) \in Nat
<1>1. Children(o) \in SUBSET Objects
  BY DEF Children
<1> QED
  BY <1>1, FiniteObjects

LEMMA ClaimsCounts ==
    ASSUME ObjectTypes, NEW o
    PROVE  /\ IsFiniteSet(transfers) /\ TransferRefs(o) \in Nat
           /\ Claims(o) \in Nat /\ Claims(o) >= Held(o)
<1>1. Len(session) \in Nat /\ Objects = 1..Len(session) /\ MaxTransfers \in Nat
  BY ObjectNumbers, Constants
<1>2. IsFiniteSet((1..MaxTransfers) \X Objects)
  <2>1. IsFiniteSet(1..MaxTransfers) /\ IsFiniteSet(Objects)
    BY <1>1, FS_Interval
  <2> QED
    BY <2>1, FS_Product, Zenon
<1>3. transfers \subseteq (1..MaxTransfers) \X Objects
  BY DEF ObjectTypes
<1>4. IsFiniteSet(transfers)
  BY <1>2, <1>3, FS_Subset
<1>5. IsFiniteSet({t \in transfers : t[2] = o})
  BY <1>4, FS_Subset
<1>6. TransferRefs(o) \in Nat
  BY <1>5, FS_CardinalityType DEF TransferRefs
<1>7. Held(o) \in Nat
  BY HeldCounts
<1> QED
  BY <1>4, <1>6, <1>7 DEF Claims

\* The transfers' references stay as they are.
LEMMA ClaimsMove ==
    ASSUME ObjectTypes, UNCHANGED transfers
    PROVE  \A o : TransferRefs(o)' = TransferRefs(o) /\ Claims(o)' = Held(o)' + TransferRefs(o)
<1>1. \A o : TransferRefs(o)' = TransferRefs(o)
  BY DEF TransferRefs
<1> QED
  BY <1>1 DEF Claims

\* Who takes a reference to objects that are alive only adds to their counts.
LEMMA RefCounts ==
    ASSUME ObjectTypes, CountInv, NEW S \in SUBSET Objects,
           \A o \in S : Claims(o) >= 1
    PROVE  \A o \in Objects :
             Ref(S)[o] = (Claims(o) + One(S, o)) + Cardinality({c \in Objects : parent[c] = o /\ Ref(S)[c] > 0})
<1>1. TAKE o \in Objects
<1>2. \A c \in Objects : refcnt[c] \in Int /\ refcnt[c] = Claims(c) + Cardinality(Children(c))
  BY DEF ObjectTypes, CountInv
<1>3. \A c \in Objects : Claims(c) \in Nat /\ Cardinality(Children(c)) \in Nat
  BY ClaimsCounts, ChildrenFinite
<1>4. \A c \in Objects : Ref(S)[c] = refcnt[c] + One(S, c)
  BY <1>2 DEF Ref, One
<1>5. \A c \in Objects : Ref(S)[c] > 0 <=> refcnt[c] > 0
  BY <1>2, <1>3, <1>4 DEF One
<1>6. {c \in Objects : parent[c] = o /\ Ref(S)[c] > 0} = Children(o)
  BY <1>5 DEF Children
<1>7. One(S, o) \in {0, 1}
  BY HeldCounts
<1>8. Ref(S)[o] = (Claims(o) + One(S, o)) + Cardinality(Children(o))
  BY <1>2, <1>3, <1>4, <1>7
<1> QED
  BY <1>6, <1>8, Zenon

\* Who drops one frees an object when it was the last; the hub of that object has
\* one child fewer. A hub has no hub, so that no more is freed.
LEMMA UnrefCounts ==
    ASSUME ObjectTypes, ForestInv, CountInv, NEW S \in SUBSET Objects,
           \A o \in S : Claims(o) >= 1
    PROVE  \A o \in Objects :
             Unref(S)[o] = (Claims(o) - One(S, o)) + Cardinality({c \in Objects : parent[c] = o /\ Unref(S)[c] > 0})
<1> DEFINE left    == [o \in Objects |-> IF o \in S THEN refcnt[o] - 1 ELSE refcnt[o]]
           freed   == {o \in S : left[o] = 0}
           kids(o) == {c \in freed : parent[c] = o}
<1>1. \A o \in Objects : refcnt[o] \in Int /\ refcnt[o] = Claims(o) + Cardinality(Children(o))
  BY DEF ObjectTypes, CountInv
<1>2. \A o \in Objects : Claims(o) \in Nat /\ Cardinality(Children(o)) \in Nat /\ IsFiniteSet(Children(o))
  BY ClaimsCounts, ChildrenFinite
<1>3. \A o \in Objects : left[o] = refcnt[o] - One(S, o) /\ left[o] \in Int /\ left[o] >= 0
  BY <1>1, <1>2 DEF One
<1>4. \A o \in Objects : Unref(S)[o] = left[o] - Cardinality(kids(o))
  BY DEF Unref
<1>5. \A o \in S : refcnt[o] > 0
  BY <1>1, <1>2
<1>6. freed \subseteq S /\ \A o \in S : o \in freed <=> left[o] = 0
  OBVIOUS
<1>7. \A o : kids(o) \subseteq freed /\ \A c \in freed : c \in kids(o) <=> parent[c] = o
  OBVIOUS
<1>8. \A o \in Objects \ S : left[o] = refcnt[o]
  OBVIOUS
<1> HIDE DEF left, freed, kids
<1>9. \A o \in Objects : kids(o) \subseteq Children(o)
  BY <1>5, <1>6, <1>7 DEF Children
<1>10. \A o \in Objects : Cardinality(Children(o) \ kids(o)) = Cardinality(Children(o)) - Cardinality(kids(o))
                          /\ Cardinality(kids(o)) \in Nat
  <2>1. TAKE o \in Objects
  <2>2. IsFiniteSet(kids(o)) /\ Children(o) \cap kids(o) = kids(o)
    BY <1>2, <1>9, FS_Subset
  <2> QED
    BY <1>2, <2>2, FS_Difference, FS_CardinalityType
<1>11. ASSUME NEW c \in Objects, parent[c] # 0 PROVE Unref(S)[c] = left[c]
  <2>1. \A x \in Objects : parent[x] # c
    <3>1. SUFFICES ASSUME NEW x \in Objects, parent[x] = c PROVE FALSE
      OBVIOUS
    <3>2. c # 0
      BY ObjectNumbers
    <3> QED
      BY <1>11, <3>1, <3>2, NoGrandparent
  <2>2. kids(c) = {}
    BY <1>6, <1>7, <2>1
  <2> QED
    BY <1>3, <1>4, <2>2, FS_EmptySet
<1>12. TAKE o \in Objects
<1>13. {c \in Objects : parent[c] = o /\ Unref(S)[c] > 0} = Children(o) \ kids(o)
  <2>1. ASSUME NEW c \in Objects, parent[c] = o
        PROVE  Unref(S)[c] > 0 <=> refcnt[c] > 0 /\ c \notin kids(o)
    <3>1. Unref(S)[c] = left[c]
      <4>1. o # 0
        BY ObjectNumbers
      <4> QED
        BY <1>11, <2>1, <4>1
    <3>2. left[c] \in Int /\ left[c] >= 0 /\ refcnt[c] \in Int
      BY <1>1, <1>3
    <3>3. CASE c \in S
      BY <1>5, <1>6, <1>7, <2>1, <3>1, <3>2, <3>3
    <3>4. CASE c \notin S
      BY <1>6, <1>7, <1>8, <3>1, <3>2, <3>4
    <3> QED
      BY <3>3, <3>4
  <2> QED
    BY <2>1, <1>9 DEF Children
<1>14. One(S, o) \in {0, 1}
  BY HeldCounts
<1> QED
  BY <1>1, <1>2, <1>3, <1>4, <1>10, <1>13, <1>14

\* What is made has the list's reference, and its hub one more child.
LEMMA MadeCounts ==
    ASSUME Shape, CountInv, LeftOnce, LeftOnce', NEW d, NEW m, NEW up, Made(d, m, up),
           UNCHANGED <<found, devs, enum, transfers>>, Handles' = Handles, Opening' = Opening, Leaving' = Leaving
    PROVE  CountInv'
<1> DEFINE n   == Len(session)
           new == (n + 1)..(n + m)
<1>1. /\ n \in Nat /\ m \in {1, 2} /\ Objects = 1..n /\ Objects' = 1..(n + m)
      /\ Objects' = Objects \cup new /\ new \cap Objects = {} /\ n + m \in new
  <2>1. n \in Nat /\ Objects = 1..n /\ m \in {1, 2}
    BY ObjectNumbers DEF Shape, Made
  <2>2. Objects' = 1..(n + m)
    BY MadeTypes DEF Shape
  <2> QED
    BY <2>1, <2>2
<1>2. /\ refcnt' = [o \in 1..(n + m) |-> (IF o > n THEN 1 ELSE refcnt[o]) + (IF o = up THEN 1 ELSE 0)]
      /\ usb_devs' = usb_devs \cup new /\ unannounced' = unannounced
      /\ \A o \in Objects : parent'[o] = parent[o]
      /\ parent'[n + m] = up /\ (m = 2 => parent'[n + 1] = 0)
  BY DEF Made
<1>3. up = 0 \/ up \in usb_devs \/ (m = 2 /\ up = n + 1)
  BY DEF Made
<1>4. /\ usb_devs \cup unannounced \cup devs \cup enum \cup Handles \cup Opening \cup Leaving \subseteq Objects
      /\ found \in Objects \cup {0} /\ 0 \notin Objects' /\ 0 \notin new
  <2>1. 0 \notin 1..(n + m)
    BY <1>1
  <2>2. usb_devs \cup unannounced \cup devs \cup enum \cup Handles \cup Opening \subseteq Objects
        /\ found \in Objects \cup {0}
    BY DEF Shape, ObjectTypes
  <2>3. Leaving \subseteq Objects
    BY LeavingObjects DEF Shape
  <2> QED
    BY <1>1, <2>1, <2>2, <2>3
<1>5. \A o \in Objects : refcnt[o] \in Int /\ refcnt[o] = Claims(o) + Cardinality(Children(o))
                         /\ parent[o] \in Objects \cup {0}
  BY DEF Shape, ObjectTypes, CountInv
<1>6. \A o : /\ Claims(o) \in Nat /\ Claims(o) >= Held(o) /\ Held(o) \in Nat
             /\ Cardinality(Children(o)) \in Nat /\ IsFiniteSet(Children(o))
  BY HeldCounts, ClaimsCounts, ChildrenFinite DEF Shape
<1>7. \A o \in usb_devs : refcnt[o] > 0
  <2>1. TAKE o \in usb_devs
  <2>2. One(usb_devs, o) = 1 /\ \A T : One(T, o) \in {0, 1}
    BY DEF One
  <2>3. Held(o) >= 1
    BY <2>2 DEF Held
  <2> QED
    BY <1>4, <1>5, <1>6, <2>3
<1> HIDE DEF n, new
<1>8. \A o \in Objects : refcnt'[o] = refcnt[o] + One({up}, o)
  BY <1>1, <1>2, <1>5 DEF One
<1>9. \A o \in new : refcnt'[o] = 1 + One({up}, o)
  BY <1>1, <1>2 DEF One, new
<1>10. ASSUME NEW o \in Objects' PROVE Children(o)' = Children(o) \cup {c \in {n + m} : up = o}
  <2>1. ASSUME NEW c \in Objects
        PROVE  parent'[c] = o /\ refcnt'[c] > 0 <=> parent[c] = o /\ refcnt[c] > 0
    <3>1. parent'[c] = parent[c] /\ refcnt'[c] = refcnt[c] + One({up}, c) /\ refcnt[c] \in Int
      BY <1>2, <1>5, <1>8
    <3>2. CASE c = up
      <4>1. up \in usb_devs
        BY <1>1, <1>3, <1>4, <3>2 DEF new
      <4> QED
        BY <1>7, <3>1, <3>2, <4>1 DEF One
    <3>3. CASE c # up
      BY <3>1, <3>3 DEF One
    <3> QED
      BY <3>2, <3>3
  <2>2. refcnt'[n + m] > 0 /\ (parent'[n + m] = o <=> up = o)
    BY <1>1, <1>2, <1>9 DEF One
  <2>3. \A c \in new : c = n + m \/ parent'[c] # o
    BY <1>1, <1>2, <1>4 DEF new
  <2> QED
    BY <1>1, <2>1, <2>2, <2>3 DEF Children
<1>11. \A o \in Objects' : Cardinality(Children(o)') = Cardinality(Children(o)) + One({up}, o)
  <2>1. TAKE o \in Objects'
  <2>2. n + m \notin Children(o)
    BY <1>1 DEF Children
  <2>3. CASE up = o
    <3>1. Children(o)' = Children(o) \cup {n + m}
      BY <1>10, <2>3
    <3>2. Cardinality(Children(o) \cup {n + m}) = Cardinality(Children(o)) + 1
      BY <1>6, <2>2, FS_AddElement
    <3> QED
      BY <2>3, <3>1, <3>2 DEF One
  <2>4. CASE up # o
    <3>1. Children(o)' = Children(o)
      BY <1>10, <2>4
    <3> QED
      BY <1>6, <2>4, <3>1 DEF One
  <2> QED
    BY <2>3, <2>4
<1>12. \A o \in Objects : Claims(o)' = Claims(o)
  <2>1. \A o \in Objects : Held(o)' = Held(o)
    BY <1>1, <1>2 DEF Held, One
  <2> QED
    BY <2>1, ClaimsMove DEF Claims, Shape
<1>13. \A o \in new : Claims(o)' = 1
  <2>1. TAKE o \in new
  <2>2. Held(o)' = 1
    BY <1>1, <1>2, <1>4 DEF Held, One
  <2>3. {t \in transfers : t[2] = o} = {}
    BY <1>1 DEF Shape, ObjectTypes
  <2>4. TransferRefs(o) = 0
    BY <2>3, FS_EmptySet DEF TransferRefs
  <2> QED
    BY <2>2, <2>4, ClaimsMove DEF Shape
<1>14. \A o \in new : Cardinality(Children(o)) = 0
  <2>1. TAKE o \in new
  <2>2. Children(o) = {}
    <3>1. \A c \in Objects : parent[c] # o
      BY <1>1, <1>4, <1>5
    <3> QED
      BY <3>1 DEF Children
  <2> QED
    BY <2>2, FS_EmptySet
<1>15. \A o : One({up}, o) \in Nat
  BY DEF One
<1>16. ASSUME NEW o \in Objects' PROVE refcnt'[o] = Claims(o)' + Cardinality(Children(o)')
  <2>1. CASE o \in Objects
    <3>1. Claims(o)' = Claims(o) /\ Claims(o) \in Nat /\ One({up}, o) \in Nat
      BY <1>6, <1>12, <1>15, <2>1
    <3>2. Cardinality(Children(o)') = Cardinality(Children(o)) + One({up}, o) /\ Cardinality(Children(o)) \in Nat
      BY <1>6, <1>11
    <3>3. refcnt'[o] = (Claims(o) + Cardinality(Children(o))) + One({up}, o)
      BY <1>5, <1>8, <2>1
    <3> QED
      BY <3>1, <3>2, <3>3
  <2>2. CASE o \in new
    <3>1. Claims(o)' = 1 /\ One({up}, o) \in Nat
      BY <1>13, <1>15, <2>2
    <3>2. Cardinality(Children(o)') = 0 + One({up}, o)
      BY <1>11, <1>14, <2>2
    <3>3. refcnt'[o] = 1 + One({up}, o)
      BY <1>9, <2>2
    <3> QED
      BY <3>1, <3>2, <3>3
  <2> QED
    BY <1>1, <2>1, <2>2
<1> QED
  BY <1>16 DEF CountInv

LEMMA AppStep == ASSUME Shape, AppInv, [Next]_vars PROVE AppInv'
<1> USE DEF AppInv, Opening, Handles, busVars, objVars, lockVars, cbVars, appVars, transferVars
<1>1. CASE \E d \in Devices : Plug(d) \/ MakeNode(d) \/ Unplug(d) \/ ScanDevice(d)
  BY <1>1 DEF Plug, MakeNode, Unplug, ScanDevice
<1>2. CASE MonitorReads \/ WriteMessage \/ Unfind \/ Unlock \/ ReadMessage \/ Matched
  BY <1>2 DEF MonitorReads, WriteMessage, Unfind, Unlock, ReadMessage, Matched
<1>3. CASE \/ \E c \in Callbacks, finished \in BOOLEAN : MatchCallback(c, finished)
           \/ \E o \in Handles : HangUp(o)
  BY <1>3 DEF MatchCallback, HangUp
<1>4. CASE StartMonitor \/ linux_scan_devices \/ Scanned \/ usbi_io_init \/ PollLock \/ PollReads \/ PollUnlock
  BY <1>4 DEF StartMonitor, linux_scan_devices, Scanned, usbi_io_init, PollLock, PollReads, PollUnlock
<1>5. CASE Snapshot \/ Enumerated \/ OpenNode \/ OpenDisconnects \/ OpenFails \/ Teardown
  BY <1>5 DEF Snapshot, Enumerated, OpenNode, OpenDisconnects, OpenFails, Teardown
<1>6. CASE \/ GetDeviceList \/ libusb_free_device_list \/ BeginExit \/ UNCHANGED vars
           \/ \E c \in Callbacks, enumerate \in BOOLEAN : RegisterCallback(c, enumerate)
           \/ \E c \in Callbacks : libusb_hotplug_deregister_callback(c)
  BY <1>6 DEF GetDeviceList, libusb_free_device_list, BeginExit, RegisterCallback,
              libusb_hotplug_deregister_callback, vars
<1>7. CASE \E o \in Objects : libusb_open(o) \/ libusb_close(o)
  BY <1>7 DEF libusb_open, libusb_close
<1>8. CASE Transferring
  <2>1. CASE \E n \in 1..MaxTransfers, o \in Objects, refused \in BOOLEAN :
                 libusb_submit_transfer(n, o, refused)
    BY <2>1 DEF libusb_submit_transfer
  <2>2. CASE \E t \in transfers : usbi_handle_transfer_completion(t)
    BY <2>2 DEF usbi_handle_transfer_completion
  <2> QED
    BY <1>8, <2>1, <2>2 DEF Transferring
<1> QED
  BY <1>1, <1>2, <1>3, <1>4, <1>5, <1>6, <1>7, <1>8 DEF Next, Library, Events, Call, Transferring

\* The three ways in which counts change without an object being made.
LEMMA KeepStep ==
    ASSUME CountInv, UNCHANGED <<session, parent, refcnt>>, \A o \in Objects : Claims(o)' = Claims(o)
    PROVE  CountInv'
BY DEF CountInv, Children, Objects

LEMMA TakeStep ==
    ASSUME ObjectTypes, CountInv, NEW S \in SUBSET Objects,
           UNCHANGED <<session, parent>>, refcnt' = Ref(S),
           \A o \in S : Claims(o) >= 1, \A o \in Objects : Claims(o)' = Claims(o) + One(S, o)
    PROVE  CountInv'
<1>1. Objects' = Objects
  BY DEF Objects
<1>2. ASSUME NEW o \in Objects PROVE refcnt'[o] = Claims(o)' + Cardinality(Children(o)')
  <2>1. Children(o)' = {c \in Objects : parent[c] = o /\ Ref(S)[c] > 0}
    BY <1>1, Zenon DEF Children
  <2>2. Ref(S)[o] = (Claims(o) + One(S, o)) + Cardinality(Children(o)')
    BY <2>1, RefCounts, Zenon
  <2> QED
    BY <2>2, Zenon
<1> QED
  BY <1>1, <1>2 DEF CountInv

LEMMA DropStep ==
    ASSUME ObjectTypes, ForestInv, CountInv, NEW S \in SUBSET Objects,
           UNCHANGED <<session, parent>>, refcnt' = Unref(S),
           \A o \in S : Claims(o) >= 1, \A o \in Objects : Claims(o)' = Claims(o) - One(S, o)
    PROVE  CountInv'
<1>1. Objects' = Objects
  BY DEF Objects
<1>2. ASSUME NEW o \in Objects PROVE refcnt'[o] = Claims(o)' + Cardinality(Children(o)')
  <2>1. Children(o)' = {c \in Objects : parent[c] = o /\ Unref(S)[c] > 0}
    BY <1>1, Zenon DEF Children
  <2>2. Unref(S)[o] = (Claims(o) - One(S, o)) + Cardinality(Children(o)')
    BY <2>1, UnrefCounts, Zenon
  <2> QED
    BY <2>2, Zenon
<1> QED
  BY <1>1, <1>2 DEF CountInv

\* The same when the transfers' references stay as they are.
LEMMA SameStep ==
    ASSUME ObjectTypes, CountInv, UNCHANGED <<session, parent, refcnt, transfers>>,
           \A o \in Objects : Held(o)' = Held(o)
    PROVE  CountInv'
<1>1. \A o \in Objects : Claims(o)' = Claims(o)
  BY ClaimsMove DEF Claims
<1> QED
  BY <1>1, KeepStep

LEMMA RefStep ==
    ASSUME ObjectTypes, CountInv, NEW S \in SUBSET Objects,
           UNCHANGED <<session, parent, transfers>>, refcnt' = Ref(S),
           \A o \in S : Held(o) >= 1, \A o \in Objects : Held(o)' = Held(o) + One(S, o)
    PROVE  CountInv'
<1>1. \A o : Claims(o) \in Nat /\ Claims(o) >= Held(o) /\ Held(o) \in Nat /\ TransferRefs(o) \in Nat
             /\ One(S, o) \in Nat
  BY ClaimsCounts, HeldCounts
<1>2. \A o \in Objects : Claims(o)' = Claims(o) + One(S, o)
  BY <1>1, ClaimsMove DEF Claims
<1>3. \A o \in S : Claims(o) >= 1
  BY <1>1
<1> QED
  BY <1>2, <1>3, TakeStep

LEMMA UnrefStep ==
    ASSUME ObjectTypes, ForestInv, CountInv, NEW S \in SUBSET Objects,
           UNCHANGED <<session, parent, transfers>>, refcnt' = Unref(S),
           \A o \in Objects : Held(o)' = Held(o) - One(S, o)
    PROVE  CountInv'
<1>1. \A o \in S : Held(o) >= 1
  <2>1. TAKE o \in S
  <2>2. Held(o) \in Nat /\ Held(o)' \in Nat /\ One(S, o) = 1
    <3>1. Held(o)' \in Nat
      <4>1. \A T : One(T, o) \in Nat
        BY DEF One
      <4> QED
        BY <4>1 DEF Held
    <3> QED
      BY <3>1, HeldCounts DEF One
  <2> QED
    BY <2>2
<1>2. \A o : Claims(o) \in Nat /\ Claims(o) >= Held(o) /\ Held(o) \in Nat /\ TransferRefs(o) \in Nat
             /\ One(S, o) \in Nat
  BY ClaimsCounts, HeldCounts
<1>3. \A o \in Objects : Claims(o)' = Claims(o) - One(S, o)
  BY <1>2, ClaimsMove DEF Claims
<1>4. \A o \in S : Claims(o) >= 1
  BY <1>1, <1>2
<1> QED
  BY <1>3, <1>4, DropStep

\* An object that is dropped from the list, and found.
LEMMA DroppedCounts ==
    ASSUME Shape, CountInv, LeftOnce, NEW o, Dropped(o), say = <<>>, found = 0,
           UNCHANGED <<hotplug_pipe, events, devs, enum, transfers>>, Handles' = Handles, Opening' = Opening
    PROVE  CountInv'
<1>1. o \in Objects /\ o \in usb_devs /\ 0 \notin Objects /\ ObjectTypes
  BY ObjectNumbers DEF Shape, ObjectTypes, Dropped
<1>2. /\ UNCHANGED <<session, parent>> /\ refcnt' = Ref({o}) /\ found' = o /\ usb_devs' = usb_devs \ {o}
      /\ o \notin Leaving /\ o \notin unannounced
      /\ \/ Leaving' = Leaving \cup {o} /\ unannounced' = unannounced
         \/ Leaving' = Leaving /\ unannounced' = unannounced \cup {o}
  BY DroppedMoves DEF Dropped
<1>3. \A x \in Objects : Held(x)' = Held(x) + One({o}, x)
  BY <1>1, <1>2 DEF Held, One
<1>4. \A x \in {o} : Held(x) >= 1
  <2>1. \A T : One(T, o) \in Nat
    BY DEF One
  <2>2. One(usb_devs, o) = 1
    BY <1>1 DEF One
  <2> QED
    BY <2>1, <2>2 DEF Held
<1> QED
  BY <1>1, <1>2, <1>3, <1>4, RefStep

LEMMA CountStep ==
    ASSUME Shape, ForestInv, AppInv, LeftOnce, CountInv, [Next]_vars
    PROVE  LeftOnce' /\ CountInv'
<1> USE DEF busVars, objVars, lockVars, cbVars, appVars, transferVars
<1>1. ObjectTypes /\ BusTypes /\ QueueTypes /\ LockInv
  BY DEF Shape
<1>2. /\ usb_devs \subseteq Objects /\ unannounced \subseteq Objects /\ devs \subseteq Objects
      /\ enum \subseteq Objects /\ Handles \subseteq Objects /\ Opening \subseteq Objects
      /\ found \in Objects \cup {0} /\ 0 \notin Objects
  BY <1>1, ObjectNumbers DEF ObjectTypes
\* Nobody takes or drops a reference.
<1>3. ASSUME UNCHANGED <<objVars, found, devs, enum, transfers>>, Opening' = Opening, Handles' = Handles,
             Leaving' = Leaving
      PROVE  CountInv'
  BY <1>1, <1>3, SameStep DEF Held
<1>4. ASSUME UNCHANGED <<objVars, found, devs, enum, transfers>>, Opening' = Opening, Handles' = Handles,
             UNCHANGED <<say, hotplug_pipe>>, events'.msg = events.msg
      PROVE  LeftOnce' /\ CountInv'
  BY <1>3, <1>4, QuietMoves
\* Under the lock, with nothing to write.
<1>5. ASSUME say = <<>>, found = 0, UNCHANGED <<devs, enum, hotplug_pipe, events, transfers>>, Opening' = Opening,
             Handles' = Handles,
             \/ UNCHANGED <<objVars, found, say>>
             \/ NothingMade /\ found' \in {0, found}
             \/ (\E d, m, up : Made(d, m, up)) /\ found' = found
             \/ \E o : Dropped(o)
      PROVE  LeftOnce' /\ CountInv'
  <2>1. CASE UNCHANGED <<objVars, found, say>> \/ (NothingMade /\ found' \in {0, found})
    BY <1>4, <1>5, <2>1 DEF NothingMade
  <2>2. CASE (\E d, m, up : Made(d, m, up)) /\ found' = found
    BY <1>5, <2>2, MadeMoves, MadeCounts
  <2>3. CASE \E o : Dropped(o)
    BY <1>5, <2>3, DroppedMoves, DroppedCounts
  <2> QED
    BY <1>5, <2>1, <2>2, <2>3
<1>6. ASSUME NEW u, uevents # <<>>, u = Head(uevents), HandleUevent(u)
      PROVE  \/ UNCHANGED <<objVars, found, say>>
             \/ NothingMade /\ found' \in {0, found}
             \/ (\E d, m, up : Made(d, m, up)) /\ found' = found
             \/ \E o : Dropped(o)
  <2>1. u \in {"add", "remove"} \X Devices
    BY <1>1, <1>6 DEF BusTypes
  <2> QED
    BY <1>1, <1>6, <2>1, UeventDoes
<1>7. CASE MonitorReads \/ PollReads
  <2>1. say = <<>> /\ found = 0
    BY <1>1, <1>7 DEF MonitorReads, PollReads, Through, LockInv
  <2> QED
    BY <1>5, <1>6, <1>7, <2>1 DEF MonitorReads, PollReads, Opening, Handles
<1>8. CASE \E d \in Devices : ScanDevice(d)
  <2>1. PICK d \in Devices : ScanDevice(d)
    BY <1>8
  <2>2. say = <<>> /\ found = 0
    BY <1>1, <2>1 DEF ScanDevice, LockInv
  <2> QED
    BY <1>1, <1>5, <2>1, <2>2, EnumerateMakes DEF ScanDevice, Opening, Handles
<1>9. CASE OpenDisconnects
  <2>1. say = <<>> /\ found = 0
    BY <1>1, <1>9 DEF OpenDisconnects, LockInv
  <2>2. \/ UNCHANGED <<objVars, found, say>> \/ (NothingMade /\ found' \in {0, found}) \/ \E o : Dropped(o)
    BY <1>9, DisconnectDrops DEF OpenDisconnects
  <2> QED
    BY <1>5, <1>9, <2>1, <2>2 DEF OpenDisconnects, Opening, Handles
<1>10. CASE \E o \in Handles : HangUp(o)
  <2>1. PICK o \in Handles : HangUp(o)
    BY <1>10
  <2>2. say = <<>> /\ found = 0
    BY <1>1, <2>1 DEF HangUp, LockInv
  <2>3. \/ UNCHANGED <<objVars, found, say>> \/ (NothingMade /\ found' \in {0, found}) \/ \E p : Dropped(p)
    BY <2>1, DisconnectDrops DEF HangUp
  <2> QED
    BY <1>5, <2>1, <2>2, <2>3 DEF HangUp, Opening, Handles
\* Someone drops references.
<1>11. CASE Unfind
  <2>1. LeftOnce' /\ Leaving' = Leaving
    BY <1>11, QuietMoves DEF Unfind
  <2>2. \A o \in Objects : Held(o)' = Held(o) - One({found}, o)
    BY <1>2, <1>11, <2>1 DEF Unfind, Held, One, Opening, Handles
  <2> QED
    BY <1>1, <1>2, <1>11, <2>1, <2>2, UnrefStep DEF Unfind
<1>12. CASE Matched
  <2>1. /\ LeftOnce' /\ Leaving' = Leaving \ LeftIn(Message) /\ LeftIn(Message) \subseteq Leaving
        /\ LeftIn(Message) = (IF events.msg[1] = "left" THEN {events.msg[2]} ELSE {})
    BY <1>12, MatchedMoves DEF Leaving
  <2>2. CASE events.msg[1] = "left"
    <3>1. LeftIn(Message) \subseteq Objects /\ LeftIn(Message) = {events.msg[2]}
      BY <1>1, <2>1, <2>2, LeavingObjects
    <3>2. \A o \in Objects : Held(o)' = Held(o) - One({events.msg[2]}, o)
      BY <1>12, <2>1, <3>1 DEF Matched, Held, One, Opening, Handles
    <3>3. refcnt' = Unref({events.msg[2]}) /\ UNCHANGED <<session, parent, transfers>>
      BY <1>12, <2>2 DEF Matched
    <3> QED
      BY <1>1, <2>1, <3>1, <3>2, <3>3, UnrefStep
  <2>3. CASE events.msg[1] # "left"
    BY <1>3, <1>12, <2>1, <2>3 DEF Matched, Opening, Handles
  <2> QED
    BY <2>2, <2>3
<1>13. CASE Enumerated
  <2>1. LeftOnce' /\ Leaving' = Leaving
    BY <1>13, QuietMoves DEF Enumerated
  <2>2. \A o \in Objects : Held(o)' = Held(o) - One(enum, o)
    BY <1>13, <2>1 DEF Enumerated, Held, One, Opening, Handles
  <2> QED
    BY <1>1, <1>2, <1>13, <2>1, <2>2, UnrefStep DEF Enumerated
<1>14. CASE libusb_free_device_list
  <2>1. LeftOnce' /\ Leaving' = Leaving
    BY <1>14, QuietMoves DEF libusb_free_device_list
  <2>2. \A o \in Objects : Held(o)' = Held(o) - One(devs, o)
    BY <1>14, <2>1 DEF libusb_free_device_list, Held, One, Opening, Handles
  <2> QED
    BY <1>1, <1>2, <1>14, <2>1, <2>2, UnrefStep DEF libusb_free_device_list
<1>15. CASE OpenFails
  <2>1. LeftOnce' /\ Leaving' = Leaving
    BY <1>15, QuietMoves DEF OpenFails
  <2>2. Opening = {arg} /\ Opening' = {}
    BY <1>15 DEF OpenFails, Opening
  <2>3. \A o \in Objects : Held(o)' = Held(o) - One({arg}, o)
    BY <1>15, <2>1, <2>2 DEF OpenFails, Held, One, Handles
  <2> QED
    BY <1>1, <1>2, <1>15, <2>1, <2>2, <2>3, UnrefStep DEF OpenFails
<1>16. CASE Teardown
  <2> DEFINE S == Leaving \cup usb_devs
  <2>1. /\ LeftOnce' /\ Leaving' = {} /\ Leaving \subseteq Objects /\ Leaving \cap usb_devs = {}
        /\ refcnt' = Unref(S)
    BY <1>1, <1>16, TeardownMoves, LeavingObjects DEF Teardown, LeftOnce
  <2>2. usb_devs' = {} /\ UNCHANGED <<unannounced, found, devs, enum, fds, session, parent, transfers>>
        /\ Opening = {} /\ Opening' = {}
    BY <1>16 DEF Teardown, Opening
  <2>3. \A o \in Objects : Held(o)' = Held(o) - One(S, o)
    BY <2>1, <2>2 DEF Held, One, Handles
  <2> HIDE DEF S
  <2>4. S \in SUBSET Objects
    BY <1>2, <2>1 DEF S
  <2> QED
    BY <1>1, <2>1, <2>2, <2>3, <2>4, UnrefStep
<1>17. CASE \E o \in Objects : libusb_close(o)
  <2>1. PICK o \in Objects : libusb_close(o)
    BY <1>17
  <2>2. LeftOnce' /\ Leaving' = Leaving
    BY <2>1, QuietMoves DEF libusb_close
  <2>3. Handles' = Handles \ {o} /\ o \in Handles
    BY <2>1 DEF libusb_close, Handles
  <2>4. \A x \in Objects : Held(x)' = Held(x) - One({o}, x)
    BY <2>1, <2>2, <2>3 DEF libusb_close, Held, One, Opening
  <2> QED
    BY <1>1, <2>1, <2>2, <2>4, UnrefStep DEF libusb_close
\* Someone takes references.
<1>18. CASE Snapshot
  <2>1. LeftOnce' /\ Leaving' = Leaving
    BY <1>18, QuietMoves DEF Snapshot
  <2>2. \A T : \A o : One(T, o) \in Nat
    BY DEF One
  <2>3. \A o \in usb_devs : Held(o) >= 1
    BY <2>2 DEF Held, One
  <2>4. enum = {} /\ (arg \notin Callbacks => devs = {})
    BY <1>1, <1>18 DEF Snapshot, LockInv, AppInv
  <2>5. \A o \in Objects : Held(o)' = Held(o) + One(usb_devs, o)
    BY <1>18, <2>1, <2>4 DEF Snapshot, Held, One, Opening, Handles
  <2> QED
    BY <1>1, <1>2, <1>18, <2>1, <2>3, <2>5, RefStep DEF Snapshot
<1>19. CASE \E o \in Objects : libusb_open(o)
  <2>1. PICK o \in Objects : libusb_open(o)
    BY <1>19
  <2>2. LeftOnce' /\ Leaving' = Leaving
    BY <2>1, QuietMoves DEF libusb_open
  <2>3. CASE o \in usb_devs
    <3>1. \A T : \A x : One(T, x) \in Nat
      BY DEF One
    <3>2. \A x \in {o} : Held(x) >= 1
      BY <2>3, <3>1 DEF Held, One
    <3>3. Opening = {} /\ Opening' = {o}
      BY <2>1, <2>3 DEF libusb_open, Opening
    <3>4. \A x \in Objects : Held(x)' = Held(x) + One({o}, x)
      BY <2>1, <2>2, <3>3 DEF libusb_open, Held, One, Handles
    <3> QED
      BY <1>1, <2>1, <2>2, <2>3, <3>2, <3>4, RefStep DEF libusb_open
  <2>4. CASE o \notin usb_devs
    BY <1>4, <2>1, <2>4 DEF libusb_open, Opening, Handles
  <2> QED
    BY <2>3, <2>4
\* The reference of who opens an object goes to its handle.
<1>20. CASE OpenNode
  <2>1. LeftOnce' /\ Leaving' = Leaving
    BY <1>20, QuietMoves DEF OpenNode
  <2>2. \/ Opening' = Opening /\ Handles' = Handles
        \/ Opening' = {} /\ Opening = {arg} /\ Handles' = Handles \cup {arg}
    BY <1>20 DEF OpenNode, Opening, Handles
  <2>3. Opening \cap Handles = {}
    BY DEF AppInv
  <2>4. \A o \in Objects : Held(o)' = Held(o)
    BY <1>20, <2>1, <2>2, <2>3 DEF OpenNode, Held, One
  <2> QED
    BY <1>1, <1>20, <2>1, <2>4, SameStep DEF OpenNode
\* Messages move.
<1>21. CASE WriteMessage
  BY <1>1, <1>3, <1>21, WriteMoves DEF WriteMessage, Opening, Handles
<1>22. CASE ReadMessage
  BY <1>1, <1>3, <1>22, ReadMoves DEF ReadMessage, Opening, Handles
<1>23. CASE \E c \in Callbacks : libusb_hotplug_deregister_callback(c)
  BY <1>1, <1>3, <1>23, WakeMoves DEF libusb_hotplug_deregister_callback, Opening, Handles
\* The rest.
<1>24. CASE \/ Unlock \/ UNCHANGED vars \/ BeginExit \/ GetDeviceList
            \/ \E c \in Callbacks, finished \in BOOLEAN : MatchCallback(c, finished)
  <2>1. CASE Unlock \/ BeginExit \/ GetDeviceList
    BY <1>4, <2>1 DEF Unlock, BeginExit, GetDeviceList, Opening, Handles
  <2>2. CASE UNCHANGED vars
    BY <1>4, <2>2 DEF vars, Opening, Handles
  <2>3. CASE \E c \in Callbacks, finished \in BOOLEAN : MatchCallback(c, finished)
    <3>1. events'.msg = events.msg
      BY <2>3 DEF MatchCallback
    <3> QED
      BY <1>4, <2>3, <3>1 DEF MatchCallback, Opening, Handles
  <2> QED
    BY <1>24, <2>1, <2>2, <2>3
<1>25. CASE \E d \in Devices : Plug(d) \/ MakeNode(d) \/ Unplug(d)
  BY <1>4, <1>25 DEF Plug, MakeNode, Unplug, Opening, Handles
<1>26. CASE \/ StartMonitor \/ linux_scan_devices \/ Scanned \/ usbi_io_init \/ PollLock \/ PollUnlock
            \/ \E c \in Callbacks, enumerate \in BOOLEAN : RegisterCallback(c, enumerate)
  BY <1>4, <1>26 DEF StartMonitor, linux_scan_devices, Scanned, usbi_io_init, PollLock, PollUnlock,
                     RegisterCallback, Opening, Handles
\* A transfer has a reference of its own.
<1>27. CASE \E n \in 1..MaxTransfers, o \in Objects, refused \in BOOLEAN :
               libusb_submit_transfer(n, o, refused)
  <2>1. PICK n \in 1..MaxTransfers, o \in Objects, refused \in BOOLEAN :
            libusb_submit_transfer(n, o, refused)
    BY <1>27
  <2>2. LeftOnce' /\ Leaving' = Leaving
    BY <2>1, QuietMoves DEF libusb_submit_transfer
  <2>3. \A x \in Objects : Held(x)' = Held(x)
    BY <2>1, <2>2 DEF libusb_submit_transfer, Held, Opening, Handles
  <2>4. /\ transfers' = transfers \cup {<<n, o>>} /\ <<n, o>> \notin transfers
        /\ refcnt' = Ref({o}) /\ o \in Handles /\ UNCHANGED <<session, parent>>
    BY <2>1 DEF libusb_submit_transfer
  <2>5. \A x \in Objects : TransferRefs(x)' = TransferRefs(x) + One({o}, x)
    <3>1. TAKE x \in Objects
    <3> DEFINE T == {t \in transfers : t[2] = x}
    <3>2. IsFiniteSet(T) /\ Cardinality(T) \in Nat
      BY <1>1, ClaimsCounts, FS_Subset, FS_CardinalityType
    <3>3. <<n, o>> \notin T /\ <<n, o>>[2] = o
      BY <2>4
    <3>4. CASE x = o
      <4>1. {t \in transfers' : t[2] = x} = T \cup {<<n, o>>}
        BY <2>4, <3>4
      <4>2. Cardinality(T \cup {<<n, o>>}) = Cardinality(T) + 1
        BY <3>2, <3>3, FS_AddElement
      <4> QED
        BY <3>4, <4>1, <4>2 DEF TransferRefs, One
    <3>5. CASE x # o
      <4>1. {t \in transfers' : t[2] = x} = T
        BY <2>4, <3>3, <3>5
      <4> QED
        BY <3>2, <3>5, <4>1 DEF TransferRefs, One
    <3> QED
      BY <3>4, <3>5
  <2>6. \A x : Held(x) \in Nat /\ TransferRefs(x) \in Nat /\ One({o}, x) \in Nat
    BY <1>1, HeldCounts, ClaimsCounts
  <2>7. \A x \in Objects : Claims(x)' = Claims(x) + One({o}, x)
    BY <2>3, <2>5, <2>6 DEF Claims
  <2>8. Claims(o) >= 1
    <3>1. \A S : One(S, o) \in Nat
      BY DEF One
    <3>2. Held(o) >= 1
      BY <2>4, <3>1 DEF Held, One
    <3> QED
      BY <2>6, <3>2 DEF Claims
  <2> QED
    BY <1>1, <2>2, <2>4, <2>7, <2>8, TakeStep
<1>28. CASE \E t \in transfers : usbi_handle_transfer_completion(t)
  <2>1. PICK t \in transfers : usbi_handle_transfer_completion(t)
    BY <1>28
  <2>2. PICK o : o = t[2]
    OBVIOUS
  <2>3. LeftOnce' /\ Leaving' = Leaving
    BY <2>1, QuietMoves DEF usbi_handle_transfer_completion
  <2>4. \A x \in Objects : Held(x)' = Held(x)
    BY <2>1, <2>3 DEF usbi_handle_transfer_completion, Held, Opening, Handles
  <2>5. /\ transfers' = transfers \ {t} /\ refcnt' = Unref({o}) /\ UNCHANGED <<session, parent>>
        /\ o \in Objects
    BY <1>1, <2>1, <2>2 DEF usbi_handle_transfer_completion, ObjectTypes
  <2>6. \A x \in Objects : TransferRefs(x)' = TransferRefs(x) - One({o}, x)
    <3>1. TAKE x \in Objects
    <3> DEFINE T == {u \in transfers : u[2] = x}
    <3>2. IsFiniteSet(T) /\ Cardinality(T) \in Nat
      BY <1>1, ClaimsCounts, FS_Subset, FS_CardinalityType
    <3>3. CASE x = o
      <4>1. {u \in transfers' : u[2] = x} = T \ {t} /\ t \in T
        BY <2>1, <2>5, <2>2, <3>3
      <4>2. Cardinality(T \ {t}) = Cardinality(T) - 1
        BY <3>2, <4>1, FS_RemoveElement
      <4> QED
        BY <3>3, <4>1, <4>2 DEF TransferRefs, One
    <3>4. CASE x # o
      <4>1. {u \in transfers' : u[2] = x} = T
        BY <2>5, <2>2, <3>4
      <4>2. TransferRefs(x)' = Cardinality(T) /\ TransferRefs(x) = Cardinality(T)
        BY <4>1, Zenon DEF TransferRefs
      <4>3. One({o}, x) = 0
        BY <3>4 DEF One
      <4> QED
        BY <3>2, <4>2, <4>3
    <3> QED
      BY <3>3, <3>4
  <2>7. \A x : Held(x) \in Nat /\ TransferRefs(x) \in Nat /\ One({o}, x) \in Nat
    BY <1>1, HeldCounts, ClaimsCounts
  <2>8. \A x \in Objects : Claims(x)' = Claims(x) - One({o}, x)
    <3>1. TAKE x \in Objects
    <3>2. Held(x)' = Held(x) /\ TransferRefs(x)' = TransferRefs(x) - One({o}, x)
      BY <2>4, <2>6
    <3>3. Claims(x)' = Held(x)' + TransferRefs(x)' /\ Claims(x) = Held(x) + TransferRefs(x)
      BY Zenon DEF Claims
    <3>4. Held(x) \in Int /\ TransferRefs(x) \in Int /\ One({o}, x) \in Int
      BY <2>7
    <3>5. Held(x) + (TransferRefs(x) - One({o}, x)) = (Held(x) + TransferRefs(x)) - One({o}, x)
      BY <3>4
    <3>6. Claims(x)' = Held(x) + (TransferRefs(x) - One({o}, x))
      BY <3>2, <3>3, Zenon
    <3>7. Claims(x)' = (Held(x) + TransferRefs(x)) - One({o}, x)
      BY <3>5, <3>6, Zenon
    <3> QED
      BY <3>3, <3>7, Zenon
  <2>9. Claims(o) >= 1
    <3>1. TransferRefs(o) >= 1
      <4>1. TransferRefs(o)' \in Nat
        <5>1. IsFiniteSet(transfers)
          BY <1>1, ClaimsCounts
        <5>2. IsFiniteSet({u \in transfers' : u[2] = o})
          BY <2>5, <5>1, FS_Subset
        <5> QED
          BY <5>2, FS_CardinalityType DEF TransferRefs
      <4>2. One({o}, o) = 1
        BY DEF One
      <4> QED
        BY <2>5, <2>6, <2>7, <4>1, <4>2
    <3> QED
      BY <2>7, <3>1 DEF Claims
  <2> QED
    BY <1>1, <2>3, <2>5, <2>8, <2>9, DropStep
<1>29. CASE Library \/ Events \/ UNCHANGED vars
  BY <1>7, <1>10, <1>11, <1>12, <1>21, <1>22, <1>24, <1>29, <1>28 DEF Library, Events
<1>30. CASE Call
  BY <1>7, <1>8, <1>9, <1>13, <1>15, <1>16, <1>18, <1>20, <1>26, <1>30 DEF Call
<1>31. CASE \E o \in Objects : libusb_open(o) \/ libusb_close(o)
  BY <1>17, <1>19, <1>31
<1> QED
  BY <1>14, <1>23, <1>24, <1>25, <1>26, <1>29, <1>30, <1>31, <1>27, <1>28, Zenon DEF Next

LEMMA CountHolds == Spec => [](AppInv /\ LeftOnce /\ CountInv)
<1>1. Init => AppInv /\ LeftOnce /\ CountInv
  <2> SUFFICES ASSUME Init PROVE AppInv /\ LeftOnce /\ CountInv
    OBVIOUS
  <2>1. say = <<>> /\ hotplug_pipe = <<>> /\ Message = <<<<"none", 0>>>> /\ usb_devs = {} /\ unannounced = {}
    BY DEF Init, Message, Idle
  <2>2. LeftIn(say) = {} /\ LeftIn(hotplug_pipe) = {} /\ LeftIn(Message) = {} /\ OneEach(say) /\ OneEach(hotplug_pipe)
    BY <2>1, ShortLeft
  <2>3. LeftOnce
    BY <2>1, <2>2 DEF LeftOnce
  <2>4. CountInv
    BY DEF Init, CountInv, Objects
  <2> QED
    BY <2>3, <2>4 DEF Init, AppInv, Opening
<1>2. Shape /\ ForestInv /\ AppInv /\ LeftOnce /\ CountInv /\ [Next]_vars => (AppInv /\ LeftOnce /\ CountInv)'
  BY AppStep, CountStep
<1> QED
  BY <1>1, <1>2, ShapeHolds, ForestHolds, PTL DEF Spec

-----------------------------------------------------------------------------
(* What the counts say.                                                    *)

LEMMA ConcatLeft ==
    ASSUME NEW p \in Seq(Messages), NEW q \in Seq(Messages)
    PROVE  /\ p \o q \in Seq(Messages) /\ LeftIn(p \o q) = LeftIn(p) \cup LeftIn(q)
           /\ OneEach(p) /\ OneEach(q) /\ LeftIn(p) \cap LeftIn(q) = {} => OneEach(p \o q)
<1> DEFINE r == p \o q
           m == Len(p)
           n == Len(q)
<1>1. /\ r \in Seq(Messages) /\ m \in Nat /\ n \in Nat
      /\ DOMAIN p = 1..m /\ DOMAIN q = 1..n /\ DOMAIN r = 1..(m + n)
  BY ConcatProperties, LenProperties
<1>2. \A i \in 1..m : r[i] = p[i] /\ i \in DOMAIN r
  BY <1>1, ConcatProperties
<1>3. \A i \in 1..n : r[m + i] = q[i] /\ m + i \in DOMAIN r
  <2>1. \A i \in 1..m + n : r[i] = IF i <= m THEN p[i] ELSE q[i - m]
    BY ConcatProperties
  <2>2. \A i \in 1..n : m + i \in 1..m + n /\ ~(m + i <= m) /\ (m + i) - m = i
    BY <1>1
  <2> QED
    BY <1>1, <2>1, <2>2
<1>4. \A i \in DOMAIN r : i \in 1..m \/ \E k \in 1..n : i = m + k
  <2>1. \A i \in 1..(m + n) : i \in 1..m \/ (i - m \in 1..n /\ i = m + (i - m))
    BY <1>1
  <2> QED
    BY <1>1, <2>1
<1>5. /\ LeftIn(r) = {o \in Objects : \E i \in DOMAIN r : r[i] = <<"left", o>>}
      /\ LeftIn(p) = {o \in Objects : \E i \in DOMAIN p : p[i] = <<"left", o>>}
      /\ LeftIn(q) = {o \in Objects : \E i \in DOMAIN q : q[i] = <<"left", o>>}
  BY <1>1, LeftMeans
<1>6. /\ \A i \in 1..m : p[i][1] = "left" => p[i][2] \in LeftIn(p)
      /\ \A i \in 1..n : q[i][1] = "left" => q[i][2] \in LeftIn(q)
  BY <1>1, LeftMeans
<1> HIDE DEF r, m, n
<1>7. LeftIn(r) = LeftIn(p) \cup LeftIn(q)
  <2>1. ASSUME NEW o \in LeftIn(r) PROVE o \in LeftIn(p) \cup LeftIn(q)
    <3>1. PICK i \in DOMAIN r : r[i] = <<"left", o>> /\ o \in Objects
      BY <1>5, <2>1
    <3>2. CASE i \in 1..m
      <4>1. p[i] = <<"left", o>> /\ i \in DOMAIN p
        BY <1>1, <1>2, <3>1, <3>2
      <4> QED
        BY <1>5, <3>1, <4>1
    <3>3. CASE \E k \in 1..n : i = m + k
      <4>1. PICK k \in 1..n : i = m + k
        BY <3>3
      <4>2. q[k] = <<"left", o>> /\ k \in DOMAIN q
        BY <1>1, <1>3, <3>1, <4>1
      <4> QED
        BY <1>5, <3>1, <4>2
    <3> QED
      BY <1>4, <3>2, <3>3
  <2>2. ASSUME NEW o \in LeftIn(p) \cup LeftIn(q) PROVE o \in LeftIn(r)
    BY <1>1, <1>2, <1>3, <1>5, <2>2
  <2> QED
    BY <2>1, <2>2
<1>8. ASSUME OneEach(p), OneEach(q), LeftIn(p) \cap LeftIn(q) = {} PROVE OneEach(r)
  <2>1. SUFFICES ASSUME NEW i \in DOMAIN r, NEW j \in DOMAIN r, r[i] = r[j], r[i][1] = "left" PROVE i = j
    BY DEF OneEach
  <2>2. CASE i \in 1..m /\ j \in 1..m
    BY <1>1, <1>2, <1>8, <2>1, <2>2 DEF OneEach
  <2>3. CASE (\E k \in 1..n : i = m + k) /\ \E k \in 1..n : j = m + k
    <3>1. PICK k \in 1..n, l \in 1..n : i = m + k /\ j = m + l
      BY <2>3
    <3>2. q[k] = q[l] /\ q[k][1] = "left" /\ k \in DOMAIN q /\ l \in DOMAIN q
      BY <1>1, <1>3, <2>1, <3>1
    <3>3. k = l
      BY <1>8, <3>2 DEF OneEach
    <3> QED
      BY <3>1, <3>3
  <2>4. CASE i \in 1..m /\ \E k \in 1..n : j = m + k
    BY <1>2, <1>3, <1>6, <1>8, <2>1, <2>4
  <2>5. CASE j \in 1..m /\ \E k \in 1..n : i = m + k
    BY <1>2, <1>3, <1>6, <1>8, <2>1, <2>5
  <2> QED
    BY <1>4, <2>2, <2>3, <2>4, <2>5
<1> QED
  BY <1>1, <1>7, <1>8 DEF r

LEMMA SaidLeft ==
    ASSUME QueueTypes, LeftOnce
    PROVE  Said \in Seq(Messages) /\ OneEach(Said) /\ LeftIn(Said) = Leaving
<1>1. say \in Seq(Messages) /\ hotplug_pipe \in Seq(Messages) /\ Message \in Seq(Messages)
  BY DEF QueueTypes, Message
<1>2. OneEach(Message)
  BY ShortLeft DEF Message
<1>3. /\ say \o hotplug_pipe \in Seq(Messages) /\ OneEach(say \o hotplug_pipe)
      /\ LeftIn(say \o hotplug_pipe) = LeftIn(say) \cup LeftIn(hotplug_pipe)
  BY <1>1, ConcatLeft DEF LeftOnce
<1>4. LeftIn(say \o hotplug_pipe) \cap LeftIn(Message) = {}
  BY <1>3 DEF LeftOnce
<1>5. Said = (say \o hotplug_pipe) \o Message
  BY DEF Said, Message
<1> QED
  BY <1>1, <1>2, <1>3, <1>4, <1>5, ConcatLeft DEF Leaving

\* Of any tree of devices and any order of plugging, opening, listing and handling
\* messages, of any number of transfers that end, are refused, or lose their handle:
\* an object's count is the number of references that were taken and not dropped.
THEOREM Counted == Spec => []RefsCounted
<1>1. Shape /\ LeftOnce /\ CountInv => RefsCounted
  <2> SUFFICES ASSUME Shape, LeftOnce, CountInv PROVE RefsCounted
    OBVIOUS
  <2>1. ASSUME NEW o \in Objects
        PROVE  Cardinality({i \in DOMAIN Said : Said[i] = <<"left", o>>}) = One(Leaving, o)
    <3>1. Said \in Seq(Messages) /\ OneEach(Said) /\ LeftIn(Said) = Leaving
      BY SaidLeft DEF Shape
    <3>2. o \in Leaving <=> \E i \in DOMAIN Said : Said[i] = <<"left", o>>
      BY <3>1, LeftMeans
    <3>3. CASE o \in Leaving
      <4>1. PICK i \in DOMAIN Said : Said[i] = <<"left", o>>
        BY <3>2, <3>3
      <4>2. <<"left", o>>[1] = "left"
        OBVIOUS
      <4>3. {j \in DOMAIN Said : Said[j] = <<"left", o>>} = {i}
        BY <3>1, <4>1, <4>2 DEF OneEach
      <4> QED
        BY <3>3, <4>3, FS_Singleton DEF One
    <3>4. CASE o \notin Leaving
      <4>1. {j \in DOMAIN Said : Said[j] = <<"left", o>>} = {}
        BY <3>2, <3>4
      <4> QED
        BY <3>4, <4>1, FS_EmptySet DEF One
    <3> QED
      BY <3>3, <3>4
  <2>2. ASSUME NEW o \in Objects
        PROVE  refcnt[o] = One(usb_devs, o) + One(unannounced, o) + One({found}, o) + One(Opening, o)
                           + One(devs, o) + One(enum, o) + One(Handles, o)
                           + Cardinality({i \in DOMAIN Said : Said[i] = <<"left", o>>})
                           + Cardinality({t \in transfers : t[2] = o})
                           + Cardinality({c \in Objects : parent[c] = o /\ refcnt[c] > 0})
    <3>1. refcnt[o] = (Held(o) + Cardinality({t \in transfers : t[2] = o}))
                      + Cardinality({c \in Objects : parent[c] = o /\ refcnt[c] > 0})
      BY DEF CountInv, Children, Claims, TransferRefs
    <3> QED
      BY <2>1, <3>1, Zenon DEF Held
  <2> QED
    BY <2>2, Zenon DEF RefsCounted, One, Opening
<1> QED
  BY <1>1, ShapeHolds, CountHolds, PTL

\* An object that somebody holds is not freed.
LEMMA HeldAlive ==
    ASSUME ObjectTypes, CountInv, NEW o \in Objects,
           o \in usb_devs \cup unannounced \cup devs \cup enum \cup Handles \cup Opening \cup Leaving \cup {found}
    PROVE  refcnt[o] > 0
<1>1. \A S : One(S, o) \in Nat
  BY DEF One
<1>2. \/ One(usb_devs, o) = 1 \/ One(unannounced, o) = 1 \/ One({found}, o) = 1 \/ One(Opening, o) = 1
      \/ One(devs, o) = 1 \/ One(enum, o) = 1 \/ One(Handles, o) = 1 \/ One(Leaving, o) = 1
  BY DEF One
<1>3. Held(o) >= 1
  BY <1>1, <1>2 DEF Held
<1>4. /\ Cardinality(Children(o)) \in Nat /\ refcnt[o] = Claims(o) + Cardinality(Children(o))
      /\ Claims(o) \in Nat /\ Claims(o) >= Held(o) /\ Held(o) \in Nat
  BY ChildrenFinite, HeldCounts, ClaimsCounts DEF CountInv
<1> QED
  BY <1>3, <1>4

\* Whatever the devices and the order of steps, libusb_exit frees every object but
\* those that left before there was a hotplug pipe, those with the reference of a
\* transfer that was refused or lost its handle, and the hubs of these.
THEOREM ExitFrees == Spec => []ExitFreesAll
<1>1. Shape /\ ForestInv /\ AppInv /\ LeftOnce /\ CountInv => ExitFreesAll
  <2> DEFINE Kept == unannounced \cup {t[2] : t \in lost}
  <2> SUFFICES ASSUME Shape, ForestInv, AppInv, LeftOnce, CountInv, app = "exited",
                      NEW o \in Objects, refcnt[o] > 0
               PROVE  \E u \in Kept : o \in {u, parent[u]}
    BY DEF ExitFreesAll
  <2>1. /\ usb_devs = {} /\ devs = {} /\ enum = {} /\ Handles = {} /\ found = 0
        /\ say = <<>> /\ hotplug_pipe = <<>> /\ events.msg = <<"none", 0>>
    BY DEF Shape, LockInv
  <2>2. Leaving = {} /\ Opening = {}
    BY <2>1, ShortLeft DEF Leaving, Message, Opening
  <2>3. \A c \in Objects : c # 0 /\ Held(c) = One(unannounced, c)
    <3>1. \A c \in Objects : c # 0
      BY ObjectNumbers DEF Shape
    <3> QED
      BY <2>1, <2>2, <3>1 DEF Held, One
  <2>4. \A c \in Objects \ Kept : Claims(c) = 0
    <3>1. TAKE c \in Objects \ Kept
    <3>2. transfers \subseteq lost
      BY <2>1 DEF AppInv
    <3>3. {t \in transfers : t[2] = c} = {}
      BY <3>1, <3>2
    <3>4. TransferRefs(c) = 0
      BY <3>3, FS_EmptySet DEF TransferRefs
    <3> QED
      BY <2>3, <3>4 DEF Claims, One
  <2> HIDE DEF Kept
  <2>5. ASSUME NEW c \in Objects, c \notin Kept, refcnt[c] > 0
        PROVE  \E x \in Objects : parent[x] = c /\ refcnt[x] > 0
    <3>1. refcnt[c] = Cardinality(Children(c)) /\ Cardinality(Children(c)) \in Nat
      <4>1. refcnt[c] = Claims(c) + Cardinality(Children(c)) /\ Cardinality(Children(c)) \in Nat
        BY ChildrenFinite DEF CountInv, Shape
      <4> QED
        BY <2>4, <2>5, <4>1
    <3>2. Children(c) # {}
      BY <2>5, <3>1, FS_EmptySet
    <3> QED
      BY <3>2 DEF Children
  <2>6. CASE o \in Kept
    BY <2>6
  <2>7. CASE o \notin Kept
    <3>1. PICK x \in Objects : parent[x] = o /\ refcnt[x] > 0
      BY <2>5, <2>7
    <3>2. x \in Kept
      <4>1. SUFFICES ASSUME x \notin Kept PROVE FALSE
        OBVIOUS
      <4>2. PICK y \in Objects : parent[y] = x
        BY <2>5, <3>1, <4>1
      <4>3. parent[x] = 0
        BY <2>3, <4>2, NoGrandparent DEF Shape
      <4> QED
        BY <2>3, <3>1, <4>3
    <3> QED
      BY <3>1, <3>2
  <2> QED
    BY <2>6, <2>7
<1> QED
  BY <1>1, ShapeHolds, ForestHolds, CountHolds, PTL

-----------------------------------------------------------------------------
(* A message that an object arrived holds no reference: the list's does, or *)
(* the one of a later message that the object left.                         *)

LEMMA ArrivedWrite ==
    ASSUME QueueTypes, LeftOnce, ArrivedInv, WriteMessage
    PROVE  ArrivedInv'
<1> DEFINE m == Head(say)
           n == Len(hotplug_pipe)
<1>1. say \in Seq(Messages) /\ hotplug_pipe \in Seq(Messages) /\ say # <<>> /\ OneEach(say) /\ m \in Messages
  BY DEF QueueTypes, LeftOnce, WriteMessage
<1>2. /\ say' = Tail(say) /\ hotplug_pipe' = Append(hotplug_pipe, m)
      /\ events' = events /\ usb_devs' = usb_devs
  BY DEF WriteMessage, objVars
<1>3. \A i \in DOMAIN say' : i + 1 \in DOMAIN say /\ say'[i] = say[i + 1]
  BY <1>1, <1>2
<1>4. 1 \in DOMAIN say /\ m = say[1]
  BY <1>1
<1>5. /\ n \in Nat /\ DOMAIN hotplug_pipe = 1..n /\ DOMAIN hotplug_pipe' = 1..(n + 1)
      /\ hotplug_pipe'[n + 1] = m /\ \A i \in 1..n : hotplug_pipe'[i] = hotplug_pipe[i]
  BY <1>1, <1>2
<1>6. LeftIn(say) = LeftIn(say') \cup LeftIn(<<m>>) /\ \A o : o \in LeftIn(<<m>>) => m = <<"left", o>>
  BY <1>1, <1>2, TailLeft, OneLeft
<1>7. LeftIn(hotplug_pipe') = LeftIn(hotplug_pipe) \cup LeftIn(<<m>>)
  BY <1>1, <1>2, AppendLeft
<1> HIDE DEF m, n
<1>8. \A i \in DOMAIN say' : say'[i][1] = "arrived" => say'[i][2] \in usb_devs'
  BY <1>2, <1>3 DEF ArrivedInv
<1>9. events'.msg[1] = "arrived" => events'.msg[2] \in usb_devs' \cup LeftIn(say') \cup LeftIn(hotplug_pipe')
  BY <1>2, <1>6, <1>7 DEF ArrivedInv
<1>10. ASSUME NEW i \in DOMAIN hotplug_pipe', hotplug_pipe'[i][1] = "arrived"
       PROVE  \/ hotplug_pipe'[i][2] \in usb_devs' \cup LeftIn(say')
              \/ \E j \in DOMAIN hotplug_pipe' : j > i /\ hotplug_pipe'[j] = <<"left", hotplug_pipe'[i][2]>>
  <2>1. CASE i = n + 1
    BY <1>2, <1>4, <1>5, <1>10, <2>1 DEF ArrivedInv
  <2>2. CASE i \in 1..n
    <3> DEFINE o == hotplug_pipe[i][2]
    <3>1. \/ o \in usb_devs \cup LeftIn(say)
          \/ \E j \in 1..n : j > i /\ hotplug_pipe[j] = <<"left", o>>
      BY <1>5, <1>10, <2>2 DEF ArrivedInv
    <3>2. n + 1 \in DOMAIN hotplug_pipe' /\ n + 1 > i /\ 1..n \subseteq DOMAIN hotplug_pipe'
      BY <1>5, <2>2
    <3>3. hotplug_pipe'[i][2] = o
      BY <1>5, <2>2
    <3> HIDE DEF o
    <3>4. CASE o \in usb_devs \cup LeftIn(say)
      BY <1>2, <1>5, <1>6, <3>2, <3>3, <3>4
    <3>5. CASE \E j \in 1..n : j > i /\ hotplug_pipe[j] = <<"left", o>>
      BY <1>5, <3>2, <3>3, <3>5
    <3> QED
      BY <3>1, <3>4, <3>5
  <2> QED
    BY <1>5, <2>1, <2>2
<1> QED
  BY <1>8, <1>9, <1>10 DEF ArrivedInv

LEMMA ArrivedRead ==
    ASSUME QueueTypes, LeftOnce, ArrivedInv, ReadMessage
    PROVE  ArrivedInv'
<1> DEFINE m == Head(hotplug_pipe)
<1>1. hotplug_pipe \in Seq(Messages) /\ hotplug_pipe # <<>> /\ Tail(hotplug_pipe) \in Seq(Messages)
  BY DEF QueueTypes, ReadMessage
<1>2. /\ hotplug_pipe' = Tail(hotplug_pipe) /\ events'.msg = m
      /\ UNCHANGED <<say, usb_devs>>
  BY DEF ReadMessage, objVars, lockVars
<1>3. \A i \in DOMAIN hotplug_pipe' : i + 1 \in DOMAIN hotplug_pipe /\ hotplug_pipe'[i] = hotplug_pipe[i + 1]
                                      /\ i \in Int
  BY <1>1, <1>2
<1>4. \A i \in DOMAIN hotplug_pipe : i > 1 => i - 1 \in DOMAIN hotplug_pipe' /\ hotplug_pipe'[i - 1] = hotplug_pipe[i]
                                              /\ i \in Int
  BY <1>1, <1>2
<1>5. 1 \in DOMAIN hotplug_pipe /\ m = hotplug_pipe[1] /\ hotplug_pipe' \in Seq(Messages)
  BY <1>1, <1>2
<1> HIDE DEF m
<1>6. LeftIn(hotplug_pipe') = {o \in Objects : \E i \in DOMAIN hotplug_pipe' : hotplug_pipe'[i] = <<"left", o>>}
      /\ LeftIn(hotplug_pipe) = {o \in Objects : \E i \in DOMAIN hotplug_pipe : hotplug_pipe[i] = <<"left", o>>}
  BY <1>1, <1>5, LeftMeans
<1>7. \A i \in DOMAIN say' : say'[i][1] = "arrived" => say'[i][2] \in usb_devs'
  BY <1>2 DEF ArrivedInv
<1>8. ASSUME m[1] = "arrived" PROVE m[2] \in usb_devs' \cup LeftIn(say') \cup LeftIn(hotplug_pipe')
  <2>1. CASE m[2] \in usb_devs \cup LeftIn(say)
    BY <1>2, <2>1
  <2>2. CASE \E j \in DOMAIN hotplug_pipe : j > 1 /\ hotplug_pipe[j] = <<"left", m[2]>>
    <3>1. PICK j \in DOMAIN hotplug_pipe : j > 1 /\ hotplug_pipe[j] = <<"left", m[2]>>
      BY <2>2
    <3>2. \E k \in DOMAIN hotplug_pipe' : hotplug_pipe'[k] = <<"left", m[2]>>
      BY <1>4, <3>1
    <3>3. m[2] \in Objects
      BY <1>6, <3>1, <1>1, <1>5, <1>8 DEF Messages
    <3> QED
      BY <1>6, <3>2, <3>3
  <2> QED
    BY <1>5, <1>8, <2>1, <2>2 DEF ArrivedInv
<1>9. ASSUME NEW i \in DOMAIN hotplug_pipe', hotplug_pipe'[i][1] = "arrived"
       PROVE  \/ hotplug_pipe'[i][2] \in usb_devs' \cup LeftIn(say')
              \/ \E j \in DOMAIN hotplug_pipe' : j > i /\ hotplug_pipe'[j] = <<"left", hotplug_pipe'[i][2]>>
  <2> DEFINE o == hotplug_pipe[i + 1][2]
  <2>1. i + 1 \in DOMAIN hotplug_pipe /\ hotplug_pipe'[i][2] = o /\ hotplug_pipe[i + 1][1] = "arrived" /\ i \in Int
    BY <1>3, <1>9
  <2>2. \/ o \in usb_devs \cup LeftIn(say)
        \/ \E j \in DOMAIN hotplug_pipe : j > i + 1 /\ hotplug_pipe[j] = <<"left", o>>
    BY <2>1 DEF ArrivedInv
  <2> HIDE DEF o
  <2>3. CASE \E j \in DOMAIN hotplug_pipe : j > i + 1 /\ hotplug_pipe[j] = <<"left", o>>
    <3>1. PICK j \in DOMAIN hotplug_pipe : j > i + 1 /\ hotplug_pipe[j] = <<"left", o>>
      BY <2>3
    <3>2. j \in Int /\ i \in Int /\ j > 1 /\ i >= 1
      BY <1>1, <1>2, <3>1
    <3>3. j - 1 \in DOMAIN hotplug_pipe' /\ hotplug_pipe'[j - 1] = <<"left", o>> /\ j - 1 > i
      BY <1>4, <3>1, <3>2
    <3> QED
      BY <2>1, <3>3
  <2> QED
    BY <1>2, <2>1, <2>2, <2>3
<1> QED
  BY <1>2, <1>7, <1>8, <1>9 DEF ArrivedInv

LEMMA ArrivedWake ==
    ASSUME QueueTypes, ArrivedInv, NEW c, libusb_hotplug_deregister_callback(c)
    PROVE  ArrivedInv'
<1> DEFINE m == <<"none", 0>>
           n == Len(hotplug_pipe)
<1>1. hotplug_pipe \in Seq(Messages) /\ m \in Messages /\ m[1] # "arrived"
  BY DEF QueueTypes, Messages
<1>2. /\ hotplug_pipe' = Append(hotplug_pipe, m) /\ UNCHANGED <<say, events, usb_devs>>
  BY DEF libusb_hotplug_deregister_callback, objVars, lockVars
<1> HIDE DEF m
<1>3. /\ n \in Nat /\ DOMAIN hotplug_pipe = 1..n /\ DOMAIN hotplug_pipe' = 1..(n + 1)
      /\ hotplug_pipe'[n + 1] = m /\ \A i \in 1..n : hotplug_pipe'[i] = hotplug_pipe[i]
  BY <1>1, <1>2
<1>4. LeftIn(hotplug_pipe) \subseteq LeftIn(hotplug_pipe')
  BY <1>1, <1>2, AppendLeft
<1> HIDE DEF n
<1>5. \A i \in DOMAIN hotplug_pipe' : i \in 1..n \/ i = n + 1
  BY <1>3
<1>6. 1..n \subseteq DOMAIN hotplug_pipe'
  BY <1>3
<1>7. ASSUME NEW i \in DOMAIN hotplug_pipe', hotplug_pipe'[i][1] = "arrived"
       PROVE  \/ hotplug_pipe'[i][2] \in usb_devs' \cup LeftIn(say')
              \/ \E j \in DOMAIN hotplug_pipe' : j > i /\ hotplug_pipe'[j] = <<"left", hotplug_pipe'[i][2]>>
  <2>1. i \in 1..n /\ hotplug_pipe'[i] = hotplug_pipe[i]
    BY <1>1, <1>3, <1>5, <1>7
  <2>2. \/ hotplug_pipe[i][2] \in usb_devs \cup LeftIn(say)
        \/ \E j \in 1..n : j > i /\ hotplug_pipe[j] = <<"left", hotplug_pipe[i][2]>>
    BY <1>3, <1>7, <2>1 DEF ArrivedInv
  <2> QED
    BY <1>2, <1>3, <1>6, <2>1, <2>2
<1> QED
  BY <1>2, <1>4, <1>7 DEF ArrivedInv

\* With nothing to write: objects are made and announced, or one is dropped, and
\* said to have left if anybody was told of it.
LEMMA ArrivedMoves ==
    ASSUME Shape, ArrivedInv, say = <<>>, UNCHANGED <<hotplug_pipe, events>>,
           \/ NothingMade
           \/ \E d, m, up : Made(d, m, up)
           \/ \E o : Dropped(o)
    PROVE  ArrivedInv'
<1>1. LeftIn(say) = {}
  BY ShortLeft
<1>2. CASE NothingMade
  BY <1>2 DEF NothingMade, objVars, ArrivedInv
<1>3. CASE \E d, m, up : Made(d, m, up)
  <2>1. PICK d, m, up : Made(d, m, up)
    BY <1>3
  <2> DEFINE n == Len(session)
  <2>2. /\ usb_devs' = usb_devs \cup (n + 1)..(n + m) /\ m \in {1, 2} /\ n \in Nat
        /\ \/ say' = <<>> \/ say' = <<<<"arrived", n + 1>>>>
           \/ m = 2 /\ say' = <<<<"arrived", n + 1>>, <<"arrived", n + 2>>>>
    BY <2>1, ObjectNumbers DEF Made, Shape
  <2>3. \A i \in DOMAIN say' : say'[i][2] \in (n + 1)..(n + m)
    BY <2>2
  <2> QED
    BY <1>1, <2>2, <2>3 DEF ArrivedInv
<1>4. CASE \E o : Dropped(o)
  <2>1. PICK o : Dropped(o)
    BY <1>4
  <2>2. usb_devs' = usb_devs \ {o}
    BY <2>1 DEF Dropped
  <2>3. CASE ~HasPipe /\ say' = <<>>
    <3>1. hotplug_pipe = <<>> /\ events.msg = <<"none", 0>>
      BY <2>3 DEF Shape, LockInv, HasPipe
    <3> QED
      BY <2>3, <3>1 DEF ArrivedInv
  <2>4. CASE say' = <<<<"left", o>>>>
    <3> DEFINE m == <<"left", o>>
    <3>1. m[1] = "left" /\ m[2] = o
      OBVIOUS
    <3>2. say' = <<m>>
      BY <2>4
    <3> HIDE DEF m
    <3>3. LeftIn(say') = {o} /\ \A i \in DOMAIN say' : say'[i] = m
      <4>1. LeftIn(say') = {o}
        BY <3>1, <3>2, ShortLeft
      <4>2. \A i \in DOMAIN <<m>> : <<m>>[i] = m
        OBVIOUS
      <4> QED
        BY <3>2, <4>1, <4>2
    <3>4. "left" # "arrived"
      OBVIOUS
    <3> QED
      BY <1>1, <2>2, <3>1, <3>3, <3>4 DEF ArrivedInv
  <2> QED
    BY <2>1, <2>3, <2>4 DEF Dropped
<1> QED
  BY <1>2, <1>3, <1>4

LEMMA ArrivedStep ==
    ASSUME Shape, LeftOnce, ArrivedInv, [Next]_vars
    PROVE  ArrivedInv'
<1> USE DEF busVars, objVars, lockVars, cbVars, appVars, transferVars
<1>1. ObjectTypes /\ BusTypes /\ QueueTypes /\ LockInv
  BY DEF Shape
<1>2. ASSUME UNCHANGED <<say, hotplug_pipe, usb_devs>>, events'.msg = events.msg
      PROVE  ArrivedInv'
  BY <1>2 DEF ArrivedInv
<1>3. CASE MonitorReads \/ PollReads
  <2>1. say = <<>> /\ UNCHANGED <<hotplug_pipe, events>> /\ uevents # <<>> /\ HandleUevent(Head(uevents))
    BY <1>1, <1>3 DEF MonitorReads, PollReads, Through, LockInv
  <2>2. Head(uevents) \in {"add", "remove"} \X Devices
    BY <1>1, <2>1 DEF BusTypes
  <2>3. UNCHANGED <<say, usb_devs>> \/ NothingMade \/ (\E d, m, up : Made(d, m, up)) \/ (\E o : Dropped(o))
    BY <1>1, <2>1, <2>2, UeventDoes
  <2> QED
    BY <1>2, <2>1, <2>3, ArrivedMoves
<1>4. CASE \E d \in Devices : ScanDevice(d)
  <2>1. PICK d \in Devices : ScanDevice(d)
    BY <1>4
  <2>2. say = <<>>
    BY <1>1, <2>1 DEF ScanDevice, LockInv
  <2> QED
    BY <1>1, <2>1, <2>2, EnumerateMakes, ArrivedMoves DEF ScanDevice
<1>5. CASE OpenDisconnects \/ \E o \in Handles : HangUp(o)
  <2>1. say = <<>> /\ UNCHANGED <<hotplug_pipe, events>>
    BY <1>1, <1>5 DEF OpenDisconnects, HangUp, LockInv
  <2>2. UNCHANGED <<say, usb_devs>> \/ NothingMade \/ \E o : Dropped(o)
    BY <1>5, DisconnectDrops DEF OpenDisconnects, HangUp
  <2> QED
    BY <1>2, <2>1, <2>2, ArrivedMoves
<1>6. CASE WriteMessage \/ ReadMessage \/ \E c \in Callbacks : libusb_hotplug_deregister_callback(c)
  BY <1>1, <1>6, ArrivedWrite, ArrivedRead, ArrivedWake
<1>7. CASE Matched \/ Teardown
  <2>1. CASE Matched
    <3>1. UNCHANGED <<say, hotplug_pipe, usb_devs>> /\ events'.msg[1] # "arrived"
      BY <2>1 DEF Matched, Idle
    <3> QED
      BY <3>1 DEF ArrivedInv
  <2>2. CASE Teardown
    <3>1. say' = <<>> /\ hotplug_pipe' = <<>> /\ events'.msg[1] # "arrived"
      BY <1>1, <2>2 DEF Teardown, LockInv
    <3> QED
      BY <3>1 DEF ArrivedInv
  <2> QED
    BY <1>7, <2>1, <2>2
<1>8. CASE \/ Unfind \/ Unlock \/ UNCHANGED vars
           \/ \E d \in Devices : Plug(d) \/ MakeNode(d) \/ Unplug(d)
  BY <1>2, <1>8 DEF Unfind, Unlock, Plug, MakeNode, Unplug, vars
<1>9. CASE \E c \in Callbacks, finished \in BOOLEAN : MatchCallback(c, finished)
  <2>1. events'.msg = events.msg
    BY <1>9 DEF MatchCallback
  <2> QED
    BY <1>2, <1>9, <2>1 DEF MatchCallback
<1>10. CASE StartMonitor \/ linux_scan_devices \/ Scanned \/ usbi_io_init \/ PollLock \/ PollUnlock
  BY <1>2, <1>10 DEF StartMonitor, linux_scan_devices, Scanned, usbi_io_init, PollLock, PollUnlock
<1>11. CASE Snapshot \/ Enumerated \/ OpenNode \/ OpenFails
  BY <1>2, <1>11 DEF Snapshot, Enumerated, OpenNode, OpenFails
<1>12. CASE \/ GetDeviceList \/ libusb_free_device_list \/ BeginExit
            \/ \E c \in Callbacks, enumerate \in BOOLEAN : RegisterCallback(c, enumerate)
            \/ \E o \in Objects : libusb_open(o) \/ libusb_close(o)
  BY <1>2, <1>12 DEF GetDeviceList, libusb_free_device_list, BeginExit, RegisterCallback,
                     libusb_open, libusb_close
<1>13. CASE Transferring
  BY <1>2, <1>13 DEF Transferring, libusb_submit_transfer, usbi_handle_transfer_completion
<1> QED
  BY <1>3, <1>4, <1>5, <1>6, <1>7, <1>8, <1>9, <1>10, <1>11, <1>12, <1>13
  DEF Next, Library, Events, Call, Transferring

LEMMA ArrivedHolds == Spec => []ArrivedInv
<1>1. Init => ArrivedInv
  <2> SUFFICES ASSUME Init PROVE ArrivedInv
    OBVIOUS
  <2>1. say = <<>> /\ hotplug_pipe = <<>> /\ events.msg[1] # "arrived"
    BY DEF Init, Idle
  <2> QED
    BY <2>1 DEF ArrivedInv
<1> QED
  BY <1>1, ArrivedStep, ShapeHolds, CountHolds, PTL DEF Spec

LEMMA ConcatElements ==
    ASSUME NEW T, NEW p \in Seq(T), NEW q \in Seq(T), NEW i \in DOMAIN (p \o q)
    PROVE  (\E k \in DOMAIN p : (p \o q)[i] = p[k]) \/ \E k \in DOMAIN q : (p \o q)[i] = q[k]
<1>1. /\ Len(p) \in Nat /\ Len(q) \in Nat /\ i \in 1..(Len(p) + Len(q))
      /\ DOMAIN p = 1..Len(p) /\ DOMAIN q = 1..Len(q)
  BY ConcatProperties, LenProperties
<1>2. (p \o q)[i] = IF i <= Len(p) THEN p[i] ELSE q[i - Len(p)]
  BY <1>1, ConcatProperties
<1>3. i <= Len(p) => i \in DOMAIN p
  BY <1>1
<1>4. ~(i <= Len(p)) => i - Len(p) \in DOMAIN q
  BY <1>1
<1> QED
  BY <1>2, <1>3, <1>4

\* Whatever the order in which the messages are written, read and matched, none is
\* about an object that was freed.
THEOREM MessagesSafe == Spec => []MessagesAlive
<1>1. Shape /\ LeftOnce /\ CountInv /\ ArrivedInv => MessagesAlive
  <2> SUFFICES ASSUME Shape, LeftOnce, CountInv, ArrivedInv, NEW i \in DOMAIN Said, Said[i][1] # "none"
               PROVE  refcnt[Said[i][2]] > 0
    BY DEF MessagesAlive
  <2>1. Said \in Seq(Messages) /\ LeftIn(Said) = Leaving
    BY SaidLeft DEF Shape
  <2>2. Said[i] \in Messages
    BY <2>1
  <2>3. /\ Said[i][1] \in {"arrived", "left"} /\ Said[i][2] \in Objects
        /\ Said[i] = <<Said[i][1], Said[i][2]>>
    BY <2>2 DEF Messages
  <2>4. CASE Said[i][1] = "left"
    <3>1. Said[i][2] \in Leaving
      BY <2>1, <2>4, LeftMeans
    <3> QED
      BY <2>3, <3>1, HeldAlive DEF Shape
  <2>5. CASE Said[i][1] = "arrived"
    <3>1. say \in Seq(Messages) /\ hotplug_pipe \in Seq(Messages) /\ Message \in Seq(Messages)
          /\ say \o hotplug_pipe \in Seq(Messages) /\ Said = (say \o hotplug_pipe) \o Message
      BY ConcatProperties DEF Shape, QueueTypes, Said, Message
    <3>2. \/ \E k \in DOMAIN say : Said[i] = say[k]
          \/ \E k \in DOMAIN hotplug_pipe : Said[i] = hotplug_pipe[k]
          \/ Said[i] = events.msg
      <4>1. (\E k \in DOMAIN (say \o hotplug_pipe) : Said[i] = (say \o hotplug_pipe)[k])
            \/ \E k \in DOMAIN Message : Said[i] = Message[k]
        BY <3>1, ConcatElements
      <4>2. \A k \in DOMAIN Message : Message[k] = events.msg
        BY DEF Message
      <4>3. \A k \in DOMAIN (say \o hotplug_pipe) :
               \/ \E l \in DOMAIN say : (say \o hotplug_pipe)[k] = say[l]
               \/ \E l \in DOMAIN hotplug_pipe : (say \o hotplug_pipe)[k] = hotplug_pipe[l]
        <5>1. \A p, q \in Seq(Messages) : \A k \in DOMAIN (p \o q) :
                 \/ \E l \in DOMAIN p : (p \o q)[k] = p[l]
                 \/ \E l \in DOMAIN q : (p \o q)[k] = q[l]
          BY ConcatElements
        <5> QED
          BY <3>1, <5>1, Zenon
      <4> QED
        BY <4>1, <4>2, <4>3
    <3>3. Said[i][2] \in usb_devs \cup Leaving
      <4>1. CASE \E k \in DOMAIN say : Said[i] = say[k]
        BY <2>5, <4>1 DEF ArrivedInv
      <4>2. CASE \E k \in DOMAIN hotplug_pipe : Said[i] = hotplug_pipe[k]
        <5>1. PICK k \in DOMAIN hotplug_pipe : Said[i] = hotplug_pipe[k]
          BY <4>2
        <5>2. \/ Said[i][2] \in usb_devs \cup LeftIn(say)
              \/ \E j \in DOMAIN hotplug_pipe : hotplug_pipe[j] = <<"left", Said[i][2]>>
          BY <2>5, <5>1 DEF ArrivedInv
        <5>3. \A j \in DOMAIN hotplug_pipe : hotplug_pipe[j] = <<"left", Said[i][2]>>
                 => Said[i][2] \in LeftIn(hotplug_pipe)
          BY <2>3, <3>1, LeftMeans
        <5> QED
          BY <5>2, <5>3 DEF Leaving
      <4>3. CASE Said[i] = events.msg
        BY <2>5, <4>3 DEF ArrivedInv, Leaving
      <4> QED
        BY <3>2, <4>1, <4>2, <4>3
    <3> QED
      BY <2>3, <3>3, HeldAlive DEF Shape
  <2> QED
    BY <2>3, <2>4, <2>5
<1> QED
  BY <1>1, ShapeHolds, CountHolds, ArrivedHolds, PTL

-----------------------------------------------------------------------------
(* The list follows the bus.                                               *)

\* The kernel writes a uevent.
LEMMA NewUevent ==
    ASSUME uevents \in Seq({"add", "remove"} \X Devices), LastTells,
           NEW d \in Devices, NEW a \in {"add", "remove"}, uevents' = uevents \o <<<<a, d>>>>,
           a = "add" <=> d \in present', \A e : e # d => (e \in present' <=> e \in present)
    PROVE  /\ LastTells' /\ Mentioned(d)' /\ \A e : (Mentioned(e) => Mentioned(e)') /\ (Removal(e) => Removal(e)')
           /\ a = "remove" => Removal(d)'
<1> DEFINE n == Len(uevents)
           u == <<a, d>>
<1>1. u \in {"add", "remove"} \X Devices /\ u[1] = a /\ u[2] = d
  OBVIOUS
<1>2. uevents' = uevents \o <<u>>
  OBVIOUS
<1>3. a = "remove" => u = <<"remove", d>>
  OBVIOUS
<1> HIDE DEF u
<1>4. /\ n \in Nat /\ DOMAIN uevents = 1..n /\ DOMAIN uevents' = 1..(n + 1)
      /\ uevents'[n + 1] = u /\ \A i \in 1..n : uevents'[i] = uevents[i]
  <2>1. /\ uevents' \in [1..(n + 1) -> {"add", "remove"} \X Devices]
        /\ uevents'[n + 1] = u /\ \A i \in 1..n : uevents'[i] = uevents[i]
    BY <1>1, <1>2, AddOne
  <2>2. n \in Nat /\ DOMAIN uevents = 1..n
    OBVIOUS
  <2> QED
    BY <2>1, <2>2
<1> HIDE DEF n
<1>5. \A i \in DOMAIN uevents' : i = n + 1 \/ i \in 1..n
  BY <1>4
<1>6. 1..n \subseteq DOMAIN uevents' /\ n + 1 \in DOMAIN uevents' /\ \A i \in 1..n : n + 1 > i
  BY <1>4
<1>7. Mentioned(d)' /\ (a = "remove" => Removal(d)')
  BY <1>1, <1>3, <1>4, <1>6 DEF Mentioned, Removal
<1>8. \A e : (Mentioned(e) => Mentioned(e)') /\ (Removal(e) => Removal(e)')
  BY <1>4, <1>6 DEF Mentioned, Removal
<1>9. ASSUME NEW i \in DOMAIN uevents', \A j \in DOMAIN uevents' : j > i => uevents'[j][2] # uevents'[i][2]
      PROVE  uevents'[i][1] = "add" <=> uevents'[i][2] \in present'
  <2>1. CASE i = n + 1
    BY <1>1, <1>4, <2>1
  <2>2. CASE i \in 1..n
    <3>1. uevents'[i] = uevents[i] /\ uevents[i][2] # d
      BY <1>1, <1>4, <1>6, <1>9, <2>2
    <3>2. \A j \in 1..n : j > i => uevents[j][2] # uevents[i][2]
      BY <1>4, <1>6, <1>9, <2>2
    <3> QED
      BY <1>4, <2>2, <3>1, <3>2 DEF LastTells
  <2> QED
    BY <1>5, <2>1, <2>2
<1> QED
  BY <1>7, <1>8, <1>9 DEF LastTells

\* The oldest uevent is read: where it is the only one about its device, it says
\* whether the device is there.
LEMMA UeventRead ==
    ASSUME uevents \in Seq({"add", "remove"} \X Devices), LastTells, uevents # <<>>,
           uevents' = Tail(uevents), present' = present, NEW u, u = Head(uevents)
    PROVE  /\ LastTells'
           /\ \A e : e # u[2] /\ Mentioned(e) => Mentioned(e)'
           /\ u[1] = "add" /\ u[2] \notin present => Mentioned(u[2])'
           /\ u[1] = "remove" /\ u[2] \in present => Mentioned(u[2])'
           /\ \A e : Removal(e) /\ (u[1] = "add" \/ e # u[2]) => Removal(e)'
<1>1. 1 \in DOMAIN uevents /\ u = uevents[1] /\ u \in {"add", "remove"} \X Devices
  OBVIOUS
<1>2. \A i \in DOMAIN uevents' : i + 1 \in DOMAIN uevents /\ uevents'[i] = uevents[i + 1] /\ i \in Int
  OBVIOUS
<1>3. \A i \in DOMAIN uevents : i \in Int /\ (i = 1 \/ (i > 1 /\ i - 1 \in DOMAIN uevents' /\ uevents'[i - 1] = uevents[i]))
  OBVIOUS
<1>4. ASSUME NEW e, NEW i \in DOMAIN uevents, i # 1, uevents[i][2] = e PROVE Mentioned(e)'
  <2>1. i - 1 \in DOMAIN uevents' /\ uevents'[i - 1][2] = e
    BY <1>3, <1>4
  <2> QED
    BY <2>1 DEF Mentioned
<1>5. \A e : e # u[2] /\ Mentioned(e) => Mentioned(e)'
  BY <1>1, <1>4 DEF Mentioned
<1>6. \/ Mentioned(u[2])' \/ (u[1] = "add" <=> u[2] \in present)
  <2>1. SUFFICES ASSUME ~Mentioned(u[2])' PROVE u[1] = "add" <=> u[2] \in present
    OBVIOUS
  <2>2. \A j \in DOMAIN uevents : j > 1 => uevents[j][2] # uevents[1][2]
    BY <1>1, <1>4, <2>1
  <2> QED
    BY <1>1, <2>2 DEF LastTells
<1>7. ASSUME NEW e, Removal(e), u[1] = "add" \/ e # u[2] PROVE Removal(e)'
  <2>1. PICK i \in DOMAIN uevents : uevents[i] = <<"remove", e>>
    BY <1>7 DEF Removal
  <2>2. i # 1
    BY <1>1, <1>7, <2>1
  <2>3. i - 1 \in DOMAIN uevents' /\ uevents'[i - 1] = <<"remove", e>>
    BY <1>3, <2>1, <2>2
  <2> QED
    BY <2>3 DEF Removal
<1>8. ASSUME NEW i \in DOMAIN uevents', \A j \in DOMAIN uevents' : j > i => uevents'[j][2] # uevents'[i][2]
      PROVE  uevents'[i][1] = "add" <=> uevents'[i][2] \in present'
  <2>1. i + 1 \in DOMAIN uevents /\ uevents'[i] = uevents[i + 1] /\ i \in Int /\ i >= 1
    BY <1>2
  <2>2. ASSUME NEW j \in DOMAIN uevents, j > i + 1 PROVE uevents[j][2] # uevents[i + 1][2]
    <3>1. j # 1 /\ j \in Int
      BY <1>3, <2>1, <2>2
    <3>2. j - 1 \in DOMAIN uevents' /\ uevents'[j - 1] = uevents[j] /\ j - 1 > i
      BY <1>3, <2>1, <2>2, <3>1
    <3> QED
      BY <1>8, <2>1, <3>2
  <2> QED
    BY <2>1, <2>2 DEF LastTells
<1> QED
  BY <1>1, <1>5, <1>6, <1>7, <1>8 DEF LastTells

LEMMA MadeList ==
    ASSUME Shape, SessionsApart, NEW d, NEW m, NEW up, Made(d, m, up)
    PROVE  /\ SessionsApart'
           /\ \A o \in usb_devs' : \/ o \in usb_devs /\ session'[o] = session[o]
                                   \/ o \notin Objects /\ session'[o] \in present
           /\ \A e : ObjectsOf(e) # {} => ObjectsOf(e)' # {}
           /\ ObjectsOf(d)' # {}
<1> DEFINE n   == Len(session)
           new == (n + 1)..(n + m)
<1>1. /\ n \in Nat /\ Objects = 1..n /\ m \in {1, 2} /\ usb_devs \subseteq Objects
      /\ usb_devs' = usb_devs \cup new /\ d \in present /\ d \in Devices
      /\ \A e \in present : Parent[e] \in present \cup {"none"}
  <2>1. n \in Nat /\ Objects = 1..n
    BY ObjectNumbers DEF Shape
  <2> QED
    BY <2>1 DEF Made, Shape, ObjectTypes, BusTypes
<1>2. /\ \A o \in Objects : session'[o] = session[o]
      /\ session'[n + m] = d /\ ObjectsOf(d) = {}
      /\ m = 2 => session'[n + 1] = Parent[d] /\ ObjectsOf(Parent[d]) = {} /\ Parent[d] \in Devices
  BY DEF Made
<1>3. /\ new \cap Objects = {} /\ n + m \in new
      /\ \A o \in new : o = n + m \/ (m = 2 /\ o = n + 1)
  BY <1>1
<1>4. Parent[d] \in Devices => Parent[d] # d /\ Parent[d] \in present
  BY <1>1, Constants
<1> HIDE DEF n, new
<1>5. \A o \in new : \/ o = n + m /\ session'[o] = d
                     \/ m = 2 /\ o = n + 1 /\ session'[o] = Parent[d]
  BY <1>2, <1>3
<1>6. \A o \in usb_devs, p \in new : session'[o] # session'[p]
  BY <1>1, <1>2, <1>5 DEF ObjectsOf
<1>7. \A o, p \in new : session'[o] = session'[p] => o = p
  BY <1>2, <1>4, <1>5
<1>8. SessionsApart'
  BY <1>1, <1>2, <1>6, <1>7 DEF SessionsApart
<1>9. \A o \in usb_devs' : \/ o \in usb_devs /\ session'[o] = session[o]
                           \/ o \notin Objects /\ session'[o] \in present
  BY <1>1, <1>2, <1>3, <1>4, <1>5
<1>10. \A e : ObjectsOf(e) # {} => ObjectsOf(e)' # {}
  BY <1>1, <1>2 DEF ObjectsOf
<1>11. ObjectsOf(d)' # {}
  BY <1>1, <1>2, <1>3 DEF ObjectsOf
<1> QED
  BY <1>8, <1>9, <1>10, <1>11

LEMMA DroppedList ==
    ASSUME SessionsApart, NEW o, Dropped(o)
    PROVE  /\ SessionsApart'
           /\ \A x \in usb_devs' : x \in usb_devs /\ session'[x] = session[x] /\ session[x] # session[o]
           /\ \A e : e # session[o] => ObjectsOf(e)' = ObjectsOf(e)
<1>1. o \in usb_devs /\ usb_devs' = usb_devs \ {o} /\ session' = session
  BY DEF Dropped
<1> QED
  BY <1>1 DEF SessionsApart, ObjectsOf

\* What the monitor or the poll reads.
LEMMA ListReads ==
    ASSUME Shape, ListInv, uevents # <<>>, uevents' = Tail(uevents),
           NEW u, u = Head(uevents), HandleUevent(u), UNCHANGED <<present, dropped, app, arg, fds>>
    PROVE  ListInv'
<1>0. PICK d : d = u[2]
  OBVIOUS
<1>1. /\ uevents \in Seq({"add", "remove"} \X Devices) /\ u \in {"add", "remove"} \X Devices
      /\ app \notin {"init", "exited"} /\ Handles \subseteq Objects
  BY DEF Shape, BusTypes, LockInv, ObjectTypes
<1>2. /\ LastTells'
      /\ \A e : e # d /\ Mentioned(e) => Mentioned(e)'
      /\ u[1] = "add" /\ d \notin present => Mentioned(d)'
      /\ u[1] = "remove" /\ d \in present => Mentioned(d)'
      /\ \A e : Removal(e) /\ (u[1] = "add" \/ e # d) => Removal(e)'
  BY <1>0, <1>1, UeventRead DEF ListInv
<1>3. /\ LastTells /\ SessionsApart
      /\ app # "exiting" => ListOnBus /\ HungUpLeft
      /\ app \notin {"started", "exiting"} => BusInList
  BY <1>1 DEF ListInv
<1>4. CASE UNCHANGED <<objVars, say, found>> /\ app = "exiting"
  BY <1>2, <1>3, <1>4 DEF ListInv, SessionsApart, objVars
<1>5. CASE NothingMade /\ app # "exiting" /\ u[1] = "add" /\ (d \in present => ObjectsOf(d) # {})
  <2>1. UNCHANGED <<session, usb_devs>> /\ Handles' = Handles
    BY <1>5 DEF NothingMade, objVars, Handles
  <2>2. ListOnBus' /\ HungUpLeft'
    BY <1>2, <1>3, <1>5, <2>1 DEF ListOnBus, HungUpLeft
  <2>3. BusInList => BusInList'
    BY <1>2, <1>5, <2>1 DEF BusInList, ObjectsOf
  <2> QED
    BY <1>2, <1>3, <2>1, <2>2, <2>3 DEF ListInv, SessionsApart
<1>6. CASE NothingMade /\ app # "exiting" /\ u[1] = "remove" /\ ObjectsOf(d) = {}
  <2>1. UNCHANGED <<session, usb_devs>> /\ Handles' = Handles
    BY <1>6 DEF NothingMade, objVars, Handles
  <2>2. \A o \in usb_devs : session[o] # d
    BY <1>6 DEF ObjectsOf
  <2>3. ListOnBus' /\ HungUpLeft'
    BY <1>2, <1>3, <1>6, <2>1, <2>2 DEF ListOnBus, HungUpLeft
  <2>4. BusInList => BusInList'
    BY <1>2, <1>6, <2>1 DEF BusInList, ObjectsOf
  <2> QED
    BY <1>2, <1>3, <2>1, <2>3, <2>4 DEF ListInv, SessionsApart
<1>7. CASE app # "exiting" /\ u[1] = "add" /\ \E m, up : Made(d, m, up)
  <2>1. PICK m, up : Made(d, m, up)
    BY <1>7
  <2>2. /\ SessionsApart'
        /\ \A o \in usb_devs' : \/ o \in usb_devs /\ session'[o] = session[o]
                                \/ o \notin Objects /\ session'[o] \in present
        /\ \A e : ObjectsOf(e) # {} => ObjectsOf(e)' # {}
        /\ ObjectsOf(d)' # {}
    BY <1>3, <2>1, MadeList
  <2>3. Handles' = Handles
    BY DEF Handles
  <2>4. ListOnBus' /\ HungUpLeft'
    BY <1>1, <1>2, <1>3, <1>7, <2>2, <2>3 DEF ListOnBus, HungUpLeft
  <2>5. BusInList => BusInList'
    BY <1>2, <2>2 DEF BusInList
  <2> QED
    BY <1>2, <1>3, <2>2, <2>4, <2>5 DEF ListInv
<1>8. CASE app # "exiting" /\ u[1] = "remove" /\ \E o \in ObjectsOf(d) : Dropped(o)
  <2>1. PICK o : Dropped(o) /\ session[o] = d
    BY <1>8 DEF ObjectsOf
  <2>2. /\ SessionsApart'
        /\ \A x \in usb_devs' : x \in usb_devs /\ session'[x] = session[x] /\ session[x] # d
        /\ \A e : e # d => ObjectsOf(e)' = ObjectsOf(e)
    BY <1>3, <2>1, DroppedList
  <2>3. Handles' = Handles
    BY DEF Handles
  <2>4. ListOnBus' /\ HungUpLeft'
    BY <1>2, <1>3, <1>8, <2>2, <2>3 DEF ListOnBus, HungUpLeft
  <2>5. BusInList => BusInList'
    BY <1>2, <1>8, <2>2 DEF BusInList
  <2> QED
    BY <1>2, <1>3, <2>2, <2>4, <2>5 DEF ListInv
<1>9. ObjectTypes /\ BusTypes /\ HandleUevent(u)
  BY DEF Shape
<1> QED
  BY <1>0, <1>1, <1>4, <1>5, <1>6, <1>7, <1>8, <1>9, UeventDoes

LEMMA ListStep ==
    ASSUME Shape, ListInv, [Next]_vars
    PROVE  ListInv'
<1> USE DEF busVars, objVars, lockVars, cbVars, appVars, transferVars
<1>1. ObjectTypes /\ BusTypes /\ QueueTypes /\ LockInv
  BY DEF Shape
<1>2. /\ LastTells /\ SessionsApart
      /\ app # "exiting" => ListOnBus /\ HungUpLeft
      /\ app \notin {"init", "started", "exiting", "exited"} => BusInList
  BY DEF ListInv
\* The bus, the list and the uevents stay.
<1>3. ASSUME UNCHANGED <<present, uevents, session, usb_devs>>,
             \A o \in Handles' : fds'[o] = "hungup" => o \in Handles /\ fds[o] = "hungup",
             app' # "exiting" => app # "exiting",
             app' \notin {"init", "started", "exiting", "exited"} => BusInList'
      PROVE  ListInv'
  <2>1. LastTells' /\ SessionsApart'
    BY <1>2, <1>3 DEF LastTells, SessionsApart
  <2>2. app' # "exiting" => ListOnBus'
    BY <1>2, <1>3 DEF ListOnBus, Mentioned
  <2>3. app' # "exiting" => HungUpLeft'
    BY <1>2, <1>3 DEF HungUpLeft, Removal
  <2> QED
    BY <1>3, <2>1, <2>2, <2>3 DEF ListInv
<1>4. ASSUME UNCHANGED <<present, uevents, session, usb_devs>>, dropped \subseteq dropped',
             \A o \in Handles' : fds'[o] = "hungup" => o \in Handles /\ fds[o] = "hungup",
             \/ UNCHANGED <<app, arg>>
             \/ {app, app'} \cap {"init", "started", "scan", "exiting", "exited"} = {}
      PROVE  ListInv'
  <2>1. BusInList => BusInList'
    BY <1>4 DEF BusInList, ObjectsOf, Mentioned
  <2>2. app' \notin {"init", "started", "exiting", "exited"} => app \notin {"init", "started", "exiting", "exited"}
    BY <1>4
  <2>3. app' # "exiting" => app # "exiting"
    BY <1>4
  <2> QED
    BY <1>2, <1>3, <1>4, <2>1, <2>2, <2>3
<1>5. ASSUME UNCHANGED <<present, dropped, uevents, session, usb_devs, fds>>,
             \/ UNCHANGED <<app, arg>>
             \/ {app, app'} \cap {"init", "started", "scan", "exiting", "exited"} = {}
      PROVE  ListInv'
  <2>1. \A o \in Handles' : fds'[o] = "hungup" => o \in Handles /\ fds[o] = "hungup"
    BY <1>5 DEF Handles
  <2> QED
    BY <1>5, <1>4, <2>1
\* The bus.
<1>6. CASE \E d \in Devices : Plug(d)
  <2>1. PICK d \in Devices : Plug(d)
    BY <1>6
  <2>2. present' = present \cup {d} /\ UNCHANGED <<dropped, session, usb_devs, app, arg, fds>>
    BY <2>1 DEF Plug
  <2>3. CASE app \in {"init", "exited"}
    <3>1. uevents' = <<>> /\ usb_devs = {}
      BY <1>1, <2>1, <2>3 DEF Plug, Notify, LockInv
    <3> QED
      BY <1>2, <2>2, <2>3, <3>1 DEF ListInv, LastTells, SessionsApart, ListOnBus, HungUpLeft
  <2>4. CASE app \notin {"init", "exited"}
    <3>1. uevents' = uevents \o <<<<"add", d>>>>
      BY <2>1, <2>4 DEF Plug, Notify
    <3>2. /\ LastTells' /\ Mentioned(d)'
          /\ \A e : (Mentioned(e) => Mentioned(e)') /\ (Removal(e) => Removal(e)')
      <4>1. uevents \in Seq({"add", "remove"} \X Devices) /\ "add" \in {"add", "remove"}
        BY <1>1 DEF BusTypes
      <4>2. /\ "add" = "add" <=> d \in present'
            /\ \A e : e # d => (e \in present' <=> e \in present)
        BY <2>2
      <4> QED
        BY <1>2, <2>1, <3>1, <4>1, <4>2, NewUevent
    <3>3. app # "exiting" => ListOnBus' /\ HungUpLeft'
      BY <1>2, <2>2, <3>2 DEF ListOnBus, HungUpLeft, Handles
    <3>4. BusInList => BusInList'
      BY <2>2, <3>2 DEF BusInList, ObjectsOf
    <3> QED
      BY <1>2, <2>2, <2>4, <3>2, <3>3, <3>4 DEF ListInv, SessionsApart
  <2> QED
    BY <2>3, <2>4
<1>7. CASE \E d \in Devices : Unplug(d)
  <2>1. PICK d \in Devices : Unplug(d)
    BY <1>7
  <2>2. present' = present \ {d} /\ dropped' = dropped \ {d} /\ UNCHANGED <<session, usb_devs, app, arg>>
        /\ fds' = [o \in Handles |-> IF fds[o] = "up" /\ session[o] = d THEN "hungup" ELSE fds[o]]
    BY <2>1 DEF Unplug
  <2>3. CASE app \in {"init", "exited"}
    <3>1. uevents' = <<>> /\ usb_devs = {}
      BY <1>1, <2>1, <2>3 DEF Unplug, Notify, LockInv
    <3> QED
      BY <1>2, <2>2, <2>3, <3>1 DEF ListInv, LastTells, SessionsApart, ListOnBus, HungUpLeft
  <2>4. CASE app \notin {"init", "exited"}
    <3>1. uevents' = uevents \o <<<<"remove", d>>>>
      BY <2>1, <2>4 DEF Unplug, Notify
    <3>2. /\ LastTells' /\ Mentioned(d)' /\ Removal(d)'
          /\ \A e : (Mentioned(e) => Mentioned(e)') /\ (Removal(e) => Removal(e)')
      <4>1. uevents \in Seq({"add", "remove"} \X Devices) /\ "remove" \in {"add", "remove"}
        BY <1>1 DEF BusTypes
      <4>2. /\ "remove" = "add" <=> d \in present'
            /\ \A e : e # d => (e \in present' <=> e \in present)
        BY <2>2
      <4> QED
        BY <1>2, <2>1, <3>1, <4>1, <4>2, NewUevent
    <3>3. app # "exiting" => ListOnBus'
      BY <1>2, <2>2, <3>2 DEF ListOnBus
    <3>4. Handles' = Handles /\ \A o \in Handles : fds'[o] = "hungup" => fds[o] = "hungup" \/ session[o] = d
      BY <2>2 DEF Handles
    <3>5. app # "exiting" => HungUpLeft'
      BY <1>2, <2>2, <3>2, <3>4 DEF HungUpLeft
    <3>6. BusInList => BusInList'
      BY <2>2, <3>2 DEF BusInList, ObjectsOf
    <3> QED
      BY <1>2, <2>2, <2>4, <3>2, <3>3, <3>5, <3>6 DEF ListInv, SessionsApart
  <2> QED
    BY <2>3, <2>4
\* Uevents are read, and sysfs.
<1>8. CASE MonitorReads \/ PollReads
  BY <1>8, ListReads DEF MonitorReads, PollReads
<1>9. CASE \E d \in Devices : ScanDevice(d)
  <2>1. PICK d \in Devices : ScanDevice(d)
    BY <1>9
  <2>2. /\ app = "scan" /\ app' = "scan" /\ arg' = arg \ {d} /\ Handles' = Handles
        /\ UNCHANGED <<present, dropped, uevents, fds>> /\ Handles \subseteq Objects
    BY <1>1, <2>1 DEF ScanDevice, Handles, ObjectTypes
  <2>3. LastTells' /\ \A e : (Mentioned(e)' <=> Mentioned(e)) /\ (Removal(e)' <=> Removal(e))
    BY <1>2, <2>2 DEF LastTells, Mentioned, Removal
  <2>4. CASE NothingMade /\ (d \in present => ObjectsOf(d) # {})
    <3>1. UNCHANGED <<session, usb_devs>>
      BY <2>4 DEF NothingMade
    <3>2. ListOnBus' /\ HungUpLeft'
      BY <1>2, <2>2, <2>3, <3>1 DEF ListOnBus, HungUpLeft
    <3>3. BusInList'
      BY <1>2, <2>2, <2>3, <2>4, <3>1 DEF BusInList, ObjectsOf
    <3> QED
      BY <1>2, <2>3, <3>1, <3>2, <3>3 DEF ListInv, SessionsApart
  <2>5. CASE \E m, up : Made(d, m, up)
    <3>1. PICK m, up : Made(d, m, up)
      BY <2>5
    <3>2. /\ SessionsApart'
          /\ \A o \in usb_devs' : \/ o \in usb_devs /\ session'[o] = session[o]
                                  \/ o \notin Objects /\ session'[o] \in present
          /\ \A e : ObjectsOf(e) # {} => ObjectsOf(e)' # {}
          /\ ObjectsOf(d)' # {}
      BY <1>2, <3>1, MadeList
    <3>3. ListOnBus' /\ HungUpLeft'
      BY <1>2, <2>2, <2>3, <3>2 DEF ListOnBus, HungUpLeft
    <3>4. BusInList'
      BY <1>2, <2>2, <2>3, <3>2 DEF BusInList
    <3> QED
      BY <2>3, <3>2, <3>3, <3>4 DEF ListInv
  <2> QED
    BY <1>1, <2>1, <2>4, <2>5, EnumerateMakes DEF ScanDevice
\* A device that turns out to be gone is dropped: the uevent that says so is still
\* to come, or the device has no node yet.
<1>10. ASSUME NEW o, Dropped(o), UNCHANGED <<present, uevents>>, dropped \subseteq dropped', Handles' = Handles,
              {app, app'} \cap {"init", "started", "scan", "exiting", "exited"} = {},
              \A x \in Handles : fds'[x] = "hungup" => fds[x] = "hungup",
              session[o] \in present => session[o] \in dropped' \/ Mentioned(session[o])
       PROVE  ListInv'
  <2>1. /\ SessionsApart'
        /\ \A x \in usb_devs' : x \in usb_devs /\ session'[x] = session[x]
        /\ \A e : e # session[o] => ObjectsOf(e)' = ObjectsOf(e)
    BY <1>2, <1>10, DroppedList
  <2>2. LastTells' /\ \A e : (Mentioned(e)' <=> Mentioned(e)) /\ (Removal(e)' <=> Removal(e))
    BY <1>2, <1>10 DEF LastTells, Mentioned, Removal
  <2>3. ListOnBus /\ HungUpLeft /\ BusInList
    BY <1>2, <1>10
  <2>4. ListOnBus' /\ HungUpLeft'
    BY <1>10, <2>1, <2>2, <2>3 DEF ListOnBus, HungUpLeft
  <2>5. BusInList'
    BY <1>10, <2>1, <2>2, <2>3 DEF BusInList
  <2> QED
    BY <2>1, <2>2, <2>4, <2>5 DEF ListInv
<1>11. CASE OpenDisconnects
  <2>1. /\ app = "no_device" /\ app' = "failed" /\ UNCHANGED <<present, uevents, fds>> /\ Handles' = Handles
        /\ dropped' = dropped \cup ({session[arg]} \cap present)
    BY <1>11 DEF OpenDisconnects, Handles
  <2>2. \/ UNCHANGED <<session, usb_devs>>
        \/ \E o \in ObjectsOf(session[arg]) : Dropped(o)
    BY <1>11, DisconnectDrops DEF OpenDisconnects, NothingMade
  <2>3. CASE UNCHANGED <<session, usb_devs>>
    BY <1>4, <2>1, <2>3
  <2>4. CASE \E o \in ObjectsOf(session[arg]) : Dropped(o)
    <3>1. PICK o : Dropped(o) /\ session[o] = session[arg]
      BY <2>4 DEF ObjectsOf
    <3> QED
      BY <1>10, <2>1, <3>1
  <2> QED
    BY <2>2, <2>3, <2>4
<1>12. CASE \E h \in Handles : HangUp(h)
  <2>1. PICK h \in Handles : HangUp(h)
    BY <1>12
  <2>2. /\ app \notin Starting \cup {"exiting", "exited"} /\ fds[h] = "hungup"
        /\ UNCHANGED <<present, dropped, uevents, app, arg>>
        /\ fds' = [fds EXCEPT ![h] = "down"]
    BY <2>1 DEF HangUp, Handling
  <2>3. Handles' = Handles /\ \A x \in Handles : fds'[x] = "hungup" => fds[x] = "hungup"
    BY <2>2 DEF Handles
  <2>4. \/ UNCHANGED <<session, usb_devs>>
        \/ h \in usb_devs /\ \E o \in ObjectsOf(session[h]) : Dropped(o)
    BY <2>1, DisconnectDrops DEF HangUp, NothingMade
  <2>5. CASE UNCHANGED <<session, usb_devs>>
    BY <1>4, <2>2, <2>3, <2>5
  <2>6. CASE h \in usb_devs /\ \E o \in ObjectsOf(session[h]) : Dropped(o)
    <3>1. PICK o : Dropped(o) /\ session[o] = session[h]
      BY <2>6 DEF ObjectsOf
    <3>2. Mentioned(session[h])
      <4>1. Removal(session[h])
        BY <1>2, <2>1, <2>2, <2>6 DEF HungUpLeft
      <4> QED
        BY <4>1 DEF Removal, Mentioned
    <3> QED
      BY <1>10, <2>2, <2>3, <3>1, <3>2 DEF Starting
  <2> QED
    BY <2>4, <2>5, <2>6
\* The rest.
<1>13. CASE Teardown
  <2>1. app' = "exited" /\ uevents' = <<>> /\ usb_devs' = {}
    BY <1>13 DEF Teardown
  <2> QED
    BY <2>1 DEF ListInv, LastTells, SessionsApart, ListOnBus, HungUpLeft
<1>14. CASE linux_scan_devices \/ Scanned \/ StartMonitor \/ BeginExit
  <2>1. UNCHANGED <<present, dropped, uevents, session, usb_devs, fds>> /\ Handles' = Handles
    BY <1>14 DEF linux_scan_devices, Scanned, StartMonitor, BeginExit, Handles
  <2>2. app' # "exiting" => app # "exiting"
    BY <1>14 DEF linux_scan_devices, Scanned, StartMonitor, BeginExit
  <2>3. CASE linux_scan_devices
    BY <1>3, <2>1, <2>2, <2>3 DEF linux_scan_devices, BusInList
  <2>4. CASE Scanned
    BY <1>2, <1>3, <2>1, <2>2, <2>4 DEF Scanned, BusInList, ObjectsOf, Mentioned
  <2>5. CASE StartMonitor \/ BeginExit
    BY <1>3, <2>1, <2>2, <2>5 DEF StartMonitor, BeginExit
  <2> QED
    BY <1>14, <2>3, <2>4, <2>5
<1>15. CASE OpenNode
  BY <1>4, <1>15 DEF OpenNode, Handles
<1>16. CASE \E o \in Objects : libusb_open(o)
  BY <1>4, <1>16 DEF libusb_open, Handles
<1>17. CASE \E o \in Objects : libusb_close(o)
  BY <1>4, <1>17 DEF libusb_close, Handles
<1>18. CASE \/ Snapshot \/ Enumerated \/ OpenFails \/ GetDeviceList
            \/ PollLock \/ PollUnlock \/ usbi_io_init
            \/ \E c \in Callbacks, enumerate \in BOOLEAN : RegisterCallback(c, enumerate)
  <2>1. UNCHANGED <<present, dropped, uevents, session, usb_devs, fds>>
    BY <1>18 DEF Snapshot, Enumerated, OpenFails, GetDeviceList,
                 PollLock, PollUnlock, usbi_io_init, RegisterCallback
  <2>2. \/ UNCHANGED <<app, arg>>
        \/ {app, app'} \cap {"init", "started", "scan", "exiting", "exited"} = {}
    BY <1>18 DEF Snapshot, Enumerated, OpenFails, GetDeviceList,
                 PollLock, PollUnlock, usbi_io_init, RegisterCallback
  <2> QED
    BY <1>5, <2>1, <2>2
<1>20. CASE \/ WriteMessage \/ Unfind \/ Unlock \/ ReadMessage \/ Matched \/ libusb_free_device_list
            \/ \E d \in Devices : MakeNode(d)
            \/ \E c \in Callbacks : libusb_hotplug_deregister_callback(c)
  <2>1. UNCHANGED <<present, dropped, uevents, session, usb_devs, fds, app, arg>>
    BY <1>20 DEF WriteMessage, Unfind, Unlock, ReadMessage, Matched, MakeNode, libusb_free_device_list,
                 libusb_hotplug_deregister_callback
  <2> QED
    BY <1>5, <2>1
<1>21. CASE \/ \E c \in Callbacks, finished \in BOOLEAN : MatchCallback(c, finished)
            \/ UNCHANGED vars
  <2>1. UNCHANGED <<present, dropped, uevents, session, usb_devs, fds, app, arg>>
    BY <1>21 DEF MatchCallback, vars
  <2> QED
    BY <1>5, <2>1
<1>19. CASE Transferring
  <2>1. UNCHANGED <<present, dropped, uevents, session, usb_devs, fds, app, arg>>
    BY <1>19 DEF Transferring, libusb_submit_transfer, usbi_handle_transfer_completion
  <2> QED
    BY <1>5, <2>1
<1>22. CASE Library \/ Events \/ UNCHANGED vars
  BY <1>8, <1>12, <1>20, <1>19, <1>21, <1>22 DEF Library, Events, Transferring
<1>23. CASE Call
  BY <1>8, <1>9, <1>11, <1>13, <1>14, <1>15, <1>18, <1>23 DEF Call
<1>24. CASE \E o \in Objects : libusb_open(o) \/ libusb_close(o)
  BY <1>16, <1>17, <1>24
<1>25. CASE \E d \in Devices : Plug(d) \/ MakeNode(d) \/ Unplug(d)
  BY <1>6, <1>7, <1>20, <1>25
<1> QED
  BY <1>14, <1>18, <1>20, <1>22, <1>23, <1>24, <1>25, <1>19, Zenon DEF Next, Transferring

LEMMA ListHolds == Spec => []ListInv
<1>1. Init => ListInv
  <2> SUFFICES ASSUME Init PROVE ListInv
    OBVIOUS
  <2>1. uevents = <<>> /\ usb_devs = {} /\ app = "init"
    BY DEF Init
  <2> QED
    BY <2>1 DEF ListInv, LastTells, SessionsApart, ListOnBus, HungUpLeft
<1> QED
  BY <1>1, ListStep, ShapeHolds, PTL DEF Spec

\* Whatever the tree and whatever the bus did: once the uevents are read the list
\* has one object for each device on the bus; only one that was opened before it
\* had a node may be missing.
THEOREM ListTracks == Spec => []ListTracksBus
<1>1. ListInv => ListTracksBus
  <2> SUFFICES ASSUME ListInv, app \notin {"init", "started", "scan", "exiting", "exited"}, uevents = <<>>
               PROVE  /\ present \ dropped \subseteq {session[o] : o \in usb_devs}
                      /\ {session[o] : o \in usb_devs} \subseteq present
                      /\ \A o, p \in usb_devs : session[o] = session[p] => o = p
    BY DEF ListTracksBus
  <2>1. SessionsApart /\ ListOnBus /\ BusInList
    BY DEF ListInv
  <2>2. \A d : ~Mentioned(d)
    BY DEF Mentioned
  <2> QED
    BY <2>1, <2>2 DEF SessionsApart, ListOnBus, BusInList, ObjectsOf
<1> QED
  BY <1>1, ListHolds, PTL
=============================================================================
