------------------------ MODULE UsbTransfers_proofs ------------------------
(***************************************************************************)
(* Proofs about libusb's asynchronous transfers, for any transfers, uses,  *)
(* numbers of URBs, time and number of submissions. Beyond the types, what *)
(* they say holds until the last URB of a stalled transfer overtakes       *)
(* another; after that it may fail.                                        *)
(***************************************************************************)
EXTENDS UsbTransfers, FiniteSetTheorems, SequenceTheorems, TLAPS

States  == {"none", "flying", "halted", "done"}
Entries == [t : Transfers, i : Nat \ {0}, status : UrbStatus, len : {0, 1}]
Verdicts == {"COMPLETED", "ERROR", "STALL", "NO_DEVICE", "OVERFLOW"}

-----------------------------------------------------------------------------
(* The inductive invariant. Once the event thread does not poll any more,  *)
(* what is left in the kernel's list and with its URBs has no consequence. *)

\* What was reaped of transfer t is gone; these wait to be.
Waiting(t)     == {e \in ToSet(completed) : e.t = t}
Outstanding(t) == {i \in 1..NumUrbs(t) : urbs[t].at[i] # "none"}
PendingOf(N, W) == {i \in 1..N : \E e \in W : e.i = i /\ e.len = 1}
Pending(t)     == PendingOf(NumUrbs(t), Waiting(t))

InOrder(s, t) == \A k, m \in DOMAIN s : k < m /\ s[k].t = t /\ s[m].t = t => s[k].i < s[m].i

Ending(t)    == ev.at = "finish" /\ ev.t = t
Calling(t)   == ev.at = "callback" /\ ev.t = t
Continued(t) == type[t] = "BULK" /\ continuation

UrbTypes == [at : UNION {[1..n -> States] : n \in Nat}, moved : Nat, told : SUBSET Errors]

BaseTypes ==
    /\ continuation \in BOOLEAN /\ plugged \in BOOLEAN /\ polled \in BOOLEAN
    /\ urbs \in [Transfers -> UrbTypes]
    /\ completed \in Seq(Entries)
    /\ type \in [Transfers -> Types] /\ limit \in [Transfers -> Nat]
    /\ user \in [Transfers -> {"idle", "submitted"}] /\ submits \in 0..MaxSubmits
    /\ allocated \in [Transfers -> BOOLEAN]
    /\ numRetired \in [Transfers -> Nat] /\ transferred \in [Transfers -> Nat]
    /\ reapAction \in [Transfers -> ReapActions]
    /\ reapStatus \in [Transfers -> Verdicts]
    /\ timedOut \in [Transfers -> BOOLEAN] /\ asked \in [Transfers -> BOOLEAN]
    /\ flying \in Seq(Transfers)
    /\ timeout \in [Transfers -> Nat] /\ now \in 0..MaxTime

EvTypes ==
    \/ ev.at \in {"poll", "reap", "disconnect"} /\ ev = At(ev.at)
    \/ ev \in [at : {"finish", "callback"}, t : Transfers, status : Results,
               back : {"reap", "disconnect"}]

\* What a transfer has moved and may still move is no more than it has URBs.
Moves(t) ==
    /\ DOMAIN urbs[t].at = 1..NumUrbs(t)
    /\ urbs[t].moved + Cardinality(InKernel(urbs[t])) <= NumUrbs(t)

TypeInv == BaseTypes /\ EvTypes /\ \A t \in Transfers : Moves(t)

\* Where the event thread is, and what it knows of the device.
EventInv ==
    /\ ~polled => ~plugged /\ ev.at # "reap" /\ ev.back # "reap"
    /\ ev.at = "disconnect" \/ ev.back = "disconnect" => ~polled
    /\ ev.back = "disconnect" => ev.status = "NO_DEVICE"
    /\ ~plugged => \A t \in Transfers : InKernel(urbs[t]) = {}

\* The life of a transfer: it has URBs from its submission until it is about to be
\* finished, and is in the list until its callback.
LifeInv ==
    /\ IsInjective(flying)
    /\ \A t \in Transfers :
         /\ user[t] = "submitted" <=> t \in ToSet(flying) \/ Calling(t)
         /\ allocated[t] => t \in ToSet(flying) /\ ~Ending(t)
         /\ Ending(t) => t \in ToSet(flying)
         /\ Calling(t) => t \notin ToSet(flying)

\* The URBs that are done wait to be reaped, each once; one that is freed is neither
\* waited for nor in the kernel.
UrbsKept(t) ==
    /\ ~allocated[t] => Outstanding(t) = {}
    /\ \A e \in Waiting(t) : e.i \in 1..NumUrbs(t) /\ urbs[t].at[e.i] = "done"
    /\ \A e, f \in Waiting(t) : e.i = f.i => e = f
    /\ \A i \in 1..NumUrbs(t) : urbs[t].at[i] = "done" => \E e \in Waiting(t) : e.i = i

\* The URBs that are not retired are outstanding.
Counted(t) == allocated[t] => numRetired[t] + Cardinality(Outstanding(t)) = NumUrbs(t)

\* The URBs of a normal transfer are reaped in order.
Ordered(t) == allocated[t] /\ reapAction[t] = "NORMAL" =>
    /\ InOrder(completed, t)
    /\ \A e \in Waiting(t), j \in InKernel(urbs[t]) : e.i < j

\* One that was cancelled or has failed has no URBs left in the kernel.
Stopped(t) == allocated[t] /\ reapAction[t] \in {"CANCELLED", "SUBMIT_FAILED", "ERROR"} =>
    InKernel(urbs[t]) = {}

\* What was moved is counted, or about to be.
DataKept(t) == type[t] # "ISOCHRONOUS" /\ (allocated[t] \/ Ending(t) \/ Calling(t)) =>
    urbs[t].moved = transferred[t] + Cardinality(Pending(t))

\* What the status of a URB means.
EntriesMean(t) ==
    /\ \A e \in Waiting(t) :
         /\ e.status \in Errors => e.status \in urbs[t].told
         /\ e.status = "shutdown" => ~plugged
         /\ e.status = "overflow" => e.i = NumUrbs(t)
         /\ e.status = "remoteio" => Continued(t) /\ e.i < NumUrbs(t) /\ e.len = 0
         /\ e.status = "ok" /\ e.len = 0 => type[t] = "BULK" /\ ~(continuation /\ e.i < NumUrbs(t))
         /\ e.status = "unlinked" /\ reapAction[t] = "NORMAL" => type[t] # "CONTROL" /\ e.i > 1
    /\ \A i \in InKernel(urbs[t]) : urbs[t].at[i] = "halted" => type[t] = "BULK" /\ i > 1

\* An error stays known: by an entry that waits, by the status or by the action.
FailuresKept(t) == allocated[t] =>
    LET u == urbs[t] failures == {e.status : e \in Waiting(t)} IN
    /\ "refused" \in u.told => reapAction[t] \in {"SUBMIT_FAILED", "CANCELLED"}
    /\ type[t] = "CONTROL" => u.told \subseteq failures
    /\ Continued(t) /\ reapAction[t] = "NORMAL" /\ reapStatus[t] = "COMPLETED" =>
          u.told \subseteq failures
    /\ Continued(t) /\ reapAction[t] = "COMPLETED_EARLY" =>
          u.told = {} \/ reapStatus[t] # "COMPLETED"
    /\ Continued(t) /\ reapAction[t] = "COMPLETED_EARLY" =>
          failures \cap Errors = {} /\ \A i \in InKernel(u) : u.at[i] = "halted"

\* Where bulk transfers are continued a URB that is short or fails stops the rest of
\* its transfer: what comes after it is unlinked, or completes with the device gone.
\* Such a rest has its cause in an entry that waits or, after a stall, in the status.
Stops == {"remoteio", "stall", "proto"}

Stopping(t, j) == reapStatus[t] # "COMPLETED" \/ \E f \in Waiting(t) : f.i < j /\ f.status \in Stops

Halting(t) == allocated[t] /\ Continued(t) /\ reapAction[t] = "NORMAL" =>
    /\ \A e, f \in Waiting(t) : e.status \in Stops \cup {"unlinked"} /\ e.i < f.i =>
          f.status \in {"unlinked", "shutdown"}
    /\ \A e \in Waiting(t) : e.status \in Stops \cup {"unlinked"} =>
          \A j \in InKernel(urbs[t]) : urbs[t].at[j] = "halted"
    /\ \A e \in Waiting(t) : e.status = "unlinked" => Stopping(t, e.i)
    /\ \A j \in InKernel(urbs[t]) : urbs[t].at[j] = "halted" =>
          \E e \in Waiting(t) : e.status \in Stops

Sound(t) == /\ UrbsKept(t) /\ Counted(t) /\ Ordered(t) /\ Stopped(t)
            /\ DataKept(t) /\ EntriesMean(t) /\ FailuresKept(t) /\ Halting(t)

UrbInv == polled => IsInjective(completed) /\ \A t \in Transfers : Sound(t)

\* What has been asked of a transfer, and has become of it, has its cause.
Caused(t) ==
    /\ timedOut[t] => Expired(t)
    /\ reapAction[t] = "CANCELLED" => asked[t] \/ timedOut[t]
    /\ reapAction[t] = "SUBMIT_FAILED" => "refused" \in urbs[t].told
    /\ reapAction[t] = "ERROR" => "proto" \in urbs[t].told
    /\ reapAction[t] \in {"ERROR", "COMPLETED_EARLY"} => type[t] = "BULK"
    /\ reapStatus[t] = "STALL" => "stall" \in urbs[t].told
    /\ reapStatus[t] = "OVERFLOW" => "overflow" \in urbs[t].told
    /\ reapStatus[t] = "NO_DEVICE" => ~plugged
    /\ reapStatus[t] = "ERROR" => urbs[t].told # {} \/ reapAction[t] = "CANCELLED"

ActionInv == \A t \in Transfers : user[t] = "submitted" => Caused(t)

\* A status s that is about to be reported has its cause too, unless it is overruled.
Reported(t, s) ==
    LET said == urbs[t].told
        overruled == type[t] = "BULK" /\ reapAction[t] = "CANCELLED"
    IN /\ type[t] = "BULK" => s # "CANCELLED"
       /\ s # "TIMED_OUT"
       /\ s = "CANCELLED" => asked[t] \/ timedOut[t]
       /\ s = "NO_DEVICE" => ~plugged
       /\ s = "STALL" => "stall" \in said
       /\ s = "OVERFLOW" => "overflow" \in said
       /\ s = "ERROR" => said # {} \/ overruled
       /\ s = "COMPLETED" /\ type[t] # "ISOCHRONOUS" /\ continuation => said = {} \/ overruled

ReportInv == ev.at = "finish" => Reported(ev.t, ev.status)

\* So has the verdict.
Judged(t, s) ==
    LET said == urbs[t].told
    IN /\ s = "TIMED_OUT" => Expired(t)
       /\ s = "CANCELLED" => asked[t]
       /\ s = "NO_DEVICE" => ~plugged
       /\ s = "STALL" => "stall" \in said
       /\ s = "OVERFLOW" => "overflow" \in said
       /\ s = "ERROR" => said # {}
       /\ s = "COMPLETED" /\ type[t] # "ISOCHRONOUS" /\ continuation => said = {}

VerdictInv == ev.at = "callback" => Judged(ev.t, ev.status)

Inv == /\ TypeInv
       /\ \/ overtaken
          \/ EventInv /\ LifeInv /\ UrbInv /\ ActionInv /\ ReportInv /\ VerdictInv

-----------------------------------------------------------------------------
(* Lemmas about sequences and numbers.                                     *)

LEMMA MembersOf ==
    ASSUME NEW E, NEW s \in Seq(E)
    PROVE  /\ ToSet(s) \subseteq E
           /\ \A k \in 1..Len(s) : s[k] \in ToSet(s)
           /\ \A e \in ToSet(s) : \E k \in 1..Len(s) : s[k] = e
           /\ DOMAIN s = 1..Len(s) /\ Len(s) \in Nat
  BY LenProperties, ElementOfSeq DEF ToSet

\* A list grows by the values of f.
LEMMA Growing ==
    ASSUME NEW E, NEW s \in Seq(E), NEW n \in Nat, NEW f \in [1..n -> E]
    PROVE  /\ s \o f \in Seq(E)
           /\ Len(s \o f) = Len(s) + n
           /\ \A j \in 1..Len(s) : (s \o f)[j] = s[j]
           /\ \A j \in 1..n : (s \o f)[Len(s) + j] = f[j]
           /\ \A j \in 1..Len(s) + n : j <= Len(s) \/ j - Len(s) \in 1..n
  OBVIOUS

LEMMA GrowingSet ==
    ASSUME NEW E, NEW s \in Seq(E), NEW n \in Nat, NEW f \in [1..n -> E]
    PROVE  \A e : e \in ToSet(s \o f) <=> e \in ToSet(s) \/ \E j \in 1..n : e = f[j]
<1> DEFINE r == s \o f
<1>1. r \in Seq(E) /\ Len(r) = Len(s) + n /\ Len(s) \in Nat /\ DOMAIN r = 1..Len(s) + n
  BY Growing, LenProperties
<1>a. /\ \A j \in 1..Len(s) : r[j] = s[j]
      /\ \A j \in 1..n : r[Len(s) + j] = f[j]
  BY Growing
<1> HIDE DEF r
<1>2. ToSet(r) \subseteq ToSet(s) \cup {f[j] : j \in 1..n}
  <2> SUFFICES ASSUME NEW k \in 1..Len(s) + n PROVE r[k] \in ToSet(s) \cup {f[j] : j \in 1..n}
    BY <1>1 DEF ToSet
  <2>1. CASE k <= Len(s)
    BY <2>1, <1>1, <1>a, MembersOf
  <2>2. CASE ~(k <= Len(s))
    <3>1. k - Len(s) \in 1..n /\ Len(s) + (k - Len(s)) = k
      BY <2>2, <1>1
    <3>2. r[k] = f[k - Len(s)]
      BY <3>1, <1>a
    <3> QED BY <3>1, <3>2
  <2> QED BY <2>1, <2>2
<1>3. ToSet(s) \subseteq ToSet(r)
  <2>1. \A k \in 1..Len(s) : r[k] \in ToSet(r)
    BY <1>1 DEF ToSet
  <2>2. DOMAIN s = 1..Len(s)
    BY MembersOf
  <2> QED BY <1>a, <2>1, <2>2 DEF ToSet
<1>4. \A j \in 1..n : f[j] \in ToSet(r)
  <2>1. \A j \in 1..n : Len(s) + j \in DOMAIN r
    BY <1>1
  <2> QED BY <1>a, <2>1 DEF ToSet
<1>5. \A e : e \in ToSet(r) <=> e \in ToSet(s) \/ \E j \in 1..n : e = f[j]
  BY <1>2, <1>3, <1>4
<1> QED BY <1>5 DEF r

LEMMA GrowingOnce ==
    ASSUME NEW E, NEW s \in Seq(E), NEW n \in Nat, NEW f \in [1..n -> E],
           IsInjective(s), IsInjective(f), \A j \in 1..n : f[j] \notin ToSet(s)
    PROVE  IsInjective(s \o f)
<1> DEFINE r == s \o f
<1>1. r \in Seq(E) /\ Len(r) = Len(s) + n /\ Len(s) \in Nat /\ DOMAIN r = 1..Len(s) + n
  BY Growing, LenProperties
<1> SUFFICES ASSUME NEW a \in 1..Len(s) + n, NEW b \in 1..Len(s) + n, r[a] = r[b] PROVE a = b
  BY <1>1 DEF IsInjective
<1> HIDE DEF r
<1>2. \A k \in 1..Len(s) : r[k] = s[k] /\ s[k] \in ToSet(s)
  BY Growing, MembersOf DEF r
<1>3. \A k \in 1..Len(s) + n : k > Len(s) =>
          k - Len(s) \in 1..n /\ r[k] = f[k - Len(s)] /\ r[k] \notin ToSet(s)
  <2> SUFFICES ASSUME NEW k \in 1..Len(s) + n, k > Len(s)
               PROVE  k - Len(s) \in 1..n /\ r[k] = f[k - Len(s)] /\ r[k] \notin ToSet(s)
    OBVIOUS
  <2>1. k - Len(s) \in 1..n /\ Len(s) + (k - Len(s)) = k
    BY <1>1
  <2>2. r[k] = f[k - Len(s)]
    BY <2>1, Growing DEF r
  <2> QED BY <2>1, <2>2
<1>4. CASE a <= Len(s)
  <2>1. b <= Len(s)
    BY <1>1, <1>2, <1>3, <1>4
  <2>2. DOMAIN s = 1..Len(s)
    BY MembersOf
  <2> QED BY <1>1, <1>2, <1>4, <2>1, <2>2 DEF IsInjective
<1>5. CASE ~(a <= Len(s))
  <2>0. r[a] \notin ToSet(s) /\ a > Len(s)
    BY <1>1, <1>3, <1>5
  <2>1. b > Len(s) /\ a > Len(s)
    BY <1>1, <1>2, <2>0
  <2>2. a - Len(s) = b - Len(s)
    BY <1>3, <2>1 DEF IsInjective
  <2> QED BY <1>1, <2>2
<1> QED BY <1>4, <1>5

LEMMA GrowingOrder ==
    ASSUME NEW s \in Seq(Entries), NEW n \in Nat, NEW f \in [1..n -> Entries], NEW t,
           InOrder(s, t), InOrder(f, t),
           \A e \in ToSet(s), j \in 1..n : e.t = t /\ f[j].t = t => e.i < f[j].i
    PROVE  InOrder(s \o f, t)
<1> DEFINE r == s \o f
<1>1. r \in Seq(Entries) /\ Len(r) = Len(s) + n /\ Len(s) \in Nat /\ DOMAIN r = 1..Len(s) + n
  BY Growing, LenProperties
<1> SUFFICES ASSUME NEW a \in 1..Len(s) + n, NEW b \in 1..Len(s) + n, a < b, r[a].t = t, r[b].t = t
             PROVE  r[a].i < r[b].i
  BY <1>1 DEF InOrder
<1> HIDE DEF r
<1>2. \A k \in 1..Len(s) : r[k] = s[k] /\ s[k] \in ToSet(s)
  BY Growing, MembersOf DEF r
<1>3. \A k \in 1..Len(s) + n : k > Len(s) => k - Len(s) \in 1..n /\ r[k] = f[k - Len(s)]
  <2> SUFFICES ASSUME NEW k \in 1..Len(s) + n, k > Len(s)
               PROVE  k - Len(s) \in 1..n /\ r[k] = f[k - Len(s)]
    OBVIOUS
  <2>1. k - Len(s) \in 1..n /\ Len(s) + (k - Len(s)) = k
    BY <1>1
  <2> QED BY <2>1, Growing DEF r
<1>4. CASE b <= Len(s)
  <2>1. DOMAIN s = 1..Len(s) /\ a <= Len(s)
    BY MembersOf, <1>1, <1>4
  <2> QED BY <1>1, <1>2, <1>4, <2>1 DEF InOrder
<1>5. CASE b > Len(s) /\ a <= Len(s)
  BY <1>1, <1>2, <1>3, <1>5
<1>6. CASE b > Len(s) /\ a > Len(s)
  <2>1. a - Len(s) \in DOMAIN f /\ b - Len(s) \in DOMAIN f /\ a - Len(s) < b - Len(s)
    BY <1>1, <1>3, <1>6
  <2> QED BY <1>3, <1>6, <2>1 DEF InOrder
<1> QED BY <1>1, <1>4, <1>5, <1>6

LEMMA OneMore ==
    ASSUME NEW s \in Seq(Entries), NEW e \in Entries
    PROVE  /\ Append(s, e) \in Seq(Entries)
           /\ ToSet(Append(s, e)) = ToSet(s) \cup {e}
           /\ IsInjective(s) /\ e \notin ToSet(s) => IsInjective(Append(s, e))
           /\ \A t : InOrder(s, t) /\ (e.t = t => \A d \in ToSet(s) : d.t = t => d.i < e.i)
                        => InOrder(Append(s, e), t)
<1> DEFINE f == [j \in 1..1 |-> e]
<1>1. f \in [1..1 -> Entries] /\ f[1] = e /\ IsInjective(f) /\ {f[j] : j \in 1..1} = {e}
  BY DEF IsInjective
<1>2. Append(s, e) = s \o f
  <2> DEFINE a == Append(s, e)
             b == s \o f
  <2>1. a \in Seq(Entries) /\ Len(a) = Len(s) + 1 /\ Len(s) \in Nat
        /\ (\A j \in 1..Len(s) : a[j] = s[j]) /\ a[Len(s) + 1] = e
    BY AppendProperties, LenProperties
  <2>2. b \in Seq(Entries) /\ Len(b) = Len(s) + 1
        /\ (\A j \in 1..Len(s) : b[j] = s[j]) /\ b[Len(s) + 1] = e
    <3>1. \A j \in 1..1 : (s \o f)[Len(s) + j] = f[j]
      BY <1>1, Growing
    <3> QED BY <1>1, <3>1, Growing
  <2> HIDE DEF a, b
  <2>3. \A j \in 1..Len(a) : a[j] = b[j]
    BY <2>1, <2>2
  <2>4. a = b
    BY <2>1, <2>2, <2>3, SeqEqual
  <2> QED BY <2>4 DEF a, b
<1>3. \A t : InOrder(f, t)
  BY DEF InOrder
<1>4. Append(s, e) \in Seq(Entries)
  BY AppendProperties
<1> HIDE DEF f
<1>5. ToSet(Append(s, e)) = ToSet(s) \cup {e}
  <2>1. \A d : d \in ToSet(s \o f) <=> d \in ToSet(s) \/ \E j \in 1..1 : d = f[j]
    <3>1. PICK n \in Nat : n = 1
      OBVIOUS
    <3>2. f \in [1..n -> Entries]
      BY <1>1, <3>1
    <3>3. \A d : d \in ToSet(s \o f) <=> d \in ToSet(s) \/ \E j \in 1..n : d = f[j]
      BY <3>2, GrowingSet
    <3> QED BY <3>1, <3>3
  <2> QED BY <1>1, <1>2, <2>1
<1>6. ASSUME IsInjective(s), e \notin ToSet(s) PROVE IsInjective(Append(s, e))
  <2>1. \A j \in 1..1 : f[j] \notin ToSet(s)
    BY <1>1, <1>6
  <2> QED BY <1>1, <1>2, <1>6, <2>1, GrowingOnce
<1>7. ASSUME NEW t, InOrder(s, t), e.t = t => \A d \in ToSet(s) : d.t = t => d.i < e.i
      PROVE  InOrder(Append(s, e), t)
  <2>1. \A d \in ToSet(s), j \in 1..1 : d.t = t /\ f[j].t = t => d.i < f[j].i
    BY <1>1, <1>7
  <2> QED BY <1>1, <1>2, <1>3, <1>7, <2>1, GrowingOrder
<1> QED BY <1>4, <1>5, <1>6, <1>7

LEMMA OneLess ==
    ASSUME NEW s \in Seq(Entries), s # <<>>
    PROVE  /\ Head(s) \in Entries /\ Head(s) \in ToSet(s)
           /\ Tail(s) \in Seq(Entries)
           /\ IsInjective(s) => IsInjective(Tail(s)) /\ ToSet(Tail(s)) = ToSet(s) \ {Head(s)}
           /\ \A t : InOrder(s, t) => InOrder(Tail(s), t)
           /\ \A t : IsInjective(s) /\ InOrder(s, t) /\ Head(s).t = t =>
                        \A e \in ToSet(s) : e.t = t /\ e # Head(s) => Head(s).i < e.i
<1> DEFINE r == Tail(s)
<1>1. /\ Head(s) \in Entries /\ r \in Seq(Entries)
      /\ Len(s) \in Nat \ {0} /\ Len(r) = Len(s) - 1
      /\ DOMAIN s = 1..Len(s) /\ DOMAIN r = 1..Len(s) - 1
      /\ \A k \in 1..Len(s) - 1 : r[k] = s[k + 1]
  BY HeadTailProperties, LenProperties, EmptySeq
<1>2. Head(s) = s[1] /\ 1 \in 1..Len(s)
  BY <1>1
<1> HIDE DEF r
<1>3. \A k \in DOMAIN r : k + 1 \in DOMAIN s /\ r[k] = s[k + 1] /\ k + 1 # 1
  BY <1>1
<1>4. \A k \in DOMAIN s : k # 1 => k - 1 \in DOMAIN r /\ r[k - 1] = s[k]
  BY <1>1
<1>5. ASSUME IsInjective(s) PROVE IsInjective(r)
  <2>1. \A a, b \in DOMAIN r : r[a] = r[b] => a + 1 = b + 1
    BY <1>3, <1>5 DEF IsInjective
  <2> QED BY <1>1, <2>1 DEF IsInjective
<1>6. ASSUME IsInjective(s) PROVE ToSet(r) = ToSet(s) \ {s[1]}
  <2>1. \A k \in DOMAIN r : r[k] \in ToSet(s) \ {s[1]}
    BY <1>1, <1>2, <1>3, <1>6 DEF ToSet, IsInjective
  <2>2. \A k \in DOMAIN s : s[k] # s[1] => s[k] \in ToSet(r)
    BY <1>4 DEF ToSet
  <2> QED BY <2>1, <2>2 DEF ToSet
<1>7. ASSUME NEW t, InOrder(s, t) PROVE InOrder(r, t)
  <2>1. \A a, b \in DOMAIN r : a < b => a + 1 < b + 1
    BY <1>1
  <2> QED BY <1>3, <1>7, <2>1 DEF InOrder
<1>8. ASSUME NEW t, IsInjective(s), InOrder(s, t), s[1].t = t, NEW k \in DOMAIN s, s[k].t = t, s[k] # s[1]
      PROVE  s[1].i < s[k].i
  BY <1>1, <1>8 DEF InOrder
<1>9. Head(s) \in ToSet(s)
  BY <1>1, <1>2 DEF ToSet
<1>10. \A t : IsInjective(s) /\ InOrder(s, t) /\ Head(s).t = t =>
                        \A e \in ToSet(s) : e.t = t /\ e # Head(s) => Head(s).i < e.i
  BY <1>2, <1>8 DEF ToSet
<1> QED BY <1>1, <1>2, <1>5, <1>6, <1>7, <1>9, <1>10 DEF r

\* Where no two entries of t are in the list they are in order.
LEMMA AtMostOne ==
    ASSUME NEW s \in Seq(Entries), NEW t, IsInjective(s),
           \A d, e \in ToSet(s) : d.t = t /\ e.t = t => d = e
    PROVE  InOrder(s, t)
<1> SUFFICES ASSUME NEW k \in DOMAIN s, NEW m \in DOMAIN s, k < m, s[k].t = t, s[m].t = t
             PROVE  FALSE
  BY DEF InOrder
<1>1. s[k] = s[m]
  BY DEF ToSet
<1>2. k = m
  BY <1>1 DEF IsInjective
<1> QED BY <1>2, LenProperties

\* A transfer is inserted into the list, and removed from it.
LEMMA Inserted ==
    ASSUME NEW E, NEW s \in Seq(E), NEW k \in 1..Len(s) + 1, NEW e \in E
    PROVE  /\ InsertAt(s, k, e) \in Seq(E)
           /\ \A x : x \in ToSet(InsertAt(s, k, e)) <=> x \in ToSet(s) \/ x = e
           /\ IsInjective(s) /\ e \notin ToSet(s) => IsInjective(InsertAt(s, k, e))
<1> DEFINE a == SubSeq(s, 1, k - 1)
           b == SubSeq(s, k, Len(s))
           r == InsertAt(s, k, e)
           n == Len(s)
<1>1. n \in Nat /\ DOMAIN s = 1..n /\ k \in 1..n + 1 /\ \A j \in 1..n : s[j] \in E
  BY LenProperties, ElementOfSeq
<1>2. a \in Seq(E) /\ Len(a) = k - 1 /\ \A j \in 1..k - 1 : a[j] = s[j]
  <2>1. \A j \in 1..k - 1 : s[j] \in E
    BY <1>1
  <2>2. k - 1 \in Int
    BY <1>1
  <2>3. /\ a \in Seq(E) /\ Len(a) = (IF 1 <= k - 1 THEN (k - 1) - 1 + 1 ELSE 0)
        /\ \A j \in 1..(k - 1) - 1 + 1 : a[j] = s[1 + j - 1]
    BY <2>1, <2>2, SubSeqProperties
  <2> QED BY <1>1, <2>3
<1>3. b \in Seq(E) /\ Len(b) = n - k + 1 /\ \A j \in 1..n - k + 1 : b[j] = s[k + j - 1]
  <2>1. \A j \in k..n : s[j] \in E
    BY <1>1
  <2>3. /\ b \in Seq(E) /\ Len(b) = (IF k <= n THEN n - k + 1 ELSE 0)
        /\ \A j \in 1..n - k + 1 : b[j] = s[k + j - 1]
    BY <1>1, <2>1, SubSeqProperties
  <2> QED BY <1>1, <2>3
<1> HIDE DEF a, b, n
<1>4. a \o <<e>> \in Seq(E) /\ Len(a \o <<e>>) = k /\ (a \o <<e>>)[k] = e
      /\ \A j \in 1..k - 1 : (a \o <<e>>)[j] = s[j]
  <2>1. a \o <<e>> = Append(a, e)
    BY <1>2, AppendIsConcat
  <2> QED BY <1>1, <1>2, <2>1, AppendProperties
<1>5. r = (a \o <<e>>) \o b
  BY DEF InsertAt, a, b, n
<1>6. /\ r \in Seq(E) /\ Len(r) = n + 1 /\ DOMAIN r = 1..n + 1
      /\ \A j \in 1..n + 1 : r[j] = IF j < k THEN s[j] ELSE IF j = k THEN e ELSE s[j - 1]
  <2> DEFINE c == a \o <<e>>
  <2> HIDE DEF c, r
  <2>0. c \in Seq(E) /\ Len(c) = k /\ c[k] = e /\ (\A j \in 1..k - 1 : c[j] = s[j]) /\ r = c \o b
    BY <1>4, <1>5 DEF c
  <2>1. /\ r \in Seq(E) /\ Len(r) = Len(c) + Len(b)
        /\ \A j \in 1..Len(c) + Len(b) : r[j] = IF j <= Len(c) THEN c[j] ELSE b[j - Len(c)]
    BY <1>3, <2>0, ConcatProperties
  <2>2. Len(c) + Len(b) = n + 1
    BY <1>1, <1>3, <2>0
  <2>3. ASSUME NEW j \in 1..n + 1 PROVE r[j] = IF j < k THEN s[j] ELSE IF j = k THEN e ELSE s[j - 1]
    <3>1. CASE j < k
      BY <1>1, <2>0, <2>1, <2>2, <3>1
    <3>2. CASE j = k
      BY <1>1, <2>0, <2>1, <2>2, <3>2
    <3>3. CASE j > k
      <4>1. r[j] = b[j - k] /\ j - k \in 1..n - k + 1 /\ k + (j - k) - 1 = j - 1
        BY <1>1, <2>0, <2>1, <2>2, <3>3
      <4>2. b[j - k] = s[j - 1]
        BY <1>3, <4>1
      <4> QED BY <1>1, <3>3, <4>1, <4>2
    <3> QED BY <1>1, <3>1, <3>2, <3>3
  <2>4. DOMAIN r = 1..Len(r)
    BY <2>1, LenProperties
  <2> QED BY <2>1, <2>2, <2>3, <2>4
<1> HIDE DEF r
<1>7. /\ \A j \in 1..n : j < k => j \in 1..n + 1 /\ r[j] = s[j]
      /\ \A j \in 1..n : j >= k => j + 1 \in 1..n + 1 /\ r[j + 1] = s[j]
      /\ k \in 1..n + 1 /\ r[k] = e
  <2>1. \A j \in 1..n : j < k => j \in 1..n + 1 /\ r[j] = s[j]
    BY <1>1, <1>6
  <2>2. ASSUME NEW j \in 1..n, j >= k PROVE j + 1 \in 1..n + 1 /\ r[j + 1] = s[j]
    <3>1. j + 1 \in 1..n + 1 /\ ~(j + 1 < k) /\ j + 1 # k /\ (j + 1) - 1 = j
      BY <1>1, <2>2
    <3>2. r[j + 1] = s[(j + 1) - 1]
      BY <1>6, <3>1
    <3> QED BY <3>1, <3>2
  <2> QED BY <1>1, <1>6, <2>1, <2>2
<1>8. \A x : x \in ToSet(r) <=> x \in ToSet(s) \/ x = e
  <2>1. ASSUME NEW j \in 1..n + 1 PROVE r[j] \in ToSet(s) \/ r[j] = e
    <3>1. j < k => j \in 1..n
      BY <1>1
    <3>2. j > k => j - 1 \in 1..n
      BY <1>1
    <3> QED BY <1>1, <1>6, <2>1, <3>1, <3>2 DEF ToSet
  <2>2. \A j \in 1..n : s[j] \in ToSet(r)
    <3>1. \A j \in 1..n : j < k \/ j >= k
      BY <1>1
    <3> QED BY <1>6, <1>7, <3>1 DEF ToSet
  <2>3. e \in ToSet(r)
    BY <1>6, <1>7 DEF ToSet
  <2> QED BY <1>1, <1>6, <2>1, <2>2, <2>3 DEF ToSet
<1>9. ASSUME IsInjective(s), e \notin ToSet(s) PROVE IsInjective(r)
  <2> SUFFICES ASSUME NEW i \in 1..n + 1, NEW j \in 1..n + 1, r[i] = r[j] PROVE i = j
    BY <1>6 DEF IsInjective
  <2>1. \A m \in 1..n + 1 : /\ m < k => m \in DOMAIN s /\ r[m] = s[m]
                            /\ m > k => m - 1 \in DOMAIN s /\ r[m] = s[m - 1]
    BY <1>1, <1>6
  <2>2. \A m \in 1..n + 1 : m # k => r[m] # e
    <3>1. \A m \in DOMAIN s : s[m] # e
      BY <1>9 DEF ToSet
    <3>2. \A m \in 1..n + 1 : m < k \/ m > k \/ m = k
      BY <1>1
    <3> QED BY <2>1, <3>1, <3>2
  <2>3. CASE i = k \/ j = k
    BY <1>6, <1>7, <2>2, <2>3
  <2>4. CASE i < k /\ j < k
    BY <1>9, <2>1, <2>4 DEF IsInjective
  <2>5. CASE i > k /\ j > k
    <3>1. i - 1 = j - 1
      BY <1>9, <2>1, <2>5 DEF IsInjective
    <3> QED BY <1>1, <3>1
  <2>6. CASE i < k /\ j > k
    <3>1. i = j - 1
      BY <1>9, <2>1, <2>6 DEF IsInjective
    <3> QED BY <1>1, <3>1, <2>6
  <2>7. CASE i > k /\ j < k
    <3>1. i - 1 = j
      BY <1>9, <2>1, <2>7 DEF IsInjective
    <3> QED BY <1>1, <3>1, <2>7
  <2> QED BY <1>1, <2>3, <2>4, <2>5, <2>6, <2>7
<1> QED BY <1>6, <1>8, <1>9 DEF r

LEMMA Removed ==
    ASSUME NEW E, NEW s \in Seq(E), NEW k \in DOMAIN s
    PROVE  /\ RemoveAt(s, k) \in Seq(E)
           /\ IsInjective(s) =>
                 /\ \A x : x \in ToSet(RemoveAt(s, k)) <=> x \in ToSet(s) /\ x # s[k]
                 /\ IsInjective(RemoveAt(s, k))
<1> DEFINE a == SubSeq(s, 1, k - 1)
           b == SubSeq(s, k + 1, Len(s))
           r == RemoveAt(s, k)
           n == Len(s)
<1>1. n \in Nat /\ DOMAIN s = 1..n /\ k \in 1..n /\ \A j \in 1..n : s[j] \in E
  BY LenProperties, ElementOfSeq
<1>2. a \in Seq(E) /\ Len(a) = k - 1 /\ \A j \in 1..k - 1 : a[j] = s[j]
  <2>1. \A j \in 1..k - 1 : s[j] \in E
    BY <1>1
  <2>2. k - 1 \in Int
    BY <1>1
  <2>3. /\ a \in Seq(E) /\ Len(a) = (IF 1 <= k - 1 THEN (k - 1) - 1 + 1 ELSE 0)
        /\ \A j \in 1..(k - 1) - 1 + 1 : a[j] = s[1 + j - 1]
    BY <2>1, <2>2, SubSeqProperties
  <2> QED BY <1>1, <2>3
<1>3. b \in Seq(E) /\ Len(b) = n - k /\ \A j \in 1..n - k : b[j] = s[k + j]
  <2>1. \A j \in k + 1..n : s[j] \in E
    BY <1>1
  <2>2. k + 1 \in Int
    BY <1>1
  <2>3. /\ b \in Seq(E) /\ Len(b) = (IF k + 1 <= n THEN n - (k + 1) + 1 ELSE 0)
        /\ \A j \in 1..n - (k + 1) + 1 : b[j] = s[(k + 1) + j - 1]
    BY <1>1, <2>1, <2>2, SubSeqProperties
  <2> QED BY <1>1, <2>3
<1> HIDE DEF a, b, n
<1>5. r = a \o b
  BY DEF RemoveAt, a, b, n
<1>6. /\ r \in Seq(E) /\ DOMAIN r = 1..n - 1
      /\ \A j \in 1..n - 1 : r[j] = IF j < k THEN s[j] ELSE s[j + 1]
  <2> HIDE DEF r
  <2>1. /\ r \in Seq(E) /\ Len(r) = Len(a) + Len(b)
        /\ \A j \in 1..Len(a) + Len(b) : r[j] = IF j <= Len(a) THEN a[j] ELSE b[j - Len(a)]
    BY <1>2, <1>3, <1>5, ConcatProperties
  <2>2. Len(a) + Len(b) = n - 1
    BY <1>1, <1>2, <1>3
  <2>3. ASSUME NEW j \in 1..n - 1 PROVE r[j] = IF j < k THEN s[j] ELSE s[j + 1]
    <3>1. CASE j < k
      <4>1. j \in 1..k - 1 /\ j <= Len(a) /\ j \in 1..Len(a) + Len(b)
        BY <1>1, <1>2, <2>2, <3>1
      <4> QED BY <1>2, <2>1, <3>1, <4>1
    <3>2. CASE ~(j < k)
      <4>1. r[j] = b[j - (k - 1)] /\ j - (k - 1) \in 1..n - k /\ k + (j - (k - 1)) = j + 1
        BY <1>1, <1>2, <2>1, <2>2, <3>2
      <4>2. b[j - (k - 1)] = s[j + 1]
        BY <1>3, <4>1
      <4> QED BY <3>2, <4>1, <4>2
    <3> QED BY <3>1, <3>2
  <2>4. DOMAIN r = 1..Len(r)
    BY <2>1, LenProperties
  <2> QED BY <2>1, <2>2, <2>3, <2>4
<1> HIDE DEF r
<1>7. \A m \in DOMAIN r : /\ m < k => m \in DOMAIN s /\ m # k /\ r[m] = s[m]
                          /\ ~(m < k) => m + 1 \in DOMAIN s /\ m + 1 # k /\ r[m] = s[m + 1]
  BY <1>1, <1>6
<1>8. ASSUME IsInjective(s) PROVE \A x : x \in ToSet(r) <=> x \in ToSet(s) /\ x # s[k]
  <2>1. ASSUME NEW m \in DOMAIN r PROVE r[m] \in ToSet(s) /\ r[m] # s[k]
    BY <1>1, <1>7, <1>8 DEF IsInjective, ToSet
  <2>2. \A m \in DOMAIN s : m < k => m \in DOMAIN r /\ r[m] = s[m]
    BY <1>1, <1>6
  <2>3. ASSUME NEW m \in DOMAIN s, m > k PROVE m - 1 \in DOMAIN r /\ r[m - 1] = s[m]
    <3>1. m - 1 \in 1..n - 1 /\ ~(m - 1 < k) /\ (m - 1) + 1 = m
      BY <1>1, <2>3
    <3>2. r[m - 1] = s[(m - 1) + 1]
      BY <1>6, <3>1
    <3> QED BY <1>6, <3>1, <3>2
  <2>4. \A m \in DOMAIN s : m = k \/ m < k \/ m > k
    BY <1>1
  <2>5. \A m \in DOMAIN s : s[m] # s[k] => s[m] \in ToSet(r)
    BY <2>2, <2>3, <2>4 DEF ToSet
  <2> QED BY <2>1, <2>5 DEF ToSet
<1>9. ASSUME IsInjective(s) PROVE IsInjective(r)
  <2> SUFFICES ASSUME NEW i \in DOMAIN r, NEW j \in DOMAIN r, r[i] = r[j] PROVE i = j
    BY DEF IsInjective
  <2>1. CASE i < k /\ j < k
    BY <1>7, <1>9, <2>1 DEF IsInjective
  <2>2. CASE ~(i < k) /\ ~(j < k)
    <3>1. i + 1 = j + 1
      BY <1>7, <1>9, <2>2 DEF IsInjective
    <3> QED BY <1>1, <1>6, <3>1
  <2>3. CASE i < k /\ ~(j < k)
    <3>1. i = j + 1
      BY <1>7, <1>9, <2>3 DEF IsInjective
    <3> QED BY <1>1, <1>6, <2>3, <3>1
  <2>4. CASE ~(i < k) /\ j < k
    <3>1. i + 1 = j
      BY <1>7, <1>9, <2>4 DEF IsInjective
    <3> QED BY <1>1, <1>6, <2>4, <3>1
  <2> QED BY <2>1, <2>2, <2>3, <2>4
<1> QED BY <1>6, <1>8, <1>9 DEF r

-----------------------------------------------------------------------------
(* What the steps do to the kernel's list.                                 *)

Units(found, n) == Cardinality({i \in found : n[i] = 1})

DiscardedUrb(u, found, n) ==
    UrbsOf([i \in DOMAIN u.at |-> IF i \in found THEN "done" ELSE u.at[i]],
           u.moved + Units(found, n), u.told)

\* Those found are one at most, and come after what the list holds of transfer t.
Follows(t, queue, found) ==
    /\ \A i, j \in found : i = j
    /\ \A e \in ToSet(queue), i \in found : e.t = t => e.i < i

\* The URBs found of transfer t are discarded: the list is queue, grown.
Discarded(t, u, queue, found, n) ==
    /\ type'[t] # "BULK" => \A i \in found : n[i] = 0
    /\ urbs' = [urbs EXCEPT ![t] = DiscardedUrb(u, found, n)]
    /\ completed' \in Seq(Entries)
    /\ \A e : e \in ToSet(completed') <=>
          e \in ToSet(queue) \/ \E i \in found : e = Done(t, i, "unlinked", n[i])
    /\ IsInjective(queue) /\ (\A e \in ToSet(queue) : e.t = t => e.i \notin found)
          => IsInjective(completed')
    /\ \A x : x # t /\ InOrder(queue, x) => InOrder(completed', x)
    /\ InOrder(queue, t) /\ Follows(t, queue, found) => InOrder(completed', t)

\* discard_urbs: each URB that is found in the kernel waits to be reaped, as the
\* last ones in the list.
LEMMA Discarding ==
    ASSUME NEW t \in Transfers, NEW u \in UrbTypes, NEW queue \in Seq(Entries), NEW chosen,
           NEW N \in Nat, DOMAIN u.at = 1..N, NEW found, found = chosen \cap InKernel(u),
           discard_urbs(t, u, queue, chosen)
    PROVE  \E n \in [found -> {0, 1}] : Discarded(t, u, queue, found, n)
<1>1. PICK order \in Bijection(1..Cardinality(found), found),
           n \in [found -> IF type'[t] = "BULK" THEN {0, 1} ELSE {0}] :
         /\ urbs' = [urbs EXCEPT ![t] = DiscardedUrb(u, found, n)]
         /\ completed' = queue \o [k \in DOMAIN order |-> Done(t, order[k], "unlinked", n[order[k]])]
  BY DEF discard_urbs, DiscardedUrb, Units
<1>2. n \in [found -> {0, 1}] /\ (type'[t] # "BULK" => \A i \in found : n[i] = 0)
  BY <1>1
<1>3. found \subseteq 1..N /\ IsFiniteSet(found) /\ Cardinality(found) \in Nat
  <2>1. found \subseteq 1..N
    BY DEF InKernel
  <2>2. IsFiniteSet(1..N)
    BY FS_Interval
  <2>3. IsFiniteSet(found)
    BY <2>1, <2>2, FS_Subset
  <2> QED BY <2>1, <2>3, FS_CardinalityType
<1> DEFINE c == Cardinality(found)
           f == [k \in 1..c |-> Done(t, order[k], "unlinked", n[order[k]])]
<1> HIDE DEF c
<1>4. /\ order \in [1..c -> found] /\ DOMAIN order = 1..c
      /\ \A a, b \in 1..c : order[a] = order[b] => a = b
      /\ \A i \in found : \E k \in 1..c : order[k] = i
  BY <1>1 DEF Bijection, Injection, Surjection, IsInjective, c
<1>5. completed' = queue \o f
  BY <1>1, <1>4
<1>6. f \in [1..c -> Entries]
  <2> SUFFICES ASSUME NEW k \in 1..c PROVE Done(t, order[k], "unlinked", n[order[k]]) \in Entries
    OBVIOUS
  <2>1. order[k] \in Nat \ {0} /\ n[order[k]] \in {0, 1}
    BY <1>2, <1>3, <1>4
  <2> QED BY <2>1 DEF Done, Entries, UrbStatus
<1>7. \A k \in 1..c : f[k] = Done(t, order[k], "unlinked", n[order[k]]) /\ f[k].t = t /\ f[k].i = order[k]
  BY DEF Done
<1> HIDE DEF f
<1>8. c \in Nat
  BY <1>3 DEF c
<1>9. completed' \in Seq(Entries)
  BY <1>5, <1>6, <1>8, Growing
<1>10. \A e : e \in ToSet(completed') <=>
          e \in ToSet(queue) \/ \E i \in found : e = Done(t, i, "unlinked", n[i])
  <2>0. \A e : e \in ToSet(queue \o f) <=> e \in ToSet(queue) \/ \E k \in 1..c : e = f[k]
    BY <1>6, <1>8, GrowingSet
  <2>1. \A e : e \in ToSet(completed') <=> e \in ToSet(queue) \/ \E k \in 1..c : e = f[k]
    BY <1>5, <2>0
  <2> QED BY <1>4, <1>7, <2>1
<1>11. ASSUME IsInjective(queue), \A e \in ToSet(queue) : e.t = t => e.i \notin found
       PROVE  IsInjective(completed')
  <2>1. IsInjective(f)
    <3>1. DOMAIN f = 1..c
      BY <1>6
    <3>2. \A a, b \in 1..c : f[a] = f[b] => order[a] = order[b]
      BY <1>7
    <3> QED BY <1>4, <3>1, <3>2 DEF IsInjective
  <2>2. \A k \in 1..c : f[k] \notin ToSet(queue)
    BY <1>4, <1>7, <1>11
  <2> QED BY <1>5, <1>6, <1>8, <1>11, <2>1, <2>2, GrowingOnce
<1>12. ASSUME NEW x, InOrder(queue, x), x # t \/ Follows(t, queue, found) PROVE InOrder(completed', x)
  <2>1. CASE x # t
    <3>1. \A k \in 1..c : f[k].t # x
      BY <1>7, <2>1
    <3>2. InOrder(f, x) /\ \A e \in ToSet(queue), k \in 1..c : e.t = x /\ f[k].t = x => e.i < f[k].i
      BY <1>6, <3>1 DEF InOrder
    <3> QED BY <1>5, <1>6, <1>8, <1>12, <3>2, GrowingOrder
  <2>2. CASE x = t /\ Follows(t, queue, found)
    <3>1. \A a, b \in 1..c : order[a] = order[b] /\ a = b
      BY <1>4, <2>2 DEF Follows
    <3>2. InOrder(f, t)
      <4>1. DOMAIN f = 1..c
        BY <1>6
      <4>2. \A a, b \in 1..c : ~(a < b)
        BY <1>8, <3>1
      <4> QED BY <4>1, <4>2 DEF InOrder
    <3>3. \A e \in ToSet(queue), k \in 1..c : e.t = t => e.i < f[k].i
      BY <1>4, <1>7, <2>2 DEF Follows
    <3> QED BY <1>5, <1>6, <1>8, <1>12, <2>2, <3>2, <3>3, GrowingOrder
  <2> QED BY <1>12, <2>1, <2>2
<1>13. /\ type'[t] # "BULK" => \A i \in found : n[i] = 0
       /\ urbs' = [urbs EXCEPT ![t] = DiscardedUrb(u, found, n)]
       /\ completed' \in Seq(Entries)
       /\ \A e : e \in ToSet(completed') <=>
                    e \in ToSet(queue) \/ \E i \in found : e = Done(t, i, "unlinked", n[i])
       /\ IsInjective(queue) /\ (\A e \in ToSet(queue) : e.t = t => e.i \notin found)
                    => IsInjective(completed')
       /\ \A x : x # t /\ InOrder(queue, x) => InOrder(completed', x)
       /\ InOrder(queue, t) /\ Follows(t, queue, found) => InOrder(completed', t)
  BY <1>1, <1>2, <1>9, <1>10, <1>11, <1>12
<1> QED BY <1>2, <1>13 DEF Discarded

LEMMA Unplugging ==
    ASSUME TypeInv, Unplug
    PROVE  /\ completed' \in Seq(Entries)
           /\ \A e : e \in ToSet(completed') <=>
                 \/ e \in ToSet(completed)
                 \/ \E x \in Transfers : \E i \in InKernel(urbs[x]) : e = Done(x, i, "shutdown", 0)
           /\ IsInjective(completed) /\ (\A e \in ToSet(completed) : e.i \notin InKernel(urbs[e.t]))
                 => IsInjective(completed')
           /\ \A x : /\ InOrder(completed, x)
                     /\ \A e \in ToSet(completed), j \in InKernel(urbs[x]) : e.t = x => e.i < j
                 => InOrder(completed', x)
<1> DEFINE left == UNION {{t} \X InKernel(urbs[t]) : t \in Transfers}
           c == Cardinality(left)
<1>1. PICK order \in Bijection(1..c, left) :
         /\ \A a, b \in DOMAIN order :
               a < b /\ order[a][1] = order[b][1] => order[a][2] < order[b][2]
         /\ completed' = completed \o
               [k \in DOMAIN order |-> Done(order[k][1], order[k][2], "shutdown", 0)]
  BY DEF Unplug
<1>2. \A x \in Transfers : NumUrbs(x) \in Nat /\ InKernel(urbs[x]) \subseteq 1..NumUrbs(x)
  BY TransferAssumption DEF TypeInv, BaseTypes, Moves, InKernel, NumUrbs
<1>3. c \in Nat
  <2> DEFINE K == Urbs["CONTROL"] + Urbs["BULK"] + Urbs["ISOCHRONOUS"]
  <2>1. K \in Nat /\ \A x \in Transfers : NumUrbs(x) <= K
    BY TransferAssumption DEF TypeInv, BaseTypes, NumUrbs, Types
  <2>2. IsFiniteSet(Transfers \X (1..K))
    <3>1. IsFiniteSet(1..K)
      BY <2>1, FS_Interval
    <3> QED BY <3>1, TransferAssumption, FS_Product
  <2> HIDE DEF K
  <2>3. left \subseteq Transfers \X (1..K)
    BY <1>2, <2>1
  <2>4. IsFiniteSet(left)
    BY <2>2, <2>3, FS_Subset
  <2> QED BY <2>4, FS_CardinalityType
<1>4. \A p : p \in left <=> \E x \in Transfers : \E i \in InKernel(urbs[x]) : p = <<x, i>>
  OBVIOUS
<1> HIDE DEF left, c
<1>5. /\ order \in [1..c -> left] /\ DOMAIN order = 1..c
      /\ \A a, b \in 1..c : order[a] = order[b] => a = b
      /\ \A p \in left : \E k \in 1..c : order[k] = p
  BY <1>1 DEF Bijection, Injection, Surjection, IsInjective
<1> DEFINE f == [k \in 1..c |-> Done(order[k][1], order[k][2], "shutdown", 0)]
<1>6. completed' = completed \o f
  BY <1>1, <1>5
<1>7. \A k \in 1..c : /\ f[k] = Done(order[k][1], order[k][2], "shutdown", 0)
                      /\ f[k].t = order[k][1] /\ f[k].i = order[k][2]
                      /\ order[k][1] \in Transfers /\ order[k][2] \in InKernel(urbs[order[k][1]])
                      /\ order[k] = <<order[k][1], order[k][2]>>
  BY <1>4, <1>5 DEF Done
<1>8. f \in [1..c -> Entries]
  <2> SUFFICES ASSUME NEW k \in 1..c PROVE Done(order[k][1], order[k][2], "shutdown", 0) \in Entries
    OBVIOUS
  <2>1. order[k][1] \in Transfers /\ order[k][2] \in Nat \ {0}
    BY <1>2, <1>7
  <2> QED BY <2>1 DEF Done, Entries, UrbStatus
<1> HIDE DEF f
<1>9. completed \in Seq(Entries)
  BY DEF TypeInv, BaseTypes
<1>10. completed' \in Seq(Entries)
  BY <1>3, <1>6, <1>8, <1>9, Growing
<1>11. \A e : e \in ToSet(completed') <=>
                 \/ e \in ToSet(completed)
                 \/ \E x \in Transfers : \E i \in InKernel(urbs[x]) : e = Done(x, i, "shutdown", 0)
  <2>1. \A e : e \in ToSet(completed \o f) <=> e \in ToSet(completed) \/ \E k \in 1..c : e = f[k]
    BY <1>3, <1>8, <1>9, GrowingSet
  <2>2. \A e : (\E k \in 1..c : e = f[k])
                  => \E x \in Transfers : \E i \in InKernel(urbs[x]) : e = Done(x, i, "shutdown", 0)
    BY <1>7
  <2>3. ASSUME NEW x \in Transfers, NEW i \in InKernel(urbs[x])
        PROVE  \E k \in 1..c : Done(x, i, "shutdown", 0) = f[k]
    <3>1. PICK k \in 1..c : order[k] = <<x, i>>
      BY <1>4, <1>5
    <3>2. order[k][1] = x /\ order[k][2] = i
      BY <3>1
    <3> QED BY <1>7, <3>2
  <2> QED BY <1>6, <2>1, <2>2, <2>3
<1>12. ASSUME IsInjective(completed), \A e \in ToSet(completed) : e.i \notin InKernel(urbs[e.t])
       PROVE  IsInjective(completed')
  <2>1. IsInjective(f)
    <3>1. DOMAIN f = 1..c
      BY <1>8
    <3>2. \A a, b \in 1..c : f[a] = f[b] => order[a] = order[b]
      BY <1>7
    <3> QED BY <1>5, <3>1, <3>2 DEF IsInjective
  <2>2. \A k \in 1..c : f[k] \notin ToSet(completed)
    BY <1>7, <1>12
  <2> QED BY <1>3, <1>6, <1>8, <1>9, <1>12, <2>1, <2>2, GrowingOnce
<1>13. ASSUME NEW x, InOrder(completed, x),
              \A e \in ToSet(completed), j \in InKernel(urbs[x]) : e.t = x => e.i < j
       PROVE  InOrder(completed', x)
  <2>1. InOrder(f, x)
    <3>1. DOMAIN f = 1..c
      BY <1>8
    <3> QED BY <1>1, <1>5, <1>7, <3>1 DEF InOrder
  <2>2. \A e \in ToSet(completed), k \in 1..c : e.t = x /\ f[k].t = x => e.i < f[k].i
    BY <1>7, <1>13
  <2> QED BY <1>3, <1>6, <1>8, <1>9, <1>13, <2>1, <2>2, GrowingOrder
<1> QED BY <1>10, <1>11, <1>12, <1>13

-----------------------------------------------------------------------------
(* What the steps do to a transfer's URBs.                                 *)

LEMMA KernelSubset ==
    ASSUME NEW u, NEW N \in Nat, DOMAIN u.at = 1..N
    PROVE  InKernel(u) \subseteq 1..N /\ IsFiniteSet(InKernel(u)) /\ Cardinality(InKernel(u)) \in 0..N
<1>1. InKernel(u) \subseteq 1..N
  BY DEF InKernel
<1>2. IsFiniteSet(1..N) /\ Cardinality(1..N) = N
  BY FS_Interval
<1>3. IsFiniteSet(InKernel(u)) /\ Cardinality(InKernel(u)) <= N
  BY <1>1, <1>2, FS_Subset
<1> QED BY <1>1, <1>3, FS_CardinalityType

LEMMA UnitsCounted ==
    ASSUME NEW S, IsFiniteSet(S), NEW n
    PROVE  Units(S, n) \in Nat /\ Units(S, n) <= Cardinality(S)
  BY FS_Subset, FS_CardinalityType DEF Units

\* What d, the URBs u of which those found are discarded, are.
AfterDiscard(u, N, found, n, d) ==
    /\ d \in UrbTypes /\ DOMAIN d.at = 1..N
    /\ d.moved + Cardinality(InKernel(d)) <= N
    /\ d.told = u.told
    /\ d.moved = u.moved + Units(found, n)
    /\ InKernel(d) = InKernel(u) \ found
    /\ \A i \in 1..N : d.at[i] = IF i \in found THEN "done" ELSE u.at[i]

LEMMA DiscardedTypes ==
    ASSUME NEW u \in UrbTypes, NEW N \in Nat, DOMAIN u.at = 1..N,
           u.moved + Cardinality(InKernel(u)) <= N,
           NEW found \in SUBSET InKernel(u), NEW n \in [found -> {0, 1}]
    PROVE  AfterDiscard(u, N, found, n, DiscardedUrb(u, found, n))
<1> DEFINE d == DiscardedUrb(u, found, n)
<1>1. InKernel(u) \subseteq 1..N /\ IsFiniteSet(InKernel(u)) /\ Cardinality(InKernel(u)) \in 0..N
  BY KernelSubset
<1>2. IsFiniteSet(found) /\ Cardinality(found) \in Nat /\ Cardinality(found) <= Cardinality(InKernel(u))
  BY <1>1, FS_Subset, FS_CardinalityType
<1>3. Units(found, n) \in Nat /\ Units(found, n) <= Cardinality(found)
  BY <1>2, UnitsCounted
<1>4. u.moved \in Nat /\ u.told \in SUBSET Errors /\ \A i \in 1..N : u.at[i] \in States
  BY DEF UrbTypes
<1>5. /\ d.at = [i \in 1..N |-> IF i \in found THEN "done" ELSE u.at[i]]
      /\ d.moved = u.moved + Units(found, n) /\ d.told = u.told
      /\ d = [at |-> d.at, moved |-> d.moved, told |-> d.told]
  BY DEF DiscardedUrb, UrbsOf
<1> HIDE DEF d
<1>6. d.at \in [1..N -> States]
  BY <1>4, <1>5 DEF States
<1>7. d \in UrbTypes
  BY <1>3, <1>4, <1>5, <1>6 DEF UrbTypes
<1>8. InKernel(d) = InKernel(u) \ found
  BY <1>1, <1>5 DEF InKernel
<1>9. Cardinality(InKernel(d)) = Cardinality(InKernel(u)) - Cardinality(found)
  <2>1. InKernel(u) \cap found = found
    OBVIOUS
  <2> QED BY <1>1, <1>8, <2>1, FS_Difference
<1>10. d.moved + Cardinality(InKernel(d)) <= N
  BY <1>1, <1>2, <1>3, <1>4, <1>5, <1>9
<1>11. AfterDiscard(u, N, found, n, d)
  BY <1>5, <1>6, <1>7, <1>8, <1>10 DEF AfterDiscard
<1> QED BY <1>11 DEF d

\* URB i of transfer t completes with status s and n units; d is what is left.
KernelDone(t, i, s, n, d) ==
    LET u     == urbs[t]
        halts == type[t] = "BULK" /\ (s = "stall" \/ (s \in {"remoteio", "proto"} /\ continuation))
    IN /\ \A j \in InKernel(u) : i <= j
       /\ IF u.at[i] = "halted" THEN s = "unlinked" /\ continuation ELSE s # "unlinked"
       /\ n = 1 => s = "ok"
       /\ s = "ok" /\ n = 0 => type[t] = "BULK" /\ ~(continuation /\ i < NumUrbs(t))
       /\ s = "remoteio" => Continued(t) /\ i < NumUrbs(t)
       /\ s = "overflow" => i = NumUrbs(t)
       /\ urbs' = [urbs EXCEPT ![t] = d]
       /\ DOMAIN d.at = 1..NumUrbs(t)
       /\ \A j \in 1..NumUrbs(t) : d.at[j] = IF j = i THEN "done"
              ELSE IF halts /\ u.at[j] = "flying" THEN "halted" ELSE u.at[j]
       /\ InKernel(d) = InKernel(u) \ {i}
       /\ d.moved = u.moved + n /\ d.told = u.told \cup ({s} \cap Errors)
       /\ d.moved + Cardinality(InKernel(d)) <= NumUrbs(t)
       /\ Done(t, i, s, n) \in Entries
       /\ completed' = Append(completed, Done(t, i, s, n))

LEMMA KernelStep ==
    ASSUME TypeInv, NEW t \in Transfers, KernelComplete(t)
    PROVE  \E i \in InKernel(urbs[t]), s \in UrbStatus \ {"shutdown"}, n \in {0, 1}, d \in UrbTypes :
              KernelDone(t, i, s, n, d)
<1> DEFINE u == urbs[t]
           N == NumUrbs(t)
           continued(i) == continuation /\ type[t] = "BULK" /\ i < N
           halts(s)  == /\ type[t] = "BULK"
                        /\ \/ s = "stall"
                           \/ s \in {"remoteio", "proto"} /\ continuation
           at(i, s) == [j \in DOMAIN u.at |-> IF j = i THEN "done"
                           ELSE IF halts(s) /\ u.at[j] = "flying" THEN "halted" ELSE u.at[j]]
<1>1. PICK i \in InKernel(u), s \in UrbStatus \ {"shutdown"}, n \in {0, 1} :
            /\ \A j \in InKernel(u) : i <= j
            /\ IF u.at[i] = "halted" THEN s = "unlinked" /\ continuation ELSE s # "unlinked"
            /\ n = 1 => s = "ok"
            /\ s = "ok" /\ n = 0 => type[t] = "BULK" /\ ~continued(i)
            /\ s = "remoteio" => continued(i)
            /\ s = "overflow" => i = N
            /\ urbs' = [urbs EXCEPT ![t] = UrbsOf(at(i, s), u.moved + n, u.told \cup ({s} \cap Errors))]
            /\ completed' = Append(completed, Done(t, i, s, n))
  BY Zenon DEF KernelComplete
<1>2. N \in Nat /\ DOMAIN u.at = 1..N /\ u.moved + Cardinality(InKernel(u)) <= N
      /\ u \in UrbTypes /\ u.moved \in Nat /\ u.told \subseteq Errors /\ \A j \in 1..N : u.at[j] \in States
  BY TransferAssumption DEF TypeInv, BaseTypes, Moves, NumUrbs, UrbTypes
<1> DEFINE d == UrbsOf(at(i, s), u.moved + n, u.told \cup ({s} \cap Errors))
<1>3. /\ d.at = at(i, s) /\ d.moved = u.moved + n /\ d.told = u.told \cup ({s} \cap Errors)
      /\ d = [at |-> d.at, moved |-> d.moved, told |-> d.told]
  BY DEF UrbsOf
<1>4. urbs' = [urbs EXCEPT ![t] = d]
  BY <1>1
<1>5. DOMAIN d.at = 1..N /\ \A j \in 1..N : d.at[j] = IF j = i THEN "done"
                    ELSE IF halts(s) /\ u.at[j] = "flying" THEN "halted" ELSE u.at[j]
  BY <1>2, <1>3
<1> HIDE DEF d, halts
<1>6. d \in UrbTypes
  <2>1. d.at \in [1..N -> States]
    BY <1>2, <1>3 DEF States
  <2>2. d.at \in UNION {[1..m -> States] : m \in Nat}
    BY <1>2, <2>1
  <2>3. d.moved \in Nat /\ d.told \in SUBSET Errors
    BY <1>2, <1>3
  <2> HIDE DEF u
  <2> QED BY <1>3, <2>2, <2>3 DEF UrbTypes
<1>7. InKernel(u) \subseteq 1..N /\ IsFiniteSet(InKernel(u)) /\ Cardinality(InKernel(u)) \in 0..N
  BY <1>2, KernelSubset
<1>8. InKernel(d) = InKernel(u) \ {i}
  BY <1>2, <1>5, <1>7 DEF InKernel
<1>9. Cardinality(InKernel(d)) = Cardinality(InKernel(u)) - 1
  BY <1>1, <1>7, <1>8, FS_RemoveElement
<1>10. d.moved + Cardinality(InKernel(d)) <= N
  BY <1>2, <1>3, <1>7, <1>9
<1>11. Done(t, i, s, n) \in Entries
  BY <1>7 DEF Done, Entries
<1>12. /\ urbs' = [urbs EXCEPT ![t] = d]
       /\ DOMAIN d.at = 1..N
       /\ \A j \in 1..N : d.at[j] = IF j = i THEN "done"
                    ELSE IF halts(s) /\ u.at[j] = "flying" THEN "halted" ELSE u.at[j]
       /\ InKernel(d) = InKernel(u) \ {i}
       /\ d.moved = u.moved + n /\ d.told = u.told \cup ({s} \cap Errors)
       /\ d.moved + Cardinality(InKernel(d)) <= N
  BY <1>3, <1>4, <1>5, <1>8, <1>10
<1>13. KernelDone(t, i, s, n, d)
  <2>1. /\ n = 1 => s = "ok"
        /\ s = "ok" /\ n = 0 => type[t] = "BULK" /\ ~(continuation /\ i < N)
        /\ s = "remoteio" => Continued(t) /\ i < N
        /\ s = "overflow" => i = N
    BY <1>1 DEF Continued
  <2>2. /\ \A j \in InKernel(u) : i <= j
        /\ IF u.at[i] = "halted" THEN s = "unlinked" /\ continuation ELSE s # "unlinked"
        /\ completed' = Append(completed, Done(t, i, s, n))
    BY <1>1
  <2>3. PICK v, M, H : v = u /\ M = N /\ H = halts(s)
    OBVIOUS
  <2>4. /\ urbs' = [urbs EXCEPT ![t] = d]
        /\ DOMAIN d.at = 1..M
        /\ \A j \in 1..M : d.at[j] = IF j = i THEN "done"
                    ELSE IF H /\ v.at[j] = "flying" THEN "halted" ELSE v.at[j]
        /\ InKernel(d) = InKernel(v) \ {i}
        /\ d.moved = v.moved + n /\ d.told = v.told \cup ({s} \cap Errors)
        /\ d.moved + Cardinality(InKernel(d)) <= M
    BY <1>12, <2>3
  <2>5. v = urbs[t] /\ M = NumUrbs(t)
        /\ (H <=> type[t] = "BULK" /\ (s = "stall" \/ (s \in {"remoteio", "proto"} /\ continuation)))
    BY <2>3 DEF halts
  <2> QED BY <1>11, <2>1, <2>2, <2>3, <2>4, <2>5 DEF KernelDone
<1> QED BY <1>1, <1>6, <1>13

\* The URBs before URB i.
Before(i) == 1..i - 1

SubmittedSome(t, N, i, n, s, d) ==
    /\ urbs' = [urbs EXCEPT ![t] = d]
    /\ DOMAIN d.at = 1..N /\ \A j \in 1..N : d.at[j] = IF j < i THEN "done" ELSE "none"
    /\ d.told = {"refused"} /\ d.moved = Units(Before(i), n)
    /\ d.moved <= N /\ InKernel(d) = {}
    /\ \A j \in Before(i) : s[j] = "ok" => n[j] = 1
    /\ completed' \in Seq(Entries)
    /\ \A e : e \in ToSet(completed') <=>
          e \in ToSet(completed) \/ \E j \in Before(i) : e = Done(t, j, s[j], n[j])
    /\ IsInjective(completed) /\ Waiting(t) = {} => IsInjective(completed')
    /\ \A x : x # t /\ InOrder(completed, x) => InOrder(completed', x)

\* A submission of which URB i is refused: each URB before it waits to be reaped.
LEMMA SubmitSomeStep ==
    ASSUME TypeInv, NEW t \in Transfers, NEW N \in Nat, NEW i \in 2..N, SubmitSome(t, N, i)
    PROVE  \E n \in [Before(i) -> {0, 1}], s \in [Before(i) -> {"ok", "unlinked"}], d \in UrbTypes :
              SubmittedSome(t, N, i, n, s, d)
<1> DEFINE sent(s, n) == UrbsOf([j \in 1..N |-> IF j = 1 THEN s ELSE IF j < i THEN "flying" ELSE "none"],
                                n, {"refused"})
<1>1. \/ discard_urbs(t, sent("flying", 0), completed, Before(i))
      \/ discard_urbs(t, sent("done", 1), Append(completed, Done(t, 1, "ok", 1)), Before(i))
  BY DEF SubmitSome, Before
<1>0. /\ IsFiniteSet(Before(i)) /\ Cardinality(Before(i)) = i - 1
      /\ Before(i) \subseteq 1..N /\ 1 \in Before(i)
      /\ \A j \in 1..N : j \in Before(i) <=> j < i
  <2>1. i - 1 \in Int /\ Before(i) = 1..i - 1
    BY DEF Before
  <2>2. IsFiniteSet(1..i - 1) /\ Cardinality(1..i - 1) = IF 1 > i - 1 THEN 0 ELSE (i - 1) - 1 + 1
    BY <2>1, FS_Interval
  <2> QED BY <2>1, <2>2
<1>a. IsFiniteSet(Before(i) \ {1}) /\ Cardinality(Before(i) \ {1}) = i - 2
  BY <1>0, FS_RemoveElement
<1>2. completed \in Seq(Entries)
  BY DEF TypeInv, BaseTypes
<1>3. CASE discard_urbs(t, sent("flying", 0), completed, Before(i))
  <2> DEFINE u == sent("flying", 0)
  <2>1. /\ u \in UrbTypes /\ DOMAIN u.at = 1..N /\ u.moved = 0 /\ u.told = {"refused"}
        /\ \A j \in 1..N : u.at[j] = IF j < i THEN "flying" ELSE "none"
    BY DEF UrbsOf, UrbTypes, States, Errors
  <2>2. discard_urbs(t, u, completed, Before(i))
    BY <1>3
  <2> HIDE DEF u
  <2>3. InKernel(u) = Before(i) /\ Before(i) = Before(i) \cap InKernel(u)
    BY <1>0, <2>1 DEF InKernel
  <2>a. PICK n \in [Before(i) -> {0, 1}] : Discarded(t, u, completed, Before(i), n)
    BY <1>2, <2>1, <2>2, <2>3, Discarding
  <2>4. /\ urbs' = [urbs EXCEPT ![t] = DiscardedUrb(u, Before(i), n)]
        /\ completed' \in Seq(Entries)
        /\ \A e : e \in ToSet(completed') <=>
              e \in ToSet(completed) \/ \E j \in Before(i) : e = Done(t, j, "unlinked", n[j])
        /\ IsInjective(completed) /\ (\A e \in ToSet(completed) : e.t = t => e.i \notin Before(i))
              => IsInjective(completed')
        /\ \A x : x # t /\ InOrder(completed, x) => InOrder(completed', x)
    BY <2>a DEF Discarded
  <2>5. u.moved + Cardinality(InKernel(u)) <= N
    BY <1>0, <2>1, <2>3
  <2> DEFINE d == DiscardedUrb(u, Before(i), n)
             s == [j \in Before(i) |-> "unlinked"]
  <2>6. /\ d \in UrbTypes /\ DOMAIN d.at = 1..N
        /\ d.moved + Cardinality(InKernel(d)) <= N
        /\ d.told = u.told
        /\ d.moved = u.moved + Units(Before(i), n)
        /\ InKernel(d) = InKernel(u) \ Before(i)
        /\ \A j \in 1..N : d.at[j] = IF j \in Before(i) THEN "done" ELSE u.at[j]
    <3>1. Before(i) \in SUBSET InKernel(u) /\ n \in [Before(i) -> {0, 1}]
      BY <2>a, <2>3
    <3>2. AfterDiscard(u, N, Before(i), n, d)
      BY <2>1, <2>5, <3>1, DiscardedTypes
    <3> QED BY <3>2 DEF AfterDiscard
  <2> HIDE DEF d
  <2>7. Units(Before(i), n) \in Nat
    BY <1>0, UnitsCounted
  <2>8. InKernel(d) = {} /\ d.moved <= N /\ d.moved = Units(Before(i), n)
    <3>1. InKernel(d) = {}
      BY <2>3, <2>6
    <3>2. Cardinality(InKernel(d)) = 0
      BY <3>1, FS_EmptySet
    <3>3. d.moved = Units(Before(i), n) /\ d.moved \in Nat
      BY <2>1, <2>6, <2>7
    <3>4. d.moved <= N
      BY <2>6, <3>2, <3>3
    <3> QED BY <3>1, <3>3, <3>4
  <2>9. \A j \in 1..N : d.at[j] = IF j < i THEN "done" ELSE "none"
    BY <1>0, <2>1, <2>6
  <2>10. s \in [Before(i) -> {"ok", "unlinked"}] /\ \A j \in Before(i) : s[j] = "unlinked"
    OBVIOUS
  <2> HIDE DEF s
  <2>11. \A e : e \in ToSet(completed') <=>
                   e \in ToSet(completed) \/ \E j \in Before(i) : e = Done(t, j, s[j], n[j])
    BY <2>4, <2>10
  <2>12. Waiting(t) = {} => \A e \in ToSet(completed) : e.t = t => e.i \notin Before(i)
    BY DEF Waiting
  <2>13. urbs' = [urbs EXCEPT ![t] = d]
    BY <2>4 DEF d
  <2>14. SubmittedSome(t, N, i, n, s, d)
    BY <2>1, <2>4, <2>6, <2>8, <2>9, <2>10, <2>11, <2>12, <2>13 DEF SubmittedSome
  <2> QED BY <2>a, <2>6, <2>10, <2>14
<1>4. CASE discard_urbs(t, sent("done", 1), Append(completed, Done(t, 1, "ok", 1)), Before(i))
  <2> DEFINE u == sent("done", 1)
             first == Done(t, 1, "ok", 1)
             queue == Append(completed, first)
  <2>1. /\ u \in UrbTypes /\ DOMAIN u.at = 1..N /\ u.moved = 1 /\ u.told = {"refused"}
        /\ \A j \in 1..N : u.at[j] = IF j = 1 THEN "done" ELSE IF j < i THEN "flying" ELSE "none"
    BY DEF UrbsOf, UrbTypes, States, Errors
  <2>2. discard_urbs(t, u, queue, Before(i))
    BY <1>4
  <2>a. first \in Entries /\ first.t = t /\ first.i = 1
    BY DEF Done, Entries, UrbStatus
  <2> HIDE DEF first
  <2>b. /\ queue \in Seq(Entries)
        /\ ToSet(queue) = ToSet(completed) \cup {first}
        /\ IsInjective(completed) /\ first \notin ToSet(completed) => IsInjective(queue)
        /\ \A x : InOrder(completed, x) /\ (first.t = x => \A e \in ToSet(completed) : e.t = x => e.i < first.i)
                        => InOrder(queue, x)
    BY <1>2, <2>a, OneMore
  <2> HIDE DEF u, queue
  <2>3. InKernel(u) = Before(i) \ {1} /\ Before(i) \ {1} = Before(i) \cap InKernel(u)
    BY <1>0, <2>1 DEF InKernel
  <2>c. PICK m \in [Before(i) \ {1} -> {0, 1}] : Discarded(t, u, queue, Before(i) \ {1}, m)
    BY <2>b, <2>1, <2>2, <2>3, Discarding
  <2>4. /\ urbs' = [urbs EXCEPT ![t] = DiscardedUrb(u, Before(i) \ {1}, m)]
        /\ completed' \in Seq(Entries)
        /\ \A e : e \in ToSet(completed') <=>
              e \in ToSet(queue) \/ \E j \in Before(i) \ {1} : e = Done(t, j, "unlinked", m[j])
        /\ IsInjective(queue) /\ (\A e \in ToSet(queue) : e.t = t => e.i \notin Before(i) \ {1})
              => IsInjective(completed')
        /\ \A x : x # t /\ InOrder(queue, x) => InOrder(completed', x)
    BY <2>c DEF Discarded
  <2>5. u.moved + Cardinality(InKernel(u)) <= N
    BY <1>a, <2>1, <2>3
  <2> DEFINE d == DiscardedUrb(u, Before(i) \ {1}, m)
             n == [j \in Before(i) |-> IF j = 1 THEN 1 ELSE m[j]]
             s == [j \in Before(i) |-> IF j = 1 THEN "ok" ELSE "unlinked"]
  <2>6. /\ d \in UrbTypes /\ DOMAIN d.at = 1..N
        /\ d.moved + Cardinality(InKernel(d)) <= N
        /\ d.told = u.told
        /\ d.moved = u.moved + Units(Before(i) \ {1}, m)
        /\ InKernel(d) = InKernel(u) \ (Before(i) \ {1})
        /\ \A j \in 1..N : d.at[j] = IF j \in Before(i) \ {1} THEN "done" ELSE u.at[j]
    <3>1. Before(i) \ {1} \in SUBSET InKernel(u) /\ m \in [Before(i) \ {1} -> {0, 1}]
      BY <2>c, <2>3
    <3>2. AfterDiscard(u, N, Before(i) \ {1}, m, d)
      BY <2>1, <2>5, <3>1, DiscardedTypes
    <3> QED BY <3>2 DEF AfterDiscard
  <2> HIDE DEF d
  <2>7. /\ n \in [Before(i) -> {0, 1}] /\ n[1] = 1 /\ \A j \in Before(i) \ {1} : n[j] = m[j]
        /\ s \in [Before(i) -> {"ok", "unlinked"}] /\ s[1] = "ok" /\ \A j \in Before(i) \ {1} : s[j] = "unlinked"
        /\ 1 \in Before(i) /\ \A j \in Before(i) : j = 1 \/ j \in Before(i) \ {1}
    BY <1>0, <2>c
  <2> HIDE DEF n, s
  <2>8. /\ Units(Before(i) \ {1}, m) \in Nat
        /\ Units(Before(i), n) = Units(Before(i) \ {1}, m) + 1
    <3> DEFINE S == {j \in Before(i) \ {1} : m[j] = 1}
    <3>1. {j \in Before(i) : n[j] = 1} = S \cup {1} /\ 1 \notin S
      BY <2>7
    <3>3. IsFiniteSet(S) /\ Cardinality(S) \in Nat
      BY <1>a, FS_Subset, FS_CardinalityType
    <3> HIDE DEF S
    <3>4. Cardinality(S \cup {1}) = Cardinality(S) + 1
      BY <3>1, <3>3, FS_AddElement
    <3>5. Units(Before(i), n) = Cardinality(S) + 1
      BY <3>1, <3>4 DEF Units
    <3> QED BY <3>3, <3>5 DEF S, Units
  <2>9. InKernel(d) = {} /\ d.moved <= N /\ d.moved = Units(Before(i), n)
    <3>1. InKernel(d) = {}
      BY <2>3, <2>6
    <3>2. Cardinality(InKernel(d)) = 0
      BY <3>1, FS_EmptySet
    <3>3. d.moved = Units(Before(i), n) /\ d.moved \in Nat
      <4> DEFINE a == Units(Before(i) \ {1}, m)
                 b == Units(Before(i), n)
      <4>1. a \in Nat /\ b = a + 1 /\ d.moved = 1 + a
        BY <2>1, <2>6, <2>8
      <4> HIDE DEF a, b
      <4>2. d.moved = b /\ d.moved \in Nat
        BY <4>1
      <4> QED BY <4>2 DEF b
    <3>4. d.moved <= N
      BY <2>6, <3>2, <3>3
    <3> QED BY <3>1, <3>3, <3>4
  <2>10. \A j \in 1..N : d.at[j] = IF j < i THEN "done" ELSE "none"
    BY <1>0, <2>1, <2>6
  <2>11. \A e : e \in ToSet(completed') <=>
                   e \in ToSet(completed) \/ \E j \in Before(i) : e = Done(t, j, s[j], n[j])
    <3>1. Done(t, 1, s[1], n[1]) = first
      BY <2>7 DEF first
    <3>2. \A j \in Before(i) \ {1} : Done(t, j, s[j], n[j]) = Done(t, j, "unlinked", m[j])
      BY <2>7
    <3> QED BY <2>4, <2>7, <2>b, <3>1, <3>2
  <2>12. Waiting(t) = {} => first \notin ToSet(completed)
                            /\ \A e \in ToSet(queue) : e.t = t => e.i \notin Before(i) \ {1}
    BY <2>a, <2>b DEF Waiting
  <2>13. urbs' = [urbs EXCEPT ![t] = d]
    BY <2>4 DEF d
  <2>14. \A x : x # t /\ InOrder(completed, x) => InOrder(completed', x)
    BY <2>4, <2>a, <2>b
  <2>15. \A j \in Before(i) : s[j] = "ok" => n[j] = 1
    BY <2>7
  <2>16. SubmittedSome(t, N, i, n, s, d)
    BY <2>1, <2>4, <2>6, <2>9, <2>10, <2>11, <2>12, <2>13, <2>14, <2>15, <2>b DEF SubmittedSome
  <2> QED BY <2>6, <2>7, <2>16
<1> QED BY <1>1, <1>3, <1>4

-----------------------------------------------------------------------------
(* The types, for any number of URBs.                                      *)

LEMMA OneChanged ==
    ASSUME TypeInv, NEW t \in Transfers, NEW d \in UrbTypes,
           urbs' = [urbs EXCEPT ![t] = d],
           DOMAIN d.at = 1..NumUrbs(t)', d.moved + Cardinality(InKernel(d)) <= NumUrbs(t)',
           \A x \in Transfers : x # t => type'[x] = type[x]
    PROVE  urbs' \in [Transfers -> UrbTypes] /\ \A x \in Transfers : Moves(x)'
<1>1. urbs' \in [Transfers -> UrbTypes] /\ urbs'[t] = d
      /\ \A x \in Transfers : x # t => urbs'[x] = urbs[x]
  BY DEF TypeInv, BaseTypes
<1>2. Moves(t)'
  BY <1>1 DEF Moves
<1>3. ASSUME NEW x \in Transfers, x # t PROVE Moves(x)'
  <2>1. Moves(x) /\ urbs'[x] = urbs[x] /\ type'[x] = type[x]
    BY <1>1, <1>3 DEF TypeInv
  <2>2. NumUrbs(x)' = NumUrbs(x)
    BY <2>1 DEF NumUrbs
  <2> QED BY <2>1, <2>2 DEF Moves
<1> QED BY <1>1, <1>2, <1>3

LEMMA NoneChanged ==
    ASSUME TypeInv, UNCHANGED <<urbs, type>>
    PROVE  urbs' \in [Transfers -> UrbTypes] /\ \A x \in Transfers : Moves(x)'
  BY DEF TypeInv, BaseTypes, Moves, NumUrbs

LEMMA UrbsTyped ==
    ASSUME TypeInv, NEW t \in Transfers
    PROVE  /\ NumUrbs(t) \in Nat \ {0} /\ urbs[t] \in UrbTypes /\ DOMAIN urbs[t].at = 1..NumUrbs(t)
           /\ urbs[t].moved + Cardinality(InKernel(urbs[t])) <= NumUrbs(t)
           /\ InKernel(urbs[t]) \subseteq 1..NumUrbs(t)
           /\ urbs[t].moved \in Nat /\ urbs[t].told \subseteq Errors
           /\ completed \in Seq(Entries)
  BY TransferAssumption DEF TypeInv, BaseTypes, Moves, NumUrbs, UrbTypes, InKernel

\* op_cancel_transfer: every URB in the kernel is discarded, if there are any URBs.
CancelledUrbs(t, n, d) ==
    /\ Discarded(t, urbs[t], completed, InKernel(urbs[t]), n)
    /\ urbs' = [urbs EXCEPT ![t] = d]
    /\ AfterDiscard(urbs[t], NumUrbs(t), InKernel(urbs[t]), n, d)

LEMMA CancelStep ==
    ASSUME TypeInv, NEW t \in Transfers, op_cancel_transfer(t)
    PROVE  \/ UNCHANGED <<urbs, completed>> /\ ~allocated[t]
           \/ /\ allocated[t]
              /\ \E n \in [InKernel(urbs[t]) -> {0, 1}] : \E d \in UrbTypes : CancelledUrbs(t, n, d)
<1>1. CASE allocated[t]
  <2> DEFINE u == urbs[t]
             N == NumUrbs(t)
  <2>1. discard_urbs(t, u, completed, 1..N)
    BY <1>1 DEF op_cancel_transfer
  <2>2. /\ N \in Nat /\ u \in UrbTypes /\ DOMAIN u.at = 1..N
        /\ u.moved + Cardinality(InKernel(u)) <= N
        /\ InKernel(u) = (1..N) \cap InKernel(u) /\ completed \in Seq(Entries)
    BY UrbsTyped
  <2> HIDE DEF u, N
  <2>3. PICK n \in [InKernel(u) -> {0, 1}] : Discarded(t, u, completed, InKernel(u), n)
    BY <2>1, <2>2, Discarding
  <2> DEFINE d == DiscardedUrb(u, InKernel(u), n)
  <2>4. AfterDiscard(u, N, InKernel(u), n, d)
    BY <2>2, <2>3, DiscardedTypes
  <2>5. d \in UrbTypes
    BY <2>4 DEF AfterDiscard
  <2>6. urbs' = [urbs EXCEPT ![t] = d]
    BY <2>3 DEF Discarded
  <2> HIDE DEF d
  <2>7. CancelledUrbs(t, n, d)
    BY <2>3, <2>4, <2>6 DEF CancelledUrbs, u, N
  <2> QED BY <1>1, <2>3, <2>5, <2>7 DEF u
<1>2. CASE ~allocated[t]
  BY <1>2 DEF op_cancel_transfer
<1> QED BY <1>1, <1>2

LEMMA CancelTypes ==
    ASSUME TypeInv, NEW t \in Transfers, op_cancel_transfer(t)
    PROVE  /\ completed' \in Seq(Entries)
           /\ urbs' \in [Transfers -> UrbTypes] /\ \A x \in Transfers : Moves(x)'
           /\ reapAction' \in [Transfers -> ReapActions]
<1>1. UNCHANGED type /\ NumUrbs(t)' = NumUrbs(t)
  BY DEF op_cancel_transfer, askVars, NumUrbs
<1>2. reapAction' \in [Transfers -> ReapActions]
  BY DEF op_cancel_transfer, TypeInv, BaseTypes, ReapActions
<1>3. CASE UNCHANGED <<urbs, completed>>
  BY <1>1, <1>2, <1>3, NoneChanged DEF TypeInv, BaseTypes
<1>4. ASSUME NEW n, NEW d \in UrbTypes, CancelledUrbs(t, n, d)
      PROVE  /\ completed' \in Seq(Entries)
             /\ urbs' \in [Transfers -> UrbTypes] /\ \A x \in Transfers : Moves(x)'
  <2>1. completed' \in Seq(Entries) /\ urbs' = [urbs EXCEPT ![t] = d]
        /\ DOMAIN d.at = 1..NumUrbs(t)' /\ d.moved + Cardinality(InKernel(d)) <= NumUrbs(t)'
    BY <1>1, <1>4 DEF CancelledUrbs, Discarded, AfterDiscard
  <2> QED BY <1>1, <2>1, OneChanged
<1> QED BY <1>2, <1>3, <1>4, CancelStep

\* The first URB in the list is reaped, and those found are discarded.
Reaped(h, found, n, d) ==
    /\ Discarded(h.t, [urbs[h.t] EXCEPT !.at[h.i] = "none"], Tail(completed), found, n)
    /\ urbs' = [urbs EXCEPT ![h.t] = d]
    /\ DOMAIN d.at = 1..NumUrbs(h.t)
    /\ \A j \in 1..NumUrbs(h.t) :
          d.at[j] = IF j \in found THEN "done" ELSE IF j = h.i THEN "none" ELSE urbs[h.t].at[j]
    /\ InKernel(d) = InKernel(urbs[h.t]) \ ({h.i} \cup found)
    /\ d.moved = urbs[h.t].moved + Units(found, n) /\ d.told = urbs[h.t].told
    /\ d.moved + Cardinality(InKernel(d)) <= NumUrbs(h.t)

LEMMA ReapStep ==
    ASSUME TypeInv, completed # <<>>, NEW h, h = Head(completed), NEW rest,
           discard_urbs(h.t, [urbs[h.t] EXCEPT !.at[h.i] = "none"], Tail(completed), rest),
           NEW found, found = rest \cap (InKernel(urbs[h.t]) \ {h.i})
    PROVE  \E n \in [found -> {0, 1}], d \in UrbTypes : Reaped(h, found, n, d)
<1> DEFINE v == urbs[h.t]
           u == [v EXCEPT !.at[h.i] = "none"]
           N == NumUrbs(h.t)
<1>1. h \in Entries /\ Tail(completed) \in Seq(Entries) /\ h.t \in Transfers
  BY UrbsTyped, OneLess DEF TypeInv, BaseTypes, Entries
<1>2. /\ N \in Nat /\ v \in UrbTypes /\ DOMAIN v.at = 1..N
      /\ v.moved + Cardinality(InKernel(v)) <= N /\ InKernel(v) \subseteq 1..N
      /\ v.moved \in Nat /\ v.told \subseteq Errors
  BY <1>1, UrbsTyped
<1>3. /\ u.at = [v.at EXCEPT ![h.i] = "none"] /\ u.moved = v.moved /\ u.told = v.told
      /\ u = [at |-> u.at, moved |-> u.moved, told |-> u.told]
  BY <1>2 DEF UrbTypes
<1> HIDE DEF u, v, N
<1>4. DOMAIN u.at = 1..N /\ \A j \in 1..N : u.at[j] = IF j = h.i THEN "none" ELSE v.at[j]
  BY <1>2, <1>3
<1>5. u \in UrbTypes
  <2>1. \A j \in 1..N : v.at[j] \in States
    BY <1>2 DEF UrbTypes
  <2>2. u.at \in [1..N -> States]
    <3>1. u.at = [j \in 1..N |-> IF j = h.i THEN "none" ELSE v.at[j]]
      BY <1>2, <1>3
    <3> QED BY <2>1, <3>1 DEF States
  <2>3. u.at \in UNION {[1..m -> States] : m \in Nat}
    BY <1>2, <2>2
  <2> QED BY <1>2, <1>3, <2>3 DEF UrbTypes
<1>6. InKernel(u) = InKernel(v) \ {h.i}
  BY <1>2, <1>4 DEF InKernel
<1>7. u.moved + Cardinality(InKernel(u)) <= N
  <2>1. IsFiniteSet(InKernel(v)) /\ Cardinality(InKernel(v)) \in Nat
    BY <1>2, KernelSubset
  <2>2. Cardinality(InKernel(u)) <= Cardinality(InKernel(v)) /\ Cardinality(InKernel(u)) \in Nat
    <3>1. InKernel(u) \in SUBSET InKernel(v)
      BY <1>6
    <3>2. IsFiniteSet(InKernel(u)) /\ Cardinality(InKernel(u)) <= Cardinality(InKernel(v))
      BY <2>1, <3>1, FS_Subset
    <3> QED BY <3>2, FS_CardinalityType
  <2> QED BY <1>2, <1>3, <2>1, <2>2
<1>8. found = rest \cap InKernel(u) /\ found \in SUBSET InKernel(u)
  BY <1>6 DEF v
<1>9. discard_urbs(h.t, u, Tail(completed), rest)
  BY DEF u, v
<1>10. PICK n \in [found -> {0, 1}] : Discarded(h.t, u, Tail(completed), found, n)
  BY <1>1, <1>2, <1>4, <1>5, <1>8, <1>9, Discarding
<1> DEFINE d == DiscardedUrb(u, found, n)
<1>11. AfterDiscard(u, N, found, n, d)
  BY <1>2, <1>4, <1>5, <1>7, <1>8, <1>10, DiscardedTypes
<1>12. urbs' = [urbs EXCEPT ![h.t] = d]
  BY <1>10 DEF Discarded
<1> HIDE DEF d
<1>13. InKernel(d) = InKernel(v) \ ({h.i} \cup found)
  BY <1>6, <1>11 DEF AfterDiscard
<1>14. \A j \in 1..N : d.at[j] = IF j \in found THEN "done" ELSE IF j = h.i THEN "none" ELSE v.at[j]
  BY <1>4, <1>11 DEF AfterDiscard
<1>15. d \in UrbTypes /\ DOMAIN d.at = 1..N /\ d.moved = v.moved + Units(found, n) /\ d.told = v.told
       /\ d.moved + Cardinality(InKernel(d)) <= N
  BY <1>3, <1>11 DEF AfterDiscard
<1>16. Reaped(h, found, n, d)
  BY <1>10, <1>12, <1>13, <1>14, <1>15 DEF Reaped, u, v, N
<1> QED BY <1>10, <1>15, <1>16

LEMMA ReapTypes ==
    ASSUME TypeInv, reap_for_handle
    PROVE  TypeInv'
<1>h. PICK h : h = Head(completed)
  OBVIOUS
<1> DEFINE u == [urbs[h.t] EXCEPT !.at[h.i] = "none"]
<1>1. /\ completed # <<>> /\ ev.at = "reap"
      /\ UNCHANGED <<continuation, plugged, polled, askVars, timedOut, listVars, asked>>
      /\ numRetired' = [numRetired EXCEPT ![h.t] = @ + 1]
  BY <1>h DEF reap_for_handle
<1>2. h \in Entries /\ h.t \in Transfers /\ h.len \in {0, 1} /\ h.status \in UrbStatus
  BY <1>h, <1>1, OneLess DEF TypeInv, BaseTypes, Entries
<1>3. \/ handle_bulk_completion(h) \/ handle_iso_completion(h) \/ handle_control_completion(h)
  BY <1>h DEF reap_for_handle
<1>4. \E rest : discard_urbs(h.t, u, Tail(completed), rest)
  BY <1>3 DEF handle_bulk_completion, handle_iso_completion, handle_control_completion
<1>5. completed' \in Seq(Entries) /\ urbs' \in [Transfers -> UrbTypes] /\ \A x \in Transfers : Moves(x)'
  <2>1. PICK rest : discard_urbs(h.t, u, Tail(completed), rest)
    BY <1>4
  <2>2. PICK found : found = rest \cap (InKernel(urbs[h.t]) \ {h.i})
    OBVIOUS
  <2>3. PICK n \in [found -> {0, 1}], d \in UrbTypes : Reaped(h, found, n, d)
    BY <1>h, <1>1, <2>1, <2>2, ReapStep
  <2>4. NumUrbs(h.t)' = NumUrbs(h.t) /\ \A x \in Transfers : type'[x] = type[x]
    BY <1>1 DEF askVars, NumUrbs
  <2>5. /\ completed' \in Seq(Entries) /\ urbs' = [urbs EXCEPT ![h.t] = d]
        /\ DOMAIN d.at = 1..NumUrbs(h.t) /\ d.moved + Cardinality(InKernel(d)) <= NumUrbs(h.t)
    BY <2>3 DEF Reaped, Discarded
  <2> QED BY <1>2, <2>4, <2>5, OneChanged
<1>6. reapStatus[h.t] \in Verdicts /\ reapAction[h.t] \in ReapActions /\ transferred[h.t] \in Nat
      /\ numRetired[h.t] \in Nat
  BY <1>2 DEF TypeInv, BaseTypes
<1> HIDE DEF u
<1>7. /\ BulkStatus(h) \in Verdicts /\ BulkAction(h) \in ReapActions
      /\ IsoStatus(h) \in Results /\ ControlStatus(h) \in Results
  <2>1. BulkStatus(h) \in Verdicts
    BY <1>6 DEF BulkStatus, Verdicts
  <2>2. BulkAction(h) \in ReapActions
    BY <1>6 DEF BulkAction, ReapActions
  <2>3. IsoStatus(h) \in Results /\ ControlStatus(h) \in Results
    BY DEF IsoStatus, ControlStatus, Results
  <2> QED BY <2>1, <2>2, <2>3
<1>8. /\ transferred' \in [Transfers -> Nat] /\ reapStatus' \in [Transfers -> Verdicts]
      /\ reapAction' \in [Transfers -> ReapActions]
  <2>1. /\ transferred \in [Transfers -> Nat] /\ reapStatus \in [Transfers -> Verdicts]
        /\ reapAction \in [Transfers -> ReapActions]
    BY DEF TypeInv, BaseTypes
  <2>2. transferred[h.t] + h.len \in Nat
    BY <1>2, <1>6
  <2>3. CASE handle_bulk_completion(h)
    BY <1>2, <1>7, <2>1, <2>2, <2>3 DEF handle_bulk_completion
  <2>4. CASE handle_iso_completion(h)
    BY <2>1, <2>4 DEF handle_iso_completion
  <2>5. CASE handle_control_completion(h)
    BY <1>2, <2>1, <2>2, <2>5 DEF handle_control_completion
  <2> QED BY <1>3, <2>3, <2>4, <2>5
<1>9. allocated' \in [Transfers -> BOOLEAN]
  <2>1. \E b \in BOOLEAN : allocated' = [allocated EXCEPT ![h.t] = b]
    <3>1. allocated[h.t] \in BOOLEAN
      BY <1>2 DEF TypeInv, BaseTypes
    <3>2. CASE handle_bulk_completion(h)
      <4>1. allocated' = [allocated EXCEPT ![h.t] = allocated[h.t] /\ ~BulkFinished(h)]
        BY <3>2 DEF handle_bulk_completion
      <4>2. (allocated[h.t] /\ ~BulkFinished(h)) \in BOOLEAN
        BY Zenon
      <4> QED BY <4>1, <4>2, Zenon
    <3>3. CASE handle_iso_completion(h)
      <4>1. allocated' = [allocated EXCEPT ![h.t] = allocated[h.t] /\ ~IsoFinished(h)]
        BY <3>3 DEF handle_iso_completion
      <4>2. (allocated[h.t] /\ ~IsoFinished(h)) \in BOOLEAN
        BY Zenon
      <4> QED BY <4>1, <4>2, Zenon
    <3>4. CASE handle_control_completion(h)
      BY <3>4 DEF handle_control_completion
    <3> QED BY <1>3, <3>2, <3>3, <3>4
  <2> QED BY <1>2, <2>1 DEF TypeInv, BaseTypes
<1>10. EvTypes'
  <2>1. \A s \in Results : Finish(h.t, s) \in [at : {"finish", "callback"}, t : Transfers,
                                               status : Results, back : {"reap", "disconnect"}]
    BY <1>2 DEF Finish
  <2>2. ev' = ev \/ \E s \in Results : ev' = Finish(h.t, s)
    <3>1. Verdicts \subseteq Results
      BY DEF Verdicts, Results
    <3> QED BY <1>3, <1>7, <3>1 DEF handle_bulk_completion, handle_iso_completion, handle_control_completion
  <2> QED BY <2>1, <2>2 DEF TypeInv, EvTypes
<1>11. numRetired' \in [Transfers -> Nat]
  BY <1>1, <1>2, <1>6 DEF TypeInv, BaseTypes
<1>12. BaseTypes'
  BY <1>1, <1>5, <1>8, <1>9, <1>11 DEF TypeInv, BaseTypes, askVars, listVars
<1> QED BY <1>5, <1>10, <1>12 DEF TypeInv

\* What every submission does.
LEMMA SubmitBasics ==
    ASSUME TypeInv, NEW t \in Transfers, libusb_submit_transfer(t)
    PROVE  /\ user[t] = "idle" /\ submits' \in 0..MaxSubmits
           /\ UNCHANGED <<continuation, plugged, polled, now, ev, asked>>
           /\ transferred' = [transferred EXCEPT ![t] = 0]
           /\ reapStatus' = [reapStatus EXCEPT ![t] = "COMPLETED"]
           /\ timedOut' = [timedOut EXCEPT ![t] = FALSE]
           /\ \E k \in Types, l \in Nat, N \in Nat \ {0} :
                 /\ type' = [type EXCEPT ![t] = k] /\ limit' = [limit EXCEPT ![t] = l]
                 /\ timeout' = [timeout EXCEPT ![t] = calculate_timeout(t, l)]
                 /\ calculate_timeout(t, l) \in Nat
                 /\ N = Urbs[k] /\ NumUrbs(t)' = N /\ type'[t] = k
                 /\ \/ SubmitRefused(t, N)
                    \/ SubmitAll(t, N)
                    \/ \E i \in 2..N : SubmitSome(t, N, i) \/ SubmitShort(t, N, i)
<1>1. PICK use \in Uses[t] :
         /\ type' = [type EXCEPT ![t] = use[1]] /\ limit' = [limit EXCEPT ![t] = use[2]]
         /\ timeout' = [timeout EXCEPT ![t] = calculate_timeout(t, use[2])]
         /\ \/ SubmitRefused(t, Urbs[use[1]])
            \/ SubmitAll(t, Urbs[use[1]])
            \/ \E i \in 2..Urbs[use[1]] : SubmitSome(t, Urbs[use[1]], i) \/ SubmitShort(t, Urbs[use[1]], i)
  BY Zenon DEF libusb_submit_transfer
<1>2. use[1] \in Types /\ use[2] \in Nat
  BY TransferAssumption
<1>3. Urbs[use[1]] \in Nat \ {0}
  BY <1>2, TransferAssumption
<1>4. calculate_timeout(t, use[2]) \in Nat
  BY <1>2 DEF calculate_timeout, TypeInv, BaseTypes
<1>5. type'[t] = use[1] /\ NumUrbs(t)' = Urbs[use[1]]
  BY <1>1 DEF NumUrbs, TypeInv, BaseTypes
<1>6. submits' \in 0..MaxSubmits
  <2>1. submits \in 0..MaxSubmits /\ submits < MaxSubmits /\ submits' = submits + 1 /\ MaxSubmits \in Nat
    BY TransferAssumption DEF libusb_submit_transfer, TypeInv, BaseTypes
  <2> QED BY <2>1
<1>7. /\ user[t] = "idle"
      /\ UNCHANGED <<continuation, plugged, polled, now, ev, asked>>
      /\ transferred' = [transferred EXCEPT ![t] = 0]
      /\ reapStatus' = [reapStatus EXCEPT ![t] = "COMPLETED"]
      /\ timedOut' = [timedOut EXCEPT ![t] = FALSE]
  BY DEF libusb_submit_transfer
<1> DEFINE k == use[1]
           l == use[2]
           N == Urbs[use[1]]
<1>8. /\ type' = [type EXCEPT ![t] = k] /\ limit' = [limit EXCEPT ![t] = l]
      /\ timeout' = [timeout EXCEPT ![t] = calculate_timeout(t, l)]
      /\ calculate_timeout(t, l) \in Nat
      /\ N = Urbs[k] /\ NumUrbs(t)' = N /\ type'[t] = k
      /\ \/ SubmitRefused(t, N)
         \/ SubmitAll(t, N)
         \/ \E i \in 2..N : SubmitSome(t, N, i) \/ SubmitShort(t, N, i)
      /\ k \in Types /\ l \in Nat /\ N \in Nat \ {0}
  BY <1>1, <1>2, <1>3, <1>4, <1>5
<1> HIDE DEF k, l, N
<1> QED BY <1>6, <1>7, <1>8

LEMMA ListGrows ==
    ASSUME TypeInv, NEW t \in Transfers, NEW D, add_to_flying_list(t, D)
    PROVE  /\ flying' \in Seq(Transfers)
           /\ \A x : x \in ToSet(flying') <=> x \in ToSet(flying) \/ x = t
           /\ IsInjective(flying) /\ t \notin ToSet(flying) => IsInjective(flying')
<1>1. PICK k \in 1..Len(flying) + 1 : flying' = InsertAt(flying, k, t)
  BY DEF add_to_flying_list
<1>2. flying \in Seq(Transfers)
  BY DEF TypeInv, BaseTypes
<1> QED BY <1>1, <1>2, Inserted

\* What a submission that is not refused does besides its URBs.
LEMMA SubmittedStep ==
    ASSUME TypeInv, NEW t \in Transfers, NEW a \in ReapActions, NEW r \in Nat, Submitted(t, a, r)
    PROVE  /\ plugged
           /\ user' = [user EXCEPT ![t] = "submitted"]
           /\ allocated' = [allocated EXCEPT ![t] = TRUE]
           /\ numRetired' = [numRetired EXCEPT ![t] = r]
           /\ reapAction' = [reapAction EXCEPT ![t] = a]
           /\ flying' \in Seq(Transfers)
           /\ \A x : x \in ToSet(flying') <=> x \in ToSet(flying) \/ x = t
           /\ IsInjective(flying) /\ t \notin ToSet(flying) => IsInjective(flying')
  BY ListGrows DEF Submitted

\* The URBs of the submissions that are refused, or not, at once.
FreshUrbs(N, s) == UrbsOf([i \in 1..N |-> s], 0, {})

LEMMA Fresh ==
    ASSUME NEW N \in Nat \ {0}, NEW s \in {"none", "flying"}
    PROVE  LET d == FreshUrbs(N, s) IN
           /\ d \in UrbTypes /\ DOMAIN d.at = 1..N /\ d.moved = 0 /\ d.told = {}
           /\ \A i \in 1..N : d.at[i] = s
           /\ InKernel(d) = IF s = "none" THEN {} ELSE 1..N
           /\ d.moved + Cardinality(InKernel(d)) <= N
<1> DEFINE d == FreshUrbs(N, s)
<1>1. /\ d \in UrbTypes /\ DOMAIN d.at = 1..N /\ d.moved = 0 /\ d.told = {}
      /\ \A i \in 1..N : d.at[i] = s
  BY DEF FreshUrbs, UrbsOf, UrbTypes, States
<1> HIDE DEF d
<1>2. InKernel(d) = IF s = "none" THEN {} ELSE 1..N
  BY <1>1 DEF InKernel
<1>3. Cardinality(InKernel(d)) \in 0..N
  BY <1>1, KernelSubset
<1>4. d.moved + Cardinality(InKernel(d)) <= N
  BY <1>1, <1>3
<1> QED BY <1>1, <1>2, <1>4 DEF d

\* The URBs of a submission of which the first was short, and URB i is refused.
ShortUrbs(N, i) ==
    UrbsOf([j \in 1..N |-> IF j = 1 THEN "done" ELSE IF j < i THEN "halted" ELSE "none"], 0, {})

LEMMA ShortStep ==
    ASSUME TypeInv, NEW t \in Transfers, NEW N \in Nat \ {0}, NEW i \in 2..N, SubmitShort(t, N, i)
    PROVE  LET d == ShortUrbs(N, i) IN
           /\ urbs' = [urbs EXCEPT ![t] = d]
           /\ d \in UrbTypes /\ DOMAIN d.at = 1..N /\ d.moved = 0 /\ d.told = {}
           /\ \A j \in 1..N : d.at[j] = IF j = 1 THEN "done" ELSE IF j < i THEN "halted" ELSE "none"
           /\ d.moved + Cardinality(InKernel(d)) <= N
           /\ Done(t, 1, "remoteio", 0) \in Entries
           /\ completed' = Append(completed, Done(t, 1, "remoteio", 0))
           /\ completed' \in Seq(Entries)
<1> DEFINE d == ShortUrbs(N, i)
<1>1. /\ d \in UrbTypes /\ DOMAIN d.at = 1..N /\ d.moved = 0 /\ d.told = {}
      /\ \A j \in 1..N : d.at[j] = IF j = 1 THEN "done" ELSE IF j < i THEN "halted" ELSE "none"
  BY DEF ShortUrbs, UrbsOf, UrbTypes, States
<1>2. urbs' = [urbs EXCEPT ![t] = d] /\ completed' = Append(completed, Done(t, 1, "remoteio", 0))
  BY DEF SubmitShort, ShortUrbs
<1> HIDE DEF d
<1>3. Cardinality(InKernel(d)) \in 0..N
  BY <1>1, KernelSubset
<1>4. Done(t, 1, "remoteio", 0) \in Entries
  BY DEF Done, Entries, UrbStatus
<1>5. completed' \in Seq(Entries)
  BY <1>2, <1>4, OneMore, UrbsTyped
<1>6. d.moved + Cardinality(InKernel(d)) <= N
  BY <1>1, <1>3
<1> QED BY <1>1, <1>2, <1>4, <1>5, <1>6 DEF d

LEMMA SubmitTypes ==
    ASSUME TypeInv, NEW t \in Transfers, libusb_submit_transfer(t)
    PROVE  TypeInv'
<1>1. /\ submits' \in 0..MaxSubmits
      /\ UNCHANGED <<continuation, plugged, polled, now, ev, asked>>
      /\ transferred' = [transferred EXCEPT ![t] = 0]
      /\ reapStatus' = [reapStatus EXCEPT ![t] = "COMPLETED"]
      /\ timedOut' = [timedOut EXCEPT ![t] = FALSE]
  BY SubmitBasics
<1>2. PICK k \in Types, l \in Nat, N \in Nat \ {0} :
         /\ type' = [type EXCEPT ![t] = k] /\ limit' = [limit EXCEPT ![t] = l]
         /\ timeout' = [timeout EXCEPT ![t] = calculate_timeout(t, l)]
         /\ calculate_timeout(t, l) \in Nat
         /\ N = Urbs[k] /\ NumUrbs(t)' = N /\ type'[t] = k
         /\ \/ SubmitRefused(t, N)
            \/ SubmitAll(t, N)
            \/ \E i \in 2..N : SubmitSome(t, N, i) \/ SubmitShort(t, N, i)
  BY SubmitBasics
<1>3. \A x \in Transfers : x # t => type'[x] = type[x]
  BY <1>2 DEF TypeInv, BaseTypes
<1>4. ASSUME NEW d \in UrbTypes, urbs' = [urbs EXCEPT ![t] = d], DOMAIN d.at = 1..N,
             d.moved + Cardinality(InKernel(d)) <= N
      PROVE  urbs' \in [Transfers -> UrbTypes] /\ \A x \in Transfers : Moves(x)'
  BY <1>2, <1>3, <1>4, OneChanged
<1> DEFINE Rest == /\ user' \in [Transfers -> {"idle", "submitted"}]
                   /\ allocated' \in [Transfers -> BOOLEAN]
                   /\ numRetired' \in [Transfers -> Nat]
                   /\ reapAction' \in [Transfers -> ReapActions]
                   /\ flying' \in Seq(Transfers)
<1>5. ASSUME NEW a \in ReapActions, NEW r \in Nat, Submitted(t, a, r) PROVE Rest
  <2>1. /\ user' = [user EXCEPT ![t] = "submitted"]
        /\ allocated' = [allocated EXCEPT ![t] = TRUE]
        /\ numRetired' = [numRetired EXCEPT ![t] = r]
        /\ reapAction' = [reapAction EXCEPT ![t] = a]
        /\ flying' \in Seq(Transfers)
    BY <1>5, SubmittedStep
  <2> QED BY <2>1 DEF TypeInv, BaseTypes
<1>6. completed \in Seq(Entries)
  BY UrbsTyped
<1> HIDE DEF Rest
<1>7. Rest /\ completed' \in Seq(Entries)
      /\ urbs' \in [Transfers -> UrbTypes] /\ \A x \in Transfers : Moves(x)'
  <2>1. CASE SubmitRefused(t, N)
    <3>1. Rest /\ completed' \in Seq(Entries)
      BY <1>6, <2>1 DEF SubmitRefused, Rest, TypeInv, BaseTypes, ReapActions
    <3>2. urbs' = [urbs EXCEPT ![t] = FreshUrbs(N, "none")]
      BY <2>1 DEF SubmitRefused, FreshUrbs
    <3> QED BY <1>4, <3>1, <3>2, Fresh
  <2>2. CASE SubmitAll(t, N)
    <3>1. Rest /\ completed' \in Seq(Entries)
      BY <1>5, <1>6, <2>2 DEF SubmitAll, ReapActions
    <3>2. urbs' = [urbs EXCEPT ![t] = FreshUrbs(N, "flying")]
      BY <2>2 DEF SubmitAll, FreshUrbs
    <3> QED BY <1>4, <3>1, <3>2, Fresh
  <2>3. ASSUME NEW i \in 2..N, SubmitSome(t, N, i)
        PROVE  Rest /\ completed' \in Seq(Entries)
               /\ urbs' \in [Transfers -> UrbTypes] /\ \A x \in Transfers : Moves(x)'
    <3>1. Rest
      <4>1. N - i + 1 \in Nat
        OBVIOUS
      <4> QED BY <1>5, <2>3, <4>1 DEF SubmitSome, ReapActions
    <3>2. PICK n \in [Before(i) -> {0, 1}], s \in [Before(i) -> {"ok", "unlinked"}], d \in UrbTypes :
             SubmittedSome(t, N, i, n, s, d)
      BY <2>3, SubmitSomeStep
    <3>3. /\ urbs' = [urbs EXCEPT ![t] = d] /\ DOMAIN d.at = 1..N
          /\ d.moved <= N /\ InKernel(d) = {} /\ completed' \in Seq(Entries)
      BY <3>2 DEF SubmittedSome
    <3>4. Cardinality(InKernel(d)) = 0 /\ d.moved \in Nat
      BY <3>3, FS_EmptySet DEF UrbTypes
    <3>5. d.moved + Cardinality(InKernel(d)) <= N
      BY <3>3, <3>4
    <3> QED BY <1>4, <3>1, <3>3, <3>5
  <2>4. ASSUME NEW i \in 2..N, SubmitShort(t, N, i)
        PROVE  Rest /\ completed' \in Seq(Entries)
               /\ urbs' \in [Transfers -> UrbTypes] /\ \A x \in Transfers : Moves(x)'
    <3>1. Rest
      <4>1. N - i + 1 \in Nat
        OBVIOUS
      <4> QED BY <1>5, <2>4, <4>1 DEF SubmitShort, ReapActions
    <3> QED BY <1>4, <2>4, <3>1, ShortStep
  <2> QED BY <1>2, <2>1, <2>2, <2>3, <2>4
<1>8. EvTypes'
  BY <1>1 DEF TypeInv, EvTypes
<1>9. BaseTypes'
  BY <1>1, <1>2, <1>7 DEF TypeInv, BaseTypes, Rest, Verdicts
<1> QED BY <1>7, <1>8, <1>9 DEF TypeInv

LEMMA TypesInit == Init => TypeInv
<1> SUFFICES ASSUME Init PROVE TypeInv
  OBVIOUS
<1>1. EvTypes
  BY DEF Init, EvTypes, At
<1>2. Urbs["CONTROL"] = 1 /\ MaxTime \in Nat /\ MaxSubmits \in Nat
  BY TransferAssumption
<1> DEFINE u == UrbsOf([i \in 1..1 |-> "none"], 0, {})
<1>3. u \in UrbTypes /\ DOMAIN u.at = 1..1 /\ u.moved = 0 /\ u.told = {} /\ InKernel(u) = {}
  BY DEF UrbsOf, UrbTypes, States, InKernel
<1>4. \A t \in Transfers : urbs[t] = u /\ NumUrbs(t) = 1
  BY <1>2 DEF Init, NumUrbs
<1>5. Cardinality(InKernel(u)) = 0
  BY <1>3, FS_EmptySet
<1> HIDE DEF u
<1>6. \A t \in Transfers : Moves(t)
  <2>1. u.moved + Cardinality(InKernel(u)) <= 1
    BY <1>3, <1>5
  <2> QED BY <1>3, <1>4, <2>1 DEF Moves
<1>7. urbs \in [Transfers -> UrbTypes]
  BY <1>3 DEF Init, u
<1>8. completed \in Seq(Entries) /\ flying \in Seq(Transfers)
  BY DEF Init
<1>9. BaseTypes
  BY <1>2, <1>7, <1>8 DEF Init, BaseTypes, Types, ReapActions, Verdicts
<1> QED BY <1>1, <1>6, <1>9 DEF TypeInv

LEMMA TypesStep == TypeInv /\ [Next]_vars => TypeInv'
<1> SUFFICES ASSUME TypeInv, [Next]_vars PROVE TypeInv'
  OBVIOUS
<1> USE DEF kernelVars, askVars, privVars, listVars
<1>1. ASSUME NEW t \in Transfers, KernelComplete(t) PROVE TypeInv'
  <2>1. UNCHANGED <<continuation, plugged, polled, askVars, privVars, timedOut, listVars, ev, asked>>
    BY <1>1 DEF KernelComplete
  <2>2. PICK d \in UrbTypes : /\ urbs' = [urbs EXCEPT ![t] = d] /\ DOMAIN d.at = 1..NumUrbs(t)
                              /\ d.moved + Cardinality(InKernel(d)) <= NumUrbs(t)
                              /\ \E e \in Entries : completed' = Append(completed, e)
    BY <1>1, KernelStep DEF KernelDone
  <2>3. completed' \in Seq(Entries)
    BY <2>2, UrbsTyped, OneMore, <1>1
  <2>4. NumUrbs(t)' = NumUrbs(t) /\ \A x \in Transfers : type'[x] = type[x]
    BY <2>1 DEF NumUrbs
  <2>5. urbs' \in [Transfers -> UrbTypes] /\ \A x \in Transfers : Moves(x)'
    BY <2>2, <2>4, OneChanged
  <2>6. BaseTypes'
    BY <2>1, <2>3, <2>5 DEF TypeInv, BaseTypes
  <2>7. EvTypes'
    BY <2>1 DEF TypeInv, EvTypes
  <2> QED BY <2>5, <2>6, <2>7 DEF TypeInv
<1>2. ASSUME NEW t \in Transfers, libusb_submit_transfer(t) PROVE TypeInv'
  BY <1>2, SubmitTypes
<1>3. ASSUME NEW t \in Transfers, libusb_cancel_transfer(t) PROVE TypeInv'
  <2>1. op_cancel_transfer(t) /\ asked' = [asked EXCEPT ![t] = TRUE] /\ UNCHANGED timedOut
    BY <1>3 DEF libusb_cancel_transfer
  <2>2. UNCHANGED <<continuation, plugged, polled, askVars, allocated, numRetired, reapStatus, transferred,
                    listVars, ev>>
    BY <2>1 DEF op_cancel_transfer
  <2>3. BaseTypes'
    BY <2>1, <2>2, CancelTypes DEF TypeInv, BaseTypes
  <2>4. EvTypes'
    BY <2>2 DEF TypeInv, EvTypes
  <2> QED BY <2>1, <2>3, <2>4, CancelTypes DEF TypeInv
<1>4. CASE Unplug
  <2>1. UNCHANGED <<continuation, polled, askVars, privVars, timedOut, listVars, ev, asked>>
        /\ plugged' = FALSE
    BY <1>4 DEF Unplug
  <2> DEFINE F(x) == UrbsOf([i \in DOMAIN urbs[x].at |->
               IF i \in InKernel(urbs[x]) THEN "done" ELSE urbs[x].at[i]], urbs[x].moved, urbs[x].told)
  <2>2. urbs' = [x \in Transfers |-> F(x)]
    BY <1>4 DEF Unplug
  <2>3. ASSUME NEW x \in Transfers PROVE urbs'[x] \in UrbTypes /\ Moves(x)'
    <3> DEFINE u == urbs[x]
               d == UrbsOf([i \in DOMAIN u.at |-> IF i \in InKernel(u) THEN "done" ELSE u.at[i]], u.moved, u.told)
               N == NumUrbs(x)
    <3>1. /\ N \in Nat /\ u \in UrbTypes /\ DOMAIN u.at = 1..N /\ u.moved \in Nat
          /\ u.moved + Cardinality(InKernel(u)) <= N
      BY UrbsTyped
    <3>2. NumUrbs(x)' = N /\ urbs'[x] = d
      BY <2>1, <2>2 DEF NumUrbs
    <3> HIDE DEF u, N
    <3>3. d \in UrbTypes /\ d.at = [i \in 1..N |-> IF i \in InKernel(u) THEN "done" ELSE u.at[i]]
          /\ d.moved = u.moved
      <4>1. \A i \in 1..N : u.at[i] \in States
        BY <3>1 DEF UrbTypes
      <4>2. d.at = [i \in 1..N |-> IF i \in InKernel(u) THEN "done" ELSE u.at[i]] /\ d.moved = u.moved
            /\ d.told = u.told /\ d = [at |-> d.at, moved |-> d.moved, told |-> d.told]
        BY <3>1 DEF UrbsOf
      <4> HIDE DEF d
      <4>3. d.at \in [1..N -> States]
        BY <4>1, <4>2 DEF States
      <4>4. d.at \in UNION {[1..m -> States] : m \in Nat}
        BY <3>1, <4>3
      <4>5. d.moved \in Nat /\ d.told \in SUBSET Errors
        BY <3>1, <4>2 DEF UrbTypes
      <4>6. d \in UrbTypes
        BY <4>2, <4>4, <4>5 DEF UrbTypes
      <4> QED BY <4>2, <4>6
    <3> HIDE DEF d
    <3>4. InKernel(d) = {}
      BY <3>1, <3>3 DEF InKernel
    <3>5. Cardinality(InKernel(d)) = 0 /\ Cardinality(InKernel(u)) \in Nat
      <4>1. Cardinality(InKernel(u)) \in Nat
        BY <3>1, KernelSubset
      <4> QED BY <3>4, <4>1, FS_EmptySet
    <3>6. d.moved + Cardinality(InKernel(d)) <= N /\ DOMAIN d.at = 1..N
      BY <3>1, <3>3, <3>5
    <3> QED BY <3>2, <3>3, <3>6 DEF Moves
  <2>4. urbs' \in [Transfers -> UrbTypes]
    <3>1. \A x \in Transfers : F(x) \in UrbTypes
      BY <2>2, <2>3
    <3> HIDE DEF F
    <3> QED BY <2>2, <3>1
  <2>5. BaseTypes'
    BY <1>4, <2>1, <2>4, Unplugging DEF TypeInv, BaseTypes
  <2>6. EvTypes'
    BY <2>1 DEF TypeInv, EvTypes
  <2> QED BY <2>3, <2>5, <2>6 DEF TypeInv
<1>5. CASE Tick
  <2>1. now' \in 0..MaxTime
    BY <1>5, TransferAssumption DEF Tick, TypeInv, BaseTypes
  <2>2. UNCHANGED <<kernelVars, polled, askVars, privVars, timedOut, flying, timeout, ev, asked>>
    BY <1>5 DEF Tick
  <2>3. BaseTypes' /\ EvTypes'
    BY <2>1, <2>2 DEF TypeInv, BaseTypes, EvTypes
  <2> QED BY <2>2, <2>3, NoneChanged DEF TypeInv
<1>6. CASE handle_timeouts
  <2>1. PICK k \in DOMAIN flying : timedOut' = [timedOut EXCEPT ![flying[k]] = TRUE]
                                   /\ op_cancel_transfer(flying[k]) /\ UNCHANGED asked
    BY <1>6 DEF handle_timeouts
  <2>2. flying[k] \in Transfers
    BY ElementOfSeq, LenProperties DEF TypeInv, BaseTypes
  <2>3. UNCHANGED <<continuation, plugged, polled, askVars, allocated, numRetired, reapStatus, transferred,
                    listVars, ev>>
    BY <2>1 DEF op_cancel_transfer
  <2>4. BaseTypes'
    BY <2>1, <2>2, <2>3, CancelTypes DEF TypeInv, BaseTypes
  <2>5. EvTypes'
    BY <2>3 DEF TypeInv, EvTypes
  <2> QED BY <2>1, <2>2, <2>4, <2>5, CancelTypes DEF TypeInv
<1>7. CASE Poll
  <2>1. UNCHANGED <<kernelVars, askVars, privVars, timedOut, listVars, asked>>
        /\ polled' \in BOOLEAN /\ (ev' = At("reap") \/ ev' = At("disconnect"))
    BY <1>7 DEF Poll, TypeInv, BaseTypes
  <2>2. BaseTypes' /\ EvTypes'
    BY <2>1 DEF TypeInv, BaseTypes, EvTypes, At
  <2> QED BY <2>1, <2>2, NoneChanged DEF TypeInv
<1>8. CASE ReapNothing
  <2>1. UNCHANGED <<kernelVars, polled, askVars, privVars, timedOut, listVars, asked>>
        /\ ev' = At("poll")
    BY <1>8 DEF ReapNothing
  <2>2. BaseTypes' /\ EvTypes'
    BY <2>1 DEF TypeInv, BaseTypes, EvTypes, At
  <2> QED BY <2>1, <2>2, NoneChanged DEF TypeInv
<1>9. CASE reap_for_handle
  BY <1>9, ReapTypes
<1>10. CASE usbi_handle_disconnect
  <2>1. UNCHANGED <<kernelVars, polled, askVars, numRetired, reapAction, reapStatus, transferred,
                    timedOut, listVars, asked>>
    BY <1>10 DEF usbi_handle_disconnect
  <2>2. flying # <<>> => flying[1] \in Transfers
    BY EmptySeq, ElementOfSeq DEF TypeInv, BaseTypes
  <2>3. allocated' \in [Transfers -> BOOLEAN] /\ EvTypes'
    <3>1. CASE flying = <<>>
      BY <1>10, <3>1 DEF usbi_handle_disconnect, TypeInv, BaseTypes, EvTypes, At
    <3>2. CASE flying # <<>>
      <4>1. PICK t \in Transfers : t = flying[1]
        BY <2>2, <3>2
      <4>2. allocated' = [allocated EXCEPT ![t] = FALSE]
            /\ ev' = [Finish(t, "NO_DEVICE") EXCEPT !.back = "disconnect"]
        BY <1>10, <3>2, <4>1 DEF usbi_handle_disconnect
      <4>3. ev' = [at |-> "finish", t |-> t, status |-> "NO_DEVICE", back |-> "disconnect"]
        BY <4>2 DEF Finish
      <4>4. EvTypes'
        BY <4>3 DEF EvTypes, Results
      <4> QED BY <4>2, <4>4 DEF TypeInv, BaseTypes
    <3> QED BY <3>1, <3>2
  <2>4. BaseTypes'
    BY <2>1, <2>3 DEF TypeInv, BaseTypes
  <2> QED BY <2>1, <2>3, <2>4, NoneChanged DEF TypeInv
<1>11. CASE usbi_handle_transfer_completion
  <2>1. UNCHANGED <<kernelVars, polled, askVars, privVars, timedOut, timeout, now, asked>>
    BY <1>11 DEF usbi_handle_transfer_completion
  <2>2. flying' \in Seq(Transfers)
    <3>1. PICK k \in DOMAIN flying : flying' = RemoveAt(flying, k)
      BY <1>11 DEF usbi_handle_transfer_completion
    <3> QED BY <3>1, Removed DEF TypeInv, BaseTypes
  <2>3. ev.at = "finish" /\ ev' = [ev EXCEPT !.at = "callback", !.status = Verdict]
    BY <1>11 DEF usbi_handle_transfer_completion
  <2>4. ev \in [at : {"finish", "callback"}, t : Transfers, status : Results, back : {"reap", "disconnect"}]
    BY <2>3 DEF TypeInv, EvTypes
  <2>5. Verdict \in Results
    BY <2>4 DEF Verdict, Results
  <2>6. EvTypes'
    BY <2>3, <2>4, <2>5 DEF EvTypes
  <2>7. BaseTypes'
    BY <2>1, <2>2 DEF TypeInv, BaseTypes
  <2> QED BY <2>1, <2>6, <2>7, NoneChanged DEF TypeInv
<1>12. CASE Callback
  <2>1. UNCHANGED <<continuation, plugged, completed, polled, type, limit, submits, privVars, timedOut, listVars>>
        /\ ev.at = "callback" /\ ev' = At(ev.back)
    BY <1>12 DEF Callback
  <2>2. ev.t \in Transfers /\ ev.back \in {"reap", "disconnect"}
    BY <2>1 DEF TypeInv, EvTypes
  <2>3. user' \in [Transfers -> {"idle", "submitted"}] /\ asked' \in [Transfers -> BOOLEAN]
    BY <1>12, <2>2 DEF Callback, TypeInv, BaseTypes
  <2>4. PICK t \in Transfers : t = ev.t
    BY <2>2
  <2> DEFINE u == urbs[t]
             d == UrbsOf(u.at, 0, {})
  <2>5. u \in UrbTypes /\ u = [at |-> u.at, moved |-> u.moved, told |-> u.told] /\ u.moved \in Nat
        /\ u.at \in UNION {[1..n -> States] : n \in Nat}
        /\ DOMAIN u.at = 1..NumUrbs(t) /\ u.moved + Cardinality(InKernel(u)) <= NumUrbs(t)
        /\ NumUrbs(t) \in Nat /\ Cardinality(InKernel(u)) \in Nat
    <3>1. u \in UrbTypes /\ u.moved \in Nat /\ DOMAIN u.at = 1..NumUrbs(t) /\ NumUrbs(t) \in Nat
          /\ u.moved + Cardinality(InKernel(u)) <= NumUrbs(t)
      BY UrbsTyped
    <3>2. Cardinality(InKernel(u)) \in Nat
      BY <3>1, KernelSubset
    <3>3. u = [at |-> u.at, moved |-> u.moved, told |-> u.told]
          /\ u.at \in UNION {[1..n -> States] : n \in Nat}
      BY <3>1 DEF UrbTypes
    <3> QED BY <3>1, <3>2, <3>3
  <2>6. urbs' = [urbs EXCEPT ![t] = d]
    BY <1>12, <2>4 DEF Callback
  <2> HIDE DEF u
  <2>7. d \in UrbTypes /\ d.at = u.at /\ d.moved = 0
    BY <2>5 DEF UrbsOf, UrbTypes
  <2> HIDE DEF d
  <2>8. InKernel(d) = InKernel(u)
    BY <2>7 DEF InKernel
  <2>9. d.moved + Cardinality(InKernel(d)) <= NumUrbs(t)
    BY <2>5, <2>7, <2>8
  <2>10. NumUrbs(t)' = NumUrbs(t) /\ \A x \in Transfers : type'[x] = type[x]
    BY <2>1 DEF NumUrbs
  <2>11. urbs' \in [Transfers -> UrbTypes] /\ \A x \in Transfers : Moves(x)'
    BY <2>5, <2>6, <2>7, <2>9, <2>10, OneChanged
  <2>12. EvTypes'
    BY <2>1, <2>2 DEF EvTypes, At
  <2>13. BaseTypes'
    BY <2>1, <2>3, <2>11 DEF TypeInv, BaseTypes
  <2> QED BY <2>11, <2>12, <2>13 DEF TypeInv
<1>13. CASE UNCHANGED vars
  BY <1>13, NoneChanged DEF vars, TypeInv, BaseTypes, EvTypes
<1> QED BY <1>1, <1>2, <1>3, <1>4, <1>5, <1>6, <1>7, <1>8, <1>9, <1>10, <1>11, <1>12, <1>13
        DEF Next, EventThread

LEMMA TypesHold == Spec => []TypeInv
  BY TypesInit, TypesStep, PTL DEF Spec

\* A step leaves the history of overtaking as it is, or adds to it.
LEMMA OvertakenStep ==
    [Next]_vars => (overtaken => overtaken') /\ (overtaken \in BOOLEAN => overtaken' \in BOOLEAN)
<1> SUFFICES ASSUME [Next]_vars
             PROVE  (overtaken => overtaken') /\ (overtaken \in BOOLEAN => overtaken' \in BOOLEAN)
  OBVIOUS
<1>1. ASSUME UNCHANGED overtaken
      PROVE  (overtaken => overtaken') /\ (overtaken \in BOOLEAN => overtaken' \in BOOLEAN)
  BY <1>1
<1>2. ASSUME NEW t \in Transfers, KernelComplete(t) \/ libusb_submit_transfer(t) \/ libusb_cancel_transfer(t)
      PROVE  UNCHANGED overtaken
  BY <1>2 DEF KernelComplete, libusb_submit_transfer, libusb_cancel_transfer, op_cancel_transfer
<1>3. ASSUME Unplug \/ Tick \/ handle_timeouts \/ UNCHANGED vars PROVE UNCHANGED overtaken
  BY <1>3 DEF Unplug, Tick, handle_timeouts, op_cancel_transfer, vars
<1>4. ASSUME \/ Poll \/ ReapNothing \/ usbi_handle_disconnect
             \/ usbi_handle_transfer_completion \/ Callback
      PROVE  UNCHANGED overtaken
  BY <1>4 DEF Poll, ReapNothing, usbi_handle_disconnect, usbi_handle_transfer_completion, Callback
<1>5. ASSUME reap_for_handle
      PROVE  (overtaken => overtaken') /\ (overtaken \in BOOLEAN => overtaken' \in BOOLEAN)
  <2>1. UNCHANGED overtaken \/ \E h, rest : overtaken' = (overtaken \/ Overtakes(h, rest))
    BY <1>5 DEF reap_for_handle, handle_bulk_completion, handle_iso_completion, handle_control_completion
  <2>2. ASSUME NEW h, NEW rest, overtaken' = (overtaken \/ Overtakes(h, rest))
        PROVE  (overtaken => overtaken') /\ overtaken' \in BOOLEAN
    BY <2>2, Zenon
  <2> QED BY <1>1, <2>1, <2>2, Zenon
<1> QED BY <1>1, <1>2, <1>3, <1>4, <1>5 DEF Next, EventThread

OvertakenType == overtaken \in BOOLEAN

LEMMA OvertakenTyped == Spec => []OvertakenType
<1>1. Init => OvertakenType
  BY DEF Init, OvertakenType
<1>2. OvertakenType /\ [Next]_vars => OvertakenType'
  BY OvertakenStep DEF OvertakenType
<1> QED BY <1>1, <1>2, PTL DEF Spec

\* Every variable has its type: a transfer has as many URBs as its kind needs, and
\* never moves more units than that, however it is split, cut short and discarded
\* (submit_bulk_transfer, discard_urbs, handle_bulk_completion).
THEOREM TransferTypes == Spec => []TypeOK
<1>1. TypeInv /\ OvertakenType => TypeOK
  <2> SUFFICES ASSUME TypeInv, OvertakenType PROVE TypeOK
    OBVIOUS
  <2>1. ASSUME NEW t \in Transfers
        PROVE  /\ DOMAIN urbs[t].at = 1..NumUrbs(t)
               /\ \A i \in 1..NumUrbs(t) : urbs[t].at[i] \in {"none", "flying", "halted", "done"}
               /\ urbs[t].moved \in 0..NumUrbs(t) /\ urbs[t].told \subseteq Errors
               /\ numRetired[t] \in Nat /\ transferred[t] \in Nat
    <3>1. /\ urbs[t] \in UrbTypes /\ DOMAIN urbs[t].at = 1..NumUrbs(t) /\ NumUrbs(t) \in Nat
          /\ urbs[t].moved + Cardinality(InKernel(urbs[t])) <= NumUrbs(t)
          /\ urbs[t].moved \in Nat /\ urbs[t].told \subseteq Errors
      BY UrbsTyped
    <3>2. Cardinality(InKernel(urbs[t])) \in Nat
      BY <3>1, KernelSubset
    <3>3. urbs[t].moved \in 0..NumUrbs(t)
      BY <3>1, <3>2
    <3>4. \A i \in 1..NumUrbs(t) : urbs[t].at[i] \in States
      BY <3>1 DEF UrbTypes
    <3> QED BY <3>1, <3>3, <3>4 DEF TypeInv, BaseTypes, States
  <2>2. \A k \in DOMAIN completed :
           completed[k] \in [t : Transfers, i : Nat \ {0}, status : UrbStatus, len : {0, 1}]
    <3>1. \A k \in DOMAIN completed : completed[k] \in Entries
      BY ElementOfSeq, LenProperties, UrbsTyped DEF TypeInv, BaseTypes
    <3> QED BY <3>1 DEF Entries
  <2>3. \A k \in DOMAIN flying : flying[k] \in Transfers
    BY ElementOfSeq, LenProperties DEF TypeInv, BaseTypes
  <2>4. reapStatus \in [Transfers -> Results]
    <3>1. Verdicts \subseteq Results
      BY DEF Verdicts, Results
    <3> QED BY <3>1 DEF TypeInv, BaseTypes
  <2>5. \/ ev.at \in {"poll", "reap", "disconnect"} /\ ev = At(ev.at)
        \/ ev \in [at : {"finish", "callback"}, t : Transfers, status : Results,
                   back : {"reap", "disconnect"}]
    BY DEF TypeInv, EvTypes
  <2> QED BY <2>1, <2>2, <2>3, <2>4, <2>5 DEF TypeOK, TypeInv, BaseTypes, OvertakenType
<1> QED BY <1>1, TypesHold, OvertakenTyped, PTL

-----------------------------------------------------------------------------
(* What is pending, and transfers that a step does not touch.              *)

LEMMA PendingFinite ==
    ASSUME NEW N \in Nat, NEW W
    PROVE  IsFiniteSet(PendingOf(N, W)) /\ Cardinality(PendingOf(N, W)) \in Nat
<1>1. IsFiniteSet(1..N) /\ PendingOf(N, W) \in SUBSET (1..N)
  BY FS_Interval DEF PendingOf
<1> QED BY <1>1, FS_Subset, FS_CardinalityType

LEMMA PendingMore ==
    ASSUME NEW N \in Nat, NEW W, NEW e, e.i \in 1..N, e.len \in {0, 1}, \A f \in W : f.i # e.i
    PROVE  Cardinality(PendingOf(N, W \cup {e})) = Cardinality(PendingOf(N, W)) + e.len
<1>1. IsFiniteSet(PendingOf(N, W)) /\ Cardinality(PendingOf(N, W)) \in Nat
  BY PendingFinite
<1>2. CASE e.len = 0
  <2>1. PendingOf(N, W \cup {e}) = PendingOf(N, W)
    BY <1>2 DEF PendingOf
  <2> QED BY <1>1, <1>2, <2>1
<1>3. CASE e.len = 1
  <2>1. PendingOf(N, W \cup {e}) = PendingOf(N, W) \cup {e.i} /\ e.i \notin PendingOf(N, W)
    BY <1>3 DEF PendingOf
  <2> QED BY <1>1, <1>3, <2>1, FS_AddElement
<1> QED BY <1>2, <1>3

LEMMA PendingLess ==
    ASSUME NEW N \in Nat, NEW W, NEW h \in W, h.i \in 1..N, h.len \in {0, 1},
           \A f \in W : f.i = h.i => f = h
    PROVE  Cardinality(PendingOf(N, W)) = Cardinality(PendingOf(N, W \ {h})) + h.len
<1>1. W = (W \ {h}) \cup {h} /\ \A f \in W \ {h} : f.i # h.i
  OBVIOUS
<1> QED BY <1>1, PendingMore

LEMMA PendingGrows ==
    ASSUME NEW N \in Nat, NEW V, NEW W, NEW found \in SUBSET (1..N), NEW n \in [found -> {0, 1}],
           \A e \in W : e \in V \/ (e.i \in found /\ e.len = n[e.i]),
           \A e \in V : e \in W /\ e.i \notin found,
           \A i \in found : \E e \in W : e.i = i /\ e.len = n[i]
    PROVE  Cardinality(PendingOf(N, W)) = Cardinality(PendingOf(N, V)) + Units(found, n)
<1> DEFINE ones == {i \in found : n[i] = 1}
<1>1. IsFiniteSet(PendingOf(N, V)) /\ Cardinality(PendingOf(N, V)) \in Nat
  BY PendingFinite
<1>2. IsFiniteSet(ones) /\ Cardinality(ones) \in Nat
  <2>1. IsFiniteSet(1..N)
    BY FS_Interval
  <2>2. ones \in SUBSET (1..N)
    OBVIOUS
  <2> QED BY <2>1, <2>2, FS_Subset, FS_CardinalityType
<1>a. \A i : i \in ones <=> i \in found /\ n[i] = 1
  OBVIOUS
<1>b. \A i, Y : i \in PendingOf(N, Y) <=> i \in 1..N /\ \E e \in Y : e.i = i /\ e.len = 1
  BY DEF PendingOf
<1> HIDE DEF ones
<1>3. PendingOf(N, W) = PendingOf(N, V) \cup ones
  <2>1. ASSUME NEW i \in PendingOf(N, W) PROVE i \in PendingOf(N, V) \cup ones
    <3>1. PICK e \in W : e.i = i /\ e.len = 1
      BY <1>b, <2>1
    <3> QED BY <1>a, <1>b, <2>1, <3>1
  <2>2. PendingOf(N, V) \subseteq PendingOf(N, W)
    BY <1>b
  <2>3. ASSUME NEW i \in ones PROVE i \in PendingOf(N, W)
    <3>0. i \in found /\ n[i] = 1
      BY <1>a, <2>3
    <3>1. PICK e \in W : e.i = i /\ e.len = 1
      BY <3>0
    <3> QED BY <1>a, <1>b, <2>3, <3>1
  <2> QED BY <2>1, <2>2, <2>3
<1>4. PendingOf(N, V) \cap ones = {}
  BY <1>a, <1>b
<1>5. Cardinality(PendingOf(N, V) \cap ones) = 0
  BY <1>4, FS_EmptySet
<1>6. Cardinality(PendingOf(N, W)) = Cardinality(PendingOf(N, V)) + Cardinality(ones)
  BY <1>1, <1>2, <1>3, <1>5, FS_Union
<1> QED BY <1>6 DEF ones, Units

\* What is true of a transfer without URBs.
LEMMA NoneWaiting ==
    ASSUME TypeInv, NEW t \in Transfers, UrbsKept(t), ~allocated[t]
    PROVE  /\ Waiting(t) = {} /\ InKernel(urbs[t]) = {} /\ Pending(t) = {}
           /\ Cardinality(Pending(t)) = 0
<1>1. \A i \in 1..NumUrbs(t) : urbs[t].at[i] = "none"
  BY DEF UrbsKept, Outstanding
<1>2. Waiting(t) = {}
  BY <1>1 DEF UrbsKept
<1>3. InKernel(urbs[t]) = {}
  BY <1>1, UrbsTyped DEF InKernel
<1>4. Pending(t) = {}
  BY <1>2 DEF Pending, PendingOf
<1> QED BY <1>2, <1>3, <1>4, FS_EmptySet

LEMMA Untouched ==
    ASSUME NEW x \in Transfers, Sound(x),
           continuation' = continuation, plugged' => plugged,
           urbs'[x] = urbs[x], Waiting(x)' = Waiting(x), type'[x] = type[x],
           InOrder(completed, x) => InOrder(completed', x),
           allocated'[x] = allocated[x], numRetired'[x] = numRetired[x],
           transferred'[x] = transferred[x], reapAction'[x] = reapAction[x],
           reapStatus'[x] = reapStatus[x],
           Ending(x)' \/ Calling(x)' => allocated[x] \/ Ending(x) \/ Calling(x)
    PROVE  Sound(x)'
<1>1. NumUrbs(x)' = NumUrbs(x) /\ (Continued(x)' <=> Continued(x))
  BY DEF NumUrbs, Continued
<1>2. Outstanding(x)' = Outstanding(x) /\ Pending(x)' = Pending(x)
  BY <1>1 DEF Outstanding, Pending
<1>3. UrbsKept(x)'
  BY <1>1, <1>2 DEF Sound, UrbsKept
<1>4. Counted(x)'
  BY <1>1, <1>2 DEF Sound, Counted
<1>5. Ordered(x)' /\ Stopped(x)'
  BY <1>1 DEF Sound, Ordered, Stopped
<1>6. DataKept(x)'
  BY <1>1, <1>2 DEF Sound, DataKept
<1>7. EntriesMean(x)'
  BY <1>1 DEF Sound, EntriesMean
<1>8. FailuresKept(x)'
  BY <1>1 DEF Sound, FailuresKept
<1>9. Halting(x)'
  <2>1. \A j : Stopping(x, j)' <=> Stopping(x, j)
    BY DEF Stopping
  <2> QED BY <1>1, <2>1 DEF Sound, Halting
<1> QED BY <1>3, <1>4, <1>5, <1>6, <1>7, <1>8, <1>9 DEF Sound

-----------------------------------------------------------------------------
(* The kernel completes a URB, or all of them; a transfer is cancelled.    *)

\* What the kernel's list holds of x does not change where the others' entries grow.
LEMMA WaitingMore ==
    ASSUME NEW t, NEW M, \A e \in M : e.t = t,
           \A e : e \in ToSet(completed') <=> e \in ToSet(completed) \/ e \in M
    PROVE  /\ Waiting(t)' = Waiting(t) \cup M
           /\ \A x : x # t => Waiting(x)' = Waiting(x)
<1>1. \A x : Waiting(x)' = {e \in ToSet(completed') : e.t = x}
  BY DEF Waiting
<1>2. \A x : Waiting(x) = {e \in ToSet(completed) : e.t = x}
  BY DEF Waiting
<1>3. \A e : e \in Waiting(t)' <=> e \in Waiting(t) \cup M
  BY <1>1, <1>2
<1>4. ASSUME NEW x, x # t PROVE \A e : e \in Waiting(x)' <=> e \in Waiting(x)
  BY <1>1, <1>2, <1>4
<1> QED BY <1>3, <1>4

LEMMA KernelSound ==
    ASSUME TypeInv, IsInjective(completed), NEW t \in Transfers, Sound(t), KernelComplete(t)
    PROVE  /\ Sound(t)' /\ IsInjective(completed')
           /\ \A x \in Transfers : x # t /\ Sound(x) => Sound(x)'
<1>u. PICK u \in UrbTypes, N \in Nat \ {0} : u = urbs[t] /\ N = NumUrbs(t)
  BY UrbsTyped
<1>k. PICK i \in InKernel(urbs[t]), s \in UrbStatus \ {"shutdown"}, n \in {0, 1}, d \in UrbTypes :
             KernelDone(t, i, s, n, d)
  BY KernelStep
<1>1. /\ \A j \in InKernel(u) : i <= j
      /\ IF u.at[i] = "halted" THEN s = "unlinked" /\ continuation ELSE s # "unlinked"
      /\ n = 1 => s = "ok"
      /\ s = "ok" /\ n = 0 => type[t] = "BULK" /\ ~(continuation /\ i < N)
      /\ s = "remoteio" => Continued(t) /\ i < N
      /\ s = "overflow" => i = N
      /\ urbs' = [urbs EXCEPT ![t] = d]
      /\ DOMAIN d.at = 1..N
      /\ \A j \in 1..N : d.at[j] = IF j = i THEN "done"
             ELSE IF /\ type[t] = "BULK" /\ (s = "stall" \/ (s \in {"remoteio", "proto"} /\ continuation))
                     /\ u.at[j] = "flying" THEN "halted" ELSE u.at[j]
      /\ InKernel(d) = InKernel(u) \ {i}
      /\ d.moved = u.moved + n /\ d.told = u.told \cup ({s} \cap Errors)
      /\ Done(t, i, s, n) \in Entries
      /\ completed' = Append(completed, Done(t, i, s, n))
  BY <1>u, <1>k DEF KernelDone
<1>e. PICK e \in Entries : e = Done(t, i, s, n) /\ e.t = t /\ e.i = i /\ e.status = s /\ e.len = n
  BY <1>1 DEF Done
<1>2. /\ UNCHANGED <<continuation, plugged, type, ev, allocated, numRetired, reapAction, reapStatus, transferred>>
      /\ NumUrbs(t)' = N /\ urbs'[t] = d /\ \A x \in Transfers : x # t => urbs'[x] = urbs[x]
  BY <1>1, <1>u DEF KernelComplete, askVars, privVars, NumUrbs, TypeInv, BaseTypes
<1>3. /\ DOMAIN u.at = 1..N /\ InKernel(u) \subseteq 1..N /\ i \in 1..N /\ i \in InKernel(u)
      /\ u.at[i] \in {"flying", "halted"} /\ u.moved \in Nat /\ u.told \subseteq Errors
      /\ \A j \in 1..N : j \in InKernel(u) <=> u.at[j] \in {"flying", "halted"}
  BY <1>u, UrbsTyped DEF InKernel, NumUrbs
<1>4. /\ completed \in Seq(Entries) /\ ToSet(completed') = ToSet(completed) \cup {e}
      /\ IsInjective(completed) /\ e \notin ToSet(completed) => IsInjective(completed')
      /\ \A x : InOrder(completed, x) /\ (e.t = x => \A f \in ToSet(completed) : f.t = x => f.i < e.i)
                        => InOrder(completed', x)
  BY <1>1, <1>e, OneMore, UrbsTyped
<1>5. /\ Waiting(t)' = Waiting(t) \cup {e}
      /\ \A x : x # t => Waiting(x)' = Waiting(x)
  <2>1. /\ \A f \in {e} : f.t = t
        /\ \A f : f \in ToSet(completed') <=> f \in ToSet(completed) \/ f \in {e}
    BY <1>4, <1>e
  <2> QED BY <2>1, WaitingMore
<1>6. /\ \A f \in Waiting(t) : f.i \in 1..N /\ u.at[f.i] = "done" /\ f.i # i
      /\ \A f \in ToSet(completed) : f.t = t => f \in Waiting(t)
      /\ e \notin ToSet(completed)
  <2>1. \A f \in ToSet(completed) : f.t = t => f \in Waiting(t)
    BY DEF Waiting
  <2>2. \A f \in Waiting(t) : f.i \in 1..N /\ u.at[f.i] = "done" /\ f.i # i
    BY <1>u, <1>3 DEF Sound, UrbsKept
  <2> QED BY <1>e, <2>1, <2>2
<1>7. allocated[t]
  BY <1>u, <1>3 DEF Sound, UrbsKept, Outstanding
<1>8. reapAction[t] \in {"NORMAL", "COMPLETED_EARLY"}
  BY <1>u, <1>3, <1>7 DEF Sound, Stopped, TypeInv, BaseTypes, ReapActions
<1>9. \A j \in 1..N : /\ d.at[j] = "none" <=> u.at[j] = "none"
                      /\ d.at[j] = "done" <=> j = i \/ u.at[j] = "done"
                      /\ d.at[j] = "halted" => j # i /\ (u.at[j] = "halted" \/ (u.at[j] = "flying" /\ type[t] = "BULK"))
  BY <1>1, <1>3
<1>10. UrbsKept(t)'
  <2>1. \A f \in Waiting(t)' : f.i \in 1..N /\ d.at[f.i] = "done"
    BY <1>3, <1>5, <1>6, <1>9, <1>e
  <2>2. \A f, g \in Waiting(t)' : f.i = g.i => f = g
    BY <1>5, <1>6, <1>e DEF Sound, UrbsKept
  <2>3. \A j \in 1..N : d.at[j] = "done" => \E f \in Waiting(t)' : f.i = j
    BY <1>u, <1>5, <1>9, <1>e DEF Sound, UrbsKept
  <2> QED BY <1>2, <1>7, <2>1, <2>2, <2>3 DEF UrbsKept
<1>11. Counted(t)'
  <2>1. Outstanding(t)' = Outstanding(t)
    BY <1>u, <1>2, <1>9 DEF Outstanding
  <2> QED BY <1>u, <1>2, <2>1 DEF Sound, Counted
<1>12. Ordered(t)'
  <2> SUFFICES ASSUME reapAction[t] = "NORMAL"
               PROVE  /\ InOrder(completed', t)
                      /\ \A f \in Waiting(t)', j \in InKernel(d) : f.i < j
    BY <1>2 DEF Ordered
  <2>1. InOrder(completed, t) /\ \A f \in Waiting(t), j \in InKernel(u) : f.i < j
    BY <1>u, <1>7 DEF Sound, Ordered
  <2>2. InOrder(completed', t)
    BY <1>3, <1>4, <1>6, <1>e, <2>1
  <2>3. \A j \in InKernel(d) : j \in InKernel(u) /\ i < j
    BY <1>1, <1>3
  <2> QED BY <1>5, <1>e, <2>1, <2>2, <2>3
<1>13. Stopped(t)'
  BY <1>2, <1>8 DEF Stopped
<1>14. DataKept(t)'
  <2>1. Cardinality(PendingOf(N, Waiting(t) \cup {e})) = Cardinality(PendingOf(N, Waiting(t))) + n
    <3>1. e.i \in 1..N /\ e.len \in {0, 1} /\ \A f \in Waiting(t) : f.i # e.i
      BY <1>3, <1>6, <1>e
    <3> QED BY <1>e, <3>1, PendingMore
  <2>2. Pending(t)' = PendingOf(N, Waiting(t) \cup {e}) /\ Pending(t) = PendingOf(N, Waiting(t))
    BY <1>u, <1>2, <1>5 DEF Pending
  <2>3. Cardinality(PendingOf(N, Waiting(t))) \in Nat /\ transferred[t] \in Nat
    BY PendingFinite DEF TypeInv, BaseTypes
  <2>4. type[t] # "ISOCHRONOUS" => u.moved = transferred[t] + Cardinality(Pending(t))
    BY <1>u, <1>7 DEF Sound, DataKept
  <2>5. type[t] # "ISOCHRONOUS" => d.moved = transferred[t] + Cardinality(PendingOf(N, Waiting(t) \cup {e}))
    BY <1>1, <1>3, <2>1, <2>2, <2>3, <2>4
  <2> QED BY <1>2, <2>2, <2>5 DEF DataKept
<1>15. EntriesMean(t)'
  <2>1. \A f \in Waiting(t) :
         /\ f.status \in Errors => f.status \in d.told
         /\ f.status = "shutdown" => ~plugged
         /\ f.status = "overflow" => f.i = N
         /\ f.status = "remoteio" => Continued(t) /\ f.i < N /\ f.len = 0
         /\ f.status = "ok" /\ f.len = 0 => type[t] = "BULK" /\ ~(continuation /\ f.i < N)
         /\ f.status = "unlinked" /\ reapAction[t] = "NORMAL" => type[t] # "CONTROL" /\ f.i > 1
    BY <1>u, <1>1 DEF Sound, EntriesMean
  <2>2. \A j \in InKernel(u) : u.at[j] = "halted" => type[t] = "BULK" /\ j > 1
    BY <1>u DEF Sound, EntriesMean
  <2>3. /\ s \in Errors => s \in d.told
        /\ s # "shutdown"
        /\ s = "overflow" => i = N
        /\ s = "remoteio" => Continued(t) /\ i < N /\ n = 0
        /\ s = "ok" /\ n = 0 => type[t] = "BULK" /\ ~(continuation /\ i < N)
        /\ s = "unlinked" => type[t] # "CONTROL" /\ i > 1
    BY <1>1, <1>3, <2>2 DEF Continued
  <2>4. \A j \in InKernel(d) : d.at[j] = "halted" => type[t] = "BULK" /\ j > 1
    <3>1. \A j \in InKernel(d) : j \in InKernel(u) /\ j \in 1..N /\ i < j /\ i >= 1
      BY <1>1, <1>3
    <3>2. \A j \in InKernel(d) : j > 1
      BY <1>3, <3>1
    <3> QED BY <1>9, <2>2, <3>1, <3>2
  <2>5. Continued(t)' = Continued(t)
    BY <1>2 DEF Continued
  <2>6. \A f \in Waiting(t)' :
         /\ f.status \in Errors => f.status \in d.told
         /\ f.status = "shutdown" => ~plugged
         /\ f.status = "overflow" => f.i = N
         /\ f.status = "remoteio" => Continued(t) /\ f.i < N /\ f.len = 0
         /\ f.status = "ok" /\ f.len = 0 => type[t] = "BULK" /\ ~(continuation /\ f.i < N)
         /\ f.status = "unlinked" /\ reapAction[t] = "NORMAL" => type[t] # "CONTROL" /\ f.i > 1
    BY <1>5, <1>e, <2>1, <2>3
  <2> QED BY <1>2, <2>4, <2>5, <2>6 DEF EntriesMean
<1>16. FailuresKept(t)'
  <2>0. PICK F, G : F = {f.status : f \in Waiting(t)} /\ G = {f.status : f \in Waiting(t)'}
    OBVIOUS
  <2>1. G = F \cup {s}
    BY <1>5, <1>e, <2>0
  <2>2. /\ "refused" \in u.told => reapAction[t] \in {"SUBMIT_FAILED", "CANCELLED"}
        /\ type[t] = "CONTROL" => u.told \subseteq F
        /\ Continued(t) /\ reapAction[t] = "NORMAL" /\ reapStatus[t] = "COMPLETED" => u.told \subseteq F
        /\ Continued(t) /\ reapAction[t] = "COMPLETED_EARLY" => u.told = {} \/ reapStatus[t] # "COMPLETED"
        /\ Continued(t) /\ reapAction[t] = "COMPLETED_EARLY" =>
              F \cap Errors = {} /\ \A j \in InKernel(u) : u.at[j] = "halted"
    BY <1>u, <1>7, <2>0, Zenon DEF Sound, FailuresKept
  <2>3. s # "refused" /\ s \in UrbStatus
    BY DEF UrbStatus
  <2>4. Continued(t) /\ reapAction[t] = "COMPLETED_EARLY" => s = "unlinked" /\ s \notin Errors
    BY <1>1, <1>3, <2>2 DEF Errors
  <2>5. Continued(t) /\ reapAction[t] = "COMPLETED_EARLY" =>
              G \cap Errors = {} /\ \A j \in InKernel(d) : d.at[j] = "halted"
    <3> SUFFICES ASSUME Continued(t), reapAction[t] = "COMPLETED_EARLY"
                 PROVE  G \cap Errors = {} /\ \A j \in InKernel(d) : d.at[j] = "halted"
      OBVIOUS
    <3>1. G \cap Errors = {}
      BY <2>1, <2>2, <2>4
    <3>2. \A j \in InKernel(d) : j \in 1..N /\ j # i /\ u.at[j] = "halted"
      BY <1>1, <1>3, <2>2
    <3> QED BY <1>1, <3>1, <3>2
  <2>6. /\ "refused" \in d.told => reapAction[t] \in {"SUBMIT_FAILED", "CANCELLED"}
        /\ type[t] = "CONTROL" => d.told \subseteq G
        /\ Continued(t) /\ reapAction[t] = "NORMAL" /\ reapStatus[t] = "COMPLETED" => d.told \subseteq G
        /\ Continued(t) /\ reapAction[t] = "COMPLETED_EARLY" => d.told = {} \/ reapStatus[t] # "COMPLETED"
    BY <1>1, <2>1, <2>2, <2>3, <2>4
  <2>7. Continued(t)' = Continued(t)
    BY <1>2 DEF Continued
  <2> QED BY <1>2, <2>0, <2>5, <2>6, <2>7, Zenon DEF FailuresKept
<1>17. ASSUME NEW x \in Transfers, x # t, Sound(x) PROVE Sound(x)'
  <2>1. InOrder(completed, x) => InOrder(completed', x)
    BY <1>4, <1>e, <1>17
  <2>2. urbs'[x] = urbs[x] /\ Waiting(x)' = Waiting(x)
    BY <1>2, <1>5, <1>17
  <2>3. Ending(x)' \/ Calling(x)' => Ending(x) \/ Calling(x)
    BY <1>2 DEF Ending, Calling
  <2> QED BY <1>2, <1>17, <2>1, <2>2, <2>3, Untouched
<1>18. Halting(t)'
  <2> SUFFICES ASSUME Continued(t), reapAction[t] = "NORMAL"
               PROVE  /\ \A f, g \in Waiting(t)' : f.status \in Stops \cup {"unlinked"} /\ f.i < g.i =>
                            g.status \in {"unlinked", "shutdown"}
                      /\ \A f \in Waiting(t)' : f.status \in Stops \cup {"unlinked"} =>
                            \A j \in InKernel(d) : d.at[j] = "halted"
                      /\ \A f \in Waiting(t)' : f.status = "unlinked" => Stopping(t, f.i)'
                      /\ \A j \in InKernel(d) : d.at[j] = "halted" => \E f \in Waiting(t)' : f.status \in Stops
    BY <1>2 DEF Halting, Continued
  <2>1. /\ \A f, g \in Waiting(t) : f.status \in Stops \cup {"unlinked"} /\ f.i < g.i =>
                            g.status \in {"unlinked", "shutdown"}
        /\ \A f \in Waiting(t) : f.status \in Stops \cup {"unlinked"} =>
                            \A j \in InKernel(u) : u.at[j] = "halted"
        /\ \A f \in Waiting(t) : f.status = "unlinked" => Stopping(t, f.i)
        /\ \A j \in InKernel(u) : u.at[j] = "halted" => \E f \in Waiting(t) : f.status \in Stops
    BY <1>u, <1>7 DEF Sound, Halting
  <2>2. \A f \in Waiting(t) : f.i < i
    BY <1>u, <1>3, <1>7 DEF Sound, Ordered
  <2>3. \A j : Stopping(t, j) => Stopping(t, j)'
    BY <1>2, <1>5 DEF Stopping
  <2>4. \A j \in InKernel(d) : j \in InKernel(u) /\ j \in 1..N /\ j # i
    BY <1>1, <1>3
  <2>5. s = "unlinked" => u.at[i] = "halted" /\ \E f \in Waiting(t) : f.status \in Stops
    BY <1>1, <1>3, <2>1
  <2>6. (\E f \in Waiting(t) : f.status \in Stops \cup {"unlinked"}) => s = "unlinked"
    BY <1>1, <1>3, <2>1
  <2>7. ASSUME NEW f \in Waiting(t)', NEW g \in Waiting(t)', f.status \in Stops \cup {"unlinked"}, f.i < g.i
        PROVE  g.status \in {"unlinked", "shutdown"}
    <3>1. CASE g = e
      <4>1. f \in Waiting(t)
        BY <1>3, <1>5, <1>e, <2>7, <3>1
      <4> QED BY <1>e, <2>6, <2>7, <3>1, <4>1
    <3>2. CASE g \in Waiting(t)
      <4>1. g.i < i /\ g.i \in 1..N
        BY <1>6, <2>2, <3>2
      <4>2. f \in Waiting(t)
        BY <1>3, <1>5, <1>e, <2>7, <4>1
      <4> QED BY <2>1, <2>7, <3>2, <4>2
    <3> QED BY <1>5, <3>1, <3>2
  <2>8. ASSUME NEW f \in Waiting(t)', f.status \in Stops \cup {"unlinked"}, NEW j \in InKernel(d)
        PROVE  d.at[j] = "halted"
    <3>1. CASE f \in Waiting(t) \/ s = "unlinked"
      <4>1. u.at[j] = "halted"
        BY <2>1, <2>4, <2>5, <2>8, <3>1
      <4> QED BY <1>1, <2>4, <4>1
    <3>2. CASE s \in Stops
      <4>1. type[t] = "BULK" /\ continuation /\ u.at[j] \in {"flying", "halted"}
        BY <1>3, <2>4 DEF Continued
      <4> QED BY <1>1, <2>4, <3>2, <4>1 DEF Stops
    <3> QED BY <1>5, <1>e, <2>8, <3>1, <3>2
  <2>9. ASSUME NEW f \in Waiting(t)', f.status = "unlinked" PROVE Stopping(t, f.i)'
    <3>1. CASE f \in Waiting(t)
      BY <2>1, <2>3, <2>9, <3>1
    <3>2. CASE f = e
      BY <1>5, <1>e, <2>2, <2>5, <2>9, <3>2 DEF Stopping
    <3> QED BY <1>5, <3>1, <3>2
  <2>10. ASSUME NEW j \in InKernel(d), d.at[j] = "halted" PROVE \E f \in Waiting(t)' : f.status \in Stops
    <3>1. CASE s \in Stops
      BY <1>5, <1>e, <3>1
    <3>2. CASE s \notin Stops
      <4>1. u.at[j] = "halted"
        BY <1>1, <2>4, <2>10, <3>2 DEF Stops
      <4> QED BY <1>5, <2>1, <2>4, <4>1
    <3> QED BY <3>1, <3>2
  <2> QED BY <2>7, <2>8, <2>9, <2>10
<1> QED BY <1>4, <1>6, <1>10, <1>11, <1>12, <1>13, <1>14, <1>15, <1>16, <1>17, <1>18 DEF Sound

LEMMA UnplugSound ==
    ASSUME TypeInv, IsInjective(completed), \A x \in Transfers : Sound(x), Unplug
    PROVE  /\ IsInjective(completed')
           /\ \A x \in Transfers : Sound(x)' /\ InKernel(urbs[x])' = {}
<1>1. /\ completed' \in Seq(Entries)
      /\ \A e : e \in ToSet(completed') <=>
            \/ e \in ToSet(completed)
            \/ \E x \in Transfers : \E i \in InKernel(urbs[x]) : e = Done(x, i, "shutdown", 0)
      /\ IsInjective(completed) /\ (\A e \in ToSet(completed) : e.i \notin InKernel(urbs[e.t]))
            => IsInjective(completed')
      /\ \A x : /\ InOrder(completed, x)
                /\ \A e \in ToSet(completed), j \in InKernel(urbs[x]) : e.t = x => e.i < j
            => InOrder(completed', x)
  BY Unplugging
<1>2. /\ UNCHANGED <<continuation, type, ev, allocated, numRetired, reapAction, reapStatus, transferred>>
      /\ plugged' = FALSE
  BY DEF Unplug, askVars, privVars
<1>3. IsInjective(completed')
  <2>1. ASSUME NEW e \in ToSet(completed) PROVE e.i \notin InKernel(urbs[e.t])
    <3>1. e.t \in Transfers
      <4>1. completed \in Seq(Entries)
        BY DEF TypeInv, BaseTypes
      <4>2. e \in Entries
        BY <4>1, MembersOf
      <4> QED BY <4>2 DEF Entries
    <3>2. e \in Waiting(e.t)
      BY DEF Waiting
    <3> QED BY <3>1, <3>2 DEF Sound, UrbsKept, InKernel
  <2> QED BY <1>1, <2>1
<1> SUFFICES ASSUME NEW t \in Transfers PROVE Sound(t)' /\ InKernel(urbs[t])' = {}
  BY <1>3
<1>u. PICK u \in UrbTypes, N \in Nat \ {0} : u = urbs[t] /\ N = NumUrbs(t)
  BY UrbsTyped
<1>4. PICK d : d = UrbsOf([i \in DOMAIN u.at |-> IF i \in InKernel(u) THEN "done" ELSE u.at[i]], u.moved, u.told)
  OBVIOUS
<1>5. /\ urbs'[t] = d /\ NumUrbs(t)' = N /\ Continued(t)' = Continued(t)
      /\ DOMAIN u.at = 1..N /\ InKernel(u) \subseteq 1..N
      /\ \A i \in 1..N : d.at[i] = IF i \in InKernel(u) THEN "done" ELSE u.at[i]
      /\ DOMAIN d.at = 1..N /\ d.moved = u.moved /\ d.told = u.told
  <2>1. urbs'[t] = d
    BY <1>u, <1>4 DEF Unplug
  <2>2. DOMAIN u.at = 1..N /\ InKernel(u) \subseteq 1..N
    BY <1>u, UrbsTyped
  <2>3. d.at = [i \in DOMAIN u.at |-> IF i \in InKernel(u) THEN "done" ELSE u.at[i]]
        /\ d.moved = u.moved /\ d.told = u.told
    BY <1>4 DEF UrbsOf
  <2> QED BY <1>u, <1>2, <2>1, <2>2, <2>3 DEF NumUrbs, Continued
<1>6. \A i \in 1..N : /\ i \in InKernel(u) <=> u.at[i] \in {"flying", "halted"}
                      /\ d.at[i] = "none" <=> u.at[i] = "none"
                      /\ d.at[i] = "done" <=> u.at[i] = "done" \/ i \in InKernel(u)
  BY <1>5 DEF InKernel
<1>7. InKernel(d) = {}
  BY <1>5 DEF InKernel
<1>8. \A e : e \in Waiting(t)' <=> e \in Waiting(t) \/ \E i \in InKernel(u) : e = Done(t, i, "shutdown", 0)
  <2>1. \A x, i : Done(x, i, "shutdown", 0).t = x
    BY DEF Done
  <2>2. Waiting(t)' = {e \in ToSet(completed') : e.t = t}
    BY DEF Waiting
  <2> QED BY <1>1, <1>u, <2>1, <2>2 DEF Waiting
<1>9. \A e \in Waiting(t)' :
         \/ e \in Waiting(t)
         \/ e.i \in InKernel(u) /\ e.status = "shutdown" /\ e.len = 0 /\ e = Done(t, e.i, "shutdown", 0)
  BY <1>8 DEF Done
<1>10. \A e \in Waiting(t) : e \in Waiting(t)' /\ e.i \in 1..N /\ e.i \notin InKernel(u) /\ u.at[e.i] = "done"
  BY <1>u, <1>6, <1>8 DEF Sound, UrbsKept
<1>11. UrbsKept(t)'
  <2>1. \A e \in Waiting(t)' : e.i \in 1..N /\ d.at[e.i] = "done"
    BY <1>5, <1>6, <1>9, <1>10
  <2>2. \A e, f \in Waiting(t)' : e.i = f.i => e = f
    BY <1>9, <1>10 DEF Sound, UrbsKept
  <2>3. ASSUME NEW i \in 1..N, d.at[i] = "done" PROVE \E e \in Waiting(t)' : e.i = i
    <3>1. CASE u.at[i] = "done"
      BY <1>u, <1>10, <3>1 DEF Sound, UrbsKept
    <3>2. CASE i \in InKernel(u)
      <4>1. Done(t, i, "shutdown", 0) \in Waiting(t)' /\ Done(t, i, "shutdown", 0).i = i
        BY <1>8, <3>2 DEF Done
      <4> QED BY <4>1
    <3> QED BY <1>6, <2>3, <3>1, <3>2
  <2>4. Outstanding(t)' = Outstanding(t)
    BY <1>u, <1>5, <1>6 DEF Outstanding
  <2> QED BY <1>2, <1>5, <2>1, <2>2, <2>3, <2>4 DEF Sound, UrbsKept
<1>12. Counted(t)'
  <2>1. Outstanding(t)' = Outstanding(t)
    BY <1>u, <1>5, <1>6 DEF Outstanding
  <2> QED BY <1>u, <1>2, <1>5, <2>1 DEF Sound, Counted
<1>13. Ordered(t)'
  <2> SUFFICES ASSUME allocated[t], reapAction[t] = "NORMAL" PROVE InOrder(completed', t)
    BY <1>2, <1>5, <1>7 DEF Ordered
  <2>1. InOrder(completed, t) /\ \A e \in Waiting(t), j \in InKernel(urbs[t]) : e.i < j
    BY DEF Sound, Ordered
  <2>2. \A e \in ToSet(completed) : e.t = t => e \in Waiting(t)
    BY DEF Waiting
  <2> QED BY <1>1, <2>1, <2>2
<1>14. Stopped(t)'
  BY <1>5, <1>7 DEF Stopped
<1>15. DataKept(t)'
  <2>1. Pending(t)' = Pending(t)
    <3>1. PendingOf(N, Waiting(t)') = PendingOf(N, Waiting(t))
      BY <1>9, <1>10 DEF PendingOf
    <3> QED BY <1>u, <1>5, <3>1 DEF Pending
  <2> QED BY <1>u, <1>2, <1>5, <2>1 DEF Sound, DataKept, Ending, Calling
<1>16. EntriesMean(t)'
  <2>1. \A e \in Waiting(t)' :
         /\ e.status \in Errors => e.status \in d.told
         /\ e.status = "overflow" => e.i = N
         /\ e.status = "remoteio" => Continued(t) /\ e.i < N /\ e.len = 0
         /\ e.status = "ok" /\ e.len = 0 => type[t] = "BULK" /\ ~(continuation /\ e.i < N)
         /\ e.status = "unlinked" /\ reapAction[t] = "NORMAL" => type[t] # "CONTROL" /\ e.i > 1
    BY <1>u, <1>5, <1>9 DEF Sound, EntriesMean, Errors
  <2> QED BY <1>2, <1>5, <1>7, <2>1 DEF EntriesMean
<1>17. FailuresKept(t)'
  <2>0. PICK F, G : F = {e.status : e \in Waiting(t)} /\ G = {e.status : e \in Waiting(t)'}
    OBVIOUS
  <2>1. F \subseteq G /\ G \subseteq F \cup {"shutdown"}
    BY <1>9, <1>10, <2>0
  <2>2. allocated[t] =>
        /\ "refused" \in u.told => reapAction[t] \in {"SUBMIT_FAILED", "CANCELLED"}
        /\ type[t] = "CONTROL" => u.told \subseteq F
        /\ Continued(t) /\ reapAction[t] = "NORMAL" /\ reapStatus[t] = "COMPLETED" => u.told \subseteq F
        /\ Continued(t) /\ reapAction[t] = "COMPLETED_EARLY" => u.told = {} \/ reapStatus[t] # "COMPLETED"
        /\ Continued(t) /\ reapAction[t] = "COMPLETED_EARLY" => F \cap Errors = {}
    BY <1>u, <2>0, Zenon DEF Sound, FailuresKept
  <2>3. allocated[t] =>
        /\ "refused" \in d.told => reapAction[t] \in {"SUBMIT_FAILED", "CANCELLED"}
        /\ type[t] = "CONTROL" => d.told \subseteq G
        /\ Continued(t) /\ reapAction[t] = "NORMAL" /\ reapStatus[t] = "COMPLETED" => d.told \subseteq G
        /\ Continued(t) /\ reapAction[t] = "COMPLETED_EARLY" => d.told = {} \/ reapStatus[t] # "COMPLETED"
        /\ Continued(t) /\ reapAction[t] = "COMPLETED_EARLY" => G \cap Errors = {}
    BY <1>5, <2>1, <2>2 DEF Errors
  <2> QED BY <1>2, <1>5, <1>7, <2>0, <2>3 DEF FailuresKept
<1>18. Halting(t)'
  <2> SUFFICES ASSUME allocated[t], Continued(t), reapAction[t] = "NORMAL"
               PROVE  /\ \A f, g \in Waiting(t)' : f.status \in Stops \cup {"unlinked"} /\ f.i < g.i =>
                            g.status \in {"unlinked", "shutdown"}
                      /\ \A f \in Waiting(t)' : f.status = "unlinked" => Stopping(t, f.i)'
    BY <1>2, <1>5, <1>7 DEF Halting
  <2>1. /\ \A f, g \in Waiting(t) : f.status \in Stops \cup {"unlinked"} /\ f.i < g.i =>
                            g.status \in {"unlinked", "shutdown"}
        /\ \A f \in Waiting(t) : f.status = "unlinked" => Stopping(t, f.i)
    BY DEF Sound, Halting
  <2>2. \A f \in Waiting(t)' : f \in Waiting(t) \/ f.status = "shutdown"
    BY <1>9
  <2>3. \A j : Stopping(t, j) => Stopping(t, j)'
    BY <1>2, <1>10 DEF Stopping
  <2> QED BY <2>1, <2>2, <2>3 DEF Stops
<1> QED BY <1>5, <1>7, <1>11, <1>12, <1>13, <1>14, <1>15, <1>16, <1>17, <1>18 DEF Sound

LEMMA CancelSound ==
    ASSUME TypeInv, IsInjective(completed), NEW t \in Transfers, Sound(t), op_cancel_transfer(t)
    PROVE  /\ Sound(t)' /\ IsInjective(completed')
           /\ ~plugged /\ InKernel(urbs[t]) = {} => InKernel(urbs[t])' = {}
           /\ \A x \in Transfers : x # t => urbs'[x] = urbs[x] /\ (Sound(x) => Sound(x)')
           /\ urbs'[t].told = urbs[t].told
<1>1. /\ UNCHANGED <<continuation, plugged, type, ev, allocated, numRetired, reapStatus, transferred>>
      /\ reapAction' = [reapAction EXCEPT ![t] = IF type[t] = "BULK" /\ @ = "ERROR" THEN @ ELSE "CANCELLED"]
  BY DEF op_cancel_transfer, askVars
<1>2. /\ reapAction'[t] \in {"CANCELLED", "ERROR"}
      /\ reapAction'[t] = "ERROR" => reapAction[t] = "ERROR"
      /\ \A x \in Transfers : x # t => reapAction'[x] = reapAction[x]
  BY <1>1 DEF TypeInv, BaseTypes
<1>u. PICK u \in UrbTypes, N \in Nat \ {0} : u = urbs[t] /\ N = NumUrbs(t)
  BY UrbsTyped
<1>3. /\ DOMAIN u.at = 1..N /\ InKernel(u) \subseteq 1..N
      /\ NumUrbs(t)' = N /\ Continued(t)' = Continued(t)
      /\ \A x : Ending(x)' = Ending(x) /\ Calling(x)' = Calling(x)
  BY <1>1, <1>u, UrbsTyped DEF NumUrbs, Continued, Ending, Calling
<1>4. CASE ~allocated[t]
  <2>1. UNCHANGED <<urbs, completed>>
    BY <1>4 DEF op_cancel_transfer
  <2>2. Waiting(t) = {} /\ InKernel(urbs[t]) = {}
    BY <1>4, NoneWaiting DEF Sound
  <2>3. \A x : Waiting(x)' = Waiting(x)
    BY <2>1 DEF Waiting
  <2>4. Outstanding(t)' = Outstanding(t) /\ Pending(t)' = Pending(t)
    BY <1>u, <1>3, <2>1, <2>3 DEF Outstanding, Pending
  <2>5. UrbsKept(t)'
    BY <1>u, <1>1, <1>3, <2>1, <2>3, <2>4 DEF Sound, UrbsKept
  <2>6. Counted(t)' /\ Ordered(t)' /\ Stopped(t)' /\ FailuresKept(t)' /\ Halting(t)'
    BY <1>1, <1>4 DEF Counted, Ordered, Stopped, FailuresKept, Halting
  <2>7. DataKept(t)'
    BY <1>1, <1>3, <2>1, <2>4 DEF Sound, DataKept
  <2>8. EntriesMean(t)'
    BY <2>1, <2>2, <2>3 DEF EntriesMean
  <2>9. ASSUME NEW x \in Transfers, x # t, Sound(x) PROVE Sound(x)'
    <3>1. InOrder(completed, x) => InOrder(completed', x)
      BY <2>1
    <3> QED BY <1>1, <1>2, <1>3, <2>1, <2>3, <2>9, <3>1, Untouched
  <2> QED BY <2>1, <2>2, <2>5, <2>6, <2>7, <2>8, <2>9 DEF Sound
<1>5. CASE allocated[t]
  <2>1. PICK n \in [InKernel(u) -> {0, 1}], d \in UrbTypes : CancelledUrbs(t, n, d)
    BY <1>5, <1>u, CancelStep
  <2>2. /\ urbs' = [urbs EXCEPT ![t] = d]
        /\ \A e : e \in ToSet(completed') <=>
              e \in ToSet(completed) \/ \E i \in InKernel(u) : e = Done(t, i, "unlinked", n[i])
        /\ IsInjective(completed) /\ (\A e \in ToSet(completed) : e.t = t => e.i \notin InKernel(u))
              => IsInjective(completed')
        /\ \A x : x # t /\ InOrder(completed, x) => InOrder(completed', x)
    BY <1>u, <2>1 DEF CancelledUrbs, Discarded
  <2>3. /\ DOMAIN d.at = 1..N /\ d.told = u.told /\ d.moved = u.moved + Units(InKernel(u), n)
        /\ InKernel(d) = {} /\ \A i \in 1..N : d.at[i] = IF i \in InKernel(u) THEN "done" ELSE u.at[i]
    BY <1>u, <2>1 DEF CancelledUrbs, AfterDiscard
  <2>4. urbs'[t] = d /\ \A x \in Transfers : x # t => urbs'[x] = urbs[x]
    BY <2>2 DEF TypeInv, BaseTypes
  <2>5. \A i \in 1..N : /\ i \in InKernel(u) <=> u.at[i] \in {"flying", "halted"}
                        /\ d.at[i] = "none" <=> u.at[i] = "none"
                        /\ d.at[i] = "done" <=> u.at[i] = "done" \/ i \in InKernel(u)
    BY <1>3, <2>3 DEF InKernel
  <2>6. PICK M : \A e : e \in M <=> \E i \in InKernel(u) : e = Done(t, i, "unlinked", n[i])
    <3>1. \A e : e \in {Done(t, i, "unlinked", n[i]) : i \in InKernel(u)} <=>
                    \E i \in InKernel(u) : e = Done(t, i, "unlinked", n[i])
      OBVIOUS
    <3> QED BY <3>1
  <2>7. /\ \A e \in M : e.t = t /\ e.i \in InKernel(u) /\ e.status = "unlinked" /\ e.len = n[e.i]
                        /\ e = Done(t, e.i, "unlinked", n[e.i])
        /\ \A i \in InKernel(u) : \E e \in M : e.i = i
    <3>1. \A i \in InKernel(u) : Done(t, i, "unlinked", n[i]) \in M /\ Done(t, i, "unlinked", n[i]).i = i
      BY <2>6 DEF Done
    <3>2. \A e \in M : e.t = t /\ e.i \in InKernel(u) /\ e.status = "unlinked" /\ e.len = n[e.i]
                        /\ e = Done(t, e.i, "unlinked", n[e.i])
      BY <2>6 DEF Done
    <3> QED BY <3>1, <3>2
  <2>8. Waiting(t)' = Waiting(t) \cup M /\ \A x : x # t => Waiting(x)' = Waiting(x)
    <3>1. \A e : e \in ToSet(completed') <=> e \in ToSet(completed) \/ e \in M
      BY <2>2, <2>6
    <3>2. \A e \in M : e.t = t
      BY <2>7
    <3> QED BY <3>1, <3>2, WaitingMore
  <2>9. /\ \A e \in Waiting(t) : e.i \in 1..N /\ e.i \notin InKernel(u) /\ u.at[e.i] = "done"
        /\ \A e \in ToSet(completed) : e.t = t => e \in Waiting(t)
    <3>1. \A e \in Waiting(t) : e.i \in 1..N /\ e.i \notin InKernel(u) /\ u.at[e.i] = "done"
      BY <1>u, <2>5 DEF Sound, UrbsKept
    <3> QED BY <3>1 DEF Waiting
  <2>10. IsInjective(completed')
    BY <2>2, <2>9
  <2>11. UrbsKept(t)'
    <3>1. \A e \in Waiting(t)' : e.i \in 1..N /\ d.at[e.i] = "done"
      BY <1>3, <2>5, <2>7, <2>8, <2>9
    <3>2. \A e, f \in Waiting(t)' : e.i = f.i => e = f
      BY <2>7, <2>8, <2>9 DEF Sound, UrbsKept
    <3>3. \A i \in 1..N : d.at[i] = "done" => \E e \in Waiting(t)' : e.i = i
      BY <1>u, <2>5, <2>7, <2>8 DEF Sound, UrbsKept
    <3> QED BY <1>1, <1>3, <1>5, <2>4, <3>1, <3>2, <3>3 DEF UrbsKept
  <2>12. Counted(t)'
    <3>1. Outstanding(t)' = Outstanding(t)
      BY <1>u, <1>3, <2>4, <2>5 DEF Outstanding
    <3> QED BY <1>u, <1>1, <1>3, <3>1 DEF Sound, Counted
  <2>13. Ordered(t)' /\ Stopped(t)' /\ Halting(t)'
    BY <1>2, <2>3, <2>4 DEF Ordered, Stopped, Halting
  <2>14. DataKept(t)'
    <3>1. Cardinality(PendingOf(N, Waiting(t) \cup M))
             = Cardinality(PendingOf(N, Waiting(t))) + Units(InKernel(u), n)
      <4>1. InKernel(u) \in SUBSET (1..N) /\ n \in [InKernel(u) -> {0, 1}]
        BY <1>3, <2>1
      <4>2. PICK V, W : V = Waiting(t) /\ W = Waiting(t) \cup M
        OBVIOUS
      <4>3. /\ \A e \in W : e \in V \/ (e.i \in InKernel(u) /\ e.len = n[e.i])
            /\ \A e \in V : e \in W /\ e.i \notin InKernel(u)
            /\ \A i \in InKernel(u) : \E e \in W : e.i = i /\ e.len = n[i]
        BY <2>7, <2>9, <4>2
      <4>4. Cardinality(PendingOf(N, W)) = Cardinality(PendingOf(N, V)) + Units(InKernel(u), n)
        BY <4>1, <4>3, PendingGrows
      <4> QED BY <4>2, <4>4
    <3>2. Pending(t)' = PendingOf(N, Waiting(t) \cup M) /\ Pending(t) = PendingOf(N, Waiting(t))
      BY <1>u, <1>3, <2>8 DEF Pending
    <3>3. Cardinality(PendingOf(N, Waiting(t))) \in Nat /\ transferred[t] \in Nat
          /\ Units(InKernel(u), n) \in Nat
      BY <1>3, PendingFinite, KernelSubset, UnitsCounted DEF TypeInv, BaseTypes
    <3>4. type[t] # "ISOCHRONOUS" => u.moved = transferred[t] + Cardinality(Pending(t))
      BY <1>5, <1>u DEF Sound, DataKept
    <3>5. type[t] # "ISOCHRONOUS" => d.moved = transferred[t] + Cardinality(PendingOf(N, Waiting(t) \cup M))
      BY <2>3, <3>1, <3>2, <3>3, <3>4
    <3> QED BY <1>1, <2>4, <3>2, <3>5 DEF DataKept
  <2>15. EntriesMean(t)'
    <3>1. \A e \in Waiting(t)' :
         /\ e.status \in Errors => e.status \in d.told
         /\ e.status = "shutdown" => ~plugged
         /\ e.status = "overflow" => e.i = N
         /\ e.status = "remoteio" => Continued(t) /\ e.i < N /\ e.len = 0
         /\ e.status = "ok" /\ e.len = 0 => type[t] = "BULK" /\ ~(continuation /\ e.i < N)
      BY <1>u, <2>3, <2>7, <2>8 DEF Sound, EntriesMean, Errors
    <3> QED BY <1>1, <1>2, <1>3, <2>3, <2>4, <3>1 DEF EntriesMean
  <2>16. FailuresKept(t)'
    <3>0. PICK F, G : F = {e.status : e \in Waiting(t)} /\ G = {e.status : e \in Waiting(t)'}
      OBVIOUS
    <3>1. F \subseteq G /\ G \subseteq F \cup {"unlinked"}
      BY <2>7, <2>8, <3>0
    <3>2. /\ "refused" \in u.told => reapAction[t] \in {"SUBMIT_FAILED", "CANCELLED"}
          /\ type[t] = "CONTROL" => u.told \subseteq F
      BY <1>5, <1>u, <3>0, Zenon DEF Sound, FailuresKept
    <3>3. /\ "refused" \in d.told => reapAction'[t] \in {"SUBMIT_FAILED", "CANCELLED"}
          /\ type[t] = "CONTROL" => d.told \subseteq G
      BY <1>2, <2>3, <3>1, <3>2 DEF Errors
    <3> QED BY <1>1, <1>2, <1>3, <2>3, <2>4, <3>0, <3>3 DEF FailuresKept
  <2>17. ASSUME NEW x \in Transfers, x # t, Sound(x) PROVE Sound(x)'
    <3>1. InOrder(completed, x) => InOrder(completed', x)
      BY <2>2, <2>17
    <3>2. urbs'[x] = urbs[x] /\ Waiting(x)' = Waiting(x)
      BY <2>4, <2>8, <2>17
    <3> QED BY <1>1, <1>2, <1>3, <2>17, <3>1, <3>2, Untouched
  <2> QED BY <1>u, <2>3, <2>4, <2>10, <2>11, <2>12, <2>13, <2>14, <2>15, <2>16, <2>17 DEF Sound
<1> QED BY <1>4, <1>5

-----------------------------------------------------------------------------
(* A submission.                                                           *)

\* What a submission leaves alone of the other transfers, and sets of its own.
LEMMA SubmitFrame ==
    ASSUME TypeInv, NEW t \in Transfers, libusb_submit_transfer(t)
    PROVE  /\ UNCHANGED <<continuation, plugged, polled, now, ev, asked>>
           /\ transferred'[t] = 0 /\ reapStatus'[t] = "COMPLETED" /\ timedOut'[t] = FALSE
           /\ \A x \in Transfers : x # t =>
                 /\ urbs'[x] = urbs[x] /\ type'[x] = type[x] /\ user'[x] = user[x]
                 /\ allocated'[x] = allocated[x] /\ numRetired'[x] = numRetired[x]
                 /\ transferred'[x] = transferred[x] /\ reapAction'[x] = reapAction[x]
                 /\ reapStatus'[x] = reapStatus[x] /\ timedOut'[x] = timedOut[x]
                 /\ timeout'[x] = timeout[x] /\ NumUrbs(x)' = NumUrbs(x)
<1>1. /\ UNCHANGED <<continuation, plugged, polled, now, ev, asked>>
      /\ transferred' = [transferred EXCEPT ![t] = 0]
      /\ reapStatus' = [reapStatus EXCEPT ![t] = "COMPLETED"]
      /\ timedOut' = [timedOut EXCEPT ![t] = FALSE]
  BY SubmitBasics
<1>2. PICK k \in Types, l \in Nat, N \in Nat \ {0} :
         /\ type' = [type EXCEPT ![t] = k]
         /\ timeout' = [timeout EXCEPT ![t] = calculate_timeout(t, l)]
         /\ \/ SubmitRefused(t, N)
            \/ SubmitAll(t, N)
            \/ \E i \in 2..N : SubmitSome(t, N, i) \/ SubmitShort(t, N, i)
  BY SubmitBasics
<1>3. \A x \in Transfers : x # t => urbs'[x] = urbs[x]
  <2>1. \E d : urbs' = [urbs EXCEPT ![t] = d]
    <3>1. CASE SubmitRefused(t, N)
      BY <3>1 DEF SubmitRefused
    <3>2. CASE SubmitAll(t, N)
      BY <3>2 DEF SubmitAll
    <3>3. ASSUME NEW i \in 2..N, SubmitSome(t, N, i) PROVE \E d : urbs' = [urbs EXCEPT ![t] = d]
      <4>1. PICK n \in [Before(i) -> {0, 1}], s \in [Before(i) -> {"ok", "unlinked"}], d \in UrbTypes :
               SubmittedSome(t, N, i, n, s, d)
        BY <3>3, SubmitSomeStep
      <4> QED BY <4>1 DEF SubmittedSome
    <3>4. ASSUME NEW i \in 2..N, SubmitShort(t, N, i) PROVE \E d : urbs' = [urbs EXCEPT ![t] = d]
      BY <3>4 DEF SubmitShort
    <3> QED BY <1>2, <3>1, <3>2, <3>3, <3>4
  <2> QED BY <2>1 DEF TypeInv, BaseTypes
<1>4. \A x \in Transfers : x # t => /\ user'[x] = user[x] /\ allocated'[x] = allocated[x]
                                    /\ numRetired'[x] = numRetired[x] /\ reapAction'[x] = reapAction[x]
  <2>1. ASSUME NEW a, NEW r, Submitted(t, a, r)
        PROVE  \A x \in Transfers : x # t => /\ user'[x] = user[x] /\ allocated'[x] = allocated[x]
                                    /\ numRetired'[x] = numRetired[x] /\ reapAction'[x] = reapAction[x]
    BY <2>1 DEF Submitted, TypeInv, BaseTypes
  <2>2. CASE SubmitRefused(t, N)
    BY <2>2 DEF SubmitRefused, TypeInv, BaseTypes
  <2>3. CASE SubmitAll(t, N)
    BY <2>1, <2>3 DEF SubmitAll
  <2>4. CASE \E i \in 2..N : SubmitSome(t, N, i) \/ SubmitShort(t, N, i)
    BY <2>1, <2>4 DEF SubmitSome, SubmitShort
  <2> QED BY <1>2, <2>2, <2>3, <2>4
<1> QED BY <1>1, <1>2, <1>3, <1>4 DEF NumUrbs, TypeInv, BaseTypes

LEMMA SubmitSound ==
    ASSUME TypeInv, IsInjective(completed), NEW t \in Transfers, libusb_submit_transfer(t),
           Sound(t), ~allocated[t], ~Ending(t), ~Calling(t)
    PROVE  /\ Sound(t)' /\ IsInjective(completed')
           /\ \A x \in Transfers : x # t /\ Sound(x) => Sound(x)'
<1>1. /\ UNCHANGED <<continuation, plugged, polled, now, ev, asked>>
      /\ transferred'[t] = 0 /\ reapStatus'[t] = "COMPLETED"
      /\ \A x \in Transfers : x # t =>
                 /\ urbs'[x] = urbs[x] /\ type'[x] = type[x]
                 /\ allocated'[x] = allocated[x] /\ numRetired'[x] = numRetired[x]
                 /\ transferred'[x] = transferred[x] /\ reapAction'[x] = reapAction[x]
                 /\ reapStatus'[x] = reapStatus[x]
  BY SubmitFrame
<1>2. PICK k \in Types, l \in Nat, N \in Nat \ {0} :
         /\ N = Urbs[k] /\ NumUrbs(t)' = N /\ type'[t] = k
         /\ \/ SubmitRefused(t, N)
            \/ SubmitAll(t, N)
            \/ \E i \in 2..N : SubmitSome(t, N, i) \/ SubmitShort(t, N, i)
  BY SubmitBasics
<1>3. Waiting(t) = {} /\ \A x : Ending(x)' = Ending(x) /\ Calling(x)' = Calling(x)
  BY <1>1, NoneWaiting DEF Sound, Ending, Calling
<1>4. ASSUME NEW M, \A e \in M : e.t = t, IsInjective(completed'),
             \A e : e \in ToSet(completed') <=> e \in ToSet(completed) \/ e \in M,
             \A x : x # t /\ InOrder(completed, x) => InOrder(completed', x),
             Sound(t)'
      PROVE  /\ Sound(t)' /\ IsInjective(completed')
             /\ \A x \in Transfers : x # t /\ Sound(x) => Sound(x)'
  <2>1. \A x : x # t => Waiting(x)' = Waiting(x)
    BY <1>4, WaitingMore
  <2>2. ASSUME NEW x \in Transfers, x # t, Sound(x) PROVE Sound(x)'
    <3>1. InOrder(completed, x) => InOrder(completed', x)
      BY <1>4, <2>2
    <3> QED BY <1>1, <1>3, <2>1, <2>2, <3>1, Untouched
  <2> QED BY <1>4, <2>2
<1>5. ASSUME NEW M, \A e \in M : e.t = t,
             \A e : e \in ToSet(completed') <=> e \in ToSet(completed) \/ e \in M
      PROVE  Waiting(t)' = M
  <2>1. Waiting(t)' = Waiting(t) \cup M
    BY <1>5, WaitingMore
  <2> QED BY <1>3, <2>1
<1>6. urbs' \in [Transfers -> UrbTypes] /\ urbs \in [Transfers -> UrbTypes]
      /\ reapAction \in [Transfers -> ReapActions] /\ numRetired \in [Transfers -> Nat]
      /\ allocated \in [Transfers -> BOOLEAN]
  BY SubmitTypes DEF TypeInv, BaseTypes
<1>7. CASE SubmitRefused(t, N)
  <2>1. PICK d : d = FreshUrbs(N, "none")
    OBVIOUS
  <2>2. urbs'[t] = d /\ UNCHANGED <<completed, allocated>>
    BY <1>6, <1>7, <2>1 DEF SubmitRefused, FreshUrbs
  <2>3. \A i \in 1..N : d.at[i] = "none"
    BY <2>1, Fresh
  <2>4. InKernel(d) = {} /\ DOMAIN d.at = 1..N
    BY <2>1, Fresh
  <2>m. PICK M : M = {}
    OBVIOUS
  <2>11. \A e : (e \in ToSet(completed') <=> e \in ToSet(completed) \/ e \in M) /\ e \notin M
    BY <2>2, <2>m
  <2>5. Waiting(t)' = {}
    BY <1>5, <2>m, <2>11
  <2>6. Outstanding(t)' = {}
    BY <1>2, <2>2, <2>3 DEF Outstanding
  <2>7. UrbsKept(t)'
    BY <1>2, <2>2, <2>3, <2>5, <2>6 DEF UrbsKept
  <2>8. Counted(t)' /\ Ordered(t)' /\ Stopped(t)' /\ DataKept(t)' /\ FailuresKept(t)' /\ Halting(t)'
    BY <1>3, <2>2 DEF Counted, Ordered, Stopped, DataKept, FailuresKept, Halting
  <2>9. EntriesMean(t)'
    BY <2>2, <2>4, <2>5 DEF EntriesMean
  <2>10. Sound(t)'
    BY <2>7, <2>8, <2>9 DEF Sound
  <2> QED BY <1>4, <2>2, <2>10, <2>11
<1>8. CASE SubmitAll(t, N)
  <2>1. PICK d : d = FreshUrbs(N, "flying")
    OBVIOUS
  <2>2. urbs'[t] = d /\ UNCHANGED completed /\ allocated'[t] = TRUE /\ numRetired'[t] = 0
        /\ reapAction'[t] = "NORMAL"
    BY <1>6, <1>8, <2>1 DEF SubmitAll, Submitted, FreshUrbs
  <2>3. \A i \in 1..N : d.at[i] = "flying"
    BY <2>1, Fresh
  <2>4. InKernel(d) = 1..N /\ DOMAIN d.at = 1..N /\ d.moved = 0 /\ d.told = {}
    BY <2>1, Fresh
  <2>m. PICK M : M = {}
    OBVIOUS
  <2>11. \A e : (e \in ToSet(completed') <=> e \in ToSet(completed) \/ e \in M) /\ e \notin M
    BY <2>2, <2>m
  <2>5. Waiting(t)' = {} /\ \A e \in ToSet(completed) : e.t # t
    BY <1>3, <1>5, <2>m, <2>11 DEF Waiting
  <2>6. Outstanding(t)' = 1..N
    BY <1>2, <2>2, <2>3 DEF Outstanding
  <2>7. UrbsKept(t)'
    BY <1>2, <2>2, <2>3, <2>5 DEF UrbsKept
  <2>8. Counted(t)'
    <3>1. Cardinality(1..N) = N
      BY FS_Interval
    <3> QED BY <1>2, <2>2, <2>6, <3>1 DEF Counted
  <2>9. Ordered(t)' /\ Stopped(t)'
    <3>1. InOrder(completed', t)
      <4>1. \A m \in DOMAIN completed : completed[m] \in ToSet(completed)
        BY DEF ToSet
      <4> QED BY <2>2, <2>5, <4>1 DEF InOrder
    <3> QED BY <2>2, <2>5, <3>1 DEF Ordered, Stopped
  <2>10. DataKept(t)'
    <3>1. Pending(t)' = {}
      BY <2>5 DEF Pending, PendingOf
    <3>2. Cardinality({}) = 0
      BY FS_EmptySet
    <3> QED BY <1>1, <2>2, <2>4, <3>1, <3>2 DEF DataKept
  <2>12. EntriesMean(t)'
    BY <2>2, <2>3, <2>4, <2>5 DEF EntriesMean
  <2>13. FailuresKept(t)'
    BY <2>2, <2>4, <2>5 DEF FailuresKept
  <2>15. Halting(t)'
    BY <2>2, <2>3, <2>4, <2>5 DEF Halting
  <2>14. Sound(t)'
    BY <2>7, <2>8, <2>9, <2>10, <2>12, <2>13, <2>15 DEF Sound
  <2> QED BY <1>4, <2>2, <2>11, <2>14
<1>9. ASSUME NEW i \in 2..N
      PROVE  /\ IsFiniteSet(Before(i)) /\ Cardinality(Before(i)) = i - 1
             /\ Before(i) \subseteq 1..N /\ 1 \in Before(i)
             /\ \A j \in 1..N : j \in Before(i) <=> j < i
             /\ k # "CONTROL"
  <2>1. i - 1 \in Int /\ Before(i) = 1..i - 1
    BY DEF Before
  <2>2. IsFiniteSet(1..i - 1) /\ Cardinality(1..i - 1) = IF 1 > i - 1 THEN 0 ELSE (i - 1) - 1 + 1
    BY <2>1, FS_Interval
  <2>3. k # "CONTROL"
    BY <1>2, TransferAssumption
  <2> QED BY <2>1, <2>2, <2>3
<1>10. ASSUME NEW i \in 2..N, SubmitSome(t, N, i)
       PROVE  /\ Sound(t)' /\ IsInjective(completed')
              /\ \A x \in Transfers : x # t /\ Sound(x) => Sound(x)'
  <2>1. PICK n \in [Before(i) -> {0, 1}], s \in [Before(i) -> {"ok", "unlinked"}], d \in UrbTypes :
               SubmittedSome(t, N, i, n, s, d)
    BY <1>10, SubmitSomeStep
  <2>2. /\ urbs' = [urbs EXCEPT ![t] = d]
        /\ \A j \in 1..N : d.at[j] = IF j < i THEN "done" ELSE "none"
        /\ d.told = {"refused"} /\ d.moved = Units(Before(i), n) /\ InKernel(d) = {}
        /\ \A j \in Before(i) : s[j] = "ok" => n[j] = 1
        /\ \A e : e \in ToSet(completed') <=>
              e \in ToSet(completed) \/ \E j \in Before(i) : e = Done(t, j, s[j], n[j])
        /\ IsInjective(completed')
        /\ \A x : x # t /\ InOrder(completed, x) => InOrder(completed', x)
    BY <1>3, <2>1 DEF SubmittedSome
  <2>3. urbs'[t] = d /\ allocated'[t] = TRUE /\ numRetired'[t] = N - i + 1 /\ reapAction'[t] = "SUBMIT_FAILED"
    BY <1>6, <1>10, <2>2 DEF SubmitSome, Submitted
  <2>4. PICK M : \A e : e \in M <=> \E j \in Before(i) : e = Done(t, j, s[j], n[j])
    <3>1. \A e : e \in {Done(t, j, s[j], n[j]) : j \in Before(i)} <=> \E j \in Before(i) : e = Done(t, j, s[j], n[j])
      OBVIOUS
    <3> QED BY <3>1
  <2>5. /\ \A e \in M : e.t = t /\ e.i \in Before(i) /\ e.status = s[e.i] /\ e.len = n[e.i]
                        /\ e = Done(t, e.i, s[e.i], n[e.i])
        /\ \A j \in Before(i) : \E e \in M : e.i = j /\ e.len = n[j]
    <3>1. \A j \in Before(i) : Done(t, j, s[j], n[j]) \in M /\ Done(t, j, s[j], n[j]).i = j
                               /\ Done(t, j, s[j], n[j]).len = n[j]
      BY <2>4 DEF Done
    <3>2. \A e \in M : e.t = t /\ e.i \in Before(i) /\ e.status = s[e.i] /\ e.len = n[e.i]
                        /\ e = Done(t, e.i, s[e.i], n[e.i])
      BY <2>4 DEF Done
    <3> QED BY <3>1, <3>2
  <2>6. \A e : e \in ToSet(completed') <=> e \in ToSet(completed) \/ e \in M
    BY <2>2, <2>4
  <2>7. Waiting(t)' = M
    BY <1>5, <2>5, <2>6
  <2>8. Outstanding(t)' = Before(i)
    BY <1>2, <1>9, <2>2, <2>3 DEF Outstanding
  <2>9. UrbsKept(t)'
    <3>1. \A e \in M : e.i \in 1..N /\ d.at[e.i] = "done"
      BY <1>9, <2>2, <2>5
    <3>2. \A e, f \in M : e.i = f.i => e = f
      BY <2>5
    <3>3. \A j \in 1..N : d.at[j] = "done" => \E e \in M : e.i = j
      BY <1>9, <2>2, <2>5
    <3> QED BY <1>2, <2>3, <2>7, <3>1, <3>2, <3>3 DEF UrbsKept
  <2>10. Counted(t)'
    BY <1>2, <1>9, <2>3, <2>8 DEF Counted
  <2>11. Ordered(t)' /\ Stopped(t)' /\ Halting(t)'
    BY <2>2, <2>3 DEF Ordered, Stopped, Halting
  <2>12. DataKept(t)'
    <3>1. PICK V : V = {}
      OBVIOUS
    <3>2. /\ \A e \in M : e \in V \/ (e.i \in Before(i) /\ e.len = n[e.i])
          /\ \A e \in V : e \in M /\ e.i \notin Before(i)
          /\ \A j \in Before(i) : \E e \in M : e.i = j /\ e.len = n[j]
          /\ Before(i) \in SUBSET (1..N)
      BY <1>9, <2>5, <3>1
    <3>3. Cardinality(PendingOf(N, M)) = Cardinality(PendingOf(N, V)) + Units(Before(i), n)
      BY <2>1, <3>2, PendingGrows
    <3>4. PendingOf(N, V) = {} /\ Cardinality({}) = 0
      BY <3>1, FS_EmptySet DEF PendingOf
    <3>5. Pending(t)' = PendingOf(N, M)
      BY <1>2, <2>7 DEF Pending
    <3>6. Units(Before(i), n) \in Nat
      BY <1>9, UnitsCounted
    <3>7. d.moved = 0 + Cardinality(PendingOf(N, M))
      BY <2>2, <3>3, <3>4, <3>6
    <3> QED BY <1>1, <2>3, <3>5, <3>7 DEF DataKept
  <2>13. EntriesMean(t)'
    <3>1. \A e \in M : e.status \in {"ok", "unlinked"} /\ (e.status = "ok" => e.len = 1)
      BY <2>1, <2>2, <2>5
    <3> QED BY <2>2, <2>3, <2>7, <3>1 DEF EntriesMean, Errors
  <2>14. FailuresKept(t)'
    BY <1>2, <1>9, <2>2, <2>3 DEF FailuresKept
  <2>15. Sound(t)'
    BY <2>9, <2>10, <2>11, <2>12, <2>13, <2>14 DEF Sound
  <2> QED BY <1>4, <2>2, <2>5, <2>6, <2>15
<1>11. ASSUME NEW i \in 2..N, SubmitShort(t, N, i)
       PROVE  /\ Sound(t)' /\ IsInjective(completed')
              /\ \A x \in Transfers : x # t /\ Sound(x) => Sound(x)'
  <2>1. PICK d : d = ShortUrbs(N, i)
    OBVIOUS
  <2>2. /\ urbs' = [urbs EXCEPT ![t] = d] /\ DOMAIN d.at = 1..N
        /\ d.moved = 0 /\ d.told = {}
        /\ \A j \in 1..N : d.at[j] = IF j = 1 THEN "done" ELSE IF j < i THEN "halted" ELSE "none"
        /\ Done(t, 1, "remoteio", 0) \in Entries
        /\ completed' = Append(completed, Done(t, 1, "remoteio", 0))
    BY <1>11, <2>1, ShortStep
  <2>3. urbs'[t] = d /\ allocated'[t] = TRUE /\ numRetired'[t] = N - i + 1 /\ reapAction'[t] = "COMPLETED_EARLY"
        /\ continuation /\ type'[t] = "BULK" /\ Continued(t)'
    BY <1>1, <1>6, <1>11, <2>2 DEF SubmitShort, Submitted, Continued
  <2>4. PICK e \in Entries : e = Done(t, 1, "remoteio", 0) /\ e.t = t /\ e.i = 1 /\ e.status = "remoteio" /\ e.len = 0
    BY <2>2 DEF Done
  <2>5. /\ ToSet(completed') = ToSet(completed) \cup {e}
        /\ IsInjective(completed) /\ e \notin ToSet(completed) => IsInjective(completed')
        /\ \A x : InOrder(completed, x) /\ (e.t = x => \A f \in ToSet(completed) : f.t = x => f.i < e.i)
                        => InOrder(completed', x)
    BY <2>2, <2>4, OneMore, UrbsTyped
  <2>6. PICK M : M = {e}
    OBVIOUS
  <2>7. /\ \A f : f \in ToSet(completed') <=> f \in ToSet(completed) \/ f \in M
        /\ \A f \in M : f.t = t /\ f = e
        /\ e \in M
    BY <2>4, <2>5, <2>6
  <2>8. Waiting(t)' = M
    BY <1>5, <2>7
  <2>9. IsInjective(completed')
    BY <1>3, <2>4, <2>5 DEF Waiting
  <2>10. Outstanding(t)' = Before(i)
    <3>1. \A j \in 1..N : d.at[j] # "none" <=> j \in Before(i)
      BY <1>9, <2>2
    <3> QED BY <1>2, <1>9, <2>3, <3>1 DEF Outstanding
  <2>11. UrbsKept(t)'
    BY <1>2, <2>2, <2>3, <2>4, <2>7, <2>8 DEF UrbsKept
  <2>12. Counted(t)'
    BY <1>2, <1>9, <2>3, <2>10 DEF Counted
  <2>13. Ordered(t)' /\ Stopped(t)' /\ Halting(t)'
    BY <2>3 DEF Ordered, Stopped, Halting
  <2>14. DataKept(t)'
    <3>1. Pending(t)' = {}
      BY <2>4, <2>7, <2>8 DEF Pending, PendingOf
    <3>2. Cardinality({}) = 0
      BY FS_EmptySet
    <3> QED BY <1>1, <2>2, <2>3, <3>1, <3>2 DEF DataKept
  <2>15. \A j \in InKernel(d) : d.at[j] = "halted" /\ j > 1
    BY <2>2 DEF InKernel
  <2>16. EntriesMean(t)'
    BY <1>2, <2>3, <2>4, <2>7, <2>8, <2>15 DEF EntriesMean, Errors
  <2>17. FailuresKept(t)'
    <3>1. {f.status : f \in M} = {"remoteio"}
      BY <2>4, <2>7
    <3> QED BY <2>2, <2>3, <2>8, <2>15, <3>1 DEF FailuresKept, Errors
  <2>18. Sound(t)'
    BY <2>11, <2>12, <2>13, <2>14, <2>16, <2>17 DEF Sound
  <2>19. \A x : x # t /\ InOrder(completed, x) => InOrder(completed', x)
    BY <2>4, <2>5
  <2> QED BY <1>4, <2>7, <2>9, <2>18, <2>19
<1> QED BY <1>2, <1>7, <1>8, <1>10, <1>11

-----------------------------------------------------------------------------
(* A callback, and the reap of a URB.                                      *)

LEMMA CallbackSound ==
    ASSUME TypeInv, \A x \in Transfers : Sound(x), Callback, ~allocated[ev.t]
    PROVE  \A x \in Transfers : Sound(x)'
<1>1. /\ UNCHANGED <<continuation, plugged, completed, type, allocated, numRetired, reapAction, reapStatus, transferred>>
      /\ ev.at = "callback" /\ ev' = At(ev.back)
  BY DEF Callback, privVars
<1>2. PICK t \in Transfers : t = ev.t
  BY <1>1 DEF TypeInv, EvTypes
<1>3. /\ urbs'[t].at = urbs[t].at /\ InKernel(urbs[t])' = InKernel(urbs[t])
      /\ urbs'[t].told = {}
      /\ \A x \in Transfers : x # t => urbs'[x] = urbs[x]
  BY <1>2 DEF Callback, UrbsOf, TypeInv, BaseTypes, InKernel
<1>4. \A x : Waiting(x)' = Waiting(x) /\ NumUrbs(x)' = NumUrbs(x)
  BY <1>1 DEF Waiting, NumUrbs
<1>5. ev.back \in {"reap", "disconnect"} /\ ev'.at = ev.back
  BY <1>1 DEF TypeInv, EvTypes, At
<1>6. \A x : ~Ending(x)' /\ ~Calling(x)'
  BY <1>5 DEF Ending, Calling
<1>7. Sound(t)'
  <2>1. Waiting(t) = {} /\ InKernel(urbs[t]) = {}
    BY <1>2, NoneWaiting DEF Sound
  <2>2. Outstanding(t)' = Outstanding(t)
    BY <1>3, <1>4 DEF Outstanding
  <2>3. UrbsKept(t)'
    BY <1>1, <1>3, <1>4, <2>2 DEF Sound, UrbsKept
  <2>4. Counted(t)' /\ Ordered(t)' /\ Stopped(t)' /\ FailuresKept(t)' /\ DataKept(t)' /\ Halting(t)'
    BY <1>1, <1>2, <1>6 DEF Counted, Ordered, Stopped, FailuresKept, DataKept, Halting
  <2>5. EntriesMean(t)'
    BY <1>3, <1>4, <2>1 DEF EntriesMean
  <2> QED BY <2>3, <2>4, <2>5 DEF Sound
<1>8. ASSUME NEW x \in Transfers, x # t PROVE Sound(x)'
  <2>1. urbs'[x] = urbs[x] /\ (InOrder(completed, x) => InOrder(completed', x))
    BY <1>1, <1>3, <1>8
  <2> QED BY <1>1, <1>4, <1>6, <2>1, Untouched
<1> QED BY <1>7, <1>8

\* What the reap of entry h does to its transfer.
ReapedOf(h, rest) ==
    /\ discard_urbs(h.t, [urbs[h.t] EXCEPT !.at[h.i] = "none"], Tail(completed), rest)
    /\ rest = IF type[h.t] = "BULK" /\ reapAction[h.t] = "NORMAL" /\ (Failed(h) \/ Short(h)) /\ ~Retired(h)
              THEN h.i + 1..NumUrbs(h.t) ELSE {}
    /\ reapAction'[h.t] = IF type[h.t] = "BULK" THEN BulkAction(h) ELSE reapAction[h.t]
    /\ reapStatus'[h.t] = IF type[h.t] = "BULK" THEN BulkStatus(h) ELSE reapStatus[h.t]
    /\ numRetired'[h.t] = numRetired[h.t] + 1
    /\ type[h.t] # "ISOCHRONOUS" => transferred'[h.t] = transferred[h.t] + h.len
    /\ \/ ev' = ev /\ allocated'[h.t] = allocated[h.t] /\ type[h.t] # "CONTROL"
       \/ /\ ~allocated'[h.t]
          /\ \/ type[h.t] = "BULK" /\ BulkFinished(h) /\ ev' = Finish(h.t, BulkStatus(h))
             \/ type[h.t] = "ISOCHRONOUS" /\ IsoFinished(h) /\ ev' = Finish(h.t, IsoStatus(h))
             \/ type[h.t] = "CONTROL" /\ ev' = Finish(h.t, ControlStatus(h))
    /\ \A x \in Transfers : x # h.t =>
          /\ allocated'[x] = allocated[x] /\ numRetired'[x] = numRetired[x]
          /\ transferred'[x] = transferred[x] /\ reapAction'[x] = reapAction[x]
          /\ reapStatus'[x] = reapStatus[x]
    /\ type[h.t] = "BULK" /\ Overtakes(h, rest) => overtaken'

LEMMA ReapEffect ==
    ASSUME TypeInv, reap_for_handle, NEW h, h = Head(completed)
    PROVE  /\ completed # <<>> /\ ev.at = "reap" /\ h \in Entries /\ h.t \in Transfers
           /\ UNCHANGED <<continuation, plugged, polled, askVars, timedOut, listVars, asked>>
           /\ \E rest : ReapedOf(h, rest)
<1>1. /\ completed # <<>> /\ ev.at = "reap"
      /\ UNCHANGED <<continuation, plugged, polled, askVars, timedOut, listVars, asked>>
      /\ numRetired' = [numRetired EXCEPT ![h.t] = @ + 1]
      /\ \/ handle_bulk_completion(h) \/ handle_iso_completion(h) \/ handle_control_completion(h)
  BY DEF reap_for_handle
<1>2. h \in Entries /\ h.t \in Transfers
  BY <1>1, OneLess DEF TypeInv, BaseTypes, Entries
<1>3. /\ allocated \in [Transfers -> BOOLEAN] /\ numRetired \in [Transfers -> Nat]
      /\ transferred \in [Transfers -> Nat] /\ reapAction \in [Transfers -> ReapActions]
      /\ reapStatus \in [Transfers -> Verdicts]
  BY DEF TypeInv, BaseTypes
<1>4. /\ numRetired'[h.t] = numRetired[h.t] + 1
      /\ \A x \in Transfers : x # h.t => numRetired'[x] = numRetired[x]
  BY <1>1, <1>2, <1>3
<1>5. CASE handle_bulk_completion(h)
  <2>0. PICK rest : rest = IF reapAction[h.t] = "NORMAL" /\ (Failed(h) \/ Short(h)) /\ ~Retired(h)
                           THEN h.i + 1..NumUrbs(h.t) ELSE {}
    OBVIOUS
  <2>1. /\ type[h.t] = "BULK"
        /\ transferred' = [transferred EXCEPT ![h.t] = @ + h.len]
        /\ reapStatus' = [reapStatus EXCEPT ![h.t] = BulkStatus(h)]
        /\ reapAction' = [reapAction EXCEPT ![h.t] = BulkAction(h)]
        /\ allocated' = [allocated EXCEPT ![h.t] = @ /\ ~BulkFinished(h)]
        /\ ev' = IF BulkFinished(h) THEN Finish(h.t, BulkStatus(h)) ELSE ev
        /\ discard_urbs(h.t, [urbs[h.t] EXCEPT !.at[h.i] = "none"], Tail(completed), rest)
        /\ overtaken' = (overtaken \/ Overtakes(h, rest))
    BY <1>5, <2>0 DEF handle_bulk_completion
  <2>2. allocated'[h.t] = (allocated[h.t] /\ ~BulkFinished(h)) /\ \A x \in Transfers : x # h.t => allocated'[x] = allocated[x]
    BY <1>2, <1>3, <2>1, Zenon
  <2>3. /\ \A x \in Transfers : x # h.t => /\ transferred'[x] = transferred[x] /\ reapAction'[x] = reapAction[x]
                                           /\ reapStatus'[x] = reapStatus[x]
        /\ transferred'[h.t] = transferred[h.t] + h.len
        /\ reapStatus'[h.t] = BulkStatus(h) /\ reapAction'[h.t] = BulkAction(h)
    BY <1>2, <1>3, <2>1
  <2>4. \/ ev' = ev /\ allocated'[h.t] = allocated[h.t]
        \/ ~allocated'[h.t] /\ BulkFinished(h) /\ ev' = Finish(h.t, BulkStatus(h))
    <3>1. CASE BulkFinished(h)
      BY <2>1, <2>2, <3>1
    <3>2. CASE ~BulkFinished(h)
      <4>1. (allocated[h.t] /\ ~BulkFinished(h)) = allocated[h.t]
        <5>1. allocated[h.t] \in BOOLEAN
          BY <1>2, <1>3
        <5> QED BY <3>2, <5>1
      <4> QED BY <2>1, <2>2, <3>2, <4>1
    <3> QED BY <3>1, <3>2
  <2>5. ReapedOf(h, rest)
    BY <1>4, <2>0, <2>1, <2>2, <2>3, <2>4 DEF ReapedOf
  <2> QED BY <1>1, <1>2, <2>5
<1>6. CASE handle_iso_completion(h)
  <2>1. /\ type[h.t] = "ISOCHRONOUS"
        /\ allocated' = [allocated EXCEPT ![h.t] = @ /\ ~IsoFinished(h)]
        /\ ev' = IF IsoFinished(h) THEN Finish(h.t, IsoStatus(h)) ELSE ev
        /\ discard_urbs(h.t, [urbs[h.t] EXCEPT !.at[h.i] = "none"], Tail(completed), {})
        /\ UNCHANGED <<transferred, reapStatus, reapAction>>
    BY <1>6 DEF handle_iso_completion
  <2>2. allocated'[h.t] = (allocated[h.t] /\ ~IsoFinished(h)) /\ \A x \in Transfers : x # h.t => allocated'[x] = allocated[x]
    BY <1>2, <1>3, <2>1, Zenon
  <2>4. \/ ev' = ev /\ allocated'[h.t] = allocated[h.t]
        \/ ~allocated'[h.t] /\ IsoFinished(h) /\ ev' = Finish(h.t, IsoStatus(h))
    <3>1. CASE IsoFinished(h)
      BY <2>1, <2>2, <3>1
    <3>2. CASE ~IsoFinished(h)
      <4>1. (allocated[h.t] /\ ~IsoFinished(h)) = allocated[h.t]
        <5>1. allocated[h.t] \in BOOLEAN
          BY <1>2, <1>3
        <5> QED BY <3>2, <5>1
      <4> QED BY <2>1, <2>2, <3>2, <4>1
    <3> QED BY <3>1, <3>2
  <2>5. PICK rest : rest = {}
    OBVIOUS
  <2>6. ReapedOf(h, rest)
    BY <1>4, <2>1, <2>2, <2>4, <2>5 DEF ReapedOf
  <2> QED BY <1>1, <1>2, <2>6
<1>7. CASE handle_control_completion(h)
  <2>1. /\ type[h.t] = "CONTROL"
        /\ transferred' = [transferred EXCEPT ![h.t] = @ + h.len]
        /\ allocated' = [allocated EXCEPT ![h.t] = FALSE]
        /\ ev' = Finish(h.t, ControlStatus(h))
        /\ discard_urbs(h.t, [urbs[h.t] EXCEPT !.at[h.i] = "none"], Tail(completed), {})
        /\ UNCHANGED <<reapStatus, reapAction>>
    BY <1>7 DEF handle_control_completion
  <2>2. /\ transferred'[h.t] = transferred[h.t] + h.len /\ ~allocated'[h.t]
        /\ \A x \in Transfers : x # h.t => transferred'[x] = transferred[x] /\ allocated'[x] = allocated[x]
    BY <1>2, <1>3, <2>1
  <2>5. PICK rest : rest = {}
    OBVIOUS
  <2>6. ReapedOf(h, rest)
    BY <1>4, <2>1, <2>2, <2>5 DEF ReapedOf
  <2> QED BY <1>1, <1>2, <2>6
<1> QED BY <1>1, <1>5, <1>6, <1>7

\* The entry that is reaped is one that its transfer waits for.
HeadKnown(h, u, N) ==
    /\ h \in Entries /\ h.t \in Transfers /\ h \in Waiting(h.t) /\ h.len \in {0, 1}
    /\ u = urbs[h.t] /\ u \in UrbTypes /\ N = NumUrbs(h.t) /\ N \in Nat \ {0}
    /\ DOMAIN u.at = 1..N /\ InKernel(u) \subseteq 1..N
    /\ h.i \in 1..N /\ u.at[h.i] = "done" /\ h.i \notin InKernel(u)
    /\ allocated[h.t] /\ h.i \in Outstanding(h.t)
    /\ \A j \in 1..N : j \in InKernel(u) <=> u.at[j] \in {"flying", "halted"}
    /\ \A j \in 1..N : u.at[j] \in States
    /\ \A e \in Waiting(h.t) : e.i \in 1..N /\ u.at[e.i] = "done" /\ e.i \notin InKernel(u)
    /\ \A e, f \in Waiting(h.t) : e.i = f.i => e = f
    /\ \A j \in 1..N : u.at[j] = "done" => \E e \in Waiting(h.t) : e.i = j
    /\ reapAction[h.t] = "NORMAL" => \A e \in Waiting(h.t) : e # h => h.i < e.i
    /\ reapAction[h.t] = "NORMAL" => \A j \in InKernel(u) : h.i < j
    /\ type[h.t] = "CONTROL" => N = 1
    /\ Retired(h) <=> Outstanding(h.t) = {h.i}
    /\ IsFiniteSet(Outstanding(h.t)) /\ Cardinality(Outstanding(h.t)) \in Nat \ {0}

LEMMA ReapHead ==
    ASSUME TypeInv, IsInjective(completed), \A x \in Transfers : Sound(x),
           completed # <<>>, NEW h, h = Head(completed)
    PROVE  \E u, N : HeadKnown(h, u, N)
<1>1. h \in Entries /\ h \in ToSet(completed) /\ h.t \in Transfers /\ h.len \in {0, 1}
      /\ \A t : InOrder(completed, t) /\ h.t = t => \A e \in ToSet(completed) : e.t = t /\ e # h => h.i < e.i
  BY OneLess DEF TypeInv, BaseTypes, Entries
<1>2. PICK t \in Transfers : t = h.t
  BY <1>1
<1>3. PICK u \in UrbTypes, N \in Nat \ {0} : u = urbs[t] /\ N = NumUrbs(t)
  BY UrbsTyped
<1>4. /\ DOMAIN u.at = 1..N /\ InKernel(u) \subseteq 1..N
      /\ \A j \in 1..N : j \in InKernel(u) <=> u.at[j] \in {"flying", "halted"}
      /\ \A j \in 1..N : u.at[j] \in States
  <2>1. DOMAIN u.at = 1..N /\ InKernel(u) \subseteq 1..N
    BY <1>3, UrbsTyped
  <2>2. \A j \in 1..N : u.at[j] \in States
    BY <2>1 DEF UrbTypes
  <2> QED BY <2>1, <2>2 DEF InKernel
<1>5. h \in Waiting(t) /\ \A e \in Waiting(t) : e \in ToSet(completed) /\ e.t = t
  BY <1>1, <1>2 DEF Waiting
<1>6. /\ \A e \in Waiting(t) : e.i \in 1..N /\ u.at[e.i] = "done" /\ e.i \notin InKernel(u)
      /\ \A e, f \in Waiting(t) : e.i = f.i => e = f
      /\ \A j \in 1..N : u.at[j] = "done" => \E e \in Waiting(t) : e.i = j
      /\ ~allocated[t] => Outstanding(t) = {}
  BY <1>3, <1>4 DEF Sound, UrbsKept
<1>7. h.i \in 1..N /\ u.at[h.i] = "done" /\ h.i \notin InKernel(u) /\ h.i \in Outstanding(t)
  BY <1>3, <1>5, <1>6 DEF Outstanding
<1>8. allocated[t]
  BY <1>6, <1>7
<1>9. reapAction[t] = "NORMAL" =>
         /\ \A e \in Waiting(t) : e # h => h.i < e.i
         /\ \A j \in InKernel(u) : h.i < j
  BY <1>1, <1>2, <1>3, <1>5, <1>8 DEF Sound, Ordered
<1>10. type[t] = "CONTROL" => N = 1
  BY <1>3, TransferAssumption DEF NumUrbs
<1>11. IsFiniteSet(Outstanding(t)) /\ Cardinality(Outstanding(t)) \in Nat \ {0}
  <2>1. IsFiniteSet(1..N)
    BY FS_Interval
  <2>2. Outstanding(t) \in SUBSET (1..N)
    BY <1>3 DEF Outstanding
  <2>3. IsFiniteSet(Outstanding(t)) /\ Cardinality(Outstanding(t)) \in Nat
    BY <2>1, <2>2, FS_Subset, FS_CardinalityType
  <2> QED BY <1>7, <2>3, FS_EmptySet
<1>12. Retired(h) <=> Outstanding(t) = {h.i}
  <2>1. numRetired[t] + Cardinality(Outstanding(t)) = N /\ numRetired[t] \in Nat
    BY <1>3, <1>8 DEF Sound, Counted, TypeInv, BaseTypes
  <2>2. Retired(h) <=> Cardinality(Outstanding(t)) = 1
    BY <1>2, <1>3, <1>11, <2>1 DEF Retired
  <2>3. Cardinality(Outstanding(t)) = 1 <=> Outstanding(t) = {h.i}
    <3>1. ASSUME Cardinality(Outstanding(t)) = 1 PROVE Outstanding(t) = {h.i}
      <4>1. PICK S : S = Outstanding(t)
        OBVIOUS
      <4>2. IsFiniteSet(S \ {h.i}) /\ Cardinality(S \ {h.i}) = 0
        BY <1>7, <1>11, <3>1, <4>1, FS_RemoveElement
      <4>3. S \ {h.i} = {}
        BY <4>2, FS_EmptySet
      <4> QED BY <1>7, <4>1, <4>3
    <3>2. Cardinality({h.i}) = 1
      BY FS_Singleton
    <3> QED BY <3>1, <3>2
  <2> QED BY <2>2, <2>3
<1>13. HeadKnown(h, u, N)
  BY <1>1, <1>2, <1>3, <1>4, <1>5, <1>6, <1>7, <1>8, <1>9, <1>10, <1>11, <1>12 DEF HeadKnown
<1> QED BY <1>13

\* Of a normal transfer, all but its last URB are reaped before that.
LEMMA LastNormal ==
    ASSUME NEW h, NEW u, NEW N, HeadKnown(h, u, N), reapAction[h.t] = "NORMAL", h.i = N
    PROVE  Outstanding(h.t) = {h.i}
<1> USE DEF HeadKnown
<1>1. ASSUME NEW j \in 1..N, u.at[j] # "none", j # h.i PROVE FALSE
  <2>1. CASE u.at[j] = "done"
    <3>1. PICK e \in Waiting(h.t) : e.i = j
      BY <2>1
    <3> QED BY <1>1, <3>1
  <2>2. CASE j \in InKernel(u)
    BY <2>2
  <2> QED BY <1>1, <2>1, <2>2 DEF States
<1>2. \A j \in Outstanding(h.t) : j = h.i
  BY <1>1 DEF Outstanding
<1> QED BY <1>2

\* A transfer is finished when its last URB is reaped.
LEMMA ReapLast ==
    ASSUME NEW h, NEW u, NEW N, NEW rest, HeadKnown(h, u, N), ReapedOf(h, rest),
           EntriesMean(h.t), ~allocated'[h.t]
    PROVE  Outstanding(h.t) = {h.i}
<1>1. \/ type[h.t] = "BULK" /\ BulkFinished(h)
      \/ type[h.t] = "ISOCHRONOUS" /\ IsoFinished(h)
      \/ type[h.t] = "CONTROL"
  BY DEF ReapedOf, HeadKnown
<1>2. CASE type[h.t] = "CONTROL"
  BY <1>2 DEF HeadKnown, Outstanding
<1>3. CASE type[h.t] = "BULK" /\ BulkFinished(h)
  <2>1. Retired(h) \/ (reapAction[h.t] = "NORMAL" /\ h.i = N)
    BY <1>3 DEF BulkFinished, HeadKnown, EntriesMean
  <2>2. CASE Retired(h)
    BY <2>2 DEF HeadKnown
  <2>3. CASE reapAction[h.t] = "NORMAL" /\ h.i = N
    BY <2>3, LastNormal
  <2> QED BY <2>1, <2>2, <2>3
<1>4. CASE type[h.t] = "ISOCHRONOUS" /\ IsoFinished(h)
  <2>1. Retired(h) \/ (reapAction[h.t] = "NORMAL" /\ h.i = N)
    BY <1>4 DEF IsoFinished, HeadKnown
  <2>2. CASE Retired(h)
    BY <2>2 DEF HeadKnown
  <2>3. CASE reapAction[h.t] = "NORMAL" /\ h.i = N
    BY <2>3, LastNormal
  <2> QED BY <2>1, <2>2, <2>3
<1> QED BY <1>1, <1>2, <1>3, <1>4

LEMMA ReapSound ==
    ASSUME TypeInv, IsInjective(completed), \A x \in Transfers : Sound(x),
           reap_for_handle, ~overtaken'
    PROVE  IsInjective(completed') /\ \A x \in Transfers : Sound(x)'
<1>h. PICK h : h = Head(completed)
  OBVIOUS
<1>1. /\ completed # <<>> /\ ev.at = "reap" /\ h \in Entries /\ h.t \in Transfers
      /\ UNCHANGED <<continuation, plugged, polled, askVars, timedOut, listVars, asked>>
      /\ \E rest : ReapedOf(h, rest)
  BY <1>h, ReapEffect
<1>2. PICK rest : ReapedOf(h, rest)
  BY <1>1
<1>3. PICK u, N : HeadKnown(h, u, N)
  BY <1>h, <1>1, ReapHead
<1>4. PICK found : found = rest \cap (InKernel(urbs[h.t]) \ {h.i})
  OBVIOUS
<1>5. PICK n \in [found -> {0, 1}], d \in UrbTypes : Reaped(h, found, n, d)
  <2>1. discard_urbs(h.t, [urbs[h.t] EXCEPT !.at[h.i] = "none"], Tail(completed), rest)
    BY <1>2 DEF ReapedOf
  <2> QED BY <1>h, <1>1, <1>4, <2>1, ReapStep
<1>t. PICK t \in Transfers : t = h.t
  BY <1>1
<1>6. /\ urbs' = [urbs EXCEPT ![t] = d] /\ DOMAIN d.at = 1..N
      /\ \A j \in 1..N : d.at[j] = IF j \in found THEN "done" ELSE IF j = h.i THEN "none" ELSE u.at[j]
      /\ InKernel(d) = InKernel(u) \ ({h.i} \cup found)
      /\ d.moved = u.moved + Units(found, n) /\ d.told = u.told
      /\ \A e : e \in ToSet(completed') <=>
            e \in ToSet(Tail(completed)) \/ \E i \in found : e = Done(t, i, "unlinked", n[i])
      /\ IsInjective(Tail(completed)) /\ (\A e \in ToSet(Tail(completed)) : e.t = t => e.i \notin found)
            => IsInjective(completed')
      /\ \A x : x # t /\ InOrder(Tail(completed), x) => InOrder(completed', x)
      /\ InOrder(Tail(completed), t) /\ Follows(t, Tail(completed), found) => InOrder(completed', t)
      /\ completed' \in Seq(Entries)
  BY <1>3, <1>5, <1>t DEF Reaped, Discarded, HeadKnown
<1>7. /\ found \subseteq rest /\ found \subseteq InKernel(u) /\ found \subseteq 1..N
      /\ \A j \in InKernel(u) : j \in rest => j \in found
      /\ h.i \notin found /\ h.i \in 1..N /\ N \in Nat \ {0}
  BY <1>3, <1>4 DEF HeadKnown
<1>8. /\ urbs'[t] = d /\ \A x \in Transfers : x # t => urbs'[x] = urbs[x]
  BY <1>6 DEF TypeInv, BaseTypes
<1>9. /\ Tail(completed) \in Seq(Entries) /\ IsInjective(Tail(completed))
      /\ ToSet(Tail(completed)) = ToSet(completed) \ {h}
      /\ \A x : InOrder(completed, x) => InOrder(Tail(completed), x)
  BY <1>h, <1>1, OneLess DEF TypeInv, BaseTypes
<1>10. PICK M : \A e : e \in M <=> \E i \in found : e = Done(t, i, "unlinked", n[i])
  <2>1. \A e : e \in {Done(t, i, "unlinked", n[i]) : i \in found} <=>
               \E i \in found : e = Done(t, i, "unlinked", n[i])
    OBVIOUS
  <2> QED BY <2>1
<1>11. /\ \A e \in M : e.t = t /\ e.i \in found /\ e.status = "unlinked" /\ e.len = n[e.i]
                       /\ e = Done(t, e.i, "unlinked", n[e.i])
       /\ \A i \in found : \E e \in M : e.i = i /\ e.len = n[i]
  <2>1. \A i \in found : Done(t, i, "unlinked", n[i]) \in M /\ Done(t, i, "unlinked", n[i]).i = i
                         /\ Done(t, i, "unlinked", n[i]).len = n[i]
    BY <1>10 DEF Done
  <2>2. \A e \in M : e.t = t /\ e.i \in found /\ e.status = "unlinked" /\ e.len = n[e.i]
                       /\ e = Done(t, e.i, "unlinked", n[e.i])
    BY <1>10 DEF Done
  <2> QED BY <2>1, <2>2
<1>12. PICK V, W : V = Waiting(t) /\ W = Waiting(t)'
  OBVIOUS
<1>13. /\ \A e : e \in W <=> (e \in V /\ e # h) \/ e \in M
       /\ \A x : x # t => Waiting(x)' = Waiting(x)
  <2>1. \A e : e \in ToSet(completed') <=> (e \in ToSet(completed) /\ e # h) \/ e \in M
    BY <1>6, <1>9, <1>10
  <2>2. \A x : /\ Waiting(x)' = {e \in ToSet(completed') : e.t = x}
               /\ Waiting(x) = {e \in ToSet(completed) : e.t = x}
    BY DEF Waiting
  <2>3. ASSUME NEW x, x # t PROVE \A e : e \in Waiting(x)' <=> e \in Waiting(x)
    BY <1>11, <1>t, <2>1, <2>2, <2>3
  <2>4. \A e : e \in W <=> (e \in V /\ e # h) \/ e \in M
    BY <1>11, <1>12, <2>1, <2>2
  <2>5. ASSUME NEW x, x # t PROVE Waiting(x)' = Waiting(x)
    BY <2>2, <2>3, <2>5
  <2> QED BY <2>4, <2>5
<1>14. /\ h \in V /\ \A e \in V : e.i \in 1..N /\ u.at[e.i] = "done" /\ e.i \notin InKernel(u)
       /\ \A e, f \in V : e.i = f.i => e = f
       /\ \A j \in 1..N : u.at[j] = "done" => \E e \in V : e.i = j
       /\ reapAction[t] = "NORMAL" => \A e \in V : e # h => h.i < e.i
       /\ reapAction[t] = "NORMAL" => \A j \in InKernel(u) : h.i < j
  BY <1>3, <1>12, <1>t, Zenon DEF HeadKnown
<1>15. /\ NumUrbs(t)' = N /\ Continued(t)' = Continued(t) /\ type'[t] = type[t] /\ u = urbs[t]
       /\ NumUrbs(t) = N /\ allocated[t] /\ UNCHANGED <<continuation, plugged>>
       /\ \A x : x \in Transfers => type'[x] = type[x]
  BY <1>1, <1>3, <1>t DEF askVars, NumUrbs, Continued, HeadKnown
<1>16. IsInjective(completed')
  <2>1. \A e \in ToSet(Tail(completed)) : e.t = t => e \in V
    BY <1>9, <1>12 DEF Waiting
  <2>2. \A e \in ToSet(Tail(completed)) : e.t = t => e.i \notin found
    BY <1>7, <1>14, <2>1
  <2> QED BY <1>6, <1>9, <2>2
<1>17. ~allocated'[t] => Outstanding(t) = {h.i}
  BY <1>2, <1>3, <1>t, ReapLast DEF Sound
<1>18. Outstanding(t)' = Outstanding(t) \ {h.i}
  <2>1. \A j \in 1..N : d.at[j] # "none" <=> u.at[j] # "none" /\ j # h.i
    <3>1. \A j \in InKernel(u) : u.at[j] \in {"flying", "halted"}
      BY DEF InKernel
    <3> QED BY <1>6, <1>7, <3>1
  <2>2. Outstanding(t)' = {j \in 1..N : d.at[j] # "none"}
    BY <1>8, <1>15 DEF Outstanding
  <2>3. Outstanding(t) = {j \in 1..N : u.at[j] # "none"}
    BY <1>15 DEF Outstanding
  <2> QED BY <2>1, <2>2, <2>3
<1>19. UrbsKept(t)'
  <2>1. ASSUME NEW e \in W PROVE e.i \in 1..N /\ d.at[e.i] = "done"
    <3>1. CASE e \in M
      <4>1. e.i \in found /\ e.i \in 1..N
        BY <1>7, <1>11, <3>1
      <4> QED BY <1>6, <4>1
    <3>2. CASE e \in V /\ e # h
      <4>1. e.i \in 1..N /\ u.at[e.i] = "done" /\ e.i # h.i /\ e.i \notin found
        BY <1>7, <1>14, <3>2
      <4> QED BY <1>6, <4>1
    <3> QED BY <1>13, <3>1, <3>2
  <2>2. \A e, f \in W : e.i = f.i => e = f
    BY <1>7, <1>11, <1>13, <1>14
  <2>3. \A j \in 1..N : d.at[j] = "done" => \E e \in W : e.i = j
    BY <1>6, <1>11, <1>13, <1>14
  <2> QED BY <1>8, <1>12, <1>15, <1>17, <1>18, <2>1, <2>2, <2>3 DEF UrbsKept
<1>20. Counted(t)'
  <2>1. numRetired'[t] = numRetired[t] + 1 /\ numRetired[t] \in Nat
    BY <1>2, <1>t DEF ReapedOf, TypeInv, BaseTypes
  <2>2. numRetired[t] + Cardinality(Outstanding(t)) = N
    BY <1>15 DEF Sound, Counted
  <2>3. Cardinality(Outstanding(t) \ {h.i}) = Cardinality(Outstanding(t)) - 1
        /\ Cardinality(Outstanding(t)) \in Nat
    <3>1. h.i \in Outstanding(t) /\ IsFiniteSet(Outstanding(t)) /\ Cardinality(Outstanding(t)) \in Nat
      BY <1>3, <1>t DEF HeadKnown
    <3> QED BY <3>1, FS_RemoveElement
  <2> QED BY <1>15, <1>18, <2>1, <2>2, <2>3 DEF Counted
<1>21. /\ rest = IF type[t] = "BULK" /\ reapAction[t] = "NORMAL" /\ (Failed(h) \/ Short(h)) /\ ~Retired(h)
                 THEN h.i + 1..N ELSE {}
       /\ reapAction'[t] = IF type[t] = "BULK" THEN BulkAction(h) ELSE reapAction[t]
       /\ reapStatus'[t] = IF type[t] = "BULK" THEN BulkStatus(h) ELSE reapStatus[t]
       /\ type[t] = "CONTROL" => ~allocated'[t]
       /\ Retired(h) <=> Outstanding(t) = {h.i}
  BY <1>2, <1>3, <1>t, <1>15 DEF ReapedOf, HeadKnown
<1>22. /\ reapAction'[t] = "NORMAL" => reapAction[t] = "NORMAL"
       /\ reapAction'[t] # reapAction[t] => /\ reapAction[t] = "NORMAL" /\ type[t] = "BULK"
                                            /\ \/ h.status = "proto" /\ reapAction'[t] = "ERROR"
                                               \/ h.status # "proto" /\ Short(h) /\ reapAction'[t] = "COMPLETED_EARLY"
  <2>1. CASE type[t] = "BULK" /\ reapAction[t] = "NORMAL"
    <3>1. reapAction'[t] = IF h.status = "proto" THEN "ERROR" ELSE IF Short(h) THEN "COMPLETED_EARLY" ELSE "NORMAL"
      <4>1. reapAction'[t] = BulkAction(h) /\ reapAction[h.t] = "NORMAL"
        BY <1>21, <1>t, <2>1
      <4> QED BY <4>1 DEF BulkAction, Short
    <3> QED BY <2>1, <3>1
  <2>2. CASE ~(type[t] = "BULK" /\ reapAction[t] = "NORMAL")
    <3>1. reapAction'[t] = reapAction[t]
      <4>1. CASE type[t] = "BULK"
        <5>1. reapAction'[t] = BulkAction(h) /\ reapAction[h.t] # "NORMAL"
          BY <1>21, <1>t, <2>2, <4>1
        <5>2. BulkAction(h) = reapAction[h.t]
          BY <5>1 DEF BulkAction, Short
        <5> QED BY <1>t, <5>1, <5>2
      <4>2. CASE type[t] # "BULK"
        BY <1>21, <4>2
      <4> QED BY <4>1, <4>2
    <3> QED BY <3>1
  <2> QED BY <2>1, <2>2
<1>23. found # {} => /\ type[t] = "BULK" /\ reapAction[t] = "NORMAL" /\ ~Retired(h)
                     /\ InKernel(d) = {} /\ \A j \in found : h.i < j
  <2> SUFFICES ASSUME NEW i \in found
               PROVE  /\ type[t] = "BULK" /\ reapAction[t] = "NORMAL" /\ ~Retired(h)
                      /\ InKernel(d) = {} /\ \A j \in found : h.i < j
    OBVIOUS
  <2>1. type[t] = "BULK" /\ reapAction[t] = "NORMAL" /\ ~Retired(h) /\ rest = h.i + 1..N
    BY <1>7, <1>21
  <2>2. \A j \in InKernel(u) : h.i < j /\ j \in 1..N
    BY <1>3, <1>t, <2>1 DEF HeadKnown
  <2>3. \A j \in InKernel(u) : j \in found
    BY <1>7, <2>1, <2>2
  <2> QED BY <1>6, <1>7, <2>1, <2>2, <2>3
<1>24. ASSUME NEW e \in M PROVE e.i > 1 /\ h.i < e.i /\ reapAction[t] = "NORMAL" /\ type[t] = "BULK"
  <2>1. e.i \in found /\ e.i \in 1..N
    BY <1>7, <1>11
  <2>2. h.i < e.i /\ reapAction[t] = "NORMAL" /\ type[t] = "BULK" /\ h.i \in 1..N
    BY <1>7, <1>23, <2>1
  <2> QED BY <1>7, <2>1, <2>2
<1>n. reapAction[t] = "NORMAL" => \A e \in V : e # h => e.i \in 1..N /\ h.i < e.i /\ \A j \in InKernel(u) : e.i < j
  BY <1>3, <1>12, <1>14, <1>15, <1>t DEF HeadKnown, Sound, Ordered
<1>25. Ordered(t)'
  <2> SUFFICES ASSUME reapAction'[t] = "NORMAL"
               PROVE  /\ InOrder(completed', t)
                      /\ \A e \in W, j \in InKernel(d) : e.i < j
    BY <1>8, <1>12 DEF Ordered
  <2>0. InOrder(completed, t) /\ \A e \in V, j \in InKernel(u) : e.i < j
    BY <1>12, <1>15, <1>22 DEF Sound, Ordered
  <2>1. \A i, j \in found : i = j
    <3> SUFFICES ASSUME NEW i \in found, NEW j \in found, i # j PROVE FALSE
      OBVIOUS
    <3>1. type[t] = "BULK" /\ BulkAction(h) = "NORMAL"
      BY <1>21, <1>23
    <3>2. found = rest \cap InKernel(urbs[h.t])
      BY <1>3, <1>4 DEF HeadKnown
    <3>3. ~(Cardinality(found) > 1)
      BY <1>2, <1>t, <3>1, <3>2 DEF ReapedOf, Overtakes
    <3>4. IsFiniteSet(found)
      <4>1. IsFiniteSet(1..N)
        BY <1>7, FS_Interval
      <4> QED BY <1>7, <4>1, FS_Subset
    <3>5. Cardinality({i, j}) <= Cardinality(found) /\ Cardinality(found) \in Nat
      <4>1. {i, j} \in SUBSET found
        OBVIOUS
      <4> QED BY <3>4, <4>1, FS_Subset, FS_CardinalityType
    <3>6. Cardinality({i, j}) = 2
      <4>1. IsFiniteSet({i}) /\ Cardinality({i}) = 1
        BY FS_Singleton
      <4>2. Cardinality({i} \cup {j}) = Cardinality({i}) + 1
        BY <4>1, FS_AddElement
      <4>3. {i} \cup {j} = {i, j}
        OBVIOUS
      <4> QED BY <4>1, <4>2, <4>3
    <3> QED BY <3>3, <3>5, <3>6
  <2>2. Follows(t, Tail(completed), found)
    <3>1. \A e \in ToSet(Tail(completed)) : e.t = t => e \in V
      BY <1>9, <1>12 DEF Waiting
    <3> QED BY <1>7, <2>0, <2>1, <3>1 DEF Follows
  <2>3. InOrder(completed', t)
    BY <1>6, <1>9, <2>0, <2>2
  <2>4. \A e \in W, j \in InKernel(d) : e.i < j
    <3>1. \A j \in InKernel(d) : j \in InKernel(u) /\ M = {}
      <4>1. found # {} => InKernel(d) = {}
        BY <1>23
      <4>2. M # {} => found # {}
        BY <1>11
      <4> QED BY <1>6, <4>1, <4>2
    <3> QED BY <1>13, <2>0, <3>1
  <2> QED BY <2>3, <2>4
<1>26. Stopped(t)'
  <2> SUFFICES ASSUME reapAction'[t] \in {"CANCELLED", "SUBMIT_FAILED", "ERROR"} PROVE InKernel(d) = {}
    BY <1>8 DEF Stopped
  <2>1. CASE reapAction'[t] = reapAction[t]
    BY <1>6, <1>15, <2>1 DEF Sound, Stopped
  <2>2. CASE reapAction'[t] # reapAction[t]
    <3>1. reapAction[t] = "NORMAL" /\ type[t] = "BULK" /\ h.status = "proto"
      BY <1>22, <2>2
    <3>2. CASE Retired(h)
      <4>1. \A j \in InKernel(u) : j \in Outstanding(t) /\ j # h.i
        BY <1>7, <1>14, <1>15, <1>3 DEF HeadKnown, Outstanding, InKernel
      <4> QED BY <1>6, <1>21, <3>2, <4>1
    <3>3. CASE ~Retired(h)
      <4>1. rest = h.i + 1..N
        BY <1>21, <3>1, <3>3 DEF Failed
      <4>2. \A j \in InKernel(u) : h.i < j /\ j \in 1..N
        BY <1>3, <1>14, <3>1 DEF HeadKnown
      <4>3. \A j \in InKernel(u) : j \in rest
        BY <1>7, <4>1, <4>2
      <4> QED BY <1>6, <1>7, <4>3
    <3> QED BY <3>2, <3>3
  <2> QED BY <2>1, <2>2
<1>27. DataKept(t)'
  <2> SUFFICES ASSUME type[t] # "ISOCHRONOUS"
               PROVE  d.moved = transferred'[t] + Cardinality(PendingOf(N, W))
    BY <1>8, <1>12, <1>15 DEF DataKept, Pending
  <2>1. transferred'[t] = transferred[t] + h.len /\ transferred[t] \in Nat /\ h.len \in {0, 1}
    BY <1>2, <1>3, <1>t DEF ReapedOf, TypeInv, BaseTypes, HeadKnown
  <2>2. u.moved = transferred[t] + Cardinality(PendingOf(N, V))
    BY <1>12, <1>15 DEF Sound, DataKept, Pending
  <2>3. Cardinality(PendingOf(N, V)) = Cardinality(PendingOf(N, V \ {h})) + h.len
    <3>1. h \in V /\ h.i \in 1..N /\ \A f \in V : f.i = h.i => f = h
      BY <1>7, <1>14
    <3> QED BY <1>7, <2>1, <3>1, PendingLess
  <2>4. PICK V2 : V2 = V \ {h}
    OBVIOUS
  <2>5. Cardinality(PendingOf(N, W)) = Cardinality(PendingOf(N, V2)) + Units(found, n)
    <3>1. /\ \A e \in W : e \in V2 \/ (e.i \in found /\ e.len = n[e.i])
          /\ \A e \in V2 : e \in W /\ e.i \notin found
          /\ \A i \in found : \E e \in W : e.i = i /\ e.len = n[i]
          /\ found \in SUBSET (1..N)
      BY <1>7, <1>11, <1>13, <1>14, <2>4
    <3> QED BY <1>5, <1>7, <3>1, PendingGrows
  <2>6. Cardinality(PendingOf(N, V2)) \in Nat
    BY <1>7, PendingFinite
  <2>7. Units(found, n) \in Nat
    <3>1. IsFiniteSet(1..N)
      BY <1>7, FS_Interval
    <3>2. IsFiniteSet(found)
      BY <1>7, <3>1, FS_Subset
    <3> QED BY <3>2, UnitsCounted
  <2> QED BY <1>6, <2>1, <2>2, <2>3, <2>4, <2>5, <2>6, <2>7
<1>28. EntriesMean(t)'
  <2>1. /\ \A e \in V :
           /\ e.status \in Errors => e.status \in u.told
           /\ e.status = "shutdown" => ~plugged
           /\ e.status = "overflow" => e.i = N
           /\ e.status = "remoteio" => Continued(t) /\ e.i < N /\ e.len = 0
           /\ e.status = "ok" /\ e.len = 0 => type[t] = "BULK" /\ ~(continuation /\ e.i < N)
           /\ e.status = "unlinked" /\ reapAction[t] = "NORMAL" => type[t] # "CONTROL" /\ e.i > 1
        /\ \A i \in InKernel(u) : u.at[i] = "halted" => type[t] = "BULK" /\ i > 1
    BY <1>12, <1>15 DEF Sound, EntriesMean
  <2>2. \A e \in M : e.status = "unlinked" /\ type[t] = "BULK" /\ e.i > 1
    BY <1>11, <1>24
  <2>3. \A e \in W :
           /\ e.status \in Errors => e.status \in d.told
           /\ e.status = "shutdown" => ~plugged
           /\ e.status = "overflow" => e.i = N
           /\ e.status = "remoteio" => Continued(t) /\ e.i < N /\ e.len = 0
           /\ e.status = "ok" /\ e.len = 0 => type[t] = "BULK" /\ ~(continuation /\ e.i < N)
           /\ e.status = "unlinked" /\ reapAction'[t] = "NORMAL" => type[t] # "CONTROL" /\ e.i > 1
    BY <1>6, <1>13, <1>22, <2>1, <2>2 DEF Errors
  <2>4. \A i \in InKernel(d) : d.at[i] = "halted" => type[t] = "BULK" /\ i > 1
    <3>1. \A i \in InKernel(d) : i \in InKernel(u) /\ i \in 1..N /\ d.at[i] = u.at[i]
      BY <1>6, <1>3 DEF HeadKnown
    <3> QED BY <2>1, <3>1
  <2> QED BY <1>8, <1>12, <1>15, <2>3, <2>4 DEF EntriesMean
<1>29. FailuresKept(t)'
  <2> SUFFICES ASSUME allocated'[t] PROVE FailuresKept(t)'
    BY DEF FailuresKept
  <2>0. PICK F, G : F = {e.status : e \in V} /\ G = {e.status : e \in W}
    OBVIOUS
  <2>1. /\ G \subseteq F \cup {"unlinked"} /\ F \subseteq G \cup {h.status} /\ h.status \in F
    BY <1>11, <1>13, <1>14, <2>0
  <2>2. /\ "refused" \in u.told => reapAction[t] \in {"SUBMIT_FAILED", "CANCELLED"}
        /\ Continued(t) /\ reapAction[t] = "NORMAL" /\ reapStatus[t] = "COMPLETED" => u.told \subseteq F
        /\ Continued(t) /\ reapAction[t] = "COMPLETED_EARLY" => u.told = {} \/ reapStatus[t] # "COMPLETED"
        /\ Continued(t) /\ reapAction[t] = "COMPLETED_EARLY" =>
              F \cap Errors = {} /\ \A j \in InKernel(u) : u.at[j] = "halted"
    BY <1>12, <1>15, <2>0, Zenon DEF Sound, FailuresKept
  <2>3. u.told \subseteq Errors
    BY <1>3 DEF HeadKnown, UrbTypes
  <2>4. type[t] # "CONTROL"
    BY <1>21
  <2>5. ASSUME Continued(t), reapAction'[t] # reapAction[t], reapAction'[t] = "COMPLETED_EARLY"
        PROVE  /\ reapAction[t] = "NORMAL" /\ F \cap Errors = {} /\ \A j \in InKernel(u) : u.at[j] = "halted"
               /\ h.status = "unlinked" => reapStatus[t] # "COMPLETED"
    <3>1. Short(h) /\ reapAction[t] = "NORMAL" /\ type[t] = "BULK" /\ continuation
      BY <1>22, <2>5 DEF Continued
    <3>2. h.status \in {"ok", "remoteio", "unlinked"} /\ h.len = 0 /\ h.i < N
      BY <1>15, <1>t, <3>1 DEF Short
    <3>3. h.status = "ok" /\ h.len = 0 => ~(continuation /\ h.i < N)
      BY <1>12, <1>14, <1>15 DEF Sound, EntriesMean
    <3>4. h.status \in Stops \cup {"unlinked"} /\ h \in V /\ h.status \notin Errors
      BY <1>14, <3>1, <3>2, <3>3 DEF Stops, Errors
    <3>5. /\ \A f \in V : h.i < f.i => f.status \in {"unlinked", "shutdown"}
          /\ \A j \in InKernel(u) : u.at[j] = "halted"
          /\ h.status = "unlinked" => Stopping(t, h.i)
      BY <1>12, <1>15, <2>5, <3>1, <3>4 DEF Sound, Halting
    <3>6. \A f \in V : f = h \/ (f.i \in 1..N /\ h.i < f.i)
      BY <1>n, <3>1
    <3>7. \A f \in V : f.status \notin Errors
      BY <3>4, <3>5, <3>6 DEF Errors
    <3>8. \A f \in V : ~(f.i < h.i)
      BY <1>7, <3>6
    <3>9. h.status = "unlinked" => reapStatus[t] # "COMPLETED"
      BY <1>12, <3>5, <3>8 DEF Stopping
    <3> QED BY <2>0, <3>1, <3>5, <3>7, <3>9
  <2>6. "refused" \in d.told => reapAction'[t] \in {"SUBMIT_FAILED", "CANCELLED"}
    BY <1>6, <1>22, <2>2
  <2>7. Continued(t) /\ reapAction'[t] = "NORMAL" /\ reapStatus'[t] = "COMPLETED" => d.told \subseteq G
    <3> SUFFICES ASSUME Continued(t), reapAction'[t] = "NORMAL", reapStatus'[t] = "COMPLETED"
                 PROVE  d.told \subseteq G
      OBVIOUS
    <3>1. reapAction[t] = "NORMAL" /\ BulkStatus(h) = "COMPLETED" /\ BulkAction(h) = "NORMAL"
      BY <1>21, <1>22 DEF Continued
    <3>2. reapStatus[t] = "COMPLETED" /\ h.status \notin Errors
      BY <1>1, <1>t, <3>1 DEF BulkStatus, BulkAction, Errors, Entries, UrbStatus
    <3> QED BY <1>6, <2>1, <2>2, <2>3, <3>1, <3>2
  <2>8. Continued(t) /\ reapAction'[t] = "COMPLETED_EARLY" => d.told = {} \/ reapStatus'[t] # "COMPLETED"
    <3> SUFFICES ASSUME Continued(t), reapAction'[t] = "COMPLETED_EARLY", reapStatus'[t] = "COMPLETED"
                 PROVE  d.told = {}
      OBVIOUS
    <3>1. reapStatus[t] = "COMPLETED"
      <4>1. BulkStatus(h) = "COMPLETED"
        BY <1>21 DEF Continued
      <4> QED BY <1>t, <4>1 DEF BulkStatus
    <3>2. CASE reapAction[t] = "COMPLETED_EARLY"
      BY <1>6, <2>2, <3>1, <3>2
    <3>3. CASE reapAction[t] # "COMPLETED_EARLY"
      <4>1. u.told \subseteq F /\ F \cap Errors = {}
        BY <2>2, <2>5, <3>1, <3>3
      <4> QED BY <1>6, <2>3, <4>1
    <3> QED BY <3>2, <3>3
  <2>9. ASSUME Continued(t), reapAction'[t] = "COMPLETED_EARLY"
        PROVE  G \cap Errors = {} /\ \A j \in InKernel(d) : d.at[j] = "halted"
    <3>1. F \cap Errors = {} /\ \A j \in InKernel(u) : u.at[j] = "halted"
      BY <2>2, <2>5, <2>9
    <3>2. \A j \in InKernel(d) : j \in InKernel(u) /\ j \in 1..N /\ d.at[j] = u.at[j]
      BY <1>6, <1>3 DEF HeadKnown
    <3> QED BY <2>1, <3>1, <3>2 DEF Errors
  <2> QED BY <1>8, <1>12, <1>15, <2>0, <2>4, <2>6, <2>7, <2>8, <2>9 DEF FailuresKept
<1>32. Halting(t)'
  <2> SUFFICES ASSUME allocated'[t], Continued(t), reapAction'[t] = "NORMAL"
               PROVE  /\ \A f, g \in W : f.status \in Stops \cup {"unlinked"} /\ f.i < g.i =>
                            g.status \in {"unlinked", "shutdown"}
                      /\ \A f \in W : f.status \in Stops \cup {"unlinked"} =>
                            \A j \in InKernel(d) : d.at[j] = "halted"
                      /\ \A f \in W : f.status = "unlinked" => Stopping(t, f.i)'
                      /\ \A j \in InKernel(d) : d.at[j] = "halted" => \E f \in W : f.status \in Stops
    BY <1>8, <1>12, <1>15 DEF Halting
  <2>0. reapAction[t] = "NORMAL" /\ type[t] = "BULK" /\ BulkAction(h) = "NORMAL" /\ reapStatus'[t] = BulkStatus(h)
    BY <1>21, <1>22 DEF Continued
  <2>1. /\ \A f, g \in V : f.status \in Stops \cup {"unlinked"} /\ f.i < g.i =>
                            g.status \in {"unlinked", "shutdown"}
        /\ \A f \in V : f.status \in Stops \cup {"unlinked"} =>
                            \A j \in InKernel(u) : u.at[j] = "halted"
        /\ \A f \in V : f.status = "unlinked" => Stopping(t, f.i)
        /\ \A j \in InKernel(u) : u.at[j] = "halted" => \E f \in V : f.status \in Stops
    BY <1>12, <1>15, <2>0 DEF Sound, Halting
  <2>2. found # {} => Failed(h)
    <3>1. found # {} => Failed(h) \/ Short(h)
      BY <1>7, <1>21
    <3>2. ~Short(h)
      BY <1>t, <2>0 DEF BulkAction, Short
    <3> QED BY <3>1, <3>2
  <2>3. Failed(h) => InKernel(d) = {}
    <3>1. CASE Retired(h)
      <4>1. \A j \in InKernel(u) : j \in Outstanding(t) /\ j # h.i
        BY <1>7, <1>14, <1>15, <1>3 DEF HeadKnown, Outstanding, InKernel
      <4> QED BY <1>6, <1>21, <3>1, <4>1
    <3>2. CASE ~Retired(h) /\ Failed(h)
      <4>1. rest = h.i + 1..N
        BY <1>21, <2>0, <3>2
      <4>2. \A j \in InKernel(u) : h.i < j /\ j \in 1..N
        BY <1>3, <1>t, <2>0 DEF HeadKnown
      <4>3. \A j \in InKernel(u) : j \in found
        BY <1>7, <4>1, <4>2
      <4> QED BY <1>6, <1>7, <4>3
    <3> QED BY <3>1, <3>2
  <2>4. h.status \in Stops => h.status = "stall"
    <3>1. h.status # "proto"
      BY <1>t, <2>0 DEF BulkAction
    <3>2. h.status # "remoteio"
      <4>1. ASSUME h.status = "remoteio" PROVE Short(h)
        <5>1. h.i < N /\ h.len = 0
          BY <1>1, <1>12, <1>14, <1>15, <4>1 DEF Sound, EntriesMean
        <5> QED BY <1>15, <1>t, <4>1, <5>1 DEF Short
      <4>2. ~Short(h)
        BY <1>t, <2>0 DEF BulkAction, Short
      <4> QED BY <4>1, <4>2
    <3> QED BY <3>1, <3>2 DEF Stops
  <2>5. Failed(h) => reapStatus'[t] # "COMPLETED"
    BY <1>t, <2>0 DEF Failed, BulkStatus, BulkAction
  <2>6. reapStatus[t] # "COMPLETED" => reapStatus'[t] # "COMPLETED"
    BY <1>t, <2>0 DEF BulkStatus
  <2>7. \A e \in M : e.status = "unlinked" /\ e.i \in found /\ e.i \in InKernel(u)
    BY <1>7, <1>11
  <2>8. M # {} => Failed(h)
    BY <2>2, <2>7
  <2>9. ASSUME NEW f \in W, NEW g \in W, f.status \in Stops \cup {"unlinked"}, f.i < g.i
        PROVE  g.status \in {"unlinked", "shutdown"}
    <3>1. CASE g \in M
      BY <2>7, <3>1
    <3>2. CASE g \in V /\ g # h /\ f \in V
      BY <2>1, <2>9, <3>2
    <3>3. CASE g \in V /\ g # h /\ f \in M
      <4>1. g.i < f.i /\ g.i \in 1..N /\ f.i \in 1..N
        BY <1>7, <1>n, <2>0, <2>7, <3>3
      <4> QED BY <2>9, <4>1
    <3> QED BY <1>13, <3>1, <3>2, <3>3
  <2>10. ASSUME NEW f \in W, f.status \in Stops \cup {"unlinked"}, NEW j \in InKernel(d)
         PROVE  d.at[j] = "halted"
    <3>1. f \in V
      BY <1>13, <2>3, <2>8
    <3>2. j \in InKernel(u) /\ j \in 1..N /\ j \notin found /\ j # h.i
      BY <1>6, <1>7, <1>3 DEF HeadKnown
    <3> QED BY <1>6, <2>1, <2>10, <3>1, <3>2
  <2>11. ASSUME NEW f \in W, f.status = "unlinked" PROVE Stopping(t, f.i)'
    <3>1. CASE Failed(h) \/ reapStatus[t] # "COMPLETED"
      BY <2>5, <2>6, <3>1 DEF Stopping
    <3>2. CASE ~Failed(h) /\ reapStatus[t] = "COMPLETED"
      <4>1. f \in V
        BY <1>13, <2>8, <3>2
      <4>2. PICK g \in V : g.i < f.i /\ g.status \in Stops
        BY <1>12, <2>1, <2>11, <3>2, <4>1 DEF Stopping
      <4>3. g # h
        BY <2>4, <3>2, <4>2 DEF Failed
      <4>4. g \in W
        BY <1>13, <4>3
      <4> QED BY <1>12, <4>2, <4>4 DEF Stopping
    <3> QED BY <3>1, <3>2
  <2>12. ASSUME NEW j \in InKernel(d), d.at[j] = "halted" PROVE \E f \in W : f.status \in Stops
    <3>1. j \in InKernel(u) /\ j \in 1..N /\ d.at[j] = u.at[j] /\ ~Failed(h)
      BY <1>6, <1>7, <1>3, <2>3, <2>12 DEF HeadKnown
    <3>2. PICK f \in V : f.status \in Stops
      BY <2>1, <2>12, <3>1
    <3>3. f # h
      BY <2>4, <3>1, <3>2 DEF Failed
    <3> QED BY <1>13, <3>2, <3>3
  <2> QED BY <2>9, <2>10, <2>11, <2>12
<1>30. Sound(t)'
  BY <1>19, <1>20, <1>25, <1>26, <1>27, <1>28, <1>29, <1>32 DEF Sound
<1>31. ASSUME NEW x \in Transfers, x # t PROVE Sound(x)'
  <2>1. InOrder(completed, x) => InOrder(completed', x)
    BY <1>6, <1>9, <1>31
  <2>2. ~Ending(x)' /\ ~Calling(x)'
    <3>1. ev' = ev \/ (ev'.at = "finish" /\ ev'.t = h.t)
      BY <1>2 DEF ReapedOf, Finish
    <3> QED BY <1>1, <1>31, <1>t, <3>1 DEF Ending, Calling
  <2>3. /\ allocated'[x] = allocated[x] /\ numRetired'[x] = numRetired[x]
        /\ transferred'[x] = transferred[x] /\ reapAction'[x] = reapAction[x]
        /\ reapStatus'[x] = reapStatus[x]
    BY <1>2, <1>31, <1>t DEF ReapedOf
  <2>4. urbs'[x] = urbs[x] /\ Waiting(x)' = Waiting(x) /\ type'[x] = type[x]
    BY <1>8, <1>13, <1>15, <1>31
  <2>5. continuation' = continuation /\ plugged' = plugged
    BY <1>15
  <2> QED BY <2>1, <2>2, <2>3, <2>4, <2>5, Untouched
<1> QED BY <1>16, <1>30, <1>31

-----------------------------------------------------------------------------
(* The invariant of the URBs, for each step.                               *)

LEMMA Quiet ==
    ASSUME \A x \in Transfers : Sound(x), IsInjective(completed),
           UNCHANGED <<kernelVars, type, privVars>>,
           \A x \in Transfers : Ending(x)' \/ Calling(x)' => Ending(x) \/ Calling(x)
    PROVE  IsInjective(completed') /\ \A x \in Transfers : Sound(x)'
<1>1. UNCHANGED <<continuation, plugged, urbs, completed, type, allocated, numRetired,
                  reapAction, reapStatus, transferred>>
  BY DEF kernelVars, privVars
<1>2. \A x : Waiting(x)' = Waiting(x)
  BY <1>1 DEF Waiting
<1>3. ASSUME NEW x \in Transfers PROVE Sound(x)'
  <2>1. Sound(x)
    OBVIOUS
  <2>2. Ending(x)' \/ Calling(x)' => allocated[x] \/ Ending(x) \/ Calling(x)
    OBVIOUS
  <2> QED BY <1>1, <1>2, <2>1, <2>2, Untouched
<1> QED BY <1>1, <1>3

LEMMA IdleTransfer ==
    ASSUME TypeInv, LifeInv, NEW t \in Transfers, user[t] = "idle"
    PROVE  ~allocated[t] /\ ~Ending(t) /\ ~Calling(t) /\ t \notin ToSet(flying)
  BY DEF LifeInv

LEMMA UrbStep ==
    ASSUME ~overtaken', TypeInv, EventInv, LifeInv, UrbInv, [Next]_vars
    PROVE  UrbInv'
<1> SUFFICES ASSUME polled' PROVE IsInjective(completed') /\ \A x \in Transfers : Sound(x)'
  BY DEF UrbInv
<1>1. ASSUME polled PROVE IsInjective(completed) /\ \A x \in Transfers : Sound(x)
  BY <1>1 DEF UrbInv
<1>2. ASSUME NEW t \in Transfers, KernelComplete(t)
      PROVE IsInjective(completed') /\ \A x \in Transfers : Sound(x)'
  <2>1. polled
    BY <1>2 DEF KernelComplete
  <2> QED BY <1>1, <1>2, <2>1, KernelSound
<1>3. ASSUME NEW t \in Transfers, libusb_submit_transfer(t)
      PROVE IsInjective(completed') /\ \A x \in Transfers : Sound(x)'
  <2>1. polled /\ user[t] = "idle"
    BY <1>3 DEF libusb_submit_transfer
  <2> QED BY <1>1, <1>3, <2>1, IdleTransfer, SubmitSound
<1>4. ASSUME NEW t \in Transfers, op_cancel_transfer(t)
      PROVE IsInjective(completed') /\ \A x \in Transfers : Sound(x)'
  <2>1. polled
    BY <1>4 DEF op_cancel_transfer
  <2> QED BY <1>1, <1>4, <2>1, CancelSound
<1>5. ASSUME NEW t \in Transfers, libusb_cancel_transfer(t)
      PROVE IsInjective(completed') /\ \A x \in Transfers : Sound(x)'
  BY <1>4, <1>5 DEF libusb_cancel_transfer
<1>6. CASE handle_timeouts
  <2>1. PICK k \in DOMAIN flying : op_cancel_transfer(flying[k])
    BY <1>6 DEF handle_timeouts
  <2>2. flying[k] \in Transfers
    BY MembersOf DEF TypeInv, BaseTypes
  <2> QED BY <1>4, <2>1, <2>2
<1>7. CASE Unplug
  <2>1. polled
    BY <1>7 DEF Unplug
  <2> QED BY <1>1, <1>7, <2>1, UnplugSound
<1>8. CASE Tick \/ Poll \/ ReapNothing \/ UNCHANGED vars
  <2>1. /\ polled /\ UNCHANGED <<kernelVars, type, privVars>>
        /\ \A x \in Transfers : Ending(x)' \/ Calling(x)' => Ending(x) \/ Calling(x)
    <3>1. /\ polled' = polled \/ Poll
          /\ UNCHANGED <<kernelVars, type, privVars>>
      BY <1>8, Zenon DEF Tick, Poll, ReapNothing, vars, askVars
    <3>2. polled
      BY <3>1 DEF Poll
    <3>3. ev' = ev \/ ev' = At("reap") \/ ev' = At("disconnect") \/ ev' = At("poll")
      BY <1>8, Zenon DEF Tick, Poll, ReapNothing, vars
    <3>4. CASE ev' = ev
      BY <3>1, <3>2, <3>4 DEF Ending, Calling
    <3>5. CASE ev'.at \notin {"finish", "callback"}
      BY <3>1, <3>2, <3>5 DEF Ending, Calling
    <3> QED BY <3>3, <3>4, <3>5 DEF At
  <2> QED BY <1>1, <2>1, Quiet
<1>9. CASE reap_for_handle
  <2>1. polled
    BY <1>9 DEF reap_for_handle
  <2> QED BY <1>1, <1>9, <2>1, ReapSound
<1>10. CASE usbi_handle_disconnect
  BY <1>10 DEF usbi_handle_disconnect, EventInv
<1>11. CASE usbi_handle_transfer_completion
  <2>1. /\ polled /\ UNCHANGED <<kernelVars, type, privVars>>
        /\ \A x \in Transfers : Ending(x)' \/ Calling(x)' => Ending(x) \/ Calling(x)
    <3>1. /\ polled /\ UNCHANGED <<kernelVars, type, privVars>>
          /\ ev.at = "finish" /\ ev' = [ev EXCEPT !.at = "callback", !.status = Verdict]
      BY <1>11 DEF usbi_handle_transfer_completion, askVars
    <3>2. ev'.at = "callback" /\ ev'.t = ev.t
      BY <3>1 DEF TypeInv, EvTypes, At
    <3> QED BY <3>1, <3>2 DEF Ending, Calling
  <2> QED BY <1>1, <2>1, Quiet
<1>12. CASE Callback
  <2>1. polled /\ ev.at = "callback" /\ ev.t \in Transfers
    BY <1>12 DEF Callback, TypeInv, EvTypes
  <2>2. ~allocated[ev.t]
    BY <2>1 DEF LifeInv, Calling
  <2>3. UNCHANGED completed
    BY <1>12 DEF Callback
  <2> QED BY <1>1, <1>12, <2>1, <2>2, <2>3, CallbackSound
<1> QED BY <1>2, <1>3, <1>5, <1>6, <1>7, <1>8, <1>9, <1>10, <1>11, <1>12 DEF Next, EventThread

-----------------------------------------------------------------------------
(* The event thread, and the kernel once the device has gone.              *)

LEMMA CancelKernel ==
    ASSUME TypeInv, NEW t \in Transfers, op_cancel_transfer(t)
    PROVE  /\ InKernel(urbs[t]) = {} => InKernel(urbs'[t]) = {}
           /\ urbs'[t].told = urbs[t].told
           /\ \A x \in Transfers : x # t => urbs'[x] = urbs[x]
<1>1. CASE UNCHANGED urbs
  BY <1>1
<1>2. ASSUME NEW n, NEW d \in UrbTypes, CancelledUrbs(t, n, d)
      PROVE  /\ InKernel(urbs[t]) = {} => InKernel(urbs'[t]) = {}
             /\ urbs'[t].told = urbs[t].told
             /\ \A x \in Transfers : x # t => urbs'[x] = urbs[x]
  <2>1. /\ urbs' = [urbs EXCEPT ![t] = d] /\ d.told = urbs[t].told
        /\ InKernel(d) = InKernel(urbs[t]) \ InKernel(urbs[t])
    BY <1>2 DEF CancelledUrbs, AfterDiscard
  <2>2. urbs'[t] = d /\ \A x \in Transfers : x # t => urbs'[x] = urbs[x]
    BY <2>1 DEF TypeInv, BaseTypes
  <2> QED BY <2>1, <2>2
<1> QED BY <1>1, <1>2, CancelStep

\* A submission is refused, or the transfer is submitted.
RefusedNow(t) ==
    /\ UNCHANGED <<user, flying, allocated, completed>>
    /\ reapAction'[t] = "NORMAL" /\ urbs'[t].told = {} /\ InKernel(urbs'[t]) = {}

SubmittedNow(t) ==
    /\ plugged
    /\ user' = [user EXCEPT ![t] = "submitted"]
    /\ allocated' = [allocated EXCEPT ![t] = TRUE]
    /\ \A x : x \in ToSet(flying') <=> x \in ToSet(flying) \/ x = t
    /\ IsInjective(flying) /\ t \notin ToSet(flying) => IsInjective(flying')
    /\ reapAction'[t] \in {"NORMAL", "SUBMIT_FAILED", "COMPLETED_EARLY"}
    /\ reapAction'[t] = "SUBMIT_FAILED" => urbs'[t].told = {"refused"}
    /\ reapAction'[t] = "COMPLETED_EARLY" => type'[t] = "BULK"

LEMMA SubmitCases ==
    ASSUME TypeInv, NEW t \in Transfers, libusb_submit_transfer(t)
    PROVE  RefusedNow(t) \/ SubmittedNow(t)
<1>1. PICK k \in Types, l \in Nat, N \in Nat \ {0} :
         /\ N = Urbs[k]
         /\ \/ SubmitRefused(t, N)
            \/ SubmitAll(t, N)
            \/ \E i \in 2..N : SubmitSome(t, N, i) \/ SubmitShort(t, N, i)
  BY SubmitBasics
<1>2. \A a : reapAction' = [reapAction EXCEPT ![t] = a] => reapAction'[t] = a
  BY DEF TypeInv, BaseTypes
<1>3. \A d : urbs' = [urbs EXCEPT ![t] = d] => urbs'[t] = d
  BY DEF TypeInv, BaseTypes
<1>4. ASSUME NEW a \in {"NORMAL", "SUBMIT_FAILED", "COMPLETED_EARLY"}, NEW r \in Nat, Submitted(t, a, r)
      PROVE  /\ plugged
             /\ user' = [user EXCEPT ![t] = "submitted"]
             /\ allocated' = [allocated EXCEPT ![t] = TRUE]
             /\ \A x : x \in ToSet(flying') <=> x \in ToSet(flying) \/ x = t
             /\ IsInjective(flying) /\ t \notin ToSet(flying) => IsInjective(flying')
             /\ reapAction'[t] = a
  <2>1. a \in ReapActions
    BY DEF ReapActions
  <2>2. reapAction' = [reapAction EXCEPT ![t] = a]
    BY <1>4 DEF Submitted
  <2> QED BY <1>2, <1>4, <2>1, <2>2, SubmittedStep
<1>5. CASE SubmitRefused(t, N)
  <2>1. PICK s \in {"none", "flying"} : s = "none"
    OBVIOUS
  <2>2. PICK d : d = FreshUrbs(N, s)
    OBVIOUS
  <2>3. d.told = {} /\ InKernel(d) = {}
    BY <2>1, <2>2, Fresh
  <2>4. urbs' = [urbs EXCEPT ![t] = d] /\ reapAction' = [reapAction EXCEPT ![t] = "NORMAL"]
        /\ UNCHANGED <<user, flying, allocated, completed>>
    BY <1>5, <2>1, <2>2 DEF SubmitRefused, FreshUrbs
  <2>5. urbs'[t] = d /\ reapAction'[t] = "NORMAL"
    BY <1>2, <1>3, <2>4
  <2> QED BY <2>3, <2>4, <2>5 DEF RefusedNow
<1>6. CASE SubmitAll(t, N)
  <2>1. Submitted(t, "NORMAL", 0)
    BY <1>6 DEF SubmitAll
  <2> QED BY <1>4, <2>1 DEF SubmittedNow
<1>7. ASSUME NEW i \in 2..N, SubmitSome(t, N, i) PROVE SubmittedNow(t)
  <2>1. Submitted(t, "SUBMIT_FAILED", N - i + 1) /\ N - i + 1 \in Nat
    BY <1>7 DEF SubmitSome
  <2>2. PICK n \in [Before(i) -> {0, 1}], s \in [Before(i) -> {"ok", "unlinked"}], d \in UrbTypes :
           SubmittedSome(t, N, i, n, s, d)
    BY <1>7, SubmitSomeStep
  <2>3. urbs'[t] = d /\ d.told = {"refused"}
    BY <1>3, <2>2 DEF SubmittedSome
  <2> QED BY <1>4, <2>1, <2>3 DEF SubmittedNow
<1>8. ASSUME NEW i \in 2..N, SubmitShort(t, N, i) PROVE SubmittedNow(t)
  <2>1. Submitted(t, "COMPLETED_EARLY", N - i + 1) /\ N - i + 1 \in Nat /\ type'[t] = "BULK"
    BY <1>8 DEF SubmitShort
  <2> QED BY <1>4, <2>1 DEF SubmittedNow
<1> QED BY <1>1, <1>5, <1>6, <1>7, <1>8

LEMMA ReapKernel ==
    ASSUME TypeInv, reap_for_handle, NEW h, h = Head(completed)
    PROVE  /\ InKernel(urbs[h.t]) = {} => InKernel(urbs'[h.t]) = {}
           /\ urbs'[h.t].told = urbs[h.t].told
           /\ \A x \in Transfers : x # h.t => urbs'[x] = urbs[x]
<1>1. /\ completed # <<>> /\ h.t \in Transfers /\ \E rest : ReapedOf(h, rest)
  BY ReapEffect
<1>2. PICK rest : discard_urbs(h.t, [urbs[h.t] EXCEPT !.at[h.i] = "none"], Tail(completed), rest)
  BY <1>1 DEF ReapedOf
<1>3. PICK found : found = rest \cap (InKernel(urbs[h.t]) \ {h.i})
  OBVIOUS
<1>4. PICK n \in [found -> {0, 1}], d \in UrbTypes : Reaped(h, found, n, d)
  BY <1>1, <1>2, <1>3, ReapStep
<1>5. urbs' = [urbs EXCEPT ![h.t] = d] /\ d.told = urbs[h.t].told
      /\ InKernel(d) = InKernel(urbs[h.t]) \ ({h.i} \cup found)
  BY <1>4 DEF Reaped
<1>6. urbs'[h.t] = d /\ \A x \in Transfers : x # h.t => urbs'[x] = urbs[x]
  BY <1>1, <1>5 DEF TypeInv, BaseTypes
<1> QED BY <1>5, <1>6

LEMMA EventStep ==
    ASSUME TypeInv, EventInv, [Next]_vars
    PROVE  EventInv'
<1>0. /\ ~polled => ~plugged /\ ev.at # "reap" /\ ev.back # "reap"
      /\ ev.at = "disconnect" \/ ev.back = "disconnect" => ~polled
      /\ ev.back = "disconnect" => ev.status = "NO_DEVICE"
      /\ ~plugged => \A x \in Transfers : InKernel(urbs[x]) = {}
  BY DEF EventInv
<1>1. ASSUME UNCHANGED <<polled, ev>>, plugged' => plugged,
             ~plugged' => \A x \in Transfers : InKernel(urbs'[x]) = {}
      PROVE  EventInv'
  BY <1>0, <1>1 DEF EventInv
<1>2. ASSUME NEW t \in Transfers, KernelComplete(t) PROVE EventInv'
  <2>1. UNCHANGED <<polled, ev, plugged>> /\ plugged
    BY <1>2 DEF KernelComplete
  <2> QED BY <1>1, <2>1
<1>3. ASSUME NEW t \in Transfers, libusb_submit_transfer(t) PROVE EventInv'
  <2>1. UNCHANGED <<polled, ev, plugged>> /\ \A x \in Transfers : x # t => urbs'[x] = urbs[x]
    BY <1>3, SubmitFrame
  <2>2. ~plugged => InKernel(urbs'[t]) = {}
    BY <1>3, SubmitCases DEF SubmittedNow, RefusedNow
  <2>3. ~plugged => \A x \in Transfers : InKernel(urbs'[x]) = {}
    BY <1>0, <2>1, <2>2
  <2> QED BY <1>1, <2>1, <2>3
<1>4. ASSUME NEW t \in Transfers, op_cancel_transfer(t) PROVE EventInv'
  <2>1. UNCHANGED <<polled, ev, plugged>>
    BY <1>4 DEF op_cancel_transfer
  <2>2. ~plugged => \A x \in Transfers : InKernel(urbs'[x]) = {}
    BY <1>0, <1>4, CancelKernel
  <2> QED BY <1>1, <2>1, <2>2
<1>5. ASSUME NEW t \in Transfers, libusb_cancel_transfer(t) PROVE EventInv'
  BY <1>4, <1>5 DEF libusb_cancel_transfer
<1>6. CASE handle_timeouts
  <2>1. PICK k \in DOMAIN flying : op_cancel_transfer(flying[k])
    BY <1>6 DEF handle_timeouts
  <2>2. flying[k] \in Transfers
    BY MembersOf DEF TypeInv, BaseTypes
  <2> QED BY <1>4, <2>1, <2>2
<1>7. CASE Unplug
  <2>1. UNCHANGED <<polled, ev>> /\ ~plugged'
    BY <1>7 DEF Unplug
  <2>2. /\ urbs' = [t \in Transfers |-> LET u == urbs[t] IN UrbsOf(
                  [i \in DOMAIN u.at |-> IF i \in InKernel(u) THEN "done" ELSE u.at[i]],
                  u.moved, u.told)]
    BY <1>7 DEF Unplug
  <2>3. ASSUME NEW x \in Transfers PROVE InKernel(urbs'[x]) = {}
    <3>1. PICK u : u = urbs[x]
      OBVIOUS
    <3>2. urbs'[x].at = [i \in DOMAIN u.at |-> IF i \in InKernel(u) THEN "done" ELSE u.at[i]]
      BY <2>2, <3>1 DEF UrbsOf
    <3> QED BY <3>2 DEF InKernel
  <2> QED BY <1>1, <2>1, <2>3
<1>8. CASE Tick \/ UNCHANGED vars
  <2>1. UNCHANGED <<polled, ev, plugged, urbs>>
    BY <1>8 DEF Tick, vars, kernelVars
  <2> QED BY <1>0, <1>1, <2>1
<1>9. CASE Poll
  <2>1. /\ polled /\ UNCHANGED <<plugged, urbs>>
        /\ \/ plugged /\ ev' = At("reap") /\ polled' = polled
           \/ ~plugged /\ ev' = At("disconnect") /\ polled' = FALSE
    BY <1>9 DEF Poll, kernelVars
  <2>2. \A w : At(w).at = w /\ At(w).back = "none"
    BY DEF At
  <2>3. /\ ~polled' => ~plugged /\ ev'.at # "reap" /\ ev'.back # "reap"
        /\ ev'.at = "disconnect" \/ ev'.back = "disconnect" => ~polled'
        /\ ev'.back = "disconnect" => ev'.status = "NO_DEVICE"
    BY <2>1, <2>2
  <2> QED BY <1>0, <2>1, <2>3 DEF EventInv
<1>10. CASE ReapNothing
  BY <1>0, <1>10 DEF ReapNothing, EventInv, kernelVars, At
<1>11. CASE reap_for_handle
  <2>1. PICK h : h = Head(completed)
    OBVIOUS
  <2>2. /\ ev.at = "reap" /\ h.t \in Transfers /\ UNCHANGED <<plugged, polled>>
        /\ \E rest : ReapedOf(h, rest)
    BY <1>11, <2>1, ReapEffect
  <2>3. ~plugged => \A x \in Transfers : InKernel(urbs'[x]) = {}
    BY <1>0, <1>11, <2>1, <2>2, ReapKernel
  <2>4. ev' = ev \/ (ev'.at = "finish" /\ ev'.back = "reap")
    BY <2>2 DEF ReapedOf, Finish
  <2> QED BY <1>0, <2>2, <2>3, <2>4 DEF EventInv
<1>12. CASE usbi_handle_disconnect
  <2>1. ev.at = "disconnect" /\ UNCHANGED <<plugged, polled, urbs>>
    BY <1>12 DEF usbi_handle_disconnect, kernelVars
  <2>2. \/ ev' = At("poll")
        \/ ev'.at = "finish" /\ ev'.back = "disconnect" /\ ev'.status = "NO_DEVICE"
    BY <1>12 DEF usbi_handle_disconnect, Finish
  <2> QED BY <1>0, <2>1, <2>2 DEF EventInv, At
<1>13. CASE usbi_handle_transfer_completion
  <2>1. /\ UNCHANGED <<plugged, polled, urbs>> /\ ev.at = "finish"
        /\ ev' = [ev EXCEPT !.at = "callback", !.status = Verdict]
    BY <1>13 DEF usbi_handle_transfer_completion, kernelVars
  <2>2. ev'.at = "callback" /\ ev'.back = ev.back /\ ev'.status = Verdict
    BY <2>1 DEF TypeInv, EvTypes, At
  <2>3. ev.back = "disconnect" => Verdict = ev.status
    BY DEF Verdict
  <2> QED BY <1>0, <2>1, <2>2, <2>3 DEF EventInv
<1>14. CASE Callback
  <2>1. UNCHANGED <<plugged, polled>> /\ ev.at = "callback" /\ ev' = At(ev.back)
        /\ urbs' = [urbs EXCEPT ![ev.t] = UrbsOf(@.at, 0, {})]
    BY <1>14 DEF Callback
  <2>2. ASSUME NEW x \in Transfers PROVE InKernel(urbs'[x]) = InKernel(urbs[x])
    <3>1. urbs'[x].at = urbs[x].at
      BY <2>1 DEF TypeInv, BaseTypes, UrbsOf
    <3> QED BY <3>1 DEF InKernel
  <2> QED BY <1>0, <2>1, <2>2 DEF EventInv, At
<1> QED BY <1>2, <1>3, <1>5, <1>6, <1>7, <1>8, <1>9, <1>10, <1>11, <1>12, <1>13, <1>14 DEF Next, EventThread

-----------------------------------------------------------------------------
(* The life of a transfer.                                                 *)

LEMMA LifeStep ==
    ASSUME ~overtaken', TypeInv, EventInv, LifeInv, UrbInv, [Next]_vars
    PROVE  LifeInv'
<1>0. /\ IsInjective(flying)
      /\ \A x \in Transfers :
         /\ user[x] = "submitted" <=> x \in ToSet(flying) \/ Calling(x)
         /\ allocated[x] => x \in ToSet(flying) /\ ~Ending(x)
         /\ Ending(x) => x \in ToSet(flying)
         /\ Calling(x) => x \notin ToSet(flying)
  BY DEF LifeInv
<1>1. ASSUME UNCHANGED <<user, allocated, flying>>,
             \A x \in Transfers : (Ending(x)' <=> Ending(x)) /\ (Calling(x)' <=> Calling(x))
      PROVE  LifeInv'
  BY <1>0, <1>1 DEF LifeInv
<1>2. ASSUME UNCHANGED <<user, allocated, flying, ev>> PROVE LifeInv'
  BY <1>1, <1>2 DEF Ending, Calling
<1>3. ASSUME NEW t \in Transfers, KernelComplete(t) PROVE LifeInv'
  BY <1>2, <1>3 DEF KernelComplete, askVars, privVars, listVars
<1>4. ASSUME NEW t \in Transfers, libusb_submit_transfer(t) PROVE LifeInv'
  <2>1. UNCHANGED ev /\ user[t] = "idle"
    BY <1>4 DEF libusb_submit_transfer
  <2>2. CASE RefusedNow(t)
    BY <1>2, <2>1, <2>2 DEF RefusedNow
  <2>3. CASE SubmittedNow(t)
    <3>1. t \notin ToSet(flying) /\ ~Ending(t) /\ ~Calling(t)
      BY <2>1, IdleTransfer
    <3>2. \A x \in Transfers : (Ending(x)' <=> Ending(x)) /\ (Calling(x)' <=> Calling(x))
      BY <2>1 DEF Ending, Calling
    <3>3. IsInjective(flying') /\ \A x : x \in ToSet(flying') <=> x \in ToSet(flying) \/ x = t
      BY <1>0, <2>3, <3>1 DEF SubmittedNow
    <3>4. /\ user'[t] = "submitted" /\ allocated'[t]
          /\ \A x \in Transfers : x # t => user'[x] = user[x] /\ allocated'[x] = allocated[x]
      BY <2>3 DEF SubmittedNow, TypeInv, BaseTypes
    <3> QED BY <1>0, <3>1, <3>2, <3>3, <3>4 DEF LifeInv
  <2> QED BY <1>4, <2>2, <2>3, SubmitCases
<1>5. ASSUME NEW t \in Transfers, op_cancel_transfer(t) PROVE LifeInv'
  BY <1>2, <1>5 DEF op_cancel_transfer, askVars, listVars
<1>6. ASSUME NEW t \in Transfers, libusb_cancel_transfer(t) PROVE LifeInv'
  BY <1>5, <1>6 DEF libusb_cancel_transfer
<1>7. CASE handle_timeouts
  <2>1. PICK k \in DOMAIN flying : op_cancel_transfer(flying[k])
    BY <1>7 DEF handle_timeouts
  <2>2. flying[k] \in Transfers
    BY MembersOf DEF TypeInv, BaseTypes
  <2> QED BY <1>5, <2>1, <2>2
<1>8. CASE Unplug \/ Tick \/ UNCHANGED vars
  <2>1. UNCHANGED <<user, allocated, flying, ev>>
    BY <1>8, Zenon DEF Unplug, Tick, vars, askVars, privVars, listVars
  <2> QED BY <1>2, <2>1
<1>9. CASE Poll \/ ReapNothing
  <2>1. UNCHANGED <<user, allocated, flying>> /\ ev.at \in {"poll", "reap"}
        /\ ev'.at \in {"poll", "reap", "disconnect"}
    BY <1>9 DEF Poll, ReapNothing, At, askVars, privVars, listVars
  <2> QED BY <1>1, <2>1 DEF Ending, Calling
<1>10. CASE reap_for_handle
  <2>1. PICK h : h = Head(completed)
    OBVIOUS
  <2>2. /\ completed # <<>> /\ ev.at = "reap" /\ h.t \in Transfers
        /\ UNCHANGED <<user, flying>>
        /\ \E rest : ReapedOf(h, rest)
    BY <1>10, <2>1, ReapEffect DEF askVars, listVars
  <2>3. IsInjective(completed) /\ \A x \in Transfers : Sound(x)
    BY <2>2 DEF EventInv, UrbInv
  <2>4. allocated[h.t]
    BY <2>1, <2>2, <2>3, ReapHead DEF HeadKnown
  <2>5. /\ \A x \in Transfers : x # h.t => allocated'[x] = allocated[x]
        /\ \/ ev' = ev /\ allocated'[h.t] = allocated[h.t]
           \/ ~allocated'[h.t] /\ ev'.at = "finish" /\ ev'.t = h.t
    BY <2>2 DEF ReapedOf, Finish
  <2>6. \A x \in Transfers : ~Ending(x) /\ ~Calling(x) /\ ~Calling(x)'
    BY <2>2, <2>5 DEF Ending, Calling
  <2>7. \A x \in Transfers : Ending(x)' => x = h.t /\ ~allocated'[x]
    BY <2>2, <2>5 DEF Ending
  <2>8. \A x \in Transfers : allocated'[x] => allocated[x]
    BY <2>5
  <2> QED BY <1>0, <2>2, <2>4, <2>6, <2>7, <2>8 DEF LifeInv
<1>11. CASE usbi_handle_disconnect
  <2>1. UNCHANGED <<user, flying>> /\ ev.at = "disconnect"
    BY <1>11 DEF usbi_handle_disconnect, askVars, listVars
  <2>2. CASE flying = <<>>
    <3>1. UNCHANGED allocated /\ ev'.at = "poll"
      BY <1>11, <2>2 DEF usbi_handle_disconnect, At
    <3> QED BY <1>1, <2>1, <3>1 DEF Ending, Calling
  <2>3. CASE flying # <<>>
    <3>1. PICK t : t = flying[1]
      OBVIOUS
    <3>2. t \in Transfers /\ t \in ToSet(flying)
      <4>1. flying \in Seq(Transfers) /\ 1 \in 1..Len(flying)
        BY <2>3, EmptySeq, LenProperties DEF TypeInv, BaseTypes
      <4> QED BY <3>1, <4>1, MembersOf
    <3>3. allocated' = [allocated EXCEPT ![t] = FALSE] /\ ev'.at = "finish" /\ ev'.t = t
      BY <1>11, <2>3, <3>1 DEF usbi_handle_disconnect, Finish
    <3>4. ~allocated'[t] /\ \A x \in Transfers : x # t => allocated'[x] = allocated[x]
      BY <3>2, <3>3 DEF TypeInv, BaseTypes
    <3>5. \A x \in Transfers : /\ ~Ending(x) /\ ~Calling(x) /\ ~Calling(x)'
                               /\ Ending(x)' <=> x = t
      BY <2>1, <3>3 DEF Ending, Calling
    <3> QED BY <1>0, <2>1, <3>2, <3>4, <3>5 DEF LifeInv
  <2> QED BY <2>2, <2>3
<1>12. CASE usbi_handle_transfer_completion
  <2>1. PICK k \in DOMAIN flying : flying[k] = ev.t /\ flying' = RemoveAt(flying, k)
    BY <1>12 DEF usbi_handle_transfer_completion
  <2>2. /\ UNCHANGED <<user, allocated>> /\ ev.at = "finish"
        /\ ev' = [ev EXCEPT !.at = "callback", !.status = Verdict]
    BY <1>12 DEF usbi_handle_transfer_completion, askVars, privVars
  <2>3. ev'.at = "callback" /\ ev'.t = ev.t
    BY <2>2 DEF TypeInv, EvTypes, At
  <2>4. flying \in Seq(Transfers) /\ k \in 1..Len(flying)
    BY MembersOf DEF TypeInv, BaseTypes
  <2>5. IsInjective(flying') /\ \A x : x \in ToSet(flying') <=> x \in ToSet(flying) /\ x # ev.t
    BY <1>0, <2>1, <2>4, Removed
  <2>6. \A x \in Transfers : /\ ~Ending(x)' /\ ~Calling(x)
                             /\ Ending(x) <=> x = ev.t
                             /\ Calling(x)' <=> x = ev.t
    BY <2>2, <2>3 DEF Ending, Calling
  <2> QED BY <1>0, <2>2, <2>5, <2>6 DEF LifeInv
<1>13. CASE Callback
  <2>1. /\ ev.at = "callback" /\ ev.t \in Transfers /\ ev' = At(ev.back)
        /\ UNCHANGED <<allocated, flying>> /\ user' = [user EXCEPT ![ev.t] = "idle"]
        /\ ev.back \in {"reap", "disconnect"}
    BY <1>13 DEF Callback, privVars, listVars, TypeInv, EvTypes, At
  <2>2. user'[ev.t] = "idle" /\ \A x \in Transfers : x # ev.t => user'[x] = user[x]
    BY <2>1 DEF TypeInv, BaseTypes
  <2>3. \A x \in Transfers : /\ ~Ending(x) /\ ~Ending(x)' /\ ~Calling(x)'
                             /\ Calling(x) <=> x = ev.t
    BY <2>1 DEF Ending, Calling, At
  <2> QED BY <1>0, <2>1, <2>2, <2>3 DEF LifeInv
<1> QED BY <1>3, <1>4, <1>6, <1>7, <1>8, <1>9, <1>10, <1>11, <1>12, <1>13 DEF Next, EventThread

-----------------------------------------------------------------------------
(* What was asked of a transfer, and has become of it.                     *)

\* The causes of what is known of transfer t stay.
LEMMA CausesStay ==
    ASSUME NEW t \in Transfers, Caused(t),
           type'[t] = type[t], timedOut'[t] = timedOut[t], Expired(t) => Expired(t)',
           asked[t] => asked'[t], reapAction'[t] = reapAction[t], reapStatus'[t] = reapStatus[t],
           urbs[t].told \subseteq urbs'[t].told, plugged' => plugged
    PROVE  Caused(t)'
  BY DEF Caused

\* A transfer is cancelled, by the application or since its time is over.
LEMMA CausesCancelled ==
    ASSUME TypeInv, NEW t \in Transfers, Caused(t), op_cancel_transfer(t),
           asked[t] => asked'[t], asked'[t] \/ timedOut'[t],
           timedOut'[t] => Expired(t), timedOut[t] => timedOut'[t]
    PROVE  Caused(t)'
<1>1. /\ type'[t] = type[t] /\ reapStatus'[t] = reapStatus[t] /\ plugged' = plugged
      /\ urbs'[t].told = urbs[t].told /\ (Expired(t)' <=> Expired(t))
  <2>1. UNCHANGED <<plugged, type, reapStatus, timeout, now>>
    BY DEF op_cancel_transfer, askVars, listVars
  <2> QED BY <2>1, CancelKernel DEF Expired
<1>2. \/ reapAction'[t] = "CANCELLED"
      \/ reapAction'[t] = "ERROR" /\ reapAction[t] = "ERROR"
  BY DEF op_cancel_transfer, TypeInv, BaseTypes
<1> QED BY <1>1, <1>2 DEF Caused

\* A transfer's URB is reaped.
LEMMA CausesReaped ==
    ASSUME NEW h, NEW u, NEW N, HeadKnown(h, u, N), NEW rest, ReapedOf(h, rest),
           EntriesMean(h.t), Caused(h.t), TypeInv,
           UNCHANGED <<plugged, type, timedOut, timeout, now, asked>>,
           urbs'[h.t].told = urbs[h.t].told
    PROVE  Caused(h.t)'
<1> DEFINE t == h.t
<1>1. /\ t \in Transfers /\ h \in Waiting(t)
      /\ reapAction'[t] = (IF type[t] = "BULK" THEN BulkAction(h) ELSE reapAction[t])
      /\ reapStatus'[t] = (IF type[t] = "BULK" THEN BulkStatus(h) ELSE reapStatus[t])
  BY DEF HeadKnown, ReapedOf
<1>2. /\ h.status \in Errors => h.status \in urbs[t].told
      /\ h.status = "shutdown" => ~plugged
  BY <1>1 DEF EntriesMean
<1>3. Expired(t)' <=> Expired(t)
  BY DEF Expired
<1>4. CASE type[t] # "BULK"
  <2>1. reapAction'[t] = reapAction[t] /\ reapStatus'[t] = reapStatus[t]
    BY <1>1, <1>4
  <2> QED BY <1>1, <1>3, <2>1, CausesStay
<1>5. CASE type[t] = "BULK"
  <2>0. reapAction[t] \in ReapActions /\ reapStatus[t] \in Verdicts
    BY <1>1 DEF TypeInv, BaseTypes
  <2>1. reapAction'[t] = BulkAction(h) /\ reapStatus'[t] = BulkStatus(h)
    BY <1>1, <1>5
  <2>2. \/ reapAction[t] # "NORMAL" /\ BulkAction(h) = reapAction[t]
        \/ reapAction[t] = "NORMAL" /\ BulkAction(h) = "ERROR" /\ h.status = "proto"
        \/ reapAction[t] = "NORMAL" /\ BulkAction(h) \in {"COMPLETED_EARLY", "NORMAL"}
    BY DEF BulkAction, Short
  <2>3. \/ BulkStatus(h) = reapStatus[t]
        \/ BulkStatus(h) = "NO_DEVICE" /\ h.status = "shutdown"
        \/ BulkStatus(h) = "STALL" /\ h.status = "stall"
        \/ BulkStatus(h) = "OVERFLOW" /\ h.status = "overflow"
        \/ BulkStatus(h) = "ERROR" /\ h.status = "proto"
        \/ BulkStatus(h) = "ERROR" /\ reapAction[t] \notin {"NORMAL", "COMPLETED_EARLY"}
    BY DEF BulkStatus
  <2>4. /\ reapAction'[t] = "CANCELLED" => reapAction[t] = "CANCELLED"
        /\ reapAction'[t] = "SUBMIT_FAILED" => reapAction[t] = "SUBMIT_FAILED"
        /\ reapAction'[t] = "ERROR" => reapAction[t] = "ERROR" \/ h.status = "proto"
        /\ reapAction[t] = "CANCELLED" => reapAction'[t] = "CANCELLED"
    BY <2>1, <2>2
  <2>5. /\ reapStatus'[t] = "STALL" => "stall" \in urbs[t].told
        /\ reapStatus'[t] = "OVERFLOW" => "overflow" \in urbs[t].told
        /\ reapStatus'[t] = "NO_DEVICE" => ~plugged
    BY <1>2, <2>1, <2>3 DEF Caused, Errors
  <2>6. reapStatus'[t] = "ERROR" => urbs[t].told # {} \/ reapAction'[t] = "CANCELLED"
    BY <1>2, <2>0, <2>1, <2>3, <2>4 DEF Caused, Errors, ReapActions
  <2> QED BY <1>2, <1>3, <1>5, <2>4, <2>5, <2>6 DEF Caused, Errors
<1> QED BY <1>4, <1>5

LEMMA ActionStep ==
    ASSUME ~overtaken', TypeInv, EventInv, LifeInv, UrbInv, ActionInv, [Next]_vars
    PROVE  ActionInv'
<1>0. \A x \in Transfers : user[x] = "submitted" => Caused(x)
  BY DEF ActionInv
<1>1. ASSUME UNCHANGED <<type, timedOut, timeout, asked, reapAction, reapStatus, user>>,
             plugged' => plugged, now' >= now,
             \A x \in Transfers : urbs[x].told \subseteq urbs'[x].told
      PROVE  ActionInv'
  <2>1. ASSUME NEW x \in Transfers, user'[x] = "submitted" PROVE Caused(x)'
    <3>1. Expired(x) => Expired(x)'
      <4>1. timeout[x] \in Nat /\ now \in Int /\ now' \in Int /\ timeout'[x] = timeout[x]
        BY <1>1, TypesStep, TransferAssumption DEF TypeInv, BaseTypes
      <4> QED BY <1>1, <4>1 DEF Expired
    <3>2. Caused(x)
      BY <1>0, <1>1, <2>1
    <3>3. /\ type'[x] = type[x] /\ timedOut'[x] = timedOut[x] /\ asked'[x] = asked[x]
          /\ reapAction'[x] = reapAction[x] /\ reapStatus'[x] = reapStatus[x]
      BY <1>1
    <3> QED BY <1>1, <3>1, <3>2, <3>3, CausesStay
  <2> QED BY <2>1 DEF ActionInv
<1>2. ASSUME NEW t \in Transfers, KernelComplete(t) PROVE ActionInv'
  <2>1. UNCHANGED <<type, timedOut, timeout, asked, reapAction, reapStatus, user, plugged, now>>
    BY <1>2 DEF KernelComplete, askVars, privVars, listVars
  <2>2. \A x \in Transfers : urbs[x].told \subseteq urbs'[x].told
    <3>1. PICK i \in InKernel(urbs[t]), s \in UrbStatus \ {"shutdown"}, n \in {0, 1}, d \in UrbTypes :
              KernelDone(t, i, s, n, d)
      BY <1>2, KernelStep
    <3>2. urbs' = [urbs EXCEPT ![t] = d] /\ d.told = urbs[t].told \cup ({s} \cap Errors)
      BY <3>1 DEF KernelDone
    <3>3. urbs'[t] = d /\ \A x \in Transfers : x # t => urbs'[x] = urbs[x]
      BY <3>2 DEF TypeInv, BaseTypes
    <3> QED BY <3>2, <3>3
  <2>3. now' >= now
    BY <2>1 DEF TypeInv, BaseTypes
  <2> QED BY <1>1, <2>1, <2>2, <2>3
<1>3. ASSUME NEW t \in Transfers, libusb_submit_transfer(t) PROVE ActionInv'
  <2>1. /\ UNCHANGED <<plugged, now, asked>>
        /\ reapStatus'[t] = "COMPLETED" /\ timedOut'[t] = FALSE
        /\ \A x \in Transfers : x # t =>
              /\ urbs'[x] = urbs[x] /\ type'[x] = type[x] /\ user'[x] = user[x]
              /\ reapAction'[x] = reapAction[x] /\ reapStatus'[x] = reapStatus[x]
              /\ timedOut'[x] = timedOut[x] /\ timeout'[x] = timeout[x]
    BY <1>3, SubmitFrame
  <2>2. user[t] = "idle"
    BY <1>3 DEF libusb_submit_transfer
  <2>3. ASSUME NEW x \in Transfers, x # t, user'[x] = "submitted" PROVE Caused(x)'
    <3>1. Expired(x)' <=> Expired(x)
      BY <2>1, <2>3 DEF Expired
    <3>2. Caused(x)
      BY <1>0, <2>1, <2>3
    <3> QED BY <2>1, <2>3, <3>1, <3>2, CausesStay
  <2>4. ASSUME user'[t] = "submitted" PROVE Caused(t)'
    <3>1. SubmittedNow(t)
      BY <1>3, <2>2, <2>4, SubmitCases DEF RefusedNow
    <3> QED BY <2>1, <3>1 DEF Caused, SubmittedNow
  <2> QED BY <2>3, <2>4 DEF ActionInv
<1>4. ASSUME NEW t \in Transfers, op_cancel_transfer(t), user[t] = "submitted",
             \A x \in Transfers : asked[x] => asked'[x],
             \A x \in Transfers : x # t => timedOut'[x] = timedOut[x],
             asked'[t] \/ timedOut'[t], timedOut'[t] => Expired(t), timedOut[t] => timedOut'[t]
      PROVE  ActionInv'
  <2>1. UNCHANGED <<plugged, type, user, reapStatus, timeout, now>>
    BY <1>4 DEF op_cancel_transfer, askVars, listVars
  <2>2. Caused(t)'
    BY <1>0, <1>4, CausesCancelled
  <2>3. ASSUME NEW x \in Transfers, x # t, user'[x] = "submitted" PROVE Caused(x)'
    <3>1. Expired(x)' <=> Expired(x)
      BY <2>1 DEF Expired
    <3>2. Caused(x)
      BY <1>0, <2>1, <2>3
    <3>3. reapAction'[x] = reapAction[x] /\ urbs'[x] = urbs[x]
      BY <1>4, <2>3, CancelKernel DEF op_cancel_transfer, TypeInv, BaseTypes
    <3>4. /\ type'[x] = type[x] /\ timedOut'[x] = timedOut[x] /\ (asked[x] => asked'[x])
          /\ reapStatus'[x] = reapStatus[x]
      BY <1>4, <2>1, <2>3
    <3> QED BY <2>1, <3>1, <3>2, <3>3, <3>4, CausesStay
  <2> QED BY <2>2, <2>3 DEF ActionInv
<1>5. ASSUME NEW t \in Transfers, libusb_cancel_transfer(t) PROVE ActionInv'
  <2>1. /\ op_cancel_transfer(t) /\ user[t] = "submitted" /\ UNCHANGED timedOut
        /\ asked' = [asked EXCEPT ![t] = TRUE]
    BY <1>5 DEF libusb_cancel_transfer
  <2>2. asked'[t] /\ \A x \in Transfers : asked[x] => asked'[x]
    BY <2>1 DEF TypeInv, BaseTypes
  <2>3. timedOut[t] => Expired(t)
    BY <1>0, <2>1 DEF Caused
  <2> QED BY <1>4, <2>1, <2>2, <2>3
<1>6. CASE handle_timeouts
  <2>1. PICK k \in DOMAIN flying : /\ Expired(flying[k]) /\ op_cancel_transfer(flying[k])
                                   /\ timedOut' = [timedOut EXCEPT ![flying[k]] = TRUE]
                                   /\ UNCHANGED asked
    BY <1>6 DEF handle_timeouts
  <2>2. PICK t : t = flying[k]
    OBVIOUS
  <2>3. t \in Transfers /\ t \in ToSet(flying)
    BY <2>2, MembersOf DEF TypeInv, BaseTypes
  <2>4. timedOut'[t] /\ \A x \in Transfers : x # t => timedOut'[x] = timedOut[x]
    BY <2>1, <2>2, <2>3 DEF TypeInv, BaseTypes
  <2>5. user[t] = "submitted"
    BY <2>3 DEF LifeInv
  <2> QED BY <1>4, <2>1, <2>2, <2>3, <2>4, <2>5
<1>7. CASE Unplug
  <2>1. UNCHANGED <<type, timedOut, timeout, asked, reapAction, reapStatus, user, now>> /\ ~plugged'
    BY <1>7 DEF Unplug, askVars, privVars, listVars
  <2>2. \A x \in Transfers : urbs[x].told \subseteq urbs'[x].told
    BY <1>7 DEF Unplug, UrbsOf
  <2>3. now' >= now
    BY <2>1 DEF TypeInv, BaseTypes
  <2> QED BY <1>1, <2>1, <2>2, <2>3
<1>8. CASE Tick
  <2>1. UNCHANGED <<type, timedOut, timeout, asked, reapAction, reapStatus, user, plugged, urbs>>
    BY <1>8 DEF Tick, askVars, privVars, kernelVars
  <2>2. now' >= now
    BY <1>8 DEF Tick, TypeInv, BaseTypes
  <2> QED BY <1>1, <2>1, <2>2
<1>9. CASE Poll \/ ReapNothing \/ usbi_handle_disconnect \/ usbi_handle_transfer_completion \/ UNCHANGED vars
  <2>1. UNCHANGED <<type, timedOut, timeout, asked, reapAction, reapStatus, user, plugged, urbs, now>>
    BY <1>9, Zenon DEF Poll, ReapNothing, usbi_handle_disconnect, usbi_handle_transfer_completion,
                       vars, askVars, privVars, listVars, kernelVars
  <2>2. now' >= now
    BY <2>1 DEF TypeInv, BaseTypes
  <2> QED BY <1>1, <2>1, <2>2
<1>10. CASE reap_for_handle
  <2>1. PICK h : h = Head(completed)
    OBVIOUS
  <2>2. /\ completed # <<>> /\ ev.at = "reap" /\ h.t \in Transfers
        /\ UNCHANGED <<plugged, type, user, timedOut, timeout, now, asked>>
        /\ \E rest : ReapedOf(h, rest)
    BY <1>10, <2>1, ReapEffect DEF askVars, listVars
  <2>3. IsInjective(completed) /\ \A x \in Transfers : Sound(x)
    BY <2>2 DEF EventInv, UrbInv
  <2>4. PICK u, N : HeadKnown(h, u, N)
    BY <2>1, <2>2, <2>3, ReapHead
  <2>5. PICK rest : ReapedOf(h, rest)
    BY <2>2
  <2>6. urbs'[h.t].told = urbs[h.t].told /\ \A x \in Transfers : x # h.t => urbs'[x] = urbs[x]
    BY <1>10, <2>1, ReapKernel
  <2>7. ASSUME user'[h.t] = "submitted" PROVE Caused(h.t)'
    <3>1. Caused(h.t) /\ EntriesMean(h.t)
      BY <1>0, <2>2, <2>3, <2>7 DEF Sound
    <3> QED BY <2>2, <2>4, <2>5, <2>6, <3>1, CausesReaped
  <2>8. ASSUME NEW x \in Transfers, x # h.t, user'[x] = "submitted" PROVE Caused(x)'
    <3>1. Expired(x)' <=> Expired(x)
      BY <2>2 DEF Expired
    <3>2. Caused(x) /\ reapAction'[x] = reapAction[x] /\ reapStatus'[x] = reapStatus[x]
      BY <1>0, <2>2, <2>5, <2>8 DEF ReapedOf
    <3>3. type'[x] = type[x] /\ timedOut'[x] = timedOut[x] /\ asked'[x] = asked[x]
      BY <2>2
    <3> QED BY <2>2, <2>6, <2>8, <3>1, <3>2, <3>3, CausesStay
  <2> QED BY <2>2, <2>7, <2>8 DEF ActionInv
<1>11. CASE Callback
  <2>1. /\ ev.t \in Transfers
        /\ UNCHANGED <<plugged, type, timedOut, timeout, now, reapAction, reapStatus>>
        /\ user' = [user EXCEPT ![ev.t] = "idle"]
        /\ asked' = [asked EXCEPT ![ev.t] = FALSE]
        /\ urbs' = [urbs EXCEPT ![ev.t] = UrbsOf(@.at, 0, {})]
    BY <1>11 DEF Callback, TypeInv, EvTypes, At, privVars, listVars
  <2>2. ASSUME NEW x \in Transfers, user'[x] = "submitted" PROVE Caused(x)'
    <3>1. x # ev.t /\ user[x] = "submitted" /\ asked'[x] = asked[x] /\ urbs'[x] = urbs[x]
      BY <2>1, <2>2 DEF TypeInv, BaseTypes
    <3>2. Expired(x)' <=> Expired(x)
      BY <2>1 DEF Expired
    <3>3. Caused(x)
      BY <1>0, <3>1
    <3>4. /\ type'[x] = type[x] /\ timedOut'[x] = timedOut[x]
          /\ reapAction'[x] = reapAction[x] /\ reapStatus'[x] = reapStatus[x]
      BY <2>1
    <3> QED BY <2>1, <3>1, <3>2, <3>3, <3>4, CausesStay
  <2> QED BY <2>2 DEF ActionInv
<1> QED BY <1>2, <1>3, <1>5, <1>6, <1>7, <1>8, <1>9, <1>10, <1>11 DEF Next, EventThread

-----------------------------------------------------------------------------
(* What is reported of a transfer.                                         *)

\* While a transfer is being finished or called back.
Steady(t) ==
    /\ type'[t] = type[t] /\ continuation' = continuation /\ (plugged' => plugged)
    /\ asked[t] => asked'[t]
    /\ timedOut[t] => timedOut'[t]
    /\ Expired(t) => Expired(t)'
    /\ reapAction[t] = "CANCELLED" => reapAction'[t] = "CANCELLED"
    /\ urbs'[t].told = urbs[t].told

LEMMA ReportStays ==
    ASSUME NEW t, NEW s, Steady(t), Reported(t, s)
    PROVE  Reported(t, s)'
  BY DEF Steady, Reported

LEMMA VerdictStays ==
    ASSUME NEW t, NEW s, Steady(t), Judged(t, s)
    PROVE  Judged(t, s)'
  BY DEF Steady, Judged

LEMMA SteadyStep ==
    ASSUME TypeInv, EventInv, LifeInv, UrbInv, NEW t \in Transfers, Ending(t) \/ Calling(t),
           [Next]_vars, ev' = ev
    PROVE  Steady(t)
<1>1. user[t] = "submitted" /\ ~allocated[t]
  BY DEF LifeInv
<1>2. plugged => InKernel(urbs[t]) = {}
  <2>1. ASSUME plugged PROVE InKernel(urbs[t]) = {}
    <3>1. UrbsKept(t)
      BY <2>1 DEF EventInv, UrbInv, Sound
    <3> QED BY <1>1, <3>1, NoneWaiting
  <2> QED BY <2>1
<1>3. ASSUME UNCHANGED <<continuation, type, asked, timedOut, timeout, now, reapAction>>,
             plugged' => plugged, urbs'[t].told = urbs[t].told
      PROVE  Steady(t)
  BY <1>3 DEF Steady, Expired
<1>4. ASSUME NEW x \in Transfers, KernelComplete(x) PROVE Steady(t)
  <2>1. /\ UNCHANGED <<continuation, type, asked, timedOut, timeout, now, reapAction, plugged>> /\ plugged
    BY <1>4 DEF KernelComplete, askVars, privVars, listVars
  <2>2. x # t
    <3>1. InKernel(urbs[x]) # {}
      BY <1>4 DEF KernelComplete
    <3> QED BY <1>2, <2>1, <3>1
  <2>3. PICK i \in InKernel(urbs[x]), s \in UrbStatus \ {"shutdown"}, n \in {0, 1}, d \in UrbTypes :
            KernelDone(x, i, s, n, d)
    BY <1>4, KernelStep
  <2>4. urbs'[t] = urbs[t]
    BY <2>2, <2>3 DEF KernelDone, TypeInv, BaseTypes
  <2> QED BY <1>3, <2>1, <2>4
<1>5. ASSUME NEW x \in Transfers, libusb_submit_transfer(x) PROVE Steady(t)
  <2>1. x # t
    BY <1>1, <1>5 DEF libusb_submit_transfer
  <2>2. /\ UNCHANGED <<continuation, plugged, now, asked>>
        /\ urbs'[t] = urbs[t] /\ type'[t] = type[t] /\ timedOut'[t] = timedOut[t]
        /\ timeout'[t] = timeout[t] /\ reapAction'[t] = reapAction[t]
    BY <1>5, <2>1, SubmitFrame
  <2> QED BY <2>2 DEF Steady, Expired
<1>6. ASSUME NEW x \in Transfers, op_cancel_transfer(x), asked[t] => asked'[t], timedOut[t] => timedOut'[t]
      PROVE  Steady(t)
  <2>1. UNCHANGED <<continuation, plugged, type, timeout, now>>
    BY <1>6 DEF op_cancel_transfer, askVars, listVars
  <2>2. urbs'[t].told = urbs[t].told
    BY <1>6, CancelKernel
  <2>3. reapAction[t] = "CANCELLED" => reapAction'[t] = "CANCELLED"
    BY <1>6 DEF op_cancel_transfer, TypeInv, BaseTypes
  <2> QED BY <1>6, <2>1, <2>2, <2>3 DEF Steady, Expired
<1>7. ASSUME NEW x \in Transfers, libusb_cancel_transfer(x) PROVE Steady(t)
  <2>1. op_cancel_transfer(x) /\ UNCHANGED timedOut /\ asked' = [asked EXCEPT ![x] = TRUE]
    BY <1>7 DEF libusb_cancel_transfer
  <2>2. asked[t] => asked'[t]
    BY <2>1 DEF TypeInv, BaseTypes
  <2> QED BY <1>6, <2>1, <2>2
<1>8. CASE handle_timeouts
  <2>1. PICK k \in DOMAIN flying : /\ op_cancel_transfer(flying[k]) /\ UNCHANGED asked
                                   /\ timedOut' = [timedOut EXCEPT ![flying[k]] = TRUE]
    BY <1>8 DEF handle_timeouts
  <2>2. flying[k] \in Transfers
    BY MembersOf DEF TypeInv, BaseTypes
  <2>3. timedOut[t] => timedOut'[t]
    BY <2>1, <2>2 DEF TypeInv, BaseTypes
  <2> QED BY <1>6, <2>1, <2>2, <2>3
<1>9. CASE Unplug
  <2>1. UNCHANGED <<continuation, type, asked, timedOut, timeout, now, reapAction>> /\ ~plugged'
    BY <1>9 DEF Unplug, askVars, privVars, listVars
  <2>2. urbs'[t].told = urbs[t].told
    BY <1>9 DEF Unplug, UrbsOf
  <2> QED BY <1>3, <2>1, <2>2
<1>10. CASE Tick
  <2>1. UNCHANGED <<continuation, type, asked, timedOut, timeout, reapAction, plugged, urbs>> /\ now' = now + 1
    BY <1>10 DEF Tick, askVars, privVars, kernelVars
  <2>2. Expired(t) => Expired(t)'
    BY <2>1, TransferAssumption DEF Expired, TypeInv, BaseTypes
  <2> QED BY <2>1, <2>2 DEF Steady
<1>11. CASE UNCHANGED vars
  BY <1>3, <1>11 DEF vars, kernelVars, askVars, privVars, listVars
<1>12. CASE EventThread
  <2>1. ev.at \in {"finish", "callback"} /\ ev'.at = ev.at
    BY DEF Ending, Calling
  <2>2. CASE Poll \/ ReapNothing \/ reap_for_handle \/ usbi_handle_disconnect
    BY <2>1, <2>2 DEF Poll, ReapNothing, reap_for_handle, usbi_handle_disconnect
  <2>3. CASE usbi_handle_transfer_completion
    <3>1. ev.at = "finish" /\ ev' = [ev EXCEPT !.at = "callback", !.status = Verdict]
      BY <2>3 DEF usbi_handle_transfer_completion
    <3>2. ev'.at = "callback"
      BY <3>1 DEF TypeInv, EvTypes, At
    <3> QED BY <2>1, <3>1, <3>2
  <2>4. CASE Callback
    <3>1. ev.at = "callback" /\ ev'.at = ev.back /\ ev.back \in {"reap", "disconnect"}
      BY <2>4 DEF Callback, At, TypeInv, EvTypes
    <3> QED BY <2>1, <3>1
  <2> QED BY <1>12, <2>2, <2>3, <2>4 DEF EventThread
<1> QED BY <1>4, <1>5, <1>7, <1>8, <1>9, <1>10, <1>11, <1>12 DEF Next

\* The reap of a transfer's last URB has the cause of what will be reported.
LEMMA ReportReaped ==
    ASSUME NEW h, NEW u, NEW N, HeadKnown(h, u, N), NEW rest, ReapedOf(h, rest),
           Sound(h.t), Caused(h.t), Caused(h.t)', TypeInv, ~allocated'[h.t],
           UNCHANGED <<continuation, plugged, type, timedOut, asked>>,
           urbs'[h.t].told = urbs[h.t].told, NEW s, s = ev'.status
    PROVE  Reported(h.t, s)'
<1>1. PICK t \in Transfers : t = h.t
  BY DEF HeadKnown
<1>2. EntriesMean(t) /\ FailuresKept(t) /\ allocated[t] /\ Outstanding(t) = {h.i}
  <2>1. EntriesMean(h.t) /\ FailuresKept(h.t)
    BY DEF Sound
  <2>2. Outstanding(h.t) = {h.i}
    BY <2>1, ReapLast
  <2> QED BY <1>1, <2>1, <2>2 DEF HeadKnown
<1>3. Waiting(t) = {h}
  <2>1. ASSUME NEW e \in Waiting(t) PROVE e = h
    <3>1. e.i \in 1..N /\ urbs[t].at[e.i] = "done" /\ N = NumUrbs(t)
      BY <1>1, <2>1 DEF HeadKnown
    <3>2. e.i \in Outstanding(t)
      BY <3>1 DEF Outstanding
    <3> QED BY <1>1, <1>2, <3>2 DEF HeadKnown
  <2> QED BY <1>1, <2>1 DEF HeadKnown
<1>4. PICK F : F = {e.status : e \in Waiting(t)} /\ F = {h.status}
  BY <1>3
<1>5. /\ h.status \in Errors => h.status \in urbs[t].told
      /\ h.status = "shutdown" => ~plugged
      /\ h.status = "remoteio" => type[t] = "BULK"
      /\ h.status = "unlinked" /\ reapAction[t] = "NORMAL" => type[t] # "CONTROL"
  BY <1>2, <1>3 DEF EntriesMean, Continued
<1>6. /\ type[t] = "CONTROL" => urbs[t].told \subseteq F
      /\ Continued(t) /\ reapAction[t] = "NORMAL" /\ reapStatus[t] = "COMPLETED" =>
          urbs[t].told \subseteq F
      /\ Continued(t) /\ reapAction[t] = "COMPLETED_EARLY" =>
          urbs[t].told = {} \/ reapStatus[t] # "COMPLETED"
  BY <1>2, <1>4 DEF FailuresKept
<1>7. /\ urbs[t].told \subseteq Errors /\ h.status \in UrbStatus
      /\ reapAction[t] \in ReapActions /\ reapStatus[t] \in Verdicts /\ type[t] \in Types
  BY <1>1, UrbsTyped DEF HeadKnown, Entries, TypeInv, BaseTypes
<1>8. /\ type'[t] = type[t] /\ continuation' = continuation /\ plugged' = plugged
      /\ timedOut'[t] = timedOut[t] /\ asked'[t] = asked[t] /\ urbs'[t].told = urbs[t].told
  BY <1>1
<1>9. \/ type[t] = "BULK" /\ s = BulkStatus(h)
      \/ type[t] = "ISOCHRONOUS" /\ s = IsoStatus(h)
      \/ type[t] = "CONTROL" /\ s = ControlStatus(h)
  <2>1. allocated[h.t] /\ ~allocated'[h.t]
    BY <1>1, <1>2
  <2>2. \/ type[h.t] = "BULK" /\ ev' = Finish(h.t, BulkStatus(h))
        \/ type[h.t] = "ISOCHRONOUS" /\ ev' = Finish(h.t, IsoStatus(h))
        \/ type[h.t] = "CONTROL" /\ ev' = Finish(h.t, ControlStatus(h))
    BY <2>1 DEF ReapedOf
  <2>3. \A x, r : Finish(x, r).status = r
    BY DEF Finish
  <2> QED BY <1>1, <2>2, <2>3
<1>10. CASE type[t] = "BULK"
  <2>1. s = BulkStatus(h) /\ reapStatus'[t] = s
    BY <1>1, <1>9, <1>10 DEF ReapedOf
  <2>2. s \in Verdicts
    BY <1>1, <1>7, <2>1 DEF BulkStatus, Verdicts
  <2>3. /\ s = "NO_DEVICE" => ~plugged'
        /\ s = "STALL" => "stall" \in urbs'[t].told
        /\ s = "OVERFLOW" => "overflow" \in urbs'[t].told
        /\ s = "ERROR" => urbs'[t].told # {} \/ reapAction'[t] = "CANCELLED"
    BY <1>1, <2>1 DEF Caused
  <2>4. ASSUME s = "COMPLETED", continuation PROVE urbs[t].told = {}
    <3>1. Retired(h)
      BY <1>1, <1>2 DEF HeadKnown
    <3>2. reapStatus[t] = "COMPLETED"
      BY <1>1, <2>1, <2>4 DEF BulkStatus
    <3>3. CASE reapAction[t] = "NORMAL"
      <4>1. h.status \in {"ok", "remoteio", "unlinked"}
        BY <1>1, <1>7, <2>1, <2>4, <3>2, <3>3 DEF BulkStatus, UrbStatus
      <4>2. urbs[t].told \subseteq {h.status}
        BY <1>4, <1>6, <1>10, <2>4, <3>2, <3>3 DEF Continued
      <4> QED BY <1>7, <4>1, <4>2 DEF Errors
    <3>4. CASE reapAction[t] # "NORMAL"
      <4>1. reapAction[t] = "COMPLETED_EARLY"
        BY <1>1, <2>1, <2>4, <3>1, <3>2, <3>4 DEF BulkStatus
      <4> QED BY <1>6, <1>10, <2>4, <3>2, <4>1 DEF Continued
    <3> QED BY <3>3, <3>4
  <2>5. s # "CANCELLED" /\ s # "TIMED_OUT"
    BY <2>2 DEF Verdicts
  <2>6. Reported(t, s)'
    BY <1>8, <1>10, <2>3, <2>4, <2>5 DEF Reported
  <2> QED BY <1>1, <2>6
<1>11. CASE type[t] = "CONTROL"
  <2>1. s = ControlStatus(h) /\ reapAction'[t] = reapAction[t]
    BY <1>1, <1>9, <1>11 DEF ReapedOf
  <2>2. urbs[t].told \subseteq {h.status}
    BY <1>4, <1>6, <1>11
  <2>3. reapAction[t] \in {"NORMAL", "CANCELLED"}
    BY <1>1, <1>7, <1>11, <2>2 DEF Caused, ReapActions, UrbStatus
  <2>4. /\ s = "CANCELLED" => reapAction[t] = "CANCELLED"
        /\ s = "NO_DEVICE" => h.status = "shutdown"
        /\ s = "STALL" => h.status = "stall"
        /\ s = "OVERFLOW" => h.status = "overflow"
        /\ s = "ERROR" => h.status = "proto"
        /\ s = "COMPLETED" => h.status = "ok"
        /\ s # "TIMED_OUT"
    BY <1>1, <1>5, <1>7, <1>11, <2>1, <2>3 DEF ControlStatus, UrbStatus
  <2>5. s = "CANCELLED" => asked[t] \/ timedOut[t]
    BY <1>1, <2>4 DEF Caused
  <2>6. s = "COMPLETED" => urbs[t].told = {}
    BY <1>7, <2>2, <2>4 DEF Errors
  <2>7. Reported(t, s)'
    BY <1>5, <1>8, <1>11, <2>4, <2>5, <2>6 DEF Reported, Errors
  <2> QED BY <1>1, <2>7
<1>12. CASE type[t] = "ISOCHRONOUS"
  <2>1. s = IsoStatus(h) /\ reapAction'[t] = reapAction[t]
    BY <1>1, <1>9, <1>12 DEF ReapedOf
  <2>2. reapAction[t] \in {"NORMAL", "CANCELLED", "SUBMIT_FAILED"}
    BY <1>1, <1>7, <1>12 DEF Caused, ReapActions
  <2>3. /\ s \in {"CANCELLED", "NO_DEVICE", "COMPLETED", "ERROR"}
        /\ s = "CANCELLED" => reapAction[t] = "CANCELLED"
        /\ s = "NO_DEVICE" => h.status = "shutdown"
        /\ s = "ERROR" => reapAction[t] = "SUBMIT_FAILED" \/ h.status \in {"stall", "proto", "overflow", "remoteio"}
    BY <1>1, <1>7, <2>1, <2>2 DEF IsoStatus, UrbStatus
  <2>4. s = "CANCELLED" => asked[t] \/ timedOut[t]
    BY <1>1, <2>3 DEF Caused
  <2>5. s = "ERROR" => urbs[t].told # {}
    BY <1>1, <1>5, <1>12, <2>3 DEF Caused, Errors
  <2>6. Reported(t, s)'
    BY <1>5, <1>8, <1>12, <2>3, <2>4, <2>5 DEF Reported
  <2> QED BY <1>1, <2>6
<1> QED BY <1>7, <1>10, <1>11, <1>12 DEF Types

LEMMA ReportStep ==
    ASSUME ~overtaken', TypeInv, EventInv, LifeInv, UrbInv, ActionInv, ActionInv', ReportInv,
           [Next]_vars
    PROVE  ReportInv'
<1> SUFFICES ASSUME ev'.at = "finish" PROVE Reported(ev.t, ev.status)'
  BY DEF ReportInv
<1>1. CASE ev' = ev
  <2>1. ev.at = "finish" /\ Reported(ev.t, ev.status) /\ ev.t \in Transfers
    BY <1>1 DEF ReportInv, TypeInv, EvTypes
  <2>2. PICK t, s : t = ev.t /\ s = ev.status
    OBVIOUS
  <2>3. Steady(t)
    BY <1>1, <2>1, <2>2, SteadyStep DEF Ending
  <2>4. Reported(t, s)'
    BY <2>1, <2>2, <2>3, ReportStays
  <2> QED BY <1>1, <2>2, <2>4
<1>2. CASE ev' # ev
  <2>1. EventThread
    <3>1. ASSUME NEW t \in Transfers, libusb_submit_transfer(t) PROVE FALSE
      BY <1>2, <3>1 DEF libusb_submit_transfer
    <3>2. ASSUME NEW t \in Transfers, libusb_cancel_transfer(t) PROVE FALSE
      BY <1>2, <3>2 DEF libusb_cancel_transfer, op_cancel_transfer
    <3>3. ASSUME NEW t \in Transfers, KernelComplete(t) PROVE FALSE
      BY <1>2, <3>3 DEF KernelComplete
    <3>4. ASSUME handle_timeouts PROVE FALSE
      BY <1>2, <3>4 DEF handle_timeouts, op_cancel_transfer
    <3>5. ASSUME Unplug \/ Tick \/ UNCHANGED vars PROVE FALSE
      BY <1>2, <3>5 DEF Unplug, Tick, vars
    <3> QED BY <3>1, <3>2, <3>3, <3>4, <3>5 DEF Next
  <2>2. CASE Poll \/ ReapNothing \/ Callback
    BY <2>2 DEF Poll, ReapNothing, Callback, At, TypeInv, EvTypes
  <2>3. CASE usbi_handle_transfer_completion
    <3>1. ev.at = "finish" /\ ev' = [ev EXCEPT !.at = "callback", !.status = Verdict]
      BY <2>3 DEF usbi_handle_transfer_completion
    <3>2. ev'.at = "callback"
      BY <3>1 DEF TypeInv, EvTypes, At
    <3> QED BY <3>2
  <2>4. CASE reap_for_handle
    <3>1. PICK h : h = Head(completed)
      OBVIOUS
    <3>2. /\ completed # <<>> /\ ev.at = "reap" /\ h.t \in Transfers
          /\ UNCHANGED <<continuation, plugged, type, user, timedOut, asked>>
          /\ \E rest : ReapedOf(h, rest)
      BY <2>4, <3>1, ReapEffect DEF askVars, listVars
    <3>3. IsInjective(completed) /\ \A x \in Transfers : Sound(x)
      BY <3>2 DEF EventInv, UrbInv
    <3>4. PICK u, N : HeadKnown(h, u, N)
      BY <3>1, <3>2, <3>3, ReapHead
    <3>5. PICK rest : ReapedOf(h, rest)
      BY <3>2
    <3>6. urbs'[h.t].told = urbs[h.t].told
      BY <2>4, <3>1, ReapKernel
    <3>7. Caused(h.t) /\ Caused(h.t)'
      <4>1. allocated[h.t]
        BY <3>4 DEF HeadKnown
      <4>2. user[h.t] = "submitted"
        BY <3>2, <4>1 DEF LifeInv
      <4> QED BY <3>2, <4>2 DEF ActionInv
    <3>8. ~allocated'[h.t] /\ ev'.t = h.t
      <4>1. ~allocated'[h.t] /\ \E s : ev' = Finish(h.t, s)
        BY <1>2, <3>5 DEF ReapedOf
      <4> QED BY <4>1 DEF Finish
    <3>9. PICK s : s = ev'.status
      OBVIOUS
    <3>10. Reported(h.t, s)'
      BY <3>2, <3>3, <3>4, <3>5, <3>6, <3>7, <3>8, <3>9, ReportReaped
    <3>11. PICK t : t = h.t
      OBVIOUS
    <3> QED BY <3>8, <3>9, <3>10, <3>11
  <2>5. CASE usbi_handle_disconnect
    <3>1. ev.at = "disconnect" /\ UNCHANGED plugged
      BY <2>5 DEF usbi_handle_disconnect, kernelVars
    <3>2. ~plugged'
      BY <3>1 DEF EventInv
    <3>3. PICK t, s : t = ev'.t /\ s = ev'.status
      OBVIOUS
    <3>4. s = "NO_DEVICE"
      <4>1. ev' = At("poll") \/ ev' = [Finish(flying[1], "NO_DEVICE") EXCEPT !.back = "disconnect"]
        BY <2>5 DEF usbi_handle_disconnect
      <4> QED BY <3>3, <4>1 DEF At, Finish
    <3>5. Reported(t, s)'
      BY <3>2, <3>4 DEF Reported
    <3> QED BY <3>3, <3>5
  <2> QED BY <2>1, <2>2, <2>3, <2>4, <2>5 DEF EventThread
<1> QED BY <1>1, <1>2

LEMMA VerdictStep ==
    ASSUME TypeInv, EventInv, LifeInv, UrbInv, ActionInv, ReportInv, VerdictInv, [Next]_vars
    PROVE  VerdictInv'
<1> SUFFICES ASSUME ev'.at = "callback" PROVE Judged(ev.t, ev.status)'
  BY DEF VerdictInv
<1>1. CASE ev' = ev
  <2>1. ev.at = "callback" /\ Judged(ev.t, ev.status) /\ ev.t \in Transfers
    BY <1>1 DEF VerdictInv, TypeInv, EvTypes
  <2>2. PICK t, s : t = ev.t /\ s = ev.status
    OBVIOUS
  <2>3. Steady(t)
    BY <1>1, <2>1, <2>2, SteadyStep DEF Calling
  <2>4. Judged(t, s)'
    BY <2>1, <2>2, <2>3, VerdictStays
  <2> QED BY <1>1, <2>2, <2>4
<1>2. CASE usbi_handle_transfer_completion
  <2>1. /\ ev.at = "finish" /\ ev' = [ev EXCEPT !.at = "callback", !.status = Verdict]
        /\ UNCHANGED <<continuation, plugged, urbs, type, timedOut, asked, timeout, now>>
    BY <1>2 DEF usbi_handle_transfer_completion, kernelVars, askVars
  <2>2. PICK t, s : t = ev.t /\ s = Verdict
    OBVIOUS
  <2>3. ev'.t = t /\ ev'.status = s /\ t \in Transfers
    BY <2>1, <2>2 DEF TypeInv, EvTypes, At
  <2>4. Reported(t, ev.status) /\ Caused(t)
    <3>1. user[t] = "submitted"
      BY <2>1, <2>2, <2>3 DEF LifeInv, Ending
    <3> QED BY <2>1, <2>2, <2>3, <3>1 DEF ReportInv, ActionInv
  <2>5. ev.back = "disconnect" => s = "NO_DEVICE" /\ ~plugged
    BY <2>2 DEF EventInv, Verdict
  <2>6. \/ ev.back = "disconnect"
        \/ /\ IF type[t] = "BULK" THEN reapAction[t] = "CANCELLED" ELSE ev.status = "CANCELLED"
           /\ s = IF timedOut[t] THEN "TIMED_OUT" ELSE "CANCELLED"
        \/ /\ s = ev.status
           /\ ~(IF type[t] = "BULK" THEN reapAction[t] = "CANCELLED" ELSE ev.status = "CANCELLED")
    BY <2>2 DEF Verdict
  <2>7. Judged(t, s)
    BY <2>4, <2>5, <2>6 DEF Judged, Reported, Caused
  <2>8. Judged(t, s)'
    BY <2>1, <2>7 DEF Judged, Expired
  <2> QED BY <2>3, <2>8
<1>3. CASE ev' # ev /\ ~usbi_handle_transfer_completion
  <2>1. ASSUME NEW t \in Transfers, libusb_submit_transfer(t) PROVE FALSE
    BY <1>3, <2>1 DEF libusb_submit_transfer
  <2>2. ASSUME NEW t \in Transfers, libusb_cancel_transfer(t) PROVE FALSE
    BY <1>3, <2>2 DEF libusb_cancel_transfer, op_cancel_transfer
  <2>3. ASSUME NEW t \in Transfers, KernelComplete(t) PROVE FALSE
    BY <1>3, <2>3 DEF KernelComplete
  <2>4. ASSUME handle_timeouts PROVE FALSE
    BY <1>3, <2>4 DEF handle_timeouts, op_cancel_transfer
  <2>5. ASSUME Unplug \/ Tick \/ UNCHANGED vars PROVE FALSE
    BY <1>3, <2>5 DEF Unplug, Tick, vars
  <2>6. CASE Poll \/ ReapNothing \/ Callback
    BY <2>6 DEF Poll, ReapNothing, Callback, At, TypeInv, EvTypes
  <2>7. CASE reap_for_handle
    <3>1. PICK h : h = Head(completed)
      OBVIOUS
    <3>2. \E rest : ReapedOf(h, rest)
      BY <2>7, <3>1, ReapEffect
    <3>3. \E x, s : ev' = Finish(x, s)
      BY <1>3, <3>2 DEF ReapedOf
    <3> QED BY <3>3 DEF Finish
  <2>8. CASE usbi_handle_disconnect
    <3>1. ev' = At("poll") \/ ev' = [Finish(flying[1], "NO_DEVICE") EXCEPT !.back = "disconnect"]
      BY <2>8 DEF usbi_handle_disconnect
    <3> QED BY <3>1 DEF At, Finish
  <2> QED BY <1>3, <2>1, <2>2, <2>3, <2>4, <2>5, <2>6, <2>7, <2>8 DEF Next, EventThread
<1> QED BY <1>1, <1>2, <1>3

-----------------------------------------------------------------------------
(* The invariant holds, and what follows from it.                          *)

LEMMA InvInit == Init => Inv
<1> SUFFICES ASSUME Init PROVE Inv
  OBVIOUS
<1>1. TypeInv
  BY TypesInit
<1>2. /\ plugged = TRUE /\ polled = TRUE /\ ev = At("poll")
      /\ urbs = [t \in Transfers |-> UrbsOf([i \in 1..1 |-> "none"], 0, {})]
      /\ completed = <<>> /\ flying = <<>>
      /\ user = [t \in Transfers |-> "idle"] /\ allocated = [t \in Transfers |-> FALSE]
      /\ type = [t \in Transfers |-> "CONTROL"]
  BY DEF Init
<1>3. ev.at = "poll" /\ ev.back = "none"
  BY <1>2 DEF At
<1>4. ToSet(flying) = {} /\ IsInjective(flying) /\ ToSet(completed) = {} /\ IsInjective(completed)
      /\ \A t : InOrder(completed, t)
  BY <1>2 DEF ToSet, IsInjective, InOrder
<1>5. EventInv
  BY <1>2, <1>3 DEF EventInv
<1>6. \A t \in Transfers : ~Ending(t) /\ ~Calling(t) /\ Waiting(t) = {}
  BY <1>3, <1>4 DEF Ending, Calling, Waiting
<1>7. LifeInv
  BY <1>2, <1>4, <1>6 DEF LifeInv
<1>8. ASSUME NEW t \in Transfers PROVE Sound(t)
  <2>1. NumUrbs(t) = 1
    BY <1>2, TransferAssumption DEF NumUrbs
  <2>2. \A i \in 1..NumUrbs(t) : urbs[t].at[i] = "none"
    BY <1>2, <2>1 DEF UrbsOf
  <2>3. DOMAIN urbs[t].at = 1..NumUrbs(t)
    BY <1>2, <2>1 DEF UrbsOf
  <2>4. Outstanding(t) = {} /\ InKernel(urbs[t]) = {}
    BY <2>2, <2>3 DEF Outstanding, InKernel
  <2>5. ~allocated[t]
    BY <1>2
  <2>6. UrbsKept(t)
    BY <1>6, <2>2, <2>4 DEF UrbsKept
  <2>7. Counted(t) /\ Ordered(t) /\ Stopped(t) /\ FailuresKept(t) /\ DataKept(t) /\ Halting(t)
    BY <1>6, <2>5 DEF Counted, Ordered, Stopped, FailuresKept, DataKept, Halting
  <2>8. EntriesMean(t)
    BY <1>6, <2>4 DEF EntriesMean
  <2> QED BY <2>6, <2>7, <2>8 DEF Sound
<1>9. UrbInv
  BY <1>4, <1>8 DEF UrbInv
<1>10. ActionInv
  BY <1>2 DEF ActionInv
<1>11. ReportInv /\ VerdictInv
  BY <1>3 DEF ReportInv, VerdictInv
<1> QED BY <1>1, <1>5, <1>7, <1>9, <1>10, <1>11 DEF Inv

LEMMA InvStep == Inv /\ [Next]_vars => Inv'
<1> SUFFICES ASSUME Inv, [Next]_vars PROVE Inv'
  OBVIOUS
<1>1. TypeInv /\ TypeInv'
  BY TypesStep DEF Inv
<1> SUFFICES ASSUME ~overtaken' PROVE Inv'
  BY <1>1 DEF Inv
<1>2. EventInv /\ LifeInv /\ UrbInv /\ ActionInv /\ ReportInv /\ VerdictInv
  BY <1>1, OvertakenStep DEF Inv
<1>3. EventInv'
  BY <1>1, <1>2, EventStep
<1>4. LifeInv'
  BY <1>1, <1>2, LifeStep
<1>5. UrbInv'
  BY <1>1, <1>2, UrbStep
<1>6. ActionInv'
  BY <1>1, <1>2, ActionStep
<1>7. ReportInv'
  BY <1>1, <1>2, <1>6, ReportStep
<1>8. VerdictInv'
  BY <1>1, <1>2, VerdictStep
<1> QED BY <1>1, <1>3, <1>4, <1>5, <1>6, <1>7, <1>8 DEF Inv

LEMMA InvHolds == Spec => []Inv
<1>1. Inv /\ [Next]_vars => Inv'
  BY InvStep
<1> QED BY <1>1, InvInit, PTL DEF Spec

\* A transfer is called back once for each submission: what is being finished was
\* submitted, and is in usbi_handle_transfer_completion()'s list until then.
THEOREM CalledBackOnce == Spec => []OneCallback
<1>1. Inv => OneCallback
  <2> SUFFICES ASSUME Inv, ~overtaken PROVE OneCallback
    BY DEF OneCallback
  <2>1. /\ \A t \in Transfers : user[t] = "submitted" <=> t \in ToSet(flying) \/ Calling(t)
        /\ \A t \in Transfers : Ending(t) => t \in ToSet(flying)
    BY DEF Inv, LifeInv
  <2>2. ASSUME ev.at \in {"finish", "callback"} PROVE user[ev.t] = "submitted"
    <3>1. ev.t \in Transfers
      BY <2>2 DEF Inv, TypeInv, EvTypes
    <3> QED BY <2>1, <2>2, <3>1 DEF Ending, Calling
  <2> QED BY <2>1, <2>2 DEF OneCallback, Calling
<1> QED BY <1>1, InvHolds, PTL

\* As long as the descriptor is polled, what may still be reaped belongs to a transfer
\* whose URBs were not freed: handle_bulk_completion() waits for the rest of a transfer.
THEOREM ReapsNoFreed == Spec => []NeverReapsFreed
<1>1. Inv => NeverReapsFreed
  <2> SUFFICES ASSUME Inv, ~overtaken, polled, NEW t \in Transfers, ~allocated[t]
               PROVE  /\ InKernel(urbs[t]) = {}
                      /\ \A k \in DOMAIN completed : completed[k].t # t
    BY DEF NeverReapsFreed
  <2>1. TypeInv /\ UrbsKept(t)
    BY DEF Inv, UrbInv, Sound
  <2>2. Waiting(t) = {} /\ InKernel(urbs[t]) = {}
    BY <2>1, NoneWaiting
  <2>3. \A k \in DOMAIN completed : completed[k] \in ToSet(completed)
    BY DEF ToSet
  <2> QED BY <2>2, <2>3 DEF Waiting
<1> QED BY <1>1, InvHolds, PTL

\* What the callback is told was transferred is what the kernel moved, the data of
\* cancelled URBs included, unless the device has gone.
THEOREM KeepsData == Spec => []NothingLost
<1>1. Inv => NothingLost
  <2> SUFFICES ASSUME Inv, ~overtaken, ev.at = "callback", ev.status # "NO_DEVICE", type[ev.t] # "ISOCHRONOUS"
               PROVE  transferred[ev.t] = urbs[ev.t].moved
    BY DEF NothingLost
  <2>1. PICK t \in Transfers : t = ev.t
    BY DEF Inv, TypeInv, EvTypes, At
  <2>2. TypeInv /\ EventInv /\ Calling(t) /\ ~allocated[t]
    BY <2>1 DEF Inv, LifeInv, Calling
  <2>3. polled
    <3>1. ev.back \in {"reap", "disconnect"}
      BY DEF Inv, TypeInv, EvTypes, At
    <3> QED BY <2>2, <3>1 DEF EventInv
  <2>4. UrbsKept(t) /\ DataKept(t)
    BY <2>3 DEF Inv, UrbInv, Sound
  <2>5. Cardinality(Pending(t)) = 0
    BY <2>2, <2>4, NoneWaiting
  <2>6. transferred[t] \in Nat
    BY <2>2 DEF TypeInv, BaseTypes
  <2> QED BY <2>1, <2>2, <2>4, <2>5, <2>6 DEF DataKept
<1> QED BY <1>1, InvHolds, PTL

\* Every status that is reported has its cause; where the kernel continues bulk
\* transfers, one that failed is not reported as complete.
THEOREM VerdictsCaused == Spec => []VerdictHasCause
<1>1. Inv => VerdictHasCause
  <2> SUFFICES ASSUME Inv, ~overtaken, ev.at = "callback" PROVE VerdictHasCause
    BY DEF VerdictHasCause
  <2>1. Judged(ev.t, ev.status) /\ ev.status \in Results
    BY DEF Inv, VerdictInv, TypeInv, EvTypes, At
  <2> QED BY <2>1 DEF VerdictHasCause, Judged, Results
<1> QED BY <1>1, InvHolds, PTL
=============================================================================
