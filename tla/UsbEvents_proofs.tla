--------------------------- MODULE UsbEvents_proofs ---------------------------
(***************************************************************************)
(* The events lock, for every number of threads: whoever polls polls what  *)
(* is open and what was opened, a callback runs for a transfer that is in  *)
(* flight on an open handle, the control pipe can be read without waiting, *)
(* and whoever sleeps is owed a broadcast.                                 *)
(***************************************************************************)
EXTENDS UsbEvents, FiniteSetTheorems, TLAPS

\* Where a thread has the events lock; inside libusb_close it has it twice
\* until do_close gave it back once, and once more while it broadcasts.
Held == {"locked", "poll", "reap", "reaped", "release", "unlock",
         "read", "do_close", "close_fd", "unmodify"}

Depth(th) == IF th \in closing /\ pc[th] \in {"release", "unlock"} THEN 2 ELSE 1

Types ==
    /\ pc \in [Threads -> Places]
    /\ closing \subseteq Modifiers
    /\ \A m \in Modifiers : pc[m] \notin {"handle_events", "trylock", "locked", "poll", "reap",
                                           "reaped", "wait", "asleep", "ready", "waiting"}

LockInv ==
    /\ \A th \in Threads : pc[th] \in Held => owner = th /\ depth = Depth(th)
    /\ \A th \in Threads : pc[th] = "broadcast" =>
           IF th \in closing THEN owner = th /\ depth = 1 ELSE owner # th
    /\ \A m \in closing : pc[m] \in {"notify", "write", "lock", "read", "do_close", "release",
                                     "unlock", "broadcast", "close_fd"}
    /\ \A m \in Modifiers : pc[m] = "do_close" => m \in closing

FdInv ==
    /\ devs \subseteq pollfds /\ pollfds \subseteq fds
    /\ Home \in devs
    /\ \A m \in Modifiers : pc[m] = "opening" => m \in pollfds
    /\ \A m \in Modifiers : pc[m] = "opened" => m \in devs /\ m \notin closing

\* A handle whose opener has had the lock since the descriptor is polled.
Settled(m) ==
    /\ m \in devs /\ m \notin closing
    /\ pc[m] \in {"read", "unmodify", "release", "unlock", "broadcast", "opened"}

PollInv ==
    \A th \in Threads : pc[th] = "poll" =>
        /\ polled \subseteq fds
        /\ \A m \in Modifiers : Settled(m) => m \in polled

\* A URB belongs to a transfer in flight on an open handle, except while the thread
\* that closes the handle has the lock.
UrbInv ==
    /\ urbs \cup done \subseteq Syncs \cup Modifiers
    /\ urbs \cap done = {} /\ flying \cap completed = {}
    /\ \A th \in Syncs : pc[th] = "ready" => th \notin flying
    /\ \A x \in urbs \cup done :
          HandleOf(x) \in devs /\ (x \in flying \/ (x \in closing /\ owner = x))

IInv == Types /\ LockInv /\ FdInv /\ PollInv /\ UrbInv

-----------------------------------------------------------------------------
LEMMA InitInv == Init => IInv
  <1> SUFFICES ASSUME Init PROVE IInv
      OBVIOUS
  <1>1. pc \in [Threads -> {"ready", "handle_events", "closed"}] /\ closing = {} /\ Home \in devs
        /\ devs = pollfds /\ pollfds = fds /\ urbs = {} /\ done = {} /\ flying = {}
      BY DEF Init
  <1>2. Types
    <2>1. \A m \in Modifiers : pc[m] = "closed"
        BY ThreadAssumption, SMT DEF Init, Threads
    <2> QED
        BY <1>1, <2>1, SMT DEF Types, Places
  <1>3. LockInv
    <2>1. \A th \in Threads : pc[th] \notin Held /\ pc[th] # "broadcast"
        BY <1>1, SMT DEF Held
    <2> QED
        BY <1>1, <2>1 DEF LockInv, Held, Threads
  <1>4. FdInv
      BY <1>1, SMT DEF FdInv, Threads
  <1>5. PollInv
      BY <1>1, SMT DEF PollInv
  <1>6. UrbInv
      BY <1>1, SMT DEF UrbInv
  <1> QED
      BY <1>2, <1>3, <1>4, <1>5, <1>6 DEF IInv

\* What a thread does that handles events.
LEMMA HandleEventsInv ==
    ASSUME IInv, NEW th \in Threads, HandleEvents(th)
    PROVE  IInv'
  <1> USE ThreadAssumption DEF IInv, Types, LockInv, FdInv, PollInv, UrbInv, Held, Depth, Settled,
          Goto, Places, Threads, HandleOf, lockVars, fdVars, pollVars, usbVars, callVars
  <1>1. CASE CheckModify(th)
      BY <1>1, SMT DEF CheckModify
  <1>2. CASE TryLock(th)
      BY <1>2, SMT DEF TryLock
  <1>3. CASE Locked(th)
      BY <1>3, SMT DEF Locked
  <1>4. CASE Poll(th)
      BY <1>4, SMT DEF Poll
  <1>5. ASSUME NEW x \in done, Reap(th, x) PROVE IInv'
      BY <1>5, SMT DEF Reap
  <1>6. CASE Reaped(th)
      BY <1>6, SMT DEF Reaped
  <1>7. CASE ReapedAll(th)
      BY <1>7, SMT DEF ReapedAll
  <1>8. CASE Release(th)
      BY <1>8, SMT DEF Release
  <1>9. CASE Unlock(th)
      BY <1>9, SMT DEF Unlock
  <1>10. CASE Broadcast(th)
      BY <1>10, SMT DEF Broadcast, Returned
  <1>11. CASE Wait(th)
      BY <1>11, SMT DEF Wait, Returned
  <1>12. CASE Woken(th)
      BY <1>12, SMT DEF Woken, Returned
  <1> QED
      BY <1>1, <1>2, <1>3, <1>4, <1>5, <1>6, <1>7, <1>8, <1>9, <1>10, <1>11, <1>12 DEF HandleEvents

\* What a thread does that has a transfer of its own.
LEMMA SyncInv ==
    ASSUME IInv, NEW th \in Syncs, Submit(th) \/ sync_transfer_wait_for_completion(th)
    PROVE  IInv'
  <1> USE ThreadAssumption DEF IInv, Types, LockInv, FdInv, PollInv, UrbInv, Held, Depth, Settled,
          Goto, Places, Threads, HandleOf, lockVars, fdVars, pollVars, usbVars, callVars
  <1>1. CASE Submit(th)
      BY <1>1, SMT DEF Submit
  <1>2. CASE sync_transfer_wait_for_completion(th)
      BY <1>2, SMT DEF sync_transfer_wait_for_completion
  <1> QED
      BY <1>1, <1>2

LEMMA KernelInv ==
    ASSUME IInv, NEW x \in urbs, KernelDone(x)
    PROVE  IInv'
  BY SMT DEF IInv, Types, LockInv, FdInv, PollInv, UrbInv, Held, Depth, Settled, HandleOf,
      KernelDone, lockVars, fdVars, pollVars, callVars

\* What a thread does that opens and closes a handle.
LEMMA ModifierInv ==
    ASSUME IInv, NEW m \in Modifiers,
           \/ ModifierStep(m) \/ Open(m) \/ SubmitAsync(m) \/ Close(m)
    PROVE  IInv'
  <1> USE ThreadAssumption DEF IInv, Types, LockInv, FdInv, PollInv, UrbInv, Held, Depth, Settled,
          Goto, Places, Threads, HandleOf, lockVars, fdVars, pollVars, usbVars, callVars
  <1>1. CASE Open(m)
      BY <1>1, SMT DEF Open
  <1>2. CASE AddToOpenDevs(m)
      BY <1>2, SMT DEF AddToOpenDevs
  <1>3. CASE SubmitAsync(m)
      BY <1>3, SMT DEF SubmitAsync
  <1>4. CASE Close(m)
      BY <1>4, SMT DEF Close
  <1>5. CASE NoteModify(m)
      BY <1>5, SMT DEF NoteModify
  <1>6. CASE WriteByte(m)
      BY <1>6, SMT DEF WriteByte
  <1>7. CASE LockEvents(m)
      BY <1>7, SMT DEF LockEvents
  <1>8. CASE ReadByte(m)
      BY <1>8, SMT DEF ReadByte
  <1>9. CASE do_close(m)
      BY <1>9, SMT DEF do_close
  <1>10. CASE CloseFd(m)
      BY <1>10, SMT DEF CloseFd
  <1>11. CASE Unmodify(m)
      BY <1>11, SMT DEF Unmodify
  <1>12. CASE Release(m) \/ Unlock(m) \/ Broadcast(m)
      BY <1>12, HandleEventsInv DEF HandleEvents
  <1> QED
      BY <1>1, <1>2, <1>3, <1>4, <1>5, <1>6, <1>7, <1>8, <1>9, <1>10, <1>11, <1>12 DEF ModifierStep

\* Every step of every thread and of the kernel preserves the invariant.
THEOREM Inductive ==
    ASSUME IInv, [Next]_vars
    PROVE  IInv'
  <1>1. ASSUME NEW th \in Syncs, SyncStep(th) \/ Submit(th) PROVE IInv'
      BY <1>1, HandleEventsInv, SyncInv DEF SyncStep, Threads
  <1>2. ASSUME NEW th \in Loopers, HandleEvents(th) PROVE IInv'
      BY <1>2, HandleEventsInv DEF Threads
  <1>3. ASSUME NEW m \in Modifiers, ModifierStep(m) \/ Open(m) \/ SubmitAsync(m) \/ Close(m)
        PROVE  IInv'
      BY <1>3, ModifierInv
  <1>4. ASSUME NEW x \in urbs, KernelDone(x) PROVE IInv'
      BY <1>4, KernelInv
  <1>5. CASE UNCHANGED vars
      BY <1>5, SMT DEF vars, lockVars, fdVars, pollVars, usbVars, callVars, IInv, Types, LockInv,
          FdInv, PollInv, UrbInv, Depth, Settled
  <1> QED
      BY <1>1, <1>2, <1>3, <1>4, <1>5 DEF Next

\* Nobody polls what was closed, or misses what was opened.
THEOREM PollFresh == Spec => []PollIsFresh
  <1>1. IInv => PollIsFresh
      BY SMT DEF IInv, FdInv, PollInv, Settled, PollIsFresh
  <1> QED
      BY InitInv, Inductive, <1>1, PTL DEF Spec

\* A callback runs for a transfer in flight on an open handle, under the lock.
THEOREM CallbacksOwed == Spec => CallbackIsOwed
  <1>1. ASSUME IInv, NEW th \in Threads, NEW x \in done, Reap(th, x) PROVE CallbackOwed
    <2>1. owner = th /\ \A u \in Threads : pc[u] \in Held => u = th
        BY <1>1, SMT DEF IInv, LockInv, Reap, Goto, Held
    <2>2. x \in flying /\ HandleOf(x) \in devs \cap fds
        BY <1>1, <2>1, SMT DEF IInv, Types, LockInv, UrbInv, FdInv, Reap, Goto
    <2>3. completed' \ completed \subseteq {x}
        BY <1>1 DEF Reap
    <2> QED
        BY <2>1, <2>2, <2>3, ThreadAssumption, SMT DEF Held, CallbackOwed
  <1>2. ASSUME NEW th \in Threads, HandleEvents(th), \A x \in done : ~Reap(th, x)
        PROVE  completed' = completed
      BY <1>2, SMT DEF HandleEvents, CheckModify, TryLock, Locked, Poll, Reaped, ReapedAll, Release,
          Unlock, Broadcast, Wait, Woken, usbVars
  <1>3. ASSUME IInv, NEW th \in Threads, HandleEvents(th) PROVE CallbackOwed
      BY <1>1, <1>2, <1>3 DEF CallbackOwed
  <1>4. ASSUME NEW m \in Modifiers, ModifierStep(m) \/ Open(m) \/ SubmitAsync(m) \/ Close(m)
        PROVE  completed' \subseteq completed
      BY <1>4, SMT DEF ModifierStep, AddToOpenDevs, NoteModify, WriteByte, LockEvents, ReadByte,
          do_close, CloseFd, Unmodify, Release, Unlock, Broadcast, Open, SubmitAsync, Close, usbVars
  <1>5. ASSUME NEW th \in Syncs, Submit(th) \/ sync_transfer_wait_for_completion(th)
        PROVE  completed' \subseteq completed
      BY <1>5, SMT DEF Submit, sync_transfer_wait_for_completion, usbVars
  <1>6. ASSUME IInv, [Next]_vars PROVE CallbackOwed
    <2>1. CASE UNCHANGED vars
        BY <2>1 DEF vars, usbVars, CallbackOwed
    <2>2. CASE \E x \in urbs : KernelDone(x)
        BY <2>2 DEF KernelDone, CallbackOwed
    <2> QED
        BY <1>3, <1>4, <1>5, <1>6, <2>1, <2>2 DEF Next, SyncStep, Threads, CallbackOwed
  <1>7. IInv /\ [Next]_vars => [CallbackOwed]_vars
      BY <1>6
  <1> QED
      BY InitInv, Inductive, <1>7, PTL DEF Spec, CallbackIsOwed

-----------------------------------------------------------------------------
(* The counts.                                                             *)

\* The modifiers between the two changes of pollfd_modify, and those whose byte is
\* in the control pipe.
Modifying ==
    {m \in Modifiers :
        \/ pc[m] \in {"write", "lock", "read", "do_close", "close_fd", "unmodify"}
        \/ m \in closing /\ pc[m] \in {"release", "unlock", "broadcast"}}
Written == {m \in Modifiers : pc[m] \in {"lock", "read"}}

CountInv ==
    /\ IsFiniteSet(Modifying) /\ modify = Cardinality(Modifying)
    /\ IsFiniteSet(Written) /\ bytes = Cardinality(Written)

LEMMA CountsUp ==
    ASSUME NEW S, IsFiniteSet(S), NEW n, n = Cardinality(S), NEW x, x \notin S
    PROVE  IsFiniteSet(S \cup {x}) /\ n + 1 = Cardinality(S \cup {x})
BY FS_AddElement

LEMMA CountsDown ==
    ASSUME NEW S, IsFiniteSet(S), NEW n, n = Cardinality(S), NEW x \in S
    PROVE  IsFiniteSet(S \ {x}) /\ n - 1 = Cardinality(S \ {x}) /\ n > 0
<1>1. IsFiniteSet(S \ {x}) /\ Cardinality(S \ {x}) = Cardinality(S) - 1 /\ Cardinality(S) \in Nat
  BY FS_RemoveElement, FS_CardinalityType
<1>2. Cardinality(S) # 0
  BY FS_EmptySet
<1> QED
  BY <1>1, <1>2

LEMMA CountInit == Init => CountInv
<1> SUFFICES ASSUME Init PROVE CountInv
  OBVIOUS
<1>1. \A m \in Modifiers : pc[m] = "closed"
  BY ThreadAssumption, SMT DEF Init, Threads
<1>2. Modifying = {} /\ Written = {}
  BY <1>1 DEF Init, Modifying, Written
<1> QED
  BY <1>2, FS_EmptySet DEF CountInv, Init

\* A step that moves no modifier over the places where the two change.
LEMMA SameCounts ==
    ASSUME CountInv, Modifying' = Modifying, Written' = Written, modify' = modify, bytes' = bytes
    PROVE  CountInv'
BY DEF CountInv

LEMMA CountHandle ==
    ASSUME IInv, CountInv, NEW th \in Threads, HandleEvents(th)
    PROVE  CountInv'
<1> USE ThreadAssumption DEF IInv, Types, Goto, Threads, Places, lockVars, fdVars, pollVars, usbVars, callVars
<1>1. modify' = modify /\ bytes' = bytes /\ closing' = closing
  BY DEF HandleEvents, CheckModify, TryLock, Locked, Poll, Reap, Reaped, ReapedAll, Release, Unlock, Broadcast, Wait, Woken
<1>2. \A m \in Modifiers \ {th} : pc'[m] = pc[m]
  BY SMT DEF HandleEvents, CheckModify, TryLock, Locked, Poll, Reap, Reaped, ReapedAll, Release, Unlock, Broadcast, Wait, Woken
<1>3. th \in Modifiers =>
        /\ pc[th] \in {"release", "unlock", "broadcast"}
        /\ pc[th] = "release" => pc'[th] = "unlock"
        /\ pc[th] = "unlock" => pc'[th] = "broadcast"
        /\ pc[th] = "broadcast" => IF th \in closing THEN pc'[th] = "close_fd" ELSE pc'[th] \in {"opened", "closed"}
  BY SMT DEF HandleEvents, CheckModify, TryLock, Locked, Poll, Reap, Reaped, ReapedAll, Release, Unlock, Broadcast, Wait, Woken, LockInv, Returned
<1>4. Modifying' = Modifying /\ Written' = Written
  BY <1>1, <1>2, <1>3 DEF Modifying, Written
<1> QED
  BY <1>1, <1>4, SameCounts

LEMMA CountModifier ==
    ASSUME IInv, CountInv, NEW m \in Modifiers,
           \/ ModifierStep(m) \/ Open(m) \/ SubmitAsync(m) \/ Close(m)
    PROVE  CountInv'
<1> USE DEF IInv, Types, Goto, Threads, lockVars, fdVars, pollVars, usbVars, callVars
<1>1. CASE Open(m) \/ AddToOpenDevs(m) \/ SubmitAsync(m) \/ Close(m)
  <2>1. modify' = modify /\ bytes' = bytes
    BY <1>1 DEF Open, AddToOpenDevs, SubmitAsync, Close
  <2>2. Modifying' = Modifying /\ Written' = Written
    BY <1>1, SMT DEF Open, AddToOpenDevs, SubmitAsync, Close, Modifying, Written
  <2> QED
    BY <2>1, <2>2, SameCounts
<1>2. CASE NoteModify(m)
  <2>1. m \notin Modifying /\ Modifying' = Modifying \cup {m} /\ Written' = Written
    BY <1>2, SMT DEF NoteModify, Modifying, Written
  <2> QED
    BY <1>2, <2>1, CountsUp DEF NoteModify, CountInv
<1>3. CASE WriteByte(m)
  <2>1. m \notin Written /\ Modifying' = Modifying /\ Written' = Written \cup {m}
    BY <1>3, SMT DEF WriteByte, Modifying, Written
  <2> QED
    BY <1>3, <2>1, CountsUp DEF WriteByte, CountInv
<1>4. CASE LockEvents(m) \/ do_close(m)
  <2>1. modify' = modify /\ bytes' = bytes
    BY <1>4 DEF LockEvents, do_close
  <2>2. Modifying' = Modifying /\ Written' = Written
    BY <1>4, SMT DEF LockEvents, do_close, Modifying, Written, LockInv
  <2> QED
    BY <2>1, <2>2, SameCounts
<1>5. CASE ReadByte(m)
  <2>1. m \in Written /\ Modifying' = Modifying /\ Written' = Written \ {m}
    BY <1>5, SMT DEF ReadByte, Modifying, Written
  <2> QED
    BY <1>5, <2>1, CountsDown DEF ReadByte, CountInv
<1>6. CASE CloseFd(m)
  <2>1. modify' = modify /\ bytes' = bytes
    BY <1>6 DEF CloseFd
  <2>2. Modifying' = Modifying /\ Written' = Written
    BY <1>6, SMT DEF CloseFd, Modifying, Written
  <2> QED
    BY <2>1, <2>2, SameCounts
<1>7. CASE Unmodify(m)
  <2>1. m \in Modifying /\ Modifying' = Modifying \ {m} /\ Written' = Written
    BY <1>7, SMT DEF Unmodify, Modifying, Written, LockInv
  <2> QED
    BY <1>7, <2>1, CountsDown DEF Unmodify, CountInv
<1>8. CASE Release(m) \/ Unlock(m) \/ Broadcast(m)
  BY <1>8, CountHandle DEF HandleEvents
<1> QED
  BY <1>1, <1>2, <1>3, <1>4, <1>5, <1>6, <1>7, <1>8 DEF ModifierStep

LEMMA CountStep == IInv /\ CountInv /\ [Next]_vars => CountInv'
<1> SUFFICES ASSUME IInv, CountInv, [Next]_vars PROVE CountInv'
  OBVIOUS
<1>1. ASSUME NEW th \in Syncs, SyncStep(th) \/ Submit(th) PROVE CountInv'
  <2>1. CASE HandleEvents(th)
    BY <2>1, CountHandle DEF Threads
  <2>2. CASE Submit(th) \/ sync_transfer_wait_for_completion(th)
    <3>1. modify' = modify /\ bytes' = bytes /\ closing' = closing
      BY <2>2 DEF Submit, sync_transfer_wait_for_completion, lockVars, fdVars, callVars
    <3>2. \A m \in Modifiers : pc'[m] = pc[m]
      BY <1>1, <2>2, ThreadAssumption, SMT
         DEF IInv, Types, Submit, sync_transfer_wait_for_completion, Goto, Threads
    <3> QED
      BY <3>1, <3>2, SameCounts DEF Modifying, Written
  <2> QED
    BY <1>1, <2>1, <2>2 DEF SyncStep
<1>2. ASSUME NEW th \in Loopers, HandleEvents(th) PROVE CountInv'
  BY <1>2, CountHandle DEF Threads
<1>3. ASSUME NEW m \in Modifiers, ModifierStep(m) \/ Open(m) \/ SubmitAsync(m) \/ Close(m)
      PROVE  CountInv'
  BY <1>3, CountModifier
<1>4. ASSUME NEW x \in urbs, KernelDone(x) PROVE CountInv'
  BY <1>4, SameCounts DEF KernelDone, lockVars, fdVars, callVars, Modifying, Written
<1>5. CASE UNCHANGED vars
  BY <1>5, SameCounts DEF vars, lockVars, fdVars, callVars, Modifying, Written
<1> QED
  BY <1>1, <1>2, <1>3, <1>4, <1>5 DEF Next

LEMMA CountsAlways == Spec => [](IInv /\ CountInv)
  BY InitInv, CountInit, Inductive, CountStep, PTL DEF Spec

\* While a modifier waits for the lock, or has it and is about to read, its byte is
\* in the pipe.
ByteIsThere == \A m \in Modifiers : pc[m] \in {"lock", "read"} => bytes > 0

\* A modifier that waits for the events lock keeps every poll from blocking, and
\* its own read of the control pipe does not block, however many modifiers there
\* are and whoever reads whose byte.
THEOREM ReadsDoNotBlock == Spec => []ByteIsThere
<1>1. ASSUME CountInv PROVE ByteIsThere
  <2> SUFFICES ASSUME NEW m \in Modifiers, pc[m] \in {"lock", "read"} PROVE bytes > 0
    BY DEF ByteIsThere
  <2>1. m \in Written
    BY DEF Written
  <2> QED
    BY <1>1, <2>1, CountsDown DEF CountInv
<1>2. IInv /\ CountInv => ByteIsThere
  BY <1>1
<1> QED
  BY <1>2, CountsAlways, PTL

-----------------------------------------------------------------------------
(* Wake-ups.                                                               *)

\* From each of these places a thread comes to a broadcast.
Wakers == {"poll", "reap", "reaped", "release", "unlock", "broadcast",
           "write", "lock", "read", "do_close", "close_fd", "unmodify"}

Waking == \E th \in Threads : pc[th] \in Wakers

\* Whoever waits for the condition variable is owed a broadcast.
SleepersOwed == asleep # {} => Waking

Handling == {"poll", "reap", "reaped", "release", "read", "do_close", "unmodify"}

\* The flag is set while the owner of the lock handles events or has interrupted
\* those who did.
ActiveInv ==
    active => /\ owner \in Threads
              /\ pc[owner] \in Handling

LEMMA ActiveAsBefore ==
    ASSUME ActiveInv, NEW th \in Threads, active' = active, owner' = owner,
           \A u \in Threads \ {th} : pc'[u] = pc[u],
           pc[th] \in Handling => pc'[th] \in Handling
    PROVE  ActiveInv'
BY DEF ActiveInv, Handling

LEMMA ActiveHandle ==
    ASSUME IInv, ActiveInv, NEW th \in Threads, HandleEvents(th)
    PROVE  ActiveInv'
<1> USE DEF IInv, Types, LockInv, Held, ActiveInv, Handling, Goto, lockVars
<1>1. CASE CheckModify(th) \/ Wait(th) \/ Woken(th)
  <2>1. active' = active /\ owner' = owner
    BY <1>1 DEF CheckModify, Wait, Woken
  <2>2. (\A u \in Threads \ {th} : pc'[u] = pc[u]) /\ pc[th] \notin Handling
    BY <1>1, SMT DEF CheckModify, Wait, Woken
  <2> QED
    BY <2>1, <2>2, ActiveAsBefore
<1>2. CASE TryLock(th)
  BY <1>2, ThreadAssumption, SMT DEF TryLock
<1>3. CASE Locked(th)
  BY <1>3, ThreadAssumption, SMT DEF Locked
<1>4. CASE Poll(th) \/ (\E x \in done : Reap(th, x)) \/ Reaped(th) \/ ReapedAll(th)
  <2>1. active' = active /\ owner' = owner
    BY <1>4 DEF Poll, Reap, Reaped, ReapedAll
  <2>2. (\A u \in Threads \ {th} : pc'[u] = pc[u]) /\ pc'[th] \in Handling
    BY <1>4, SMT DEF Poll, Reap, Reaped, ReapedAll
  <2> QED
    BY <2>1, <2>2, ActiveAsBefore
<1>5. CASE Release(th)
  BY <1>5 DEF Release
<1>6. CASE Unlock(th)
  BY <1>6, SMT DEF Unlock
<1>7. CASE Broadcast(th)
  BY <1>7, SMT DEF Broadcast
<1> QED
  BY <1>1, <1>2, <1>3, <1>4, <1>5, <1>6, <1>7 DEF HandleEvents

LEMMA ActiveModifier ==
    ASSUME IInv, ActiveInv, NEW m \in Modifiers,
           \/ ModifierStep(m) \/ Open(m) \/ SubmitAsync(m) \/ Close(m)
    PROVE  ActiveInv'
<1> USE DEF IInv, Types, LockInv, Held, ActiveInv, Handling, Goto, lockVars, Threads
<1>1. CASE Open(m) \/ AddToOpenDevs(m) \/ Close(m) \/ NoteModify(m) \/ WriteByte(m)
  <2>1. active' = active /\ owner' = owner
    BY <1>1 DEF Open, AddToOpenDevs, Close, NoteModify, WriteByte
  <2>2. (\A u \in Threads \ {m} : pc'[u] = pc[u]) /\ pc[m] \notin Handling
    BY <1>1, SMT DEF Open, AddToOpenDevs, Close, NoteModify, WriteByte
  <2> QED
    BY <2>1, <2>2, ActiveAsBefore
<1>2. CASE SubmitAsync(m)
  BY <1>2 DEF SubmitAsync
<1>3. CASE LockEvents(m)
  BY <1>3, SMT DEF LockEvents
<1>4. CASE ReadByte(m)
  BY <1>4, SMT DEF ReadByte
<1>5. CASE do_close(m)
  BY <1>5, SMT DEF do_close
<1>6. CASE CloseFd(m)
  BY <1>6, SMT DEF CloseFd
<1>7. CASE Unmodify(m)
  BY <1>7, SMT DEF Unmodify
<1>8. CASE Release(m) \/ Unlock(m) \/ Broadcast(m)
  BY <1>8, ActiveHandle DEF HandleEvents
<1> QED
  BY <1>1, <1>2, <1>3, <1>4, <1>5, <1>6, <1>7, <1>8 DEF ModifierStep

LEMMA ActiveStep == IInv /\ ActiveInv /\ [Next]_vars => ActiveInv'
<1> SUFFICES ASSUME IInv, ActiveInv, [Next]_vars PROVE ActiveInv'
  OBVIOUS
<1>1. ASSUME NEW th \in Threads, HandleEvents(th) PROVE ActiveInv'
  BY <1>1, ActiveHandle
<1>2. ASSUME NEW m \in Modifiers, ModifierStep(m) \/ Open(m) \/ SubmitAsync(m) \/ Close(m)
      PROVE  ActiveInv'
  BY <1>2, ActiveModifier
<1>3. ASSUME NEW th \in Syncs, Submit(th) \/ sync_transfer_wait_for_completion(th) PROVE ActiveInv'
  <2>1. th \in Threads /\ active' = active /\ owner' = owner
    BY <1>3 DEF Threads, Submit, sync_transfer_wait_for_completion, lockVars
  <2>2. (\A u \in Threads \ {th} : pc'[u] = pc[u]) /\ pc[th] \notin Handling
    BY <1>3, <2>1, SMT DEF IInv, Types, Goto, Handling, Submit, sync_transfer_wait_for_completion
  <2> QED
    BY <2>1, <2>2, ActiveAsBefore
<1>4. ASSUME NEW x \in urbs, KernelDone(x) PROVE ActiveInv'
  BY <1>4 DEF KernelDone, ActiveInv, lockVars
<1>5. CASE UNCHANGED vars
  BY <1>5 DEF vars, lockVars, ActiveInv
<1> QED
  BY <1>1, <1>2, <1>3, <1>4, <1>5 DEF Next, SyncStep, Threads

\* A step that makes nobody sleep and leaves the thread that made it a waker if it
\* was one.
LEMMA OwedAsBefore ==
    ASSUME SleepersOwed, NEW th \in Threads, asleep' \subseteq asleep,
           \A u \in Threads \ {th} : pc'[u] = pc[u],
           pc[th] \in Wakers => pc'[th] \in Wakers
    PROVE  SleepersOwed'
BY DEF SleepersOwed, Waking

LEMMA OwedHandle ==
    ASSUME IInv, CountInv, ActiveInv, SleepersOwed, NEW th \in Threads, HandleEvents(th)
    PROVE  SleepersOwed'
<1>1. pc \in [Threads -> Places]
  BY DEF IInv, Types
<1>2. \A u \in Threads \ {th} : pc'[u] = pc[u]
  BY <1>1, SMT DEF Goto, HandleEvents, CheckModify, TryLock, Locked, Poll, Reap, Reaped, ReapedAll,
     Release, Unlock, Broadcast, Wait, Woken
<1>3. CASE Broadcast(th)
  BY <1>3 DEF Broadcast, SleepersOwed
<1>4. CASE Wait(th) /\ asleep' # asleep
  <2>1. active \/ modify > 0
    BY <1>4 DEF Wait
  <2>2. \E u \in Threads : pc[u] \in Wakers
    <3>1. CASE active
      BY <3>1 DEF ActiveInv, Handling, Wakers
    <3>2. CASE modify > 0
      <4>1. Modifying # {}
        BY <3>2, FS_EmptySet DEF CountInv
      <4> QED
        BY <4>1 DEF Modifying, Wakers, Threads
    <3> QED
      BY <2>1, <3>1, <3>2
  <2>3. pc[th] = "wait"
    BY <1>4 DEF Wait, Goto
  <2> QED
    BY <1>2, <2>2, <2>3 DEF Wakers, SleepersOwed, Waking
<1>5. CASE ~Broadcast(th) /\ ~(Wait(th) /\ asleep' # asleep)
  <2>1. asleep' \subseteq asleep
    BY <1>5 DEF HandleEvents, CheckModify, TryLock, Locked, Poll, Reap, Reaped, ReapedAll, Release, Unlock, Woken
  <2>2. pc[th] \in Wakers => pc'[th] \in Wakers
    BY <1>1, <1>5, SMT DEF Goto, Wakers, HandleEvents, CheckModify, TryLock, Locked, Poll, Reap, Reaped, ReapedAll,
       Release, Unlock, Wait, Woken
  <2> QED
    BY <1>2, <2>1, <2>2, OwedAsBefore
<1> QED
  BY <1>3, <1>4, <1>5

LEMMA OwedStep == IInv /\ CountInv /\ ActiveInv /\ SleepersOwed /\ [Next]_vars => SleepersOwed'
<1> SUFFICES ASSUME IInv, CountInv, ActiveInv, SleepersOwed, [Next]_vars PROVE SleepersOwed'
  OBVIOUS
<1>1. ASSUME NEW th \in Threads, HandleEvents(th) PROVE SleepersOwed'
  BY <1>1, OwedHandle
<1>2. ASSUME NEW m \in Modifiers, ModifierStep(m) \/ Open(m) \/ SubmitAsync(m) \/ Close(m)
      PROVE  SleepersOwed'
  <2>1. CASE Release(m) \/ Unlock(m) \/ Broadcast(m)
    BY <1>1, <2>1 DEF HandleEvents, Threads
  <2>2. CASE SubmitAsync(m)
    BY <2>2 DEF SubmitAsync, SleepersOwed, Waking
  <2>3. CASE ~(Release(m) \/ Unlock(m) \/ Broadcast(m) \/ SubmitAsync(m))
    <3>1. m \in Threads /\ asleep' = asleep
      BY <1>2, <2>3 DEF Threads, ModifierStep, AddToOpenDevs, NoteModify, WriteByte, LockEvents, ReadByte, do_close,
         CloseFd, Unmodify, Open, Close
    <3>2. /\ \A u \in Threads \ {m} : pc'[u] = pc[u]
          /\ pc[m] \in Wakers => pc'[m] \in Wakers
      BY <1>2, <2>3, <3>1, SMT DEF IInv, Types, Goto, Wakers, ModifierStep, AddToOpenDevs, NoteModify, WriteByte,
         LockEvents, ReadByte, do_close, CloseFd, Unmodify, Open, Close
    <3> QED
      BY <3>1, <3>2, OwedAsBefore
  <2> QED
    BY <2>1, <2>2, <2>3
<1>3. ASSUME NEW th \in Syncs, Submit(th) \/ sync_transfer_wait_for_completion(th) PROVE SleepersOwed'
  <2>1. th \in Threads /\ asleep' = asleep
    BY <1>3 DEF Threads, Submit, sync_transfer_wait_for_completion
  <2>2. /\ \A u \in Threads \ {th} : pc'[u] = pc[u]
        /\ pc[th] \notin Wakers
    BY <1>3, <2>1, SMT DEF IInv, Types, Goto, Wakers, Submit, sync_transfer_wait_for_completion
  <2> QED
    BY <2>1, <2>2, OwedAsBefore
<1>4. ASSUME NEW x \in urbs, KernelDone(x) PROVE SleepersOwed'
  BY <1>4 DEF KernelDone, SleepersOwed, Waking
<1>5. CASE UNCHANGED vars
  BY <1>5 DEF vars, SleepersOwed, Waking
<1> QED
  BY <1>1, <1>2, <1>3, <1>4, <1>5 DEF Next, SyncStep, Threads

\* No wake-up is lost: while a thread waits for the event_waiters_cond, some thread
\* is on its way to libusb_unlock_events() and its broadcast, however many threads
\* handle events, open and close.
THEOREM SleepersAreOwed == Spec => []SleepersOwed
<1>1. Init => ActiveInv /\ SleepersOwed
  BY DEF Init, ActiveInv, SleepersOwed
<1> QED
  BY InitInv, CountInit, Inductive, CountStep, ActiveStep, OwedStep, <1>1, PTL DEF Spec

-----------------------------------------------------------------------------
(* The types.                                                              *)

\* The types of what IInv does not speak of.
DataTypes ==
    /\ owner \in Threads \cup {"nobody"} /\ depth \in Nat /\ active \in BOOLEAN
    /\ asleep \subseteq Threads
    /\ fds \subseteq Handles /\ pollfds \subseteq Handles /\ devs \subseteq Handles
    /\ polled \subseteq Handles /\ ready \subseteq Handles
    /\ flying \subseteq Threads /\ completed \subseteq Threads
    /\ calls \in [Threads -> Nat]

LEMMA DataStep == IInv /\ DataTypes /\ [Next]_vars => DataTypes'
<1> SUFFICES ASSUME IInv, DataTypes, [Next]_vars PROVE DataTypes'
  OBVIOUS
<1> USE DEF DataTypes, lockVars, fdVars, pollVars, usbVars, callVars, Goto
<1>1. ASSUME NEW th \in Threads, HandleEvents(th) PROVE DataTypes'
  <2>1. CASE Unlock(th)
    <3>1. depth = Depth(th)
      BY <1>1, <2>1, SMT DEF IInv, Types, LockInv, Unlock, Held
    <3> QED
      BY <2>1, <3>1 DEF Unlock, Depth
  <2>2. CASE TryLock(th)
    BY <2>2 DEF TryLock
  <2>3. CASE CheckModify(th) \/ Locked(th) \/ Poll(th) \/ Reaped(th) \/ ReapedAll(th) \/ Release(th) \/ Broadcast(th)
    BY <2>3 DEF CheckModify, Locked, Poll, Reaped, ReapedAll, Release, Broadcast, Readable
  <2>4. CASE Wait(th) \/ Woken(th)
    BY <2>4 DEF Wait, Woken
  <2>5. ASSUME NEW x \in done, Reap(th, x) PROVE DataTypes'
    BY <2>5 DEF IInv, UrbInv, Reap, Threads
  <2> QED
    BY <1>1, <2>1, <2>2, <2>3, <2>4, <2>5 DEF HandleEvents
<1>2. ASSUME NEW m \in Modifiers, ModifierStep(m) \/ Open(m) \/ SubmitAsync(m) \/ Close(m)
      PROVE  DataTypes'
  <2>1. CASE Release(m) \/ Unlock(m) \/ Broadcast(m)
    BY <1>1, <2>1 DEF HandleEvents, Threads
  <2>2. CASE Open(m) \/ SubmitAsync(m) \/ Close(m)
    BY <2>2 DEF Open, SubmitAsync, Close, Handles, Threads
  <2>3. CASE AddToOpenDevs(m) \/ NoteModify(m) \/ WriteByte(m) \/ LockEvents(m) \/ ReadByte(m)
    <3>1. m \in Threads /\ m \in Handles
      BY DEF Threads, Handles
    <3>2. CASE AddToOpenDevs(m)
      BY <3>1, <3>2 DEF AddToOpenDevs
    <3>3. CASE LockEvents(m)
      BY <3>1, <3>3 DEF LockEvents
    <3>4. CASE NoteModify(m) \/ WriteByte(m) \/ ReadByte(m)
      BY <3>4 DEF NoteModify, WriteByte, ReadByte
    <3> QED
      BY <2>3, <3>2, <3>3, <3>4
  <2>4. CASE do_close(m) \/ CloseFd(m) \/ Unmodify(m)
    <3>1. CASE do_close(m)
      BY <3>1 DEF do_close
    <3>2. CASE CloseFd(m)
      BY <3>2 DEF CloseFd
    <3>3. CASE Unmodify(m)
      BY <3>3 DEF Unmodify
    <3> QED
      BY <2>4, <3>1, <3>2, <3>3
  <2> QED
    BY <1>2, <2>1, <2>2, <2>3, <2>4 DEF ModifierStep
<1>3. ASSUME NEW th \in Syncs, Submit(th) \/ sync_transfer_wait_for_completion(th) PROVE DataTypes'
  BY <1>3 DEF Submit, sync_transfer_wait_for_completion, Threads
<1>4. ASSUME NEW x \in urbs, KernelDone(x) PROVE DataTypes'
  BY <1>4 DEF KernelDone
<1>5. CASE UNCHANGED vars
  BY <1>5 DEF vars
<1> QED
  BY <1>1, <1>2, <1>3, <1>4, <1>5 DEF Next, SyncStep, Threads

\* Type correctness of the sharing of events, for every number of threads: no counter
\* goes below zero, nobody gives back a lock more often than it took it, and only
\* handles are polled.
THEOREM EventTypes == Spec => []TypeOK
<1>1. ASSUME Init PROVE DataTypes
  <2>1. Home \in Handles /\ calls \in [Threads -> Nat]
    BY <1>1 DEF Init, Handles
  <2> QED
    BY <1>1, <2>1 DEF Init, DataTypes
<1>2. IInv /\ CountInv /\ DataTypes => TypeOK
  BY FS_CardinalityType DEF IInv, Types, UrbInv, CountInv, DataTypes, TypeOK, Threads
<1> QED
  BY InitInv, CountInit, Inductive, CountStep, DataStep, <1>1, <1>2, PTL DEF Spec
=============================================================================
