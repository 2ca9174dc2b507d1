------------------------------ MODULE UsbEvents ------------------------------
(***************************************************************************)
(* How the threads of a program share libusb's event handling. One thread  *)
(* at a time holds the events lock, polls the descriptors and completes    *)
(* whatever transfers are done, its own or another thread's. A thread that *)
(* does not get the lock sleeps until events were handled. libusb_open and *)
(* libusb_close change the descriptors: they interrupt the poll through    *)
(* the control pipe and take the events lock.                              *)
(*                                                                         *)
(* A thread in libusb_bulk_transfer (or the control and interrupt ones)    *)
(* submits a transfer and handles events until it is done; a looper is an  *)
(* application's own event thread; a modifier opens and closes a handle.   *)
(* The time-outs of poll and of the wait (60 s in libusb_handle_events)    *)
(* are left out: nothing may depend on them.                               *)
(***************************************************************************)
EXTENDS Naturals

CONSTANTS Syncs, Loopers, Modifiers,   \* the threads
          Home,                        \* the handle the transfers of Syncs use
          MaxCalls                     \* bound: transfers of a sync, opens of a modifier

Threads == Syncs \cup Loopers \cup Modifiers
Handles == {Home} \cup Modifiers       \* a modifier's handle is named by it

ASSUME ThreadAssumption ==
    /\ Home \notin Threads
    /\ Syncs \cap Loopers = {} /\ Syncs \cap Modifiers = {} /\ Loopers \cap Modifiers = {}
    /\ "nobody" \notin Threads
    /\ MaxCalls \in Nat

VARIABLES
    pc,          \* where each thread is
    owner,       \* of the events lock, which is recursive: "nobody" or a thread
    depth,       \* how often its owner has it
    active,      \* ctx->event_handler_active
    modify,      \* ctx->pollfd_modify
    bytes,       \* in the control pipe
    asleep,      \* the threads that wait for the event_waiters_cond
    fds,         \* the descriptors that are open
    pollfds,     \* ctx->pollfds
    devs,        \* ctx->open_devs
    polled,      \* the descriptors the poll was called with
    ready,       \* those it returned
    flying,      \* ctx->flying_transfers; a transfer is named by its thread
    urbs, done,  \* the transfers whose URBs the kernel has, and is done with
    completed,   \* *completed of each transfer: its callback ran
    calls,       \* how often each thread submitted a transfer, or opened its handle
    closing      \* the modifiers that are in libusb_close

lockVars == <<owner, depth, active, modify>>
fdVars   == <<bytes, fds, pollfds, devs>>
pollVars == <<polled, ready>>
usbVars  == <<flying, urbs, done, completed>>
callVars == <<calls, closing>>
vars     == <<pc, lockVars, asleep, fdVars, pollVars, usbVars, callVars>>

HandleOf(x) == IF x \in Modifiers THEN x ELSE Home

Goto(th, from, to) == pc[th] = from /\ pc' = [pc EXCEPT ![th] = to]

-----------------------------------------------------------------------------
(* libusb_handle_events_timeout_completed, with libusb_try_lock_events,    *)
(* handle_events, libusb_unlock_events and libusb_wait_for_event in it.    *)

\* Nobody starts while a descriptor is being added or removed.
CheckModify(th) ==
    /\ Goto(th, "handle_events", IF modify > 0 THEN "wait" ELSE "trylock")
    /\ UNCHANGED <<lockVars, asleep, fdVars, pollVars, usbVars, callVars>>

\* Mutation: the lock is taken from its owner.
TryLockAnyhow(th) ==
    /\ Goto(th, "trylock", "locked")
    /\ owner' = th /\ depth' = 1
    /\ UNCHANGED <<active, modify, asleep, fdVars, pollVars, usbVars, callVars>>

TryLock(th) ==
    /\ Goto(th, "trylock", IF owner = "nobody" THEN "locked" ELSE "wait")
    /\ IF owner = "nobody" THEN owner' = th /\ depth' = 1 ELSE UNCHANGED <<owner, depth>>
    /\ UNCHANGED <<active, modify, asleep, fdVars, pollVars, usbVars, callVars>>

\* With the lock, a transfer that is complete needs no events; or the poll is
\* called with the descriptors there are.
Locked(th) ==
    /\ active' = TRUE
    /\ IF th \in completed THEN Goto(th, "locked", "release") /\ UNCHANGED polled
       ELSE Goto(th, "locked", "poll") /\ polled' = pollfds
    /\ UNCHANGED <<owner, depth, modify, asleep, fdVars, ready, usbVars, callVars>>

Readable == {h \in polled : \E x \in done : HandleOf(x) = h}

\* The control pipe only makes the poll return.
Poll(th) ==
    /\ bytes > 0 \/ Readable # {}
    /\ Goto(th, "poll", IF Readable = {} THEN "release" ELSE "reap")
    /\ ready' = Readable
    /\ UNCHANGED <<lockVars, asleep, fdVars, polled, usbVars, callVars>>

\* op_handle_events: the URBs of each ready handle are reaped, each transfer is
\* completed by its callback.
Reap(th, x) ==
    /\ Goto(th, "reap", "reaped")
    /\ x \in done /\ HandleOf(x) \in ready
    /\ done' = done \ {x} /\ flying' = flying \ {x}
    /\ completed' = completed \cup {x}
    /\ UNCHANGED <<urbs, lockVars, asleep, fdVars, pollVars, callVars>>

Reaped(th) ==
    /\ Goto(th, "reaped", "reap")
    /\ asleep' = {}
    /\ UNCHANGED <<lockVars, fdVars, pollVars, usbVars, callVars>>

ReapedAll(th) ==
    /\ Goto(th, "reap", "release")
    /\ ~\E x \in done : HandleOf(x) \in ready
    /\ UNCHANGED <<lockVars, asleep, fdVars, pollVars, usbVars, callVars>>

Release(th) ==
    /\ Goto(th, "release", "unlock")
    /\ active' = FALSE
    /\ UNCHANGED <<owner, depth, modify, asleep, fdVars, pollVars, usbVars, callVars>>

Unlock(th) ==
    /\ Goto(th, "unlock", "broadcast")
    /\ depth' = depth - 1
    /\ owner' = IF depth = 1 THEN "nobody" ELSE owner
    /\ UNCHANGED <<active, modify, asleep, fdVars, pollVars, usbVars, callVars>>

\* Where a thread goes on when it is through with the events. (Inside libusb_close
\* the lock was taken twice, and do_close goes on with the descriptor.)
Returned(th) ==
    IF th \in Syncs THEN "waiting"
    ELSE IF th \in Loopers THEN "handle_events"
    ELSE IF th \in devs THEN "opened" ELSE "closed"

\* Mutation: libusb_unlock_events does not wake those who wait.
BroadcastNot(th) ==
    /\ Goto(th, "broadcast", IF owner = th THEN "close_fd" ELSE Returned(th))
    /\ UNCHANGED <<asleep, lockVars, fdVars, pollVars, usbVars, callVars>>

Broadcast(th) ==
    /\ Goto(th, "broadcast", IF owner = th THEN "close_fd" ELSE Returned(th))
    /\ asleep' = {}
    /\ UNCHANGED <<lockVars, fdVars, pollVars, usbVars, callVars>>

\* Under the waiters' lock: the transfer was completed meanwhile; or nobody
\* handles events any more; or the thread waits.
Wait(th) ==
    /\ \/ th \in completed /\ Goto(th, "wait", Returned(th)) /\ UNCHANGED asleep
       \/ /\ th \notin completed /\ ~active /\ modify = 0
          /\ Goto(th, "wait", "handle_events")
          /\ UNCHANGED asleep
       \/ /\ th \notin completed /\ (active \/ modify > 0)
          /\ Goto(th, "wait", "asleep")
          /\ asleep' = asleep \cup {th}
    /\ UNCHANGED <<lockVars, fdVars, pollVars, usbVars, callVars>>

\* Awake again, the thread handles time-outs at most.
Woken(th) ==
    /\ Goto(th, "asleep", Returned(th))
    /\ th \notin asleep
    /\ UNCHANGED <<lockVars, asleep, fdVars, pollVars, usbVars, callVars>>

HandleEvents(th) ==
    \/ CheckModify(th) \/ TryLock(th) \/ Locked(th) \/ Poll(th)
    \/ \E x \in done : Reap(th, x)
    \/ Reaped(th) \/ ReapedAll(th)
    \/ Release(th) \/ Unlock(th) \/ Broadcast(th) \/ Wait(th) \/ Woken(th)

-----------------------------------------------------------------------------
(* A synchronous transfer.                                                 *)

Submit(th) ==
    /\ Goto(th, "ready", "waiting")
    /\ calls[th] < MaxCalls
    /\ calls' = [calls EXCEPT ![th] = @ + 1]
    /\ flying' = flying \cup {th} /\ urbs' = urbs \cup {th}
    /\ completed' = completed \ {th}
    /\ UNCHANGED <<done, lockVars, asleep, fdVars, pollVars, closing>>

sync_transfer_wait_for_completion(th) ==
    /\ Goto(th, "waiting", IF th \in completed THEN "ready" ELSE "handle_events")
    /\ UNCHANGED <<lockVars, asleep, fdVars, pollVars, usbVars, callVars>>

\* The kernel is done with a transfer's URBs.
KernelDone(x) ==
    /\ x \in urbs
    /\ urbs' = urbs \ {x} /\ done' = done \cup {x}
    /\ UNCHANGED <<pc, flying, completed, lockVars, asleep, fdVars, pollVars, callVars>>

-----------------------------------------------------------------------------
(* libusb_open and libusb_close.                                           *)

\* op_open: the descriptor is polled from here on.
Open(m) ==
    /\ Goto(m, "closed", "opening")
    /\ calls[m] < MaxCalls
    /\ calls' = [calls EXCEPT ![m] = @ + 1]
    /\ fds' = fds \cup {m} /\ pollfds' = pollfds \cup {m}
    /\ completed' = completed \ {m}
    /\ UNCHANGED <<closing, flying, urbs, done, bytes, devs, lockVars, asleep, pollVars>>

\* Mutation: libusb_open does not interrupt the poll.
AddQuietly(m) ==
    /\ Goto(m, "opening", "opened")
    /\ devs' = devs \cup {m}
    /\ UNCHANGED <<bytes, fds, pollfds, lockVars, asleep, pollVars, usbVars, callVars>>

AddToOpenDevs(m) ==
    /\ Goto(m, "opening", "notify")
    /\ devs' = devs \cup {m}
    /\ UNCHANGED <<bytes, fds, pollfds, lockVars, asleep, pollVars, usbVars, callVars>>

\* With the handle open, the application may submit a transfer and leave it.
SubmitAsync(m) ==
    /\ pc[m] = "opened" /\ m \notin flying \cup completed
    /\ flying' = flying \cup {m} /\ urbs' = urbs \cup {m}
    /\ UNCHANGED <<pc, done, completed, lockVars, asleep, fdVars, pollVars, callVars>>

Close(m) ==
    /\ Goto(m, "opened", "notify")
    /\ closing' = closing \cup {m}
    /\ UNCHANGED <<lockVars, asleep, fdVars, pollVars, usbVars, calls>>

\* Both note that the descriptors change, interrupt the poll and take the lock.
NoteModify(m) ==
    /\ Goto(m, "notify", "write")
    /\ modify' = modify + 1
    /\ UNCHANGED <<owner, depth, active, asleep, fdVars, pollVars, usbVars, callVars>>

WriteByte(m) ==
    /\ Goto(m, "write", "lock")
    /\ bytes' = bytes + 1
    /\ UNCHANGED <<fds, pollfds, devs, lockVars, asleep, pollVars, usbVars, callVars>>

LockEvents(m) ==
    /\ Goto(m, "lock", "read")
    /\ owner = "nobody"
    /\ owner' = m /\ depth' = 1 /\ active' = TRUE
    /\ UNCHANGED <<modify, asleep, fdVars, pollVars, usbVars, callVars>>

\* The byte is there: the read does not block.
ReadByte(m) ==
    /\ Goto(m, "read", IF m \in closing THEN "do_close" ELSE "unmodify")
    /\ bytes > 0
    /\ bytes' = bytes - 1
    /\ UNCHANGED <<fds, pollfds, devs, lockVars, asleep, pollVars, usbVars, callVars>>

\* The lock once more; transfers still in flight are forgotten.
do_close(m) ==
    /\ Goto(m, "do_close", "release")
    /\ depth' = depth + 1 /\ active' = TRUE
    /\ flying' = flying \ {m}
    /\ UNCHANGED <<owner, modify, urbs, done, completed, asleep, fdVars, pollVars, callVars>>

\* op_close. With the descriptor the kernel drops its URBs.
CloseFd(m) ==
    /\ Goto(m, "close_fd", "unmodify")
    /\ devs' = devs \ {m} /\ pollfds' = pollfds \ {m} /\ fds' = fds \ {m}
    /\ urbs' = urbs \ {m} /\ done' = done \ {m}
    /\ closing' = closing \ {m}
    /\ UNCHANGED <<bytes, flying, completed, lockVars, asleep, pollVars, calls>>

Unmodify(m) ==
    /\ Goto(m, "unmodify", "release")
    /\ modify' = modify - 1
    /\ UNCHANGED <<owner, depth, active, asleep, fdVars, pollVars, usbVars, callVars>>

-----------------------------------------------------------------------------
Init ==
    /\ pc = [th \in Threads |-> IF th \in Syncs THEN "ready"
                                ELSE IF th \in Loopers THEN "handle_events" ELSE "closed"]
    /\ owner = "nobody" /\ depth = 0 /\ active = FALSE /\ modify = 0 /\ asleep = {}
    /\ bytes = 0 /\ fds = {Home} /\ pollfds = {Home} /\ devs = {Home}
    /\ polled = {} /\ ready = {}
    /\ flying = {} /\ urbs = {} /\ done = {} /\ completed = {}
    /\ calls = [th \in Threads |-> 0] /\ closing = {}

\* What a thread does by itself once it called libusb.
SyncStep(th) == HandleEvents(th) \/ sync_transfer_wait_for_completion(th)

ModifierStep(m) ==
    \/ AddToOpenDevs(m) \/ NoteModify(m) \/ WriteByte(m) \/ LockEvents(m) \/ ReadByte(m)
    \/ do_close(m) \/ CloseFd(m) \/ Unmodify(m)
    \/ Release(m) \/ Unlock(m) \/ Broadcast(m)

Next ==
    \/ \E th \in Syncs : SyncStep(th) \/ Submit(th)
    \/ \E th \in Loopers : HandleEvents(th)
    \/ \E m \in Modifiers : ModifierStep(m) \/ Open(m) \/ SubmitAsync(m) \/ Close(m)
    \/ \E x \in urbs : KernelDone(x)

Spec == Init /\ [][Next]_vars

\* The scheduler runs every thread, and URBs end; nobody has to call libusb.
FairSpec ==
    /\ Spec
    /\ \A th \in Syncs : WF_vars(SyncStep(th))
    /\ \A th \in Loopers : WF_vars(HandleEvents(th))
    /\ \A m \in Modifiers : WF_vars(ModifierStep(m))
    /\ \A x \in Syncs \cup Modifiers : WF_vars(KernelDone(x))

-----------------------------------------------------------------------------
Places == {"handle_events", "trylock", "locked", "poll", "reap", "reaped", "release",
           "unlock", "broadcast", "wait", "asleep", "ready", "waiting", "closed", "opening",
           "opened", "notify", "write", "lock", "read", "do_close", "close_fd", "unmodify"}

TypeOK ==
    /\ pc \in [Threads -> Places]
    /\ owner \in Threads \cup {"nobody"} /\ depth \in Nat /\ modify \in Nat /\ bytes \in Nat
    /\ active \in BOOLEAN
    /\ asleep \subseteq Threads
    /\ fds \subseteq Handles /\ pollfds \subseteq Handles /\ devs \subseteq Handles
    /\ polled \subseteq Handles /\ ready \subseteq Handles
    /\ flying \subseteq Threads /\ urbs \subseteq Threads /\ done \subseteq Threads
    /\ completed \subseteq Threads
    /\ calls \in [Threads -> Nat] /\ closing \subseteq Modifiers

\* A thread in poll() never polls a descriptor that was closed, and never misses
\* one whose libusb_open has returned ("so that they realise the addition of the
\* new device's poll fd", core.c).
PollIsFresh ==
    \A th \in Threads : pc[th] = "poll" =>
        /\ polled \subseteq fds
        /\ \A m \in Modifiers : pc[m] = "opened" => m \in polled

CallbackOwed ==
    \A x \in completed' \ completed :
       /\ x \in flying /\ HandleOf(x) \in devs \cap fds
       /\ owner # "nobody"
       /\ \A th \in Threads \ {owner} : pc[th] \notin {"poll", "reap", "reaped"}

\* A callback runs only for a transfer in flight on a handle that is open, and in
\* one thread at a time.
CallbackIsOwed == [][CallbackOwed]_vars

\* Whoever waits is woken: a synchronous transfer returns to its caller, and so do
\* libusb_open and libusb_close, though no wait or poll ever times out.
CallsReturn ==
    /\ \A th \in Syncs : (pc[th] # "ready") ~> (pc[th] = "ready")
    /\ \A m \in Modifiers : (pc[m] \notin {"opened", "closed"}) ~> (pc[m] \in {"opened", "closed"})
=============================================================================
