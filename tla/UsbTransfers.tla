---------------------------- MODULE UsbTransfers ----------------------------
(***************************************************************************)
(* libusb's asynchronous transfers on Linux: the library under the FTDI    *)
(* tools. An application submits and cancels transfers; the kernel works   *)
(* on the URBs a transfer is split into; the thread that handles events    *)
(* reaps them one by one, finishes the transfer and calls the application  *)
(* back; any thread that waits for events handles time-outs. One handle.   *)
(*                                                                         *)
(* A section under a transfer's lock is one step. So is one under the lock *)
(* of the flying transfers, except that a pass over the time-outs takes a  *)
(* step for each transfer it finds. What is done after an unlock is a step *)
(* of its own. A URB moves one unit of data, or none when it is short.     *)
(***************************************************************************)
EXTENDS Integers, Sequences, FiniteSets, SequencesExt

CONSTANTS Transfers,     \* the transfers the application has allocated
          Uses,          \* Uses[t]: the <<type, time-out>> it submits t with; 0 is none
          Urbs,          \* Urbs[k]: how many URBs a transfer of type k needs
          MaxTime,       \* bound: ticks
          MaxSubmits     \* bound: submissions

Types   == {"CONTROL", "BULK", "ISOCHRONOUS"}   \* interrupt transfers go the way of bulk
Results == {"COMPLETED", "ERROR", "TIMED_OUT", "CANCELLED", "STALL", "NO_DEVICE", "OVERFLOW"}

\* What the kernel says of a URB: 0, EREMOTEIO, ENOENT or ECONNRESET, EPIPE,
\* EPROTO and its like, EOVERFLOW, ESHUTDOWN.
UrbStatus == {"ok", "remoteio", "unlinked", "stall", "proto", "overflow", "shutdown"}

ReapActions == {"NORMAL", "SUBMIT_FAILED", "CANCELLED", "COMPLETED_EARLY", "ERROR"}

\* The errors a verdict must account for: those of URBs, and a URB refused.
Errors == {"stall", "proto", "overflow", "refused"}

ASSUME TransferAssumption ==
    /\ IsFiniteSet(Transfers)
    /\ Urbs \in [Types -> Nat \ {0}] /\ Urbs["CONTROL"] = 1
    /\ Uses \in [Transfers -> SUBSET (Types \X Nat)]
    /\ MaxTime \in Nat /\ MaxSubmits \in Nat

VARIABLES
    continuation, \* dpriv->caps: the kernel continues bulk transfers
    plugged,      \* the device is there
    polled,       \* its descriptor is among those the event thread polls
    urbs,         \* urbs[t]: the URBs of the transfer, see UrbsOf
    completed,    \* the kernel's list of URBs to be reaped
    type, limit,  \* transfer->type, transfer->timeout (0: none)
    user,         \* "idle" or "submitted": who owns the transfer
    allocated,    \* tpriv->urbs is not NULL
    numRetired, reapAction, reapStatus, transferred,  \* (a control transfer has no count)
    timedOut,     \* USBI_TRANSFER_TIMED_OUT
    flying,       \* the list of flying transfers
    timeout, now, \* itransfer->timeout: a deadline, 0 is none
    ev,           \* the event thread: where it is, its transfer and the status to report
    submits,      \* submissions so far
    asked,        \* history: cancelled by the application since it was submitted
    overtaken     \* history: the last URB of a stalled transfer overtook another

kernelVars  == <<continuation, plugged, urbs, completed>>
askVars     == <<type, limit, user, submits>>
privVars    == <<allocated, numRetired, reapAction, reapStatus, transferred>>
listVars    == <<flying, timeout, now>>
vars == <<kernelVars, polled, askVars, privVars, timedOut, listVars, ev, asked, overtaken>>

NumUrbs(t) == Urbs[type[t]]

\* The URBs of one submission: where each is ("none", "flying" or "halted" in the
\* kernel, or "done"); as history, the units they moved and the errors there were.
UrbsOf(states, n, said) == [at |-> states, moved |-> n, told |-> said]

Done(t, i, s, n) == [t |-> t, i |-> i, status |-> s, len |-> n]

InKernel(u) == {i \in DOMAIN u.at : u.at[i] \in {"flying", "halted"}}

-----------------------------------------------------------------------------
(* The kernel.                                                             *)

\* A URB completes after those submitted before it. One that is short, and not
\* the last, is an error where bulk transfers are continued; after an error the
\* kernel stops the rest of such a transfer, and after a stall any transfer.
KernelComplete(t) ==
    /\ plugged
    /\ \E i \in InKernel(urbs[t]), s \in UrbStatus \ {"shutdown"}, n \in {0, 1} :
         LET u         == urbs[t]
             continued == continuation /\ type[t] = "BULK" /\ i < NumUrbs(t)
             halts     == /\ type[t] = "BULK"
                          /\ \/ s = "stall"
                             \/ s \in {"remoteio", "proto"} /\ continuation
         IN /\ \A j \in InKernel(u) : i <= j
            /\ IF u.at[i] = "halted" THEN s = "unlinked" /\ continuation ELSE s # "unlinked"
            /\ n = 1 => s = "ok"
            /\ s = "ok" /\ n = 0 => type[t] = "BULK" /\ ~continued
            /\ s = "remoteio" => continued
            /\ s = "overflow" => i = NumUrbs(t)
            /\ urbs' = [urbs EXCEPT ![t] = UrbsOf(
                 [j \in DOMAIN u.at |-> IF j = i THEN "done"
                    ELSE IF halts /\ u.at[j] = "flying" THEN "halted" ELSE u.at[j]],
                 u.moved + n, u.told \cup ({s} \cap Errors))]
            /\ completed' = Append(completed, Done(t, i, s, n))
    /\ UNCHANGED <<continuation, plugged, polled, askVars, privVars, timedOut, listVars, ev, asked, overtaken>>

\* The device is pulled out: every URB completes, those of one transfer in order.
Unplug ==
    /\ plugged
    /\ plugged' = FALSE
    /\ urbs' = [t \in Transfers |-> LET u == urbs[t] IN UrbsOf(
                  [i \in DOMAIN u.at |-> IF i \in InKernel(u) THEN "done" ELSE u.at[i]],
                  u.moved, u.told)]
    /\ LET left == UNION {{t} \X InKernel(urbs[t]) : t \in Transfers} IN
       \E order \in Bijection(1..Cardinality(left), left) :
         /\ \A a, b \in DOMAIN order :
               a < b /\ order[a][1] = order[b][1] => order[a][2] < order[b][2]
         /\ completed' = completed \o
               [k \in DOMAIN order |-> Done(order[k][1], order[k][2], "shutdown", 0)]
    /\ UNCHANGED <<continuation, polled, askVars, privVars, timedOut, listVars, ev, asked, overtaken>>

\* URBs of a transfer are discarded in reverse order: each that is still in the
\* kernel is unlinked, with what it had moved. (EINVAL and ENODEV say that a URB
\* waits to be reaped: only the log and the return value differ.) The URBs are
\* those of u, and queue is the kernel's list.
discard_urbs(t, u, queue, chosen) ==
    LET found == chosen \cap InKernel(u) IN
    \E order \in Bijection(1..Cardinality(found), found),
       n \in [found -> IF type'[t] = "BULK" THEN {0, 1} ELSE {0}] :
         /\ \A a, b \in DOMAIN order : a < b => order[a] > order[b]
         /\ urbs' = [urbs EXCEPT ![t] = UrbsOf(
                [i \in DOMAIN u.at |-> IF i \in found THEN "done" ELSE u.at[i]],
                u.moved + Cardinality({i \in found : n[i] = 1}), u.told)]
         /\ completed' = queue \o [k \in DOMAIN order |-> Done(t, order[k], "unlinked", n[order[k]])]

-----------------------------------------------------------------------------
(* What the application calls.                                             *)

calculate_timeout(t, l) == IF l = 0 THEN timeout[t] ELSE now + l

\* The list is sorted by deadline; those without one come last.
Later(e, d) == d # 0 /\ (e = 0 \/ e > d)

add_to_flying_list(t, d) ==
    \E k \in 1..Len(flying) + 1 :
        /\ \A m \in 1..k - 1 : ~Later(timeout[flying[m]], d)
        /\ k <= Len(flying) => Later(timeout[flying[k]], d)
        /\ flying' = InsertAt(flying, k, t)

Submitted(t, action, retired) ==
    /\ plugged
    /\ user' = [user EXCEPT ![t] = "submitted"]
    /\ add_to_flying_list(t, timeout'[t])
    /\ allocated' = [allocated EXCEPT ![t] = TRUE]
    /\ numRetired' = [numRetired EXCEPT ![t] = retired]
    /\ reapAction' = [reapAction EXCEPT ![t] = action]

\* The first URB is refused: so is the submission.
SubmitRefused(t, N) ==
    /\ urbs' = [urbs EXCEPT ![t] = UrbsOf([i \in 1..N |-> "none"], 0, {})]
    /\ numRetired' = [numRetired EXCEPT ![t] = 0]
    /\ reapAction' = [reapAction EXCEPT ![t] = "NORMAL"]
    /\ UNCHANGED <<user, flying, allocated, completed>>

SubmitAll(t, N) ==
    /\ Submitted(t, "NORMAL", 0)
    /\ urbs' = [urbs EXCEPT ![t] = UrbsOf([i \in 1..N |-> "flying"], 0, {})]
    /\ UNCHANGED completed

\* Mutation: the URB that was refused is not counted as retired.
SubmitSomeLess(t, N, i) ==
    LET sent(s, n) == UrbsOf([j \in 1..N |-> IF j = 1 THEN s ELSE IF j < i THEN "flying" ELSE "none"],
                             n, {"refused"})
    IN /\ Submitted(t, "SUBMIT_FAILED", N - i)
       /\ \/ discard_urbs(t, sent("flying", 0), completed, 1..i - 1)
          \/ discard_urbs(t, sent("done", 1), Append(completed, Done(t, 1, "ok", 1)), 1..i - 1)

\* URB i is refused: those before it are discarded. The first may be done by then.
SubmitSome(t, N, i) ==
    LET sent(s, n) == UrbsOf([j \in 1..N |-> IF j = 1 THEN s ELSE IF j < i THEN "flying" ELSE "none"],
                             n, {"refused"})
    IN /\ Submitted(t, "SUBMIT_FAILED", N - i + 1)
       /\ \/ discard_urbs(t, sent("flying", 0), completed, 1..i - 1)
          \/ discard_urbs(t, sent("done", 1), Append(completed, Done(t, 1, "ok", 1)), 1..i - 1)

\* URB i is refused since the first one was short: the others complete.
SubmitShort(t, N, i) ==
    /\ continuation /\ type'[t] = "BULK"
    /\ Submitted(t, "COMPLETED_EARLY", N - i + 1)
    /\ urbs' = [urbs EXCEPT ![t] = UrbsOf(
         [j \in 1..N |-> IF j = 1 THEN "done" ELSE IF j < i THEN "halted" ELSE "none"], 0, {})]
    /\ completed' = Append(completed, Done(t, 1, "remoteio", 0))

libusb_submit_transfer(t) ==
    /\ user[t] = "idle" /\ submits < MaxSubmits
    /\ submits' = submits + 1
    /\ \E use \in Uses[t] : LET k == use[1] l == use[2] IN
         /\ type' = [type EXCEPT ![t] = k] /\ limit' = [limit EXCEPT ![t] = l]
         /\ timeout' = [timeout EXCEPT ![t] = calculate_timeout(t, l)]
         /\ \/ SubmitRefused(t, Urbs[k])
            \/ SubmitAll(t, Urbs[k])
            \/ \E i \in 2..Urbs[k] : SubmitSome(t, Urbs[k], i) \/ SubmitShort(t, Urbs[k], i)
    /\ transferred' = [transferred EXCEPT ![t] = 0]
    /\ reapStatus' = [reapStatus EXCEPT ![t] = "COMPLETED"]
    /\ timedOut' = [timedOut EXCEPT ![t] = FALSE]
    /\ UNCHANGED <<continuation, plugged, polled, now, ev, asked, overtaken>>

op_cancel_transfer(t) ==
    /\ UNCHANGED <<continuation, plugged, polled, askVars, allocated, numRetired, reapStatus, transferred,
                   listVars, ev, overtaken>>
    /\ reapAction' = [reapAction EXCEPT ![t] =
          IF type[t] = "BULK" /\ @ = "ERROR" THEN @ ELSE "CANCELLED"]
    /\ IF allocated[t] THEN discard_urbs(t, urbs[t], completed, 1..NumUrbs(t))
       ELSE UNCHANGED <<urbs, completed>>

libusb_cancel_transfer(t) ==
    /\ user[t] = "submitted" /\ ~asked[t]
    /\ asked' = [asked EXCEPT ![t] = TRUE]
    /\ op_cancel_transfer(t)
    /\ UNCHANGED timedOut

-----------------------------------------------------------------------------
(* Time-outs. The pass over the list ends at the first transfer that has   *)
(* no deadline, or one that has not passed.                                *)

Handled(t) == timeout[t] # 0 /\ timedOut[t]
Expired(t) == timeout[t] # 0 /\ timeout[t] <= now

handle_timeouts ==
    \E k \in DOMAIN flying :
        LET t == flying[k] IN
        /\ Expired(t) /\ ~timedOut[t]
        /\ \A m \in 1..k - 1 : Handled(flying[m])
        /\ timedOut' = [timedOut EXCEPT ![t] = TRUE]
        /\ op_cancel_transfer(t)
        /\ UNCHANGED asked

Tick ==
    /\ now < MaxTime
    /\ now' = now + 1
    /\ UNCHANGED <<kernelVars, polled, askVars, privVars, timedOut, flying, timeout, ev, asked, overtaken>>

-----------------------------------------------------------------------------
(* The thread that handles events.                                         *)

At(where)    == [at |-> where, t |-> "none", status |-> "none", back |-> "none"]
Finish(t, s) == [at |-> "finish", t |-> t, status |-> s, back |-> "reap"]

\* poll() returns. With POLLERR the descriptor is not polled any more.
Poll ==
    /\ ev.at = "poll" /\ polled
    /\ \/ plugged /\ completed # <<>> /\ ev' = At("reap") /\ UNCHANGED polled
       \/ ~plugged /\ polled' = FALSE /\ ev' = At("disconnect")
    /\ UNCHANGED <<kernelVars, askVars, privVars, timedOut, listVars, asked, overtaken>>

\* reap_for_handle finds nothing; or the kernel refuses, the device being gone.
ReapNothing ==
    /\ ev.at = "reap"
    /\ completed = <<>> \/ ~plugged
    /\ ev' = At("poll")
    /\ UNCHANGED <<kernelVars, polled, askVars, privVars, timedOut, listVars, asked, overtaken>>

Failed(h)  == h.status \in {"shutdown", "stall", "proto"}
Short(h)   == h.status \in {"ok", "remoteio", "unlinked"} /\ h.len = 0 /\ h.i < NumUrbs(h.t)
Retired(h) == numRetired[h.t] + 1 = NumUrbs(h.t)

\* Mutation: a transfer that failed is finished without waiting for its other URBs.
BulkFinishedAtOnce(h) ==
    IF reapAction[h.t] # "NORMAL" \/ Short(h) THEN Retired(h)
                                  ELSE Failed(h) \/ h.status = "overflow" \/ h.i = NumUrbs(h.t)

BulkFinished(h) ==
    IF reapAction[h.t] # "NORMAL" \/ Failed(h) \/ Short(h) THEN Retired(h)
                                  ELSE h.status = "overflow" \/ h.i = NumUrbs(h.t)

BulkStatus(h) ==
    LET was == reapStatus[h.t] IN
    IF reapAction[h.t] = "NORMAL" /\ h.status = "shutdown" THEN "NO_DEVICE"
    ELSE IF was # "COMPLETED" THEN was
    ELSE IF reapAction[h.t] # "NORMAL"
         THEN IF Retired(h) /\ reapAction[h.t] # "COMPLETED_EARLY" THEN "ERROR" ELSE was
    ELSE CASE h.status = "stall"    -> "STALL"
           [] h.status = "overflow" -> "OVERFLOW"
           [] h.status = "proto"    -> "ERROR"
           [] OTHER                 -> was

BulkAction(h) ==
    IF reapAction[h.t] # "NORMAL" THEN reapAction[h.t]
    ELSE CASE h.status = "proto" -> "ERROR"
           [] Short(h)           -> "COMPLETED_EARLY"
           [] OTHER              -> "NORMAL"

\* A stall leaves the action as it is. When the rest is discarded, last first, the
\* last URB of a transfer whose action is NORMAL is then reaped before another, and
\* is taken for its end.
Overtakes(h, rest) == BulkAction(h) = "NORMAL" /\ Cardinality(rest \cap InKernel(urbs[h.t])) > 1

\* Mutation: the data of URBs reaped after the transfer was cancelled, or has
\* failed, is dropped.
DropSurplus(h) ==
    LET u == [urbs[h.t] EXCEPT !.at[h.i] = "none"]
        rest == IF reapAction[h.t] = "NORMAL" /\ (Failed(h) \/ Short(h)) /\ ~Retired(h)
                THEN h.i + 1..NumUrbs(h.t) ELSE {}
    IN /\ type[h.t] = "BULK"
       /\ transferred' = [transferred EXCEPT ![h.t] = IF reapAction[h.t] = "NORMAL" THEN @ + h.len ELSE @]
       /\ reapStatus' = [reapStatus EXCEPT ![h.t] = BulkStatus(h)]
       /\ reapAction' = [reapAction EXCEPT ![h.t] = BulkAction(h)]
       /\ allocated' = [allocated EXCEPT ![h.t] = @ /\ ~BulkFinished(h)]
       /\ ev' = IF BulkFinished(h) THEN Finish(h.t, BulkStatus(h)) ELSE ev
       /\ discard_urbs(h.t, u, Tail(completed), rest)
       /\ overtaken' = (overtaken \/ Overtakes(h, rest))

\* An abnormal reap never finishes the transfer before its last URB; a failed or
\* short one discards the rest.
handle_bulk_completion(h) ==
    LET u == [urbs[h.t] EXCEPT !.at[h.i] = "none"]
        rest == IF reapAction[h.t] = "NORMAL" /\ (Failed(h) \/ Short(h)) /\ ~Retired(h)
                THEN h.i + 1..NumUrbs(h.t) ELSE {}
    IN /\ type[h.t] = "BULK"
       /\ transferred' = [transferred EXCEPT ![h.t] = @ + h.len]
       /\ reapStatus' = [reapStatus EXCEPT ![h.t] = BulkStatus(h)]
       /\ reapAction' = [reapAction EXCEPT ![h.t] = BulkAction(h)]
       /\ allocated' = [allocated EXCEPT ![h.t] = @ /\ ~BulkFinished(h)]
       /\ ev' = IF BulkFinished(h) THEN Finish(h.t, BulkStatus(h)) ELSE ev
       /\ discard_urbs(h.t, u, Tail(completed), rest)
       /\ overtaken' = (overtaken \/ Overtakes(h, rest))

\* Only the last URB's status counts.
IsoFinished(h) == IF reapAction[h.t] = "NORMAL" THEN h.i = NumUrbs(h.t) ELSE Retired(h)

IsoStatus(h) ==
    IF reapAction[h.t] = "CANCELLED" THEN "CANCELLED"
    ELSE CASE reapAction[h.t] = "NORMAL" /\ h.status = "shutdown"          -> "NO_DEVICE"
           [] reapAction[h.t] = "NORMAL" /\ h.status \in {"ok", "unlinked"} -> "COMPLETED"
           [] OTHER                                                        -> "ERROR"

handle_iso_completion(h) ==
    /\ type[h.t] = "ISOCHRONOUS"
    /\ allocated' = [allocated EXCEPT ![h.t] = @ /\ ~IsoFinished(h)]
    /\ ev' = IF IsoFinished(h) THEN Finish(h.t, IsoStatus(h)) ELSE ev
    /\ discard_urbs(h.t, [urbs[h.t] EXCEPT !.at[h.i] = "none"], Tail(completed), {})
    /\ UNCHANGED <<transferred, reapStatus, reapAction, overtaken>>

ControlStatus(h) ==
    IF reapAction[h.t] = "CANCELLED" \/ h.status = "unlinked" THEN "CANCELLED"
    ELSE CASE h.status = "ok"       -> "COMPLETED"
           [] h.status = "shutdown" -> "NO_DEVICE"
           [] h.status = "stall"    -> "STALL"
           [] h.status = "overflow" -> "OVERFLOW"
           [] OTHER                 -> "ERROR"

handle_control_completion(h) ==
    /\ type[h.t] = "CONTROL"
    /\ transferred' = [transferred EXCEPT ![h.t] = @ + h.len]
    /\ allocated' = [allocated EXCEPT ![h.t] = FALSE]
    /\ ev' = Finish(h.t, ControlStatus(h))
    /\ discard_urbs(h.t, [urbs[h.t] EXCEPT !.at[h.i] = "none"], Tail(completed), {})
    /\ UNCHANGED <<reapStatus, reapAction, overtaken>>

reap_for_handle ==
    /\ ev.at = "reap" /\ completed # <<>>
    /\ UNCHANGED <<continuation, plugged, polled, askVars, timedOut, listVars, asked>>
    /\ LET h == Head(completed) IN
       /\ numRetired' = [numRetired EXCEPT ![h.t] = @ + 1]
       /\ \/ handle_bulk_completion(h)
          \/ handle_iso_completion(h)
          \/ handle_control_completion(h)

\* The device is gone: each of its flying transfers is finished in turn.
usbi_handle_disconnect ==
    /\ ev.at = "disconnect"
    /\ IF flying = <<>> THEN ev' = At("poll") /\ UNCHANGED allocated
       ELSE /\ allocated' = [allocated EXCEPT ![flying[1]] = FALSE]
            /\ ev' = [Finish(flying[1], "NO_DEVICE") EXCEPT !.back = "disconnect"]
    /\ UNCHANGED <<kernelVars, polled, askVars, numRetired, reapAction, reapStatus, transferred,
                   timedOut, listVars, asked, overtaken>>

\* Mutation: a cancellation is always taken for the application's.
VerdictUntimed ==
    LET cancelled == IF type[ev.t] = "BULK" THEN reapAction[ev.t] = "CANCELLED"
                                            ELSE ev.status = "CANCELLED"
    IN IF ev.back = "disconnect" \/ ~cancelled THEN ev.status ELSE "CANCELLED"

\* The action and the flag are read after the lock was released.
Verdict ==
    LET cancelled == IF type[ev.t] = "BULK" THEN reapAction[ev.t] = "CANCELLED"
                                            ELSE ev.status = "CANCELLED"
    IN IF ev.back = "disconnect" \/ ~cancelled THEN ev.status
       ELSE IF timedOut[ev.t] THEN "TIMED_OUT" ELSE "CANCELLED"

\* Mutation: the transfer stays in the list.
FinishInList ==
    /\ ev.at = "finish"
    /\ ev' = [ev EXCEPT !.at = "callback", !.status = Verdict]
    /\ UNCHANGED <<kernelVars, polled, askVars, privVars, timedOut, listVars, asked, overtaken>>

usbi_handle_transfer_completion ==
    /\ ev.at = "finish"
    /\ \E k \in DOMAIN flying : flying[k] = ev.t /\ flying' = RemoveAt(flying, k)
    /\ ev' = [ev EXCEPT !.at = "callback", !.status = Verdict]
    /\ UNCHANGED <<kernelVars, polled, askVars, privVars, timedOut, timeout, now, asked, overtaken>>

\* The application has its transfer back.
Callback ==
    /\ ev.at = "callback"
    /\ user' = [user EXCEPT ![ev.t] = "idle"]
    /\ ev' = At(ev.back)
    /\ asked' = [asked EXCEPT ![ev.t] = FALSE]
    /\ urbs' = [urbs EXCEPT ![ev.t] = UrbsOf(@.at, 0, {})]
    /\ UNCHANGED <<continuation, plugged, completed, polled, type, limit, submits, privVars, timedOut, listVars,
                   overtaken>>

-----------------------------------------------------------------------------
Init ==
    /\ continuation \in BOOLEAN
    /\ plugged = TRUE /\ polled = TRUE
    /\ urbs = [t \in Transfers |-> UrbsOf([i \in 1..1 |-> "none"], 0, {})]
    /\ completed = <<>>
    /\ type = [t \in Transfers |-> "CONTROL"] /\ limit = [t \in Transfers |-> 0]
    /\ user = [t \in Transfers |-> "idle"] /\ submits = 0
    /\ allocated = [t \in Transfers |-> FALSE] /\ numRetired = [t \in Transfers |-> 0]
    /\ reapAction = [t \in Transfers |-> "NORMAL"]
    /\ reapStatus = [t \in Transfers |-> "COMPLETED"]
    /\ transferred = [t \in Transfers |-> 0]
    /\ timedOut = [t \in Transfers |-> FALSE] /\ asked = [t \in Transfers |-> FALSE]
    /\ overtaken = FALSE
    /\ flying = <<>> /\ timeout = [t \in Transfers |-> 0] /\ now = 0
    /\ ev = At("poll")

EventThread == \/ Poll \/ ReapNothing \/ reap_for_handle \/ usbi_handle_disconnect
               \/ usbi_handle_transfer_completion \/ Callback

Next ==
    \/ \E t \in Transfers : \/ KernelComplete(t)
                            \/ libusb_submit_transfer(t)
                            \/ libusb_cancel_transfer(t)
    \/ Unplug \/ Tick
    \/ handle_timeouts
    \/ EventThread

Spec == Init /\ [][Next]_vars

\* The application keeps a thread handling events and, with it, time-outs.
FairSpec == Spec /\ WF_vars(EventThread) /\ WF_vars(handle_timeouts)

-----------------------------------------------------------------------------
TypeOK ==
    /\ continuation \in BOOLEAN /\ plugged \in BOOLEAN /\ polled \in BOOLEAN
    /\ \A t \in Transfers : /\ DOMAIN urbs[t].at = 1..NumUrbs(t)
                            /\ \A i \in 1..NumUrbs(t) : urbs[t].at[i] \in {"none", "flying", "halted", "done"}
                            /\ urbs[t].moved \in 0..NumUrbs(t) /\ urbs[t].told \subseteq Errors
                            /\ numRetired[t] \in Nat /\ transferred[t] \in Nat
    /\ \A k \in DOMAIN completed :
          completed[k] \in [t : Transfers, i : Nat \ {0}, status : UrbStatus, len : {0, 1}]
    /\ type \in [Transfers -> Types] /\ limit \in [Transfers -> Nat]
    /\ user \in [Transfers -> {"idle", "submitted"}] /\ submits \in 0..MaxSubmits
    /\ allocated \in [Transfers -> BOOLEAN]
    /\ reapAction \in [Transfers -> ReapActions] /\ reapStatus \in [Transfers -> Results]
    /\ timedOut \in [Transfers -> BOOLEAN] /\ asked \in [Transfers -> BOOLEAN]
    /\ overtaken \in BOOLEAN
    /\ \A k \in DOMAIN flying : flying[k] \in Transfers
    /\ timeout \in [Transfers -> Nat] /\ now \in 0..MaxTime
    /\ \/ ev.at \in {"poll", "reap", "disconnect"} /\ ev = At(ev.at)
       \/ ev \in [at : {"finish", "callback"}, t : Transfers, status : Results,
                   back : {"reap", "disconnect"}]

\* What the event thread may still reap belongs to a transfer whose URBs were not
\* freed: the rest of a split transfer is waited for, until a stalled one's last URB
\* has overtaken another (see RestWaited).
NeverReapsFreed ==
    ~overtaken /\ polled => \A t \in Transfers :
        ~allocated[t] => /\ InKernel(urbs[t]) = {}
                         /\ \A k \in DOMAIN completed : completed[k].t # t

\* A transfer is called back once for each submission: whatever is being
\* finished was submitted, and is in the list until then. (As long as no URB of a
\* stalled transfer was overtaken: see RestWaited.)
OneCallback == overtaken \/
    /\ ev.at \in {"finish", "callback"} => user[ev.t] = "submitted"
    /\ \A t \in Transfers :
          user[t] = "submitted" <=> \/ t \in ToSet(flying)
                                    \/ ev.at = "callback" /\ ev.t = t

\* No data is lost: what the callback is told was transferred is what the kernel
\* moved, surplus data of cancelled URBs included, unless the device has gone.
\* (Isochronous packets have their own counts. As long as no URB of a stalled
\* transfer was overtaken: see RestWaited.)
NothingLost ==
    ~overtaken /\ ev.at = "callback" /\ ev.status # "NO_DEVICE" /\ type[ev.t] # "ISOCHRONOUS"
        => transferred[ev.t] = urbs[ev.t].moved

\* Every status that is reported has its cause, and a bulk transfer that failed
\* is not reported as complete where the kernel continues bulk transfers. (As long
\* as no URB of a stalled transfer was overtaken: see RestWaited.)
VerdictHasCause ==
    ~overtaken /\ ev.at = "callback" =>
        LET said == urbs[ev.t].told IN
        CASE ev.status = "TIMED_OUT" -> Expired(ev.t)
          [] ev.status = "CANCELLED" -> asked[ev.t]
          [] ev.status = "NO_DEVICE" -> ~plugged
          [] ev.status = "STALL"     -> "stall" \in said
          [] ev.status = "OVERFLOW"  -> "overflow" \in said
          [] ev.status = "ERROR"     -> said # {}
          [] OTHER -> (type[ev.t] # "ISOCHRONOUS" /\ continuation)
                         => said = {}

\* A transfer that was cancelled, has timed out or lost its device is called back,
\* unless a URB of a stalled one was overtaken: see RestWaited.
Ends(t) == asked[t] \/ timedOut[t] \/ Expired(t) \/ ~plugged
CalledBack == \A t \in Transfers : (user[t] = "submitted" /\ Ends(t)) ~> (user[t] = "idle" \/ overtaken)

\* "cancel remaining urbs and wait for their completion before reporting results"
\* (linux_usbfs.c): when a transfer is called back none of its URBs waits to be
\* reaped or is in the kernel, as long as the device is polled.
RestWaited ==
    polled /\ ev.at = "callback" =>
        /\ InKernel(urbs[ev.t]) = {}
        /\ \A k \in DOMAIN completed : completed[k].t # ev.t

\* "Timeout for this transfer in millseconds. A value of 0 indicates no timeout."
\* (libusb.h): such a transfer does not time out.
NoLimitNoTimeout == ev.at = "callback" /\ ev.status = "TIMED_OUT" => limit[ev.t] # 0
=============================================================================
