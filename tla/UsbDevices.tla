----------------------------- MODULE UsbDevices ------------------------------
(***************************************************************************)
(* libusb's device objects: when they are made, who holds a reference to   *)
(* them, and when they are freed. A monitor thread reads the kernel's      *)
(* uevents and keeps ctx->usb_devs; the application's libusb_get_          *)
(* device_list reads uevents too; a device that turns out to be gone when  *)
(* it is opened or polled is removed early. All of them run under          *)
(* linux_hotplug_lock. Arrivals and departures go through the hotplug pipe *)
(* to whoever handles events, who calls the callbacks and drops the        *)
(* reference the list had.                                                 *)
(*                                                                         *)
(* One context, one application thread, one thread that handles events. An *)
(* object is a number, its session id is the device (its bus number and    *)
(* address) it was made for; a device that is plugged in again has the     *)
(* same session id (the FIXME of linux_enumerate_device). The allocations  *)
(* succeed.                                                                *)
(***************************************************************************)
EXTENDS Naturals, Sequences, FiniteSets

CONSTANTS Devices,     \* addresses on the bus
          Parent,      \* the hub a device is on, or "none"; no hub is on a hub
          Callbacks,   \* the callbacks the application may register
          Driven,      \* the devices it submits transfers to
          MaxPlugs,    \* bound: how often devices are plugged in
          MaxLists,    \* bound: calls of libusb_get_device_list
          MaxTransfers \* bound: references that transfers have at a time

ASSUME DeviceAssumption ==
    /\ "none" \notin Devices
    /\ Parent \in [Devices -> Devices \cup {"none"}]
    /\ \A d \in Devices : Parent[d] \in Devices => Parent[Parent[d]] = "none"
    /\ MaxPlugs \in Nat /\ MaxLists \in Nat /\ MaxTransfers \in Nat

VARIABLES
    present, nodes,  \* the devices on the bus, and those with a node in usbfs
    plugs,           \* how often one was plugged in
    dropped,         \* the devices that were opened before udev had made their node
    uevents,         \* in the netlink socket
    session,         \* the session id of each object, in the order they were made
    parent,          \* dev->parent_dev, 0 for NULL
    refcnt,          \* dev->refcnt, 0 once freed
    usb_devs,        \* the objects in ctx->usb_devs (those with dev->attached)
    unannounced,     \* those that left before there was a hotplug pipe
    lock,            \* who has linux_hotplug_lock
    say,             \* the messages its owner still writes
    found,           \* the object it holds (usbi_get_device_by_session_id), or 0
    hotplug_pipe,    \* ctx->hotplug_pipe
    events,          \* the message the events thread has, and the callbacks to call for it
    hotplug_cbs,     \* ctx->hotplug_cbs
    needs_free,      \* the callbacks marked so
    registered,      \* the callbacks that were registered
    app,             \* where the application is
    arg,             \* the object it opens, the callback it registers, the devices to scan
    lists,           \* how often it called libusb_get_device_list
    devs,            \* the objects in the list it was given
    enum,            \* those libusb_hotplug_register_callback calls the callback for
    fds,             \* of the objects it has open: "up", "hungup" or "down"
    transfers,       \* the references transfers have: <<number, object>>
    lost             \* those of them that nobody will drop

busVars  == <<present, nodes, plugs, dropped>>
objVars  == <<session, parent, refcnt, usb_devs, unannounced>>
lockVars == <<lock, say, found>>
cbVars   == <<hotplug_cbs, needs_free, registered>>
appVars  == <<app, arg, lists, devs, enum>>
transferVars == <<transfers, lost>>
vars == <<busVars, uevents, objVars, lockVars, hotplug_pipe, events, cbVars, appVars, fds, transferVars>>

Idle    == [msg |-> <<"none", 0>>, todo |-> {}]
Objects == DOMAIN session
Handles == DOMAIN fds
Starting == {"init", "started", "scan", "io_init"}
HasPipe == app \notin Starting
ObjectsOf(d) == {o \in usb_devs : session[o] = d}

\* libusb_unref_device of each object in S: the last reference frees an object,
\* which drops its parent's.
Unref(S) ==
    LET left  == [o \in Objects |-> IF o \in S THEN refcnt[o] - 1 ELSE refcnt[o]]
        freed == {o \in S : left[o] = 0}
    IN  [o \in Objects |-> left[o] - Cardinality({c \in freed : parent[c] = o})]

Ref(S) == [o \in Objects |-> IF o \in S THEN refcnt[o] + 1 ELSE refcnt[o]]

-----------------------------------------------------------------------------
(* The bus. (A device's interfaces have uevents of their own, which libusb *)
(* reads and ignores.)                                                     *)

Notify(u) == uevents' = IF app \in {"init", "exited"} THEN <<>> ELSE uevents \o u

Plug(d) ==
    /\ d \notin present /\ Parent[d] \in present \cup {"none"} /\ plugs < MaxPlugs
    /\ plugs' = plugs + 1
    /\ present' = present \cup {d}
    /\ Notify(<<<<"add", d>>>>)
    /\ UNCHANGED <<nodes, dropped, objVars, lockVars, hotplug_pipe, events, cbVars, appVars, fds,
                   transferVars>>

\* udev makes a device's node at any time after the kernel's uevent.
MakeNode(d) ==
    /\ d \in present \ nodes
    /\ nodes' = nodes \cup {d}
    /\ UNCHANGED <<present, plugs, dropped, uevents, objVars, lockVars, hotplug_pipe, events,
                   cbVars, appVars, fds, transferVars>>

Unplug(d) ==
    /\ d \in present /\ \A c \in present : Parent[c] # d
    /\ present' = present \ {d} /\ nodes' = nodes \ {d} /\ dropped' = dropped \ {d}
    /\ Notify(<<<<"remove", d>>>>)
    /\ fds' = [o \in Handles |-> IF fds[o] = "up" /\ session[o] = d THEN "hungup" ELSE fds[o]]
    /\ UNCHANGED <<plugs, objVars, lockVars, hotplug_pipe, events, cbVars, appVars, transferVars>>

-----------------------------------------------------------------------------
(* What is done under linux_hotplug_lock.                                  *)

\* Mutation: whether the device has an object is not looked at.
EnumerateTwice(d) ==
    IF d \notin present THEN
        say' = <<>> /\ UNCHANGED objVars
    ELSE
        LET n == Len(session)
            up == IF Parent[d] = "none" \/ ObjectsOf(Parent[d]) = {} THEN 0
                  ELSE CHOOSE o \in ObjectsOf(Parent[d]) : TRUE
        IN  /\ session' = Append(session, d)
            /\ parent' = Append(parent, up)
            /\ refcnt' = [o \in 1..n + 1 |-> (IF o > n THEN 1 ELSE refcnt[o]) + (IF o = up THEN 1 ELSE 0)]
            /\ usb_devs' = usb_devs \cup {n + 1}
            /\ say' = IF HasPipe THEN <<<<"arrived", n + 1>>>> ELSE <<>>
            /\ UNCHANGED unannounced

\* linux_enumerate_device: an object for a device that has none, and one for its
\* hub if that has none; each goes to the list and is announced.
Enumerate(d) ==
    IF d \notin present \/ ObjectsOf(d) # {} THEN
        say' = <<>> /\ UNCHANGED objVars
    ELSE
        LET n   == Len(session)
            hub == Parent[d]
            new == IF hub # "none" /\ ObjectsOf(hub) = {} THEN <<hub, d>> ELSE <<d>>
            up  == IF hub = "none" THEN 0
                   ELSE IF ObjectsOf(hub) = {} THEN n + 1 ELSE CHOOSE o \in ObjectsOf(hub) : TRUE
        IN  /\ session' = session \o new
            /\ parent' = parent \o (IF Len(new) = 2 THEN <<0, up>> ELSE <<up>>)
            /\ refcnt' = [o \in 1..n + Len(new) |->
                             (IF o > n THEN 1 ELSE refcnt[o]) + (IF o = up THEN 1 ELSE 0)]
            /\ usb_devs' = usb_devs \cup (n + 1)..(n + Len(new))
            /\ say' = IF ~HasPipe THEN <<>>
                      ELSE [i \in DOMAIN new |-> <<"arrived", n + i>>]
            /\ UNCHANGED unannounced

\* Mutation: the list's reference is dropped at once, the message has none.
DisconnectUnrefs(d) ==
    IF ObjectsOf(d) = {} THEN
        say' = <<>> /\ found' = 0 /\ UNCHANGED objVars
    ELSE
        LET o == CHOOSE x \in ObjectsOf(d) : TRUE
        IN  /\ found' = o
            /\ usb_devs' = usb_devs \ {o}
            /\ say' = IF HasPipe THEN <<<<"left", o>>>> ELSE <<>>
            /\ UNCHANGED <<session, parent, refcnt, unannounced>>

\* Mutation: nobody is told.
DisconnectSilently(d) ==
    IF ObjectsOf(d) = {} THEN
        say' = <<>> /\ found' = 0 /\ UNCHANGED objVars
    ELSE
        LET o == CHOOSE x \in ObjectsOf(d) : TRUE
        IN  /\ found' = o
            /\ refcnt' = Ref({o})
            /\ usb_devs' = usb_devs \ {o} /\ unannounced' = unannounced \cup {o}
            /\ say' = <<>>
            /\ UNCHANGED <<session, parent>>

\* linux_device_disconnected, with usbi_disconnect_device in it: the object goes
\* from the list, and with the message the list's reference goes to the pipe.
Disconnect(d) ==
    IF ObjectsOf(d) = {} THEN
        say' = <<>> /\ found' = 0 /\ UNCHANGED objVars
    ELSE
        LET o == CHOOSE x \in ObjectsOf(d) : TRUE
        IN  /\ found' = o
            /\ refcnt' = Ref({o})
            /\ usb_devs' = usb_devs \ {o}
            /\ IF ~HasPipe THEN say' = <<>> /\ unannounced' = unannounced \cup {o}
               ELSE say' = <<<<"left", o>>>> /\ UNCHANGED unannounced
            /\ UNCHANGED <<session, parent>>

\* The context is not in active_contexts_list any more once libusb_exit began.
HandleUevent(u) ==
    \/ u[1] = "add" /\ app # "exiting" /\ Enumerate(u[2]) /\ UNCHANGED found
    \/ u[1] = "remove" /\ app # "exiting" /\ Disconnect(u[2])
    \/ app = "exiting" /\ UNCHANGED <<objVars, say, found>>

\* linux_netlink_event_thread_main: one message each time.
MonitorReads ==
    /\ uevents # <<>> /\ lock = "nobody"
    /\ lock' = "monitor"
    /\ uevents' = Tail(uevents)
    /\ HandleUevent(Head(uevents))
    /\ UNCHANGED <<busVars, hotplug_pipe, events, cbVars, appVars, fds, transferVars>>

WriteMessage ==
    /\ say # <<>>
    /\ hotplug_pipe' = Append(hotplug_pipe, Head(say))
    /\ say' = Tail(say)
    /\ UNCHANGED <<busVars, uevents, objVars, lock, found, events, cbVars, appVars, fds, transferVars>>

\* Mutation: the object found by its session id is not released.
UnfindKeeps ==
    /\ say = <<>> /\ found # 0
    /\ found' = 0
    /\ UNCHANGED <<busVars, uevents, objVars, lock, say, hotplug_pipe, events, cbVars, appVars,
                   fds, transferVars>>

Unfind ==
    /\ say = <<>> /\ found # 0
    /\ refcnt' = Unref({found}) /\ found' = 0
    /\ UNCHANGED <<busVars, uevents, session, parent, usb_devs, unannounced, lock, say, hotplug_pipe,
                   events, cbVars, appVars, fds, transferVars>>

Through(who) == lock = who /\ say = <<>> /\ found = 0

\* The monitor, and whoever handles events, are through and unlock.
Unlock ==
    /\ Through("monitor") \/ Through("events")
    /\ lock' = "nobody"
    /\ UNCHANGED <<busVars, uevents, objVars, say, found, hotplug_pipe, events, cbVars, appVars,
                   fds, transferVars>>

-----------------------------------------------------------------------------
(* libusb_init: the monitor is started, then the bus is scanned, then the  *)
(* pipes are made.                                                         *)

StartMonitor ==
    /\ app = "init" /\ app' = "started"
    /\ UNCHANGED <<busVars, uevents, objVars, lockVars, hotplug_pipe, events, cbVars, arg, lists, devs,
                   enum, fds, transferVars>>

\* The monitor may have read uevents by then. The directory of sysfs is opened.
linux_scan_devices ==
    /\ app = "started" /\ app' = "scan"
    /\ lock = "nobody" /\ lock' = "app" /\ arg' = present
    /\ UNCHANGED <<busVars, uevents, objVars, say, found, hotplug_pipe, events, cbVars, lists,
                   devs, enum, fds, transferVars>>

\* One entry of sysfs at a time; it may be gone.
ScanDevice(d) ==
    /\ app = "scan" /\ d \in arg
    /\ arg' = arg \ {d}
    /\ Enumerate(d)
    /\ UNCHANGED <<busVars, uevents, lock, found, hotplug_pipe, events, cbVars, app, lists, devs,
                   enum, fds, transferVars>>

Scanned ==
    /\ app = "scan" /\ arg = {}
    /\ app' = "io_init" /\ arg' = 0
    /\ lock' = "nobody"
    /\ UNCHANGED <<busVars, uevents, objVars, say, found, hotplug_pipe, events, cbVars, lists, devs,
                   enum, fds, transferVars>>

usbi_io_init ==
    /\ app = "io_init" /\ app' = "ready"
    /\ UNCHANGED <<busVars, uevents, objVars, lockVars, hotplug_pipe, events, cbVars, arg, lists,
                   devs, enum, fds, transferVars>>

-----------------------------------------------------------------------------
(* libusb_get_device_list and libusb_hotplug_register_callback.            *)

GetDeviceList ==
    /\ app = "ready" /\ devs = {} /\ lists < MaxLists
    /\ app' = "poll" /\ lists' = lists + 1
    /\ UNCHANGED <<busVars, uevents, objVars, lockVars, hotplug_pipe, events, cbVars, arg, devs,
                   enum, fds, transferVars>>

\* The callback is armed; with LIBUSB_HOTPLUG_ENUMERATE the devices are listed.
RegisterCallback(c, enumerate) ==
    /\ app = "ready" /\ c \notin registered
    /\ registered' = registered \cup {c} /\ hotplug_cbs' = hotplug_cbs \cup {c}
    /\ IF enumerate THEN app' = "poll" /\ arg' = c ELSE UNCHANGED <<app, arg>>
    /\ UNCHANGED <<busVars, uevents, objVars, lockVars, hotplug_pipe, events, needs_free, lists, devs,
                   enum, fds, transferVars>>

\* linux_netlink_hotplug_poll.
PollLock ==
    /\ app = "poll" /\ app' = "polling"
    /\ lock = "nobody" /\ lock' = "app"
    /\ UNCHANGED <<busVars, uevents, objVars, say, found, hotplug_pipe, events, cbVars, arg, lists, devs,
                   enum, fds, transferVars>>

PollReads ==
    /\ app = "polling" /\ Through("app") /\ uevents # <<>>
    /\ uevents' = Tail(uevents)
    /\ HandleUevent(Head(uevents))
    /\ UNCHANGED <<busVars, lock, hotplug_pipe, events, cbVars, appVars, fds, transferVars>>

\* It reads until there is no message, or one to ignore: an interface's may come
\* between any two.
PollUnlock ==
    /\ app = "polling" /\ Through("app")
    /\ app' = "snapshot" /\ lock' = "nobody"
    /\ UNCHANGED <<busVars, uevents, objVars, say, found, hotplug_pipe, events, cbVars, arg, lists, devs,
                   enum, fds, transferVars>>

Snapshot ==
    /\ app = "snapshot"
    /\ refcnt' = Ref(usb_devs)
    /\ IF arg \in Callbacks THEN app' = "enumerate" /\ enum' = usb_devs /\ UNCHANGED devs
       ELSE app' = "ready" /\ devs' = usb_devs /\ UNCHANGED enum
    /\ UNCHANGED <<busVars, uevents, session, parent, usb_devs, unannounced, lockVars, hotplug_pipe,
                   events, cbVars, arg, lists, fds, transferVars>>

\* The callback was called for each, and the list is freed.
Enumerated ==
    /\ app = "enumerate" /\ app' = "ready" /\ arg' = 0
    /\ refcnt' = Unref(enum) /\ enum' = {}
    /\ UNCHANGED <<busVars, uevents, session, parent, usb_devs, unannounced, lockVars, hotplug_pipe,
                   events, cbVars, lists, devs, fds, transferVars>>

libusb_free_device_list ==
    /\ app = "ready" /\ devs # {}
    /\ refcnt' = Unref(devs) /\ devs' = {}
    /\ UNCHANGED <<busVars, uevents, session, parent, usb_devs, unannounced, lockVars, hotplug_pipe,
                   events, cbVars, app, arg, lists, enum, fds, transferVars>>

libusb_hotplug_deregister_callback(c) ==
    /\ app = "ready" /\ c \in hotplug_cbs \ needs_free
    /\ needs_free' = needs_free \cup {c}
    /\ hotplug_pipe' = Append(hotplug_pipe, <<"none", 0>>)
    /\ UNCHANGED <<busVars, uevents, objVars, lockVars, events, hotplug_cbs, registered, appVars,
                   fds, transferVars>>

-----------------------------------------------------------------------------
(* libusb_open and libusb_close.                                           *)

libusb_open(o) ==
    /\ app = "ready" /\ o \in devs \ Handles
    /\ IF o \in usb_devs THEN app' = "open" /\ arg' = o /\ refcnt' = Ref({o})
       ELSE UNCHANGED <<app, arg, refcnt>>
    /\ UNCHANGED <<busVars, uevents, session, parent, usb_devs, unannounced, lockVars, hotplug_pipe,
                   events, cbVars, lists, devs, enum, fds, transferVars>>

\* _get_usbfs_fd finds the node, or there is no such device.
OpenNode ==
    /\ app = "open"
    /\ IF session[arg] \in nodes THEN
           /\ app' = "ready" /\ arg' = 0
           /\ fds' = [o \in Handles \cup {arg} |-> IF o = arg THEN "up" ELSE fds[o]]
       ELSE app' = "no_device" /\ UNCHANGED <<arg, fds, transferVars>>
    /\ UNCHANGED <<busVars, uevents, objVars, lockVars, hotplug_pipe, events, cbVars, lists, devs, enum,
                   transferVars>>

\* A device still attached then is removed at once.
OpenDisconnects ==
    /\ app = "no_device" /\ app' = "failed"
    /\ lock = "nobody" /\ lock' = "app"
    /\ IF arg \in usb_devs THEN Disconnect(session[arg]) ELSE UNCHANGED <<objVars, say, found>>
    /\ dropped' = dropped \cup ({session[arg]} \cap present)
    /\ UNCHANGED <<present, nodes, plugs, uevents, hotplug_pipe, events, cbVars, arg, lists, devs,
                   enum, fds, transferVars>>

OpenFails ==
    /\ app = "failed" /\ Through("app")
    /\ app' = "ready" /\ arg' = 0 /\ lock' = "nobody"
    /\ refcnt' = Unref({arg})
    /\ UNCHANGED <<busVars, uevents, session, parent, usb_devs, unannounced, say, found, hotplug_pipe,
                   events, cbVars, lists, devs, enum, fds, transferVars>>

\* Under the events lock. The transfers in flight are forgotten, and nobody drops
\* the references they have.
libusb_close(o) ==
    /\ app = "ready" /\ o \in Handles
    /\ events = Idle /\ lock # "events"
    /\ fds' = [x \in Handles \ {o} |-> fds[x]]
    /\ lost' = lost \cup {t \in transfers : t[2] = o}
    /\ refcnt' = Unref({o})
    /\ UNCHANGED <<busVars, uevents, session, parent, usb_devs, unannounced, lockVars, hotplug_pipe,
                   events, cbVars, appVars, transfers>>

-----------------------------------------------------------------------------
(* Transfers: of each only the reference it has to the device.             *)

\* The reference is taken whether the backend takes the transfer or refuses it; of
\* one it refuses nobody drops it. One that is gone refuses all.
libusb_submit_transfer(n, o, refused) ==
    /\ app = "ready" /\ o \in Handles /\ session[o] \in Driven
    /\ \A t \in transfers : t[1] # n
    /\ refused \/ fds[o] = "up"
    /\ transfers' = transfers \cup {<<n, o>>}
    /\ lost' = IF refused THEN lost \cup {<<n, o>>} ELSE lost
    /\ refcnt' = Ref({o})
    /\ UNCHANGED <<busVars, uevents, session, parent, usb_devs, unannounced, lockVars, hotplug_pipe,
                   events, cbVars, appVars, fds>>

-----------------------------------------------------------------------------
(* The events thread: handle_events and op_handle_events.                  *)

Handling == app \notin Starting \cup {"exiting", "exited"} /\ lock # "events"

\* A transfer ends, its callback was called, its reference is dropped.
usbi_handle_transfer_completion(t) ==
    /\ Handling /\ events = Idle /\ t \in transfers \ lost
    /\ transfers' = transfers \ {t}
    /\ refcnt' = Unref({t[2]})
    /\ UNCHANGED <<busVars, uevents, session, parent, usb_devs, unannounced, lockVars, hotplug_pipe,
                   events, cbVars, appVars, fds, lost>>

ReadMessage ==
    /\ Handling /\ events = Idle /\ hotplug_pipe # <<>>
    /\ events' = [msg |-> Head(hotplug_pipe), todo |-> hotplug_cbs]
    /\ hotplug_pipe' = Tail(hotplug_pipe)
    /\ UNCHANGED <<busVars, uevents, objVars, lockVars, cbVars, appVars, fds, transferVars>>

\* usbi_hotplug_match_cb: one that is to go is freed; the others are called unless
\* the message is only the wake-up, and one that returns 1 is freed. (None does while
\* libusb_hotplug_register_callback still uses it.)
MatchCallback(c, finished) ==
    /\ Handling /\ c \in events.todo
    /\ finished => c \notin needs_free \cup {arg} /\ events.msg[1] # "none"
    /\ events' = [events EXCEPT !.todo = @ \ {c}]
    /\ hotplug_cbs' = IF c \in needs_free \/ finished THEN hotplug_cbs \ {c} ELSE hotplug_cbs
    /\ needs_free' = needs_free \ {c}
    /\ UNCHANGED <<busVars, uevents, objVars, lockVars, hotplug_pipe, registered, appVars, fds,
                   transferVars>>

\* Of a device that left the reference is dropped.
Matched ==
    /\ Handling /\ events # Idle /\ events.todo = {}
    /\ events' = Idle
    /\ refcnt' = IF events.msg[1] = "left" THEN Unref({events.msg[2]}) ELSE refcnt
    /\ UNCHANGED <<busVars, uevents, session, parent, usb_devs, unannounced, lockVars, hotplug_pipe,
                   cbVars, appVars, fds, transferVars>>

\* POLLERR of a handle: its transfers end (usbi_handle_disconnect), then
\* a device still attached is removed at once.
HangUp(o) ==
    /\ Handling /\ events = Idle /\ o \in Handles /\ fds[o] = "hungup"
    /\ \A t \in transfers \ lost : t[2] # o
    /\ lock = "nobody" /\ lock' = "events"
    /\ fds' = [fds EXCEPT ![o] = "down"]
    /\ IF o \in usb_devs THEN Disconnect(session[o]) ELSE UNCHANGED <<objVars, say, found>>
    /\ UNCHANGED <<busVars, uevents, hotplug_pipe, events, cbVars, appVars, transferVars>>

-----------------------------------------------------------------------------
(* libusb_exit, when the application closed and freed everything and no    *)
(* thread handles events any more.                                         *)

BeginExit ==
    /\ app = "ready" /\ devs = {} /\ Handles = {} /\ events = Idle
    /\ lock # "events" /\ say = <<>> /\ found = 0
    /\ app' = "exiting"
    /\ UNCHANGED <<busVars, uevents, objVars, lockVars, hotplug_pipe, events, cbVars, arg, lists, devs,
                   enum, fds, transferVars>>

\* Mutation: what is in the pipe is thrown away.
TeardownUndrained ==
    /\ app = "exiting" /\ app' = "exited" /\ lock = "nobody"
    /\ refcnt' = Unref(usb_devs)
    /\ hotplug_cbs' = {} /\ needs_free' = {} /\ usb_devs' = {} /\ hotplug_pipe' = <<>> /\ uevents' = <<>>
    /\ UNCHANGED <<busVars, session, parent, unannounced, lockVars, events, registered, arg,
                   lists, devs, enum, fds, transferVars>>

\* The callbacks go, what is in the pipe is handled, the list is unreferenced.
Teardown ==
    /\ app = "exiting" /\ app' = "exited" /\ lock = "nobody"
    /\ LET left == {o \in Objects : \E i \in DOMAIN hotplug_pipe : hotplug_pipe[i] = <<"left", o>>}
       IN  refcnt' = Unref(left \cup usb_devs)
    /\ hotplug_cbs' = {} /\ needs_free' = {} /\ usb_devs' = {} /\ hotplug_pipe' = <<>> /\ uevents' = <<>>
    /\ UNCHANGED <<busVars, session, parent, unannounced, lockVars, events, registered, arg,
                   lists, devs, enum, fds, transferVars>>

-----------------------------------------------------------------------------
Init ==
    /\ present \in {D \in SUBSET Devices : \A d \in D : Parent[d] \in D \cup {"none"}}
    /\ nodes = present /\ plugs = 0 /\ dropped = {}
    /\ uevents = <<>> /\ hotplug_pipe = <<>>
    /\ session = <<>> /\ parent = <<>> /\ refcnt = <<>> /\ usb_devs = {} /\ unannounced = {}
    /\ lock = "nobody" /\ say = <<>> /\ found = 0
    /\ events = Idle
    /\ hotplug_cbs = {} /\ needs_free = {} /\ registered = {}
    /\ app = "init" /\ arg = 0 /\ lists = 0 /\ devs = {} /\ enum = {}
    /\ fds = [o \in {} |-> "up"]
    /\ transfers = {} /\ lost = {}

Library == MonitorReads \/ WriteMessage \/ Unfind \/ Unlock

Events ==
    \/ ReadMessage \/ Matched
    \/ \E c \in Callbacks, finished \in BOOLEAN : MatchCallback(c, finished)
    \/ \E o \in Handles : HangUp(o)
    \/ \E t \in transfers : t[2] \in Handles /\ fds[t[2]] = "hungup" /\ usbi_handle_transfer_completion(t)

\* What the application does by itself once it called libusb.
Call ==
    \/ StartMonitor \/ linux_scan_devices \/ Scanned \/ usbi_io_init
    \/ \E d \in Devices : ScanDevice(d)
    \/ PollLock \/ PollReads \/ PollUnlock \/ Snapshot \/ Enumerated
    \/ OpenNode \/ OpenDisconnects \/ OpenFails \/ Teardown

Next ==
    \/ \E d \in Devices : Plug(d) \/ MakeNode(d) \/ Unplug(d)
    \/ Library \/ Events \/ Call
    \/ GetDeviceList \/ libusb_free_device_list
    \/ \E c \in Callbacks, enumerate \in BOOLEAN : RegisterCallback(c, enumerate)
    \/ \E c \in Callbacks : libusb_hotplug_deregister_callback(c)
    \/ \E o \in Objects : libusb_open(o) \/ libusb_close(o)
    \/ \E n \in 1..MaxTransfers, o \in Objects, refused \in BOOLEAN :
          libusb_submit_transfer(n, o, refused)
    \/ \E t \in transfers : usbi_handle_transfer_completion(t)
    \/ BeginExit

Spec == Init /\ [][Next]_vars

\* The threads run; nobody has to call libusb or to touch the bus, and a device may
\* never answer a transfer.
FairSpec == Spec /\ WF_vars(Library) /\ WF_vars(Events) /\ WF_vars(Call)

-----------------------------------------------------------------------------
MaxObjects == Cardinality(Devices) + MaxPlugs

\* The messages that are on their way to the callbacks.
Said == say \o hotplug_pipe \o <<events.msg>>

TypeOK ==
    /\ nodes \subseteq present /\ present \subseteq Devices
    /\ session \in Seq(Devices) /\ Len(session) <= MaxObjects
    /\ parent \in [Objects -> Objects \cup {0}] /\ refcnt \in [Objects -> Nat]
    /\ usb_devs \cup unannounced \cup devs \cup enum \cup Handles \subseteq Objects
    /\ lock \in {"nobody", "monitor", "app", "events"} /\ found \in Objects \cup {0}
    /\ \A i \in DOMAIN Said : Said[i] \in {"arrived", "left", "none"} \X (Objects \cup {0})
    /\ needs_free \subseteq hotplug_cbs /\ hotplug_cbs \subseteq registered
    /\ lost \subseteq transfers /\ transfers \subseteq (1..MaxTransfers) \X Objects

\* An object's count is the number of references somebody took and nobody dropped:
\* that of the list, or of the message that the device left; of a thread that found
\* or opens it; of the application's list, a callback's enumeration, a handle; of the
\* transfers that are in flight, and of those that lost theirs (refused, or in flight
\* when the handle was closed), which stay for ever; and of its children.
RefsCounted ==
    LET one(S, o) == IF o \in S THEN 1 ELSE 0
        opening   == IF app \in {"open", "no_device", "failed"} THEN {arg} ELSE {}
    IN  \A o \in Objects :
            refcnt[o] = one(usb_devs, o) + one(unannounced, o) + one({found}, o) + one(opening, o)
                        + one(devs, o) + one(enum, o) + one(Handles, o)
                        + Cardinality({i \in DOMAIN Said : Said[i] = <<"left", o>>})
                        + Cardinality({t \in transfers : t[2] = o})
                        + Cardinality({c \in Objects : parent[c] = o /\ refcnt[c] > 0})

\* No callback is called for an object that was freed, though a message that it
\* arrived holds no reference.
MessagesAlive == \A i \in DOMAIN Said : Said[i][1] # "none" => refcnt[Said[i][2]] > 0

\* Whatever the bus did meanwhile, once the uevents are read the list has one
\* object for each device on the bus ("Returns a list of USB devices currently
\* attached to the system", core.c); only one that was opened before it had a node
\* may be missing.
ListTracksBus ==
    app \notin {"init", "started", "scan", "exiting", "exited"} /\ uevents = <<>> /\ lock = "nobody" =>
        /\ present \ dropped \subseteq {session[o] : o \in usb_devs}
        /\ {session[o] : o \in usb_devs} \subseteq present
        /\ \A o, p \in usb_devs : session[o] = session[p] => o = p

\* libusb_exit frees every object, but those that left before the pipe was made,
\* where nobody drops the list's reference, and those with the reference of a transfer
\* that was refused or in flight when the handle was closed (and their hubs).
ExitFreesAll ==
    app = "exited" => \A o \in Objects :
        refcnt[o] > 0 => \E u \in unannounced \cup {t[2] : t \in lost} : o \in {u, parent[u]}

\* A callback that stays armed is called for each device that leaves.
DeparturesHeard ==
    \A c \in Callbacks, o \in 1..MaxObjects :
        LET armed == c \in hotplug_cbs \ needs_free
        IN  (armed /\ o \in usb_devs /\ session[o] \notin present)
                ~> (~armed \/ (c \in events.todo /\ events.msg = <<"left", o>>) \/ app = "exiting")
=============================================================================
