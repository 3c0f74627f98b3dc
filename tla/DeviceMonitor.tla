--------------------------- MODULE DeviceMonitor ---------------------------
(***************************************************************************)
(* The device lists of the contexts on Linux: libusb_init and libusb_exit  *)
(* (src/libusb/libusb/core.c), the monitor thread that reads uevents       *)
(* (os/linux_netlink.c), the scan of a new context and the enumeration of  *)
(* devices (os/linux_usbfs.c), and the references of a libusb_device.      *)
(*                                                                         *)
(* lock is linux_hotplug_lock. What is done under active_contexts_lock or  *)
(* usb_devs_lock is one step; default_context_lock lets one context be     *)
(* initialised at a time. A device is known by its session id, which is    *)
(* its address: gen tells apart the devices plugged in at one address.     *)
(***************************************************************************)
EXTENDS Naturals, Sequences, FiniteSets

CONSTANTS
    Ctx,           \* contexts
    Hub,           \* the address of a hub
    Port,          \* the addresses of the devices behind it
    MaxEvents,     \* bound: devices plugged in, other uevents and libusb_init calls
    MaxSlots,      \* bound: devices a context has allocated at a time
    DuringInit     \* may an uevent reach a context that cannot be told yet?

Addr == {Hub} \cup Port
None == "none"

ASSUME ConstantsAssumption ==
    /\ IsFiniteSet(Ctx) /\ IsFiniteSet(Port) /\ Hub \notin Port
    /\ None \notin Ctx \cup Addr
    /\ MaxEvents \in Nat /\ MaxSlots \in Nat \ {0} /\ DuringInit \in BOOLEAN

VARIABLES
    bus,           \* which device is plugged in at an address; 0: none
    events,        \* how many of the bounded events there have been
    uevents,       \* messages of the netlink socket
    monitor,       \* the event thread runs and its socket is open
    initCount,     \* init_count
    lock,          \* what linux_hotplug_lock is held for
    phase,         \* how far a context is in libusb_init and libusb_exit
    users,         \* calls of libusb_init that a context still serves
    default,       \* usbi_default_context
    defaultUsers,  \* default_context_refcnt
    dev,           \* the devices a context has allocated
    known,         \* ctx->usb_devs
    msgs,          \* ctx->hotplug_msgs
    signalled,     \* its event pipe is readable
    list           \* the device list the application holds

kernelVars == <<bus, events>>
ctxVars == <<phase, users, default, defaultUsers>>
devVars == <<dev, known, msgs, signalled>>
vars == <<kernelVars, uevents, monitor, initCount, lock, ctxVars, devVars, list>>

Slot == 1..MaxSlots
NoDev == [at |-> None, gen |-> 0, refs |-> 0, parent |-> 0]

Unlocked == [for |-> "nothing"]
Active == {c \in Ctx : phase[c] \notin {"none", "exiting", "closing"}}
Initing == {c \in Ctx : phase[c] \in {"active", "scan", "io", "lists"}}

Phases == {"none", "active", "scan", "io", "lists", "ready", "exiting", "closing"}
Locks == [for : {"nothing"}]
         \cup [for : {"scan"}, left : SUBSET Addr, found : Nat, listed : Nat]
         \cup [for : {"poll"}, ctx : Ctx, due : Nat, more : BOOLEAN]
Uevents == [act : {"add", "remove", "other"}, at : Addr]
Devices == [at : Addr \cup {None}, gen : Nat, refs : Nat, parent : 0..MaxSlots]
Messages == [left : BOOLEAN, d : Slot]

TypeOK ==
    /\ bus \in [Addr -> Nat] /\ events \in Nat
    /\ uevents \in Seq(Uevents)
    /\ monitor \in BOOLEAN /\ initCount \in Nat
    /\ lock \in Locks
    /\ phase \in [Ctx -> Phases] /\ users \in [Ctx -> Nat]
    /\ default \in Ctx \cup {None} /\ defaultUsers \in Nat
    /\ dev \in [Ctx -> [Slot -> Devices]]
    /\ known \in [Ctx -> SUBSET Slot]
    /\ msgs \in [Ctx -> Seq(Messages)]
    /\ signalled \in [Ctx -> BOOLEAN]
    /\ list \in [Ctx -> SUBSET Slot]

Init ==
    /\ bus = [a \in Addr |-> 0] /\ events = 0
    /\ uevents = <<>> /\ monitor = FALSE /\ initCount = 0
    /\ lock = Unlocked
    /\ phase = [c \in Ctx |-> "none"] /\ users = [c \in Ctx |-> 0]
    /\ default = None /\ defaultUsers = 0
    /\ dev = [c \in Ctx |-> [s \in Slot |-> NoDev]]
    /\ known = [c \in Ctx |-> {}]
    /\ msgs = [c \in Ctx |-> <<>>]
    /\ signalled = [c \in Ctx |-> FALSE]
    /\ list = [c \in Ctx |-> {}]

----------------------------------------------------------------------------
(* The kernel: devices come and go, and a socket that is open is told.     *)

Uevent(act, a) ==
    uevents' = IF monitor THEN Append(uevents, [act |-> act, at |-> a]) ELSE uevents

Event == events < MaxEvents /\ events' = events + 1

Plug(a) ==
    /\ bus[a] = 0
    /\ a \in Port => bus[Hub] # 0
    /\ Event
    /\ bus' = [bus EXCEPT ![a] = events + 1]
    /\ Uevent("add", a)
    /\ UNCHANGED <<monitor, initCount, lock, ctxVars, devVars, list>>

Unplug(a) ==
    /\ bus[a] # 0
    /\ a = Hub => \A p \in Port : bus[p] = 0
    /\ bus' = [bus EXCEPT ![a] = 0]
    /\ Uevent("remove", a)
    /\ UNCHANGED <<events, monitor, initCount, lock, ctxVars, devVars, list>>

OtherUevent ==
    /\ Event /\ monitor
    /\ Uevent("other", Hub)
    /\ UNCHANGED <<bus, monitor, initCount, lock, ctxVars, devVars, list>>

----------------------------------------------------------------------------
(* References. A device holds one to its parent.                           *)

\* Mutant: a device that is destroyed keeps the reference to its parent.
Orphaned_kept(ds, S, h) == {}

\* The children of h that are destroyed when each device of S is dereferenced
Orphaned(ds, S, h) == {s \in S : ds[s].refs = 1 /\ ds[s].parent = h}

\* libusb_unref_device for each device of S; what is destroyed drops the
\* reference to its parent.
UnrefAll(ds, S) ==
    LET left(s) == ds[s].refs - (IF s \in S THEN 1 ELSE 0)
                     - Cardinality(Orphaned(ds, S, s))
    IN [s \in Slot |-> IF ds[s].refs > 0 /\ left(s) = 0 THEN NoDev
                       ELSE [ds[s] EXCEPT !.refs = left(s)]]

\* libusb_ref_device for each device of S
RefAll(ds, S) == [s \in Slot |-> IF s \in S THEN [ds[s] EXCEPT !.refs = @ + 1] ELSE ds[s]]

----------------------------------------------------------------------------
(* Enumeration, on the state of one context.                               *)

State(c) == [dev |-> dev[c], known |-> known[c], msgs |-> msgs[c],
             signalled |-> signalled[c]]

SetStates(st) ==
    /\ dev' = [c \in Ctx |-> st[c].dev]
    /\ known' = [c \in Ctx |-> st[c].known]
    /\ msgs' = [c \in Ctx |-> st[c].msgs]
    /\ signalled' = [c \in Ctx |-> st[c].signalled]

\* usbi_get_device_by_session_id
At(st, a) == {s \in st.known : st.dev[s].at = a}
ParentOf(st, a) ==
    IF a \in Port /\ At(st, Hub) # {} THEN CHOOSE s \in At(st, Hub) : TRUE ELSE 0

\* usbi_hotplug_notification, when the list of messages is there. Without
\* its pipe the context cannot be signalled, and it is signalled for the
\* first of the pending messages only.
Notify(c, st, left, d) ==
    IF phase[c] \notin {"lists", "ready"} THEN st
    ELSE [st EXCEPT !.msgs = Append(@, [left |-> left, d |-> d]),
                    !.signalled = @ \/ (st.msgs = <<>> /\ phase[c] = "ready")]

\* initialize_device can read the device's descriptors.
Readable(a) == bus[a] # 0

\* linux_enumerate_device for a device whose parent is there, if it ever is:
\* nothing when the address is known already or the device is gone.
Connect(c, st, a) ==
    IF At(st, a) # {} \/ ~Readable(a) THEN st
    ELSE LET d == CHOOSE s \in Slot : st.dev[s] = NoDev
             p == ParentOf(st, a)
         IN Notify(c, [st EXCEPT !.dev = [RefAll(@, {p} \ {0}) EXCEPT
                                            ![d] = [at |-> a, gen |-> bus[a],
                                                    refs |-> 1, parent |-> p]],
                                 !.known = @ \cup {d}], FALSE, d)

\* Mutant: a parent that is not enumerated yet is not looked for.
Enumerate_alone(c, st, a) == Connect(c, st, a)

\* linux_get_parent_info enumerates a missing parent first.
Enumerate(c, st, a) ==
    IF At(st, a) # {} \/ ~Readable(a) THEN st
    ELSE Connect(c, IF a \in Port THEN Connect(c, st, Hub) ELSE st, a)

\* usbi_disconnect_device: the reference of the list passes to the message.
Disconnect(c, st, a) ==
    IF At(st, a) = {} THEN st
    ELSE LET d == CHOOSE s \in At(st, a) : TRUE
         IN Notify(c, [st EXCEPT !.known = @ \ {d}], TRUE, d)

HasRoom == \A c \in Ctx : Cardinality({s \in Slot : dev[c][s] = NoDev}) >= 2

----------------------------------------------------------------------------
(* The uevents: linux_netlink_read_message tells all contexts.             *)

\* linux_netlink_parse takes "add" and "remove" of a usb_device.
AboutDevice(e) == e.act \in {"add", "remove"}

Handled(e) ==
    [c \in Ctx |->
       IF c \notin Active \/ ~AboutDevice(e) THEN State(c)
       ELSE IF e.act = "add" THEN Enumerate(c, State(c), e.at)
       ELSE Disconnect(c, State(c), e.at)]

\* A context is on active_contexts_list, and told of uevents, before it is
\* ready for them. Before its scan, the monitor it hears from may stop with the
\* last of the other contexts, and what that had not read is lost. Before its
\* list of messages is there, a device that leaves keeps the reference of the
\* list. Before its pipe is there, a message is not signalled.
TooEarly(e) ==
    \E c \in Initing : \/ phase[c] \in {"active", "lists"}
                       \/ e.act = "remove" /\ At(State(c), e.at) # {}

ReadMessage ==
    /\ uevents # <<>> /\ HasRoom
    /\ DuringInit \/ ~TooEarly(Head(uevents))
    /\ SetStates(Handled(Head(uevents)))
    /\ uevents' = Tail(uevents)

\* linux_netlink_event_thread_main
MonitorReads ==
    /\ monitor /\ lock = Unlocked
    /\ ReadMessage
    /\ UNCHANGED <<kernelVars, monitor, initCount, lock, ctxVars, list>>

----------------------------------------------------------------------------
(* libusb_init                                                             *)

\* The default context is used again, ...
InitAgain ==
    /\ Initing = {} /\ default # None
    /\ Event
    /\ defaultUsers' = defaultUsers + 1
    /\ users' = [users EXCEPT ![default] = @ + 1]
    /\ UNCHANGED <<bus, uevents, monitor, initCount, lock, phase, default,
                   devVars, list>>

\* ... or a context is created, the default one if there is none, and put on
\* active_contexts_list.
InitBegin(c) ==
    /\ Initing = {} /\ phase[c] = "none"
    /\ Event
    /\ phase' = [phase EXCEPT ![c] = "active"]
    /\ IF default = None
       THEN default' = c /\ defaultUsers' = 1
       ELSE UNCHANGED <<default, defaultUsers>>
    /\ UNCHANGED <<bus, uevents, monitor, initCount, lock, users, devVars, list>>

\* linux_start_event_monitor opens the socket and starts the thread.
StartMonitor == monitor' = TRUE

\* The entries of the directory with the devices
Entries == {a \in Addr : bus[a] # 0}

\* op_init: the first context starts the monitor, and the devices there are
\* are listed.
ScanBegin(c) ==
    /\ phase[c] = "active" /\ lock = Unlocked
    /\ phase' = [phase EXCEPT ![c] = "scan"]
    /\ StartMonitor
    /\ lock' = [for |-> "scan", left |-> Entries, found |-> 0,
                listed |-> Cardinality(Entries)]
    /\ UNCHANGED <<kernelVars, uevents, initCount, users, default, defaultUsers,
                   devVars, list>>

\* sysfs_scan_device, which fails for a device that is gone by now
ScanEntry(c) ==
    /\ phase[c] = "scan" /\ HasRoom
    /\ \E a \in lock.left :
          /\ SetStates([k \in Ctx |-> IF k = c THEN Enumerate(c, State(c), a)
                                                       ELSE State(k)])
          /\ lock' = [lock EXCEPT !.left = @ \ {a},
                                  !.found = IF Readable(a) THEN @ + 1 ELSE @]
    /\ UNCHANGED <<kernelVars, uevents, monitor, initCount, ctxVars, list>>

\* At least one device was enumerated, or there was none.
ScanEnds(c) ==
    /\ phase[c] = "scan" /\ lock.left = {}
    /\ lock.found > 0 \/ lock.listed = 0
    /\ lock' = Unlocked
    /\ phase' = [phase EXCEPT ![c] = "io"]
    /\ initCount' = initCount + 1
    /\ UNCHANGED <<kernelVars, uevents, monitor, users, default, defaultUsers,
                   devVars, list>>

\* usbi_io_init: the list of messages, ...
IoLists(c) ==
    /\ phase[c] = "io"
    /\ phase' = [phase EXCEPT ![c] = "lists"]
    /\ UNCHANGED <<kernelVars, uevents, monitor, initCount, lock, users, default,
                   defaultUsers, devVars, list>>

\* ... then the event pipe.
IoPipe(c) ==
    /\ phase[c] = "lists"
    /\ phase' = [phase EXCEPT ![c] = "ready"]
    /\ users' = [users EXCEPT ![c] = 1]
    /\ UNCHANGED <<kernelVars, uevents, monitor, initCount, lock, default,
                   defaultUsers, devVars, list>>

\* linux_stop_event_monitor closes the socket.
StopMonitor(last) ==
    /\ monitor' = (monitor /\ ~last)
    /\ uevents' = IF last THEN <<>> ELSE uevents

\* usbi_backend.init has succeeded.
Entered(c) == phase[c] \in {"io", "lists"}

\* Any of this may fail: the backend is left if it was entered, and the
\* context and its list are freed.
InitFails(c) ==
    /\ c \in Initing
    /\ phase[c] = "scan" => lock.left = {} /\ lock.found = 0 /\ lock.listed > 0
    /\ LET n == IF Entered(c) THEN initCount - 1 ELSE initCount
       IN initCount' = n /\ StopMonitor(n = 0)
    /\ lock' = IF phase[c] = "scan" THEN Unlocked ELSE lock
    /\ phase' = [phase EXCEPT ![c] = "none"]
    /\ IF default = c THEN default' = None /\ defaultUsers' = defaultUsers - 1
                      ELSE UNCHANGED <<default, defaultUsers>>
    /\ dev' = [dev EXCEPT ![c] = UnrefAll(@, known[c])]
    /\ known' = [known EXCEPT ![c] = {}]
    /\ msgs' = [msgs EXCEPT ![c] = <<>>]
    /\ UNCHANGED <<kernelVars, users, signalled, list>>

----------------------------------------------------------------------------
(* The application, on a context that is ready.                            *)

\* libusb_get_device_list first lets the backend poll for uevents. due says
\* how many of those there were at the start are still to be handled.
PollBegin(c) ==
    /\ phase[c] = "ready" /\ users[c] > 0 /\ list[c] = {}
    /\ lock = Unlocked
    /\ lock' = [for |-> "poll", ctx |-> c, due |-> Len(uevents), more |-> TRUE]
    /\ UNCHANGED <<kernelVars, uevents, monitor, initCount, ctxVars, devVars, list>>

\* linux_netlink_hotplug_poll reads on as long as a message was a device's.
PollReads ==
    /\ lock.for = "poll" /\ lock.more
    /\ ReadMessage
    /\ lock' = [lock EXCEPT !.due = IF @ > 0 THEN @ - 1 ELSE 0,
                            !.more = AboutDevice(Head(uevents))]
    /\ UNCHANGED <<kernelVars, monitor, initCount, ctxVars, list>>

\* The devices are copied with a reference each.
GetDeviceList ==
    /\ lock.for = "poll" /\ (uevents = <<>> \/ ~lock.more)
    /\ lock' = Unlocked
    /\ dev' = [dev EXCEPT ![lock.ctx] = RefAll(@, known[lock.ctx])]
    /\ list' = [list EXCEPT ![lock.ctx] = known[lock.ctx]]
    /\ UNCHANGED <<kernelVars, uevents, monitor, initCount, ctxVars, known, msgs,
                   signalled>>

\* libusb_free_device_list
FreeDeviceList(c) ==
    /\ list[c] # {}
    /\ dev' = [dev EXCEPT ![c] = UnrefAll(@, list[c])]
    /\ list' = [list EXCEPT ![c] = {}]
    /\ UNCHANGED <<kernelVars, uevents, monitor, initCount, lock, ctxVars, known,
                   msgs, signalled>>

\* op_open of a device that is gone: all contexts learn of it at once, unless
\* the monitor did already.
OpenGone(c) ==
    /\ lock = Unlocked
    /\ \E s \in list[c] \cap known[c] :
          LET e == [act |-> "remove", at |-> dev[c][s].at]
          IN /\ bus[e.at] = 0
             /\ DuringInit \/ ~TooEarly(e)
             /\ SetStates(Handled(e))
    /\ UNCHANGED <<kernelVars, uevents, monitor, initCount, lock, ctxVars, list>>

\* usbi_handle_events takes a hotplug message and drops the reference of a
\* device that left.
HandleMessage(c) ==
    /\ phase[c] = "ready" /\ signalled[c] /\ msgs[c] # <<>>
    /\ LET m == Head(msgs[c])
       IN dev' = IF m.left THEN [dev EXCEPT ![c] = UnrefAll(@, {m.d})] ELSE dev
    /\ msgs' = [msgs EXCEPT ![c] = Tail(@)]
    /\ signalled' = [signalled EXCEPT ![c] = Len(msgs[c]) > 1]
    /\ UNCHANGED <<kernelVars, uevents, monitor, initCount, lock, ctxVars, known, list>>

----------------------------------------------------------------------------
(* libusb_exit                                                             *)

\* Mutant: the count is compared before it is decremented.
StillUsed_early(c) == c = default /\ defaultUsers > 2

\* if (--default_context_refcnt > 0)
StillUsed(c) == c = default /\ defaultUsers > 1

\* Others still use the default context, ...
ExitAgain(c) ==
    /\ phase[c] = "ready" /\ StillUsed(c)
    /\ defaultUsers' = defaultUsers - 1
    /\ users' = [users EXCEPT ![c] = @ - 1]
    /\ UNCHANGED <<kernelVars, uevents, monitor, initCount, lock, phase, default,
                   devVars, list>>

\* ... or the context leaves the list of active ones, ...
ExitBegin(c) ==
    /\ Initing = {}
    /\ phase[c] = "ready" /\ list[c] = {}
    /\ lock.for = "poll" => lock.ctx # c
    /\ ~StillUsed(c)
    /\ IF c = default THEN default' = None /\ defaultUsers' = 0
                      ELSE UNCHANGED <<default, defaultUsers>>
    /\ users' = [users EXCEPT ![c] = @ - 1]
    /\ phase' = [phase EXCEPT ![c] = "exiting"]
    /\ UNCHANGED <<kernelVars, uevents, monitor, initCount, lock, devVars, list>>

\* The devices whose departure is still to be handled, if that is signalled
Leavers(c) == {msgs[c][k].d : k \in {j \in DOMAIN msgs[c] :
                                        msgs[c][j].left /\ signalled[c]}}

\* ... the messages that are left are handled, then the list is freed, ...
ExitDevices(c) ==
    /\ phase[c] = "exiting"
    /\ dev' = [dev EXCEPT ![c] = UnrefAll(UnrefAll(@, Leavers(c)), known[c])]
    /\ msgs' = [msgs EXCEPT ![c] = <<>>]
    /\ signalled' = [signalled EXCEPT ![c] = FALSE]
    /\ known' = [known EXCEPT ![c] = {}]
    /\ phase' = [phase EXCEPT ![c] = "closing"]
    /\ UNCHANGED <<kernelVars, uevents, monitor, initCount, lock, users, default,
                   defaultUsers, list>>

\* ... and op_exit of the last context stops the monitor.
ExitBackend(c) ==
    /\ phase[c] = "closing"
    /\ lock.for # "scan"
    /\ phase' = [phase EXCEPT ![c] = "none"]
    /\ initCount' = initCount - 1
    /\ StopMonitor(initCount = 1)
    /\ UNCHANGED <<kernelVars, lock, users, default, defaultUsers, devVars, list>>

----------------------------------------------------------------------------
Next ==
    \/ \E a \in Addr : Plug(a) \/ Unplug(a)
    \/ OtherUevent \/ MonitorReads \/ PollReads \/ GetDeviceList \/ InitAgain
    \/ \E c \in Ctx :
          \/ InitBegin(c) \/ ScanBegin(c) \/ ScanEntry(c) \/ ScanEnds(c)
          \/ IoLists(c) \/ IoPipe(c) \/ InitFails(c)
          \/ PollBegin(c) \/ FreeDeviceList(c) \/ OpenGone(c) \/ HandleMessage(c)
          \/ ExitAgain(c) \/ ExitBegin(c) \/ ExitDevices(c) \/ ExitBackend(c)

Spec == Init /\ [][Next]_vars

----------------------------------------------------------------------------
(* Properties.                                                             *)

LeftMessages(c, s) == {k \in DOMAIN msgs[c] : msgs[c][k].left /\ msgs[c][k].d = s}

Count(b) == IF b THEN 1 ELSE 0

\* A device has one reference for the list of its context or the message that
\* says it left, one for the list of the application, and one per child: none
\* is dropped twice or kept for ever, whoever of the monitor, the opener, the
\* event handler and libusb_exit comes first, and a context that is gone has
\* left no device behind (libusb_exit: "some libusb_devices were leaked").
RefsBalance ==
    \A c \in Ctx, s \in Slot :
        /\ phase[c] = "none" => dev[c][s] = NoDev
        /\ dev[c][s].refs = Count(s \in known[c]) + Cardinality(LeftMessages(c, s))
                           + Count(s \in list[c])
                           + Cardinality({k \in Slot : /\ dev[c][k].refs > 0
                                                       /\ dev[c][k].parent = s})

\* When no uevent is left to be handled, a ready context lists the devices
\* that are plugged in, each with its present parent, although addresses are
\* used again and the scan and the monitor enumerate side by side.
ListMatchesBus ==
    uevents = <<>> =>
      \A c \in {k \in Ctx : phase[k] = "ready"} :
        /\ {<<dev[c][s].at, dev[c][s].gen>> : s \in known[c]}
              = {<<a, bus[a]>> : a \in {b \in Addr : bus[b] # 0}}
        /\ \A s \in known[c] : dev[c][s].at \in Port =>
              dev[c][s].parent # 0 /\ dev[c][dev[c][s].parent].gen = bus[Hub]

\* A context is there for as long as an init of it has not been paid back, and
\* the monitor for as long as a context relies on it, though inits and exits of
\* several threads overlap.
KeptWhileUsed ==
    /\ \A c \in Ctx : users[c] > 0 <=> phase[c] = "ready"
    /\ initCount = Cardinality({c \in Ctx : phase[c] \in
                         {"io", "lists", "ready", "exiting", "closing"}})
    /\ monitor <=> initCount > 0 \/ \E c \in Ctx : phase[c] = "scan"

\* "The backend should ensure any pending hotplug events are fully processed
\* before returning" from hotplug_poll (libusbi.h).
PollDrains == lock.for = "poll" /\ (uevents = <<>> \/ ~lock.more) => lock.due = 0
============================================================================
