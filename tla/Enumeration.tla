----------------------------- MODULE Enumeration -----------------------------
(***************************************************************************)
(* libusb_get_device_list on the systems without hotplug: the backends'    *)
(* get_device_list (src/libusb/libusb/os/windows_winusb.c, windows_usbdk.c,*)
(* openbsd_usb.c, netbsd_usb.c) with the references and the list of known  *)
(* devices of core.c.                                                      *)
(*                                                                         *)
(* Several threads list the devices of one context. A step is what is done *)
(* under usb_devs_lock or under a device's lock; devices come and go in    *)
(* between. A node of the host is an entry of its device tree: what is     *)
(* plugged in there has an id, 0 when nothing is.                          *)
(***************************************************************************)
EXTENDS Naturals, Sequences, FiniteSets, SequencesExt

CONSTANTS
    Thread,        \* threads that list devices
    Systems,       \* of "winusb", "usbdk", "openbsd", "netbsd"
    Node,          \* the device tree: a hub, devices, interfaces
    Above,         \* the nodes above another, the nearest first; none above the root hub
    Kind,          \* "hub", "device" or "interface"
    MaxChanges,    \* bound: devices plugged in
    MaxLists,      \* bound: lists made
    MaxSlots,      \* bound: devices allocated at a time
    Room,          \* DISCOVERED_DEVICES_SIZE_STEP
    HashSize,      \* HTAB_SIZE
    Faults         \* of "alloc", "init", "append": what may fail, "dying": a device may
                   \* be looked up while it is destroyed, "replaced": a device may be
                   \* plugged in where libusb knows or is listing another, "twins": two threads
                   \* may both find no structure of a device

Parent == [n \in Node |-> IF Above[n] = <<>> THEN "hcd" ELSE Head(Above[n])]

\* The way up from a node goes on as its parent's does. The interfaces are those
\* of a device, and all else is plugged into a hub.
DeviceTree ==
    /\ Above \in [Node -> Seq(Node)] /\ Kind \in [Node -> {"hub", "device", "interface"}]
    /\ \A n \in Node : Above[n] # <<>> => Tail(Above[n]) = Above[Head(Above[n])]
    /\ \A n \in Node : Kind[n] # "hub" => Above[n] # <<>>
    /\ \A n \in Node : \A k \in DOMAIN Above[n] :
          Kind[Above[n][k]] = IF k = 1 /\ Kind[n] = "interface" THEN "device" ELSE "hub"

ASSUME EnumAssumption ==
    /\ IsFiniteSet(Thread) /\ IsFiniteSet(Node)
    /\ Systems \subseteq {"winusb", "usbdk", "openbsd", "netbsd"}
    /\ "none" \notin Node /\ DeviceTree
    /\ {MaxChanges, MaxLists, MaxSlots, Room, HashSize} \subseteq Nat \ {0}
    /\ Faults \subseteq {"alloc", "init", "append", "dying", "replaced", "twins"}

Bsd == {"openbsd", "netbsd"}

VARIABLES
    system,        \* the backend that was built
    bus,           \* what is plugged in at a node
    changes, lists,
    dev,           \* the libusb_device structures
    known,         \* ctx->usb_devs, the newest first
    hashed,        \* the hash table of session ids, in the order of insertion
    job,           \* how far a thread is in get_device_list
    found,         \* its discovered_devs
    unrefs,        \* its list of devices to unreference at the end
    work,          \* references it is dropping, devices it is destroying
    list,          \* the list it got
    calm,          \* what was plugged in all the while it was made, <<>> if that changed
    undefined      \* a list entry was removed twice, or a list that was freed is used

threadVars == <<job, found, unrefs, work, list, calm>>
enumVars == <<system, bus, changes, lists, dev, known, hashed, threadVars, undefined>>

NoNode == "none"
Slot == 1..MaxSlots
NoDev == [node |-> NoNode, id |-> 0, session |-> NoNode, refs |-> 0, parent |-> 0,
          paths |-> {}, rootHub |-> FALSE, ready |-> FALSE]
NoJob == [pc |-> "idle", pass |-> NoNode, snap |-> <<>>, todo |-> {}, node |-> NoNode,
          dev |-> 0, par |-> 0]

Physical == {n \in Node : Kind[n] # "interface"}
Hubs == {n \in Node : Kind[n] = "hub"}

\* What a node shows: an interface has the id of its device.
Shown(b, n) == IF Kind[n] = "interface" THEN b[Parent[n]] ELSE b[n]

\* The nodes a backend makes devices of: UsbDk hides hubs, NetBSD sees ugen(4) only.
Listed == {n \in Physical : Kind[n] = "hub" => system \in {"winusb", "openbsd"}}

EnumInit ==
    /\ system \in Systems
    /\ bus = [n \in Physical |-> IF n \in Hubs THEN 1 ELSE 0]
    /\ changes = 0 /\ lists = 0
    /\ dev = [s \in Slot |-> NoDev]
    /\ known = <<>> /\ hashed = <<>>
    /\ job = [t \in Thread |-> NoJob]
    /\ found = [t \in Thread |-> <<>>]
    /\ unrefs = [t \in Thread |-> <<>>]
    /\ work = [t \in Thread |-> <<>>]
    /\ list = [t \in Thread |-> <<>>]
    /\ calm = [t \in Thread |-> <<>>]
    /\ undefined = FALSE

----------------------------------------------------------------------------
(* The host. A device plugged in later is another one.                     *)

Disturb == calm' = [t \in Thread |-> IF job[t].pc = "idle" THEN calm[t] ELSE <<>>]

\* The nodes of what is plugged in at n: a device and its interfaces.
NodesAt(n) == {n} \cup {m \in Node : Kind[m] = "interface" /\ Parent[m] = n}

Plug(n) ==
    /\ n \notin Hubs /\ bus[n] = 0 /\ changes < MaxChanges
    /\ \/ "replaced" \in Faults
       \/ /\ \A s \in Slot : dev[s].node \notin NodesAt(n)
          /\ \A t \in Thread : job[t].pc # "idle" => job[t].snap[n] = 0
    /\ changes' = changes + 1
    /\ bus' = [bus EXCEPT ![n] = changes + 1]
    /\ Disturb
    /\ UNCHANGED <<system, lists, dev, known, hashed, job, found, unrefs, work, list,
                   undefined>>

Unplug(n) ==
    /\ n \notin Hubs /\ bus[n] # 0
    /\ bus' = [bus EXCEPT ![n] = 0]
    /\ Disturb
    /\ UNCHANGED <<system, changes, lists, dev, known, hashed, job, found, unrefs, work,
                   list, undefined>>

----------------------------------------------------------------------------
(* core.c: references and the list of known devices.                       *)

Ref(d, s) == [d EXCEPT ![s].refs = @ + 1]

\* usbi_get_device_by_session_id: the first one in the list, 0 when there is none.
FoundAt(x) == SelectInSeq(known, LAMBDA s : dev[s].session = x)
Found(x) == IF FoundAt(x) = 0 THEN 0 ELSE known[FoundAt(x)]

MayLookUp ==
    "dying" \in Faults \/ \A t \in Thread : \A k \in DOMAIN work[t] : work[t][k].do # "remove"

\* usbi_alloc_device: the structure is on the list at once.
FreeSlots == {s \in Slot : dev[s] = NoDev}
NewDev(n, id, x) == [NoDev EXCEPT !.node = n, !.id = id, !.session = x, !.refs = 1]

Unref(s) == [do |-> "unref", s |-> s]
Removal(s) == [do |-> "remove", s |-> s]
UnrefAll(q) == [k \in DOMAIN q |-> Unref(q[k])]

\* What the last reference of a device sets off, in that order.
Destruction(s) ==
    (IF dev[s].parent # 0 THEN <<Unref(dev[s].parent)>> ELSE <<>>) \o <<Removal(s)>>

\* libusb_unref_device, up to the last reference, ...
DropRef(t) ==
    /\ work[t] # <<>> /\ Head(work[t]).do = "unref"
    /\ LET s == Head(work[t]).s
       IN /\ dev' = [dev EXCEPT ![s].refs = IF @ = 0 THEN 0 ELSE @ - 1]
          /\ work' = [work EXCEPT ![t] = (IF dev[s].refs = 1 THEN Destruction(s) ELSE <<>>)
                                         \o Tail(@)]
    /\ UNCHANGED <<system, bus, changes, lists, known, hashed, job, found, unrefs, list,
                   calm, undefined>>

\* ... and usbi_disconnect_device and free.
Destroy(t) ==
    /\ work[t] # <<>> /\ Head(work[t]).do = "remove"
    /\ LET s == Head(work[t]).s
       IN /\ undefined' = (undefined \/ ~Contains(known, s))
          /\ known' = RemoveFirst(known, s)
          /\ dev' = [dev EXCEPT ![s] = NoDev]
    /\ work' = [work EXCEPT ![t] = Tail(@)]
    /\ UNCHANGED <<system, bus, changes, lists, hashed, job, found, unrefs, list, calm>>

\* The application gives its list back.
FreeList(t) ==
    /\ job[t].pc = "idle" /\ list[t] # <<>> /\ work[t] = <<>>
    /\ work' = [work EXCEPT ![t] = UnrefAll(list[t])]
    /\ list' = [list EXCEPT ![t] = <<>>]
    /\ calm' = [calm EXCEPT ![t] = <<>>]
    /\ UNCHANGED <<system, bus, changes, lists, dev, known, hashed, job, found, unrefs,
                   undefined>>

----------------------------------------------------------------------------
(* The passes of winusb_get_device_list over the device tree; the others   *)
(* make one.                                                               *)

Passes == IF system = "winusb" THEN <<"hub", "dev", "hcd", "gen", "ext">> ELSE <<"all">>

\* The nodes of a pass, of those that were there when its snapshot was taken;
\* the BSDs try every address.
NodesOf(pass, snap) ==
    {n \in Node : /\ Shown(snap, n) # 0 \/ system \in Bsd
                  /\ CASE pass = "hub" -> Kind[n] = "hub"
                       [] pass = "dev" -> Kind[n] = "device"
                       [] pass = "hcd" -> Kind[n] = "hub" /\ Parent[n] = "hcd"
                       [] pass = "gen" -> TRUE
                       [] pass = "ext" -> Kind[n] = "interface"
                       [] pass = "all" -> n \in Listed}

Enter(pass, snap) ==
    [NoJob EXCEPT !.pc = "item", !.pass = pass, !.snap = snap, !.todo = NodesOf(pass, snap)]

\* Nothing waits to be released and a thread is at this point.
At(t, pc) == job[t].pc = pc /\ work[t] = <<>>

Begin(t) ==
    /\ At(t, "idle") /\ list[t] = <<>> /\ lists < MaxLists
    /\ lists' = lists + 1
    /\ job' = [job EXCEPT ![t] = Enter(Head(Passes), bus)]
    /\ calm' = [calm EXCEPT ![t] = bus]
    /\ UNCHANGED <<system, bus, changes, dev, known, hashed, found, unrefs, work, list,
                   undefined>>

\* The next entry of a pass; driverless interfaces are for a later one.
Item(t, n) ==
    /\ At(t, "item") /\ n \in job[t].todo
    /\ job' = [job EXCEPT ![t].pc = CASE job[t].pass = "gen" -> "ancestor"
                                       [] job[t].pass = "ext" -> "owner"
                                       [] job[t].pass = "hcd" -> "rootHub"
                                       [] OTHER -> "find",
                          ![t].node = n, ![t].todo = @ \ {n}]
    /\ UNCHANGED <<system, bus, changes, lists, dev, known, hashed, found, unrefs, work,
                   list, calm, undefined>>

\* The generic pass lists the devices anew, the others use the interfaces
\* that were there at the beginning.
NextPass(t) ==
    LET i == CHOOSE k \in DOMAIN Passes : Passes[k] = job[t].pass
    IN /\ At(t, "item") /\ job[t].todo = {} /\ i < Len(Passes)
       /\ job' = [job EXCEPT
            ![t] = [Enter(Passes[i + 1], IF Passes[i + 1] = "gen" THEN bus ELSE @.snap)
                      EXCEPT !.snap = job[t].snap]]
       /\ UNCHANGED <<system, bus, changes, lists, dev, known, hashed, found, unrefs, work,
                      list, calm, undefined>>

----------------------------------------------------------------------------
(* The end: the devices that were looked up are unreferenced, and          *)
(* libusb_get_device_list turns what was found into the list, or gives up. *)

EndListing(t, d, ok) ==
    /\ job' = [job EXCEPT ![t] = NoJob]
    /\ dev' = d
    /\ list' = [list EXCEPT ![t] = IF ok THEN found[t] ELSE <<>>]
    /\ work' = [work EXCEPT ![t] = UnrefAll(unrefs[t] \o IF ok THEN <<>> ELSE found[t])]
    /\ found' = [found EXCEPT ![t] = <<>>]
    /\ unrefs' = [unrefs EXCEPT ![t] = <<>>]
    /\ calm' = IF ok THEN calm ELSE [calm EXCEPT ![t] = <<>>]

Done(t) ==
    /\ At(t, "item") /\ job[t].todo = {} /\ job[t].pass = Last(Passes)
    /\ EndListing(t, dev, TRUE)
    /\ UNCHANGED <<system, bus, changes, lists, known, hashed, undefined>>

GiveUp(t) ==
    /\ At(t, "failed")
    /\ EndListing(t, dev, FALSE)
    /\ UNCHANGED <<system, bus, changes, lists, known, hashed, undefined>>

----------------------------------------------------------------------------
(* An entry of a pass. The references a step takes and drops again are     *)
(* dropped by "work".                                                      *)

Goes(t, pc) == job' = [job EXCEPT ![t].pc = pc]
DropsOne(t, s) == work' = [work EXCEPT ![t] = <<Unref(s)>>]

\* A fault: the list need not be complete.
Excused(t) == calm' = [calm EXCEPT ![t] = <<>>]

\* get_ancestor: the first known device above.
Ancestor(n) ==
    LET k == SelectInSeq(Above[n], LAMBDA m : Found(m) # 0)
    IN IF k = 0 THEN 0 ELSE Found(Above[n][k])

\* The generic pass wants a hub above: the interfaces are for the next one.
BelowHub(t) ==
    LET p == Ancestor(job[t].node)
    IN /\ At(t, "ancestor") /\ MayLookUp /\ p # 0
       /\ dev' = Ref(dev, p)
       /\ IF Kind[dev[p].node] = "hub"
          THEN job' = [job EXCEPT ![t].pc = "find", ![t].par = p] /\ UNCHANGED work
          ELSE Goes(t, "item") /\ DropsOne(t, p)
       /\ UNCHANGED <<system, bus, changes, lists, known, hashed, found, unrefs, list, calm,
                      undefined>>

\* Only a root hub has none.
BelowNothing(t) ==
    LET r == Found(job[t].node)
    IN /\ At(t, "ancestor") /\ MayLookUp /\ Ancestor(job[t].node) = 0
       /\ IF r # 0 /\ dev[r].rootHub
          THEN /\ dev' = Ref(dev, r)
               /\ job' = [job EXCEPT ![t].pc = "setup", ![t].dev = r]
               /\ unrefs' = [unrefs EXCEPT ![t] = Append(@, r)]
          ELSE Goes(t, "item") /\ UNCHANGED <<dev, unrefs>>
       /\ UNCHANGED <<system, bus, changes, lists, known, hashed, found, work, list, calm,
                      undefined>>

\* enumerate_hcd_root_hub: the hub becomes a device with a descriptor of its own.
RootHub(t) ==
    LET r == Found(job[t].node)
    IN /\ At(t, "rootHub") /\ MayLookUp
       /\ IF r = 0 THEN Goes(t, "failed") /\ UNCHANGED <<dev, work>>
          ELSE /\ dev' = [Ref(dev, r) EXCEPT ![r].rootHub = TRUE]
               /\ Goes(t, "item") /\ DropsOne(t, r)
       /\ UNCHANGED <<system, bus, changes, lists, known, hashed, found, unrefs, list, calm,
                      undefined>>

\* set_composite_interface: the path of an interface, the latest one counts.
\* Mutant: the test for a path that is set already is the wrong way round.
SetInterface_inverted(d, p, n) ==
    IF d[p].paths = {} THEN d ELSE [d EXCEPT ![p].paths = @ \cup {n}]
SetInterface(d, p, n) == [d EXCEPT ![p].paths = @ \cup {n}]

Owner(t) ==
    LET n == job[t].node
        p == Ancestor(n)
    IN /\ At(t, "owner") /\ MayLookUp
       /\ Goes(t, "item")
       /\ IF p = 0 THEN UNCHANGED <<dev, work>>
          ELSE /\ dev' = IF Kind[dev[p].node] = "hub" THEN Ref(dev, p)
                         ELSE SetInterface(Ref(dev, p), p, n)
               /\ DropsOne(t, p)
       /\ UNCHANGED <<system, bus, changes, lists, known, hashed, found, unrefs, list, calm,
                      undefined>>

\* htab_hash: the place of an identity in the table, 0 when the table is full.
Hashed(id) ==
    IF Contains(hashed, id) \/ Len(hashed) = HashSize THEN hashed ELSE Append(hashed, id)
Place(id) == IF Contains(Hashed(id), id)
             THEN CHOOSE k \in DOMAIN Hashed(id) : Hashed(id)[k] = id ELSE 0

\* What is at the node of this entry: the BSDs ask the bus.
Seen(t) == Shown(IF system \in Bsd THEN bus ELSE job[t].snap, job[t].node)

Session(t) == IF system = "usbdk" THEN Place(Seen(t)) ELSE job[t].node

\* winusb_get_device_list takes the devices it creates or matches off its
\* references at the end, the others at once.
Tracked(t, s) == IF system = "winusb" THEN [unrefs EXCEPT ![t] = Append(@, s)] ELSE unrefs

\* usbi_get_device_by_session_id, and the match of the instance id on WinUSB.
Replaced(s, id) == system = "winusb" /\ dev[s].id # id

Nothing(t) ==
    /\ At(t, "find") /\ Seen(t) = 0
    /\ Goes(t, "item")
    /\ UNCHANGED <<system, bus, changes, lists, dev, known, hashed, found, unrefs, work, list,
                   calm, undefined>>

Find(t) ==
    LET s == Found(Session(t))
        matched == s # 0 /\ ~Replaced(s, Seen(t))
    IN /\ At(t, "find") /\ Seen(t) # 0 /\ MayLookUp
       /\ "twins" \in Faults \/ \A u \in Thread : job[u].pc # "make"
       /\ hashed' = IF system = "usbdk" THEN Hashed(Seen(t)) ELSE hashed
       /\ job' = [job EXCEPT ![t].pc = IF ~matched THEN "make"
                                       ELSE IF system = "winusb" THEN "setup" ELSE "append",
                             ![t].dev = IF matched THEN s ELSE 0]
       /\ dev' = IF s = 0 THEN dev ELSE Ref(dev, s)
       /\ unrefs' = IF matched THEN Tracked(t, s) ELSE unrefs
       \* usbi_disconnect_device, libusb_unref_device: another device has the node now
       /\ known' = IF matched THEN known ELSE RemoveFirst(known, s)
       /\ work' = IF matched \/ s = 0 THEN work ELSE [work EXCEPT ![t] = <<Unref(s)>>]
       /\ UNCHANGED <<system, bus, changes, lists, found, list, calm, undefined>>

\* usbi_alloc_device: the structure is on the list at once.
Make(t) ==
    LET s == CHOOSE k \in FreeSlots : \A j \in FreeSlots : k <= j
    IN /\ At(t, "make") /\ FreeSlots # {}
       /\ dev' = [dev EXCEPT ![s] = NewDev(job[t].node, Seen(t), Session(t))]
       /\ known' = <<s>> \o known
       /\ job' = [job EXCEPT ![t].pc = "setup", ![t].dev = s]
       /\ unrefs' = Tracked(t, s)
       /\ UNCHANGED <<system, bus, changes, lists, hashed, found, work, list, calm,
                      undefined>>

\* Without memory UsbDk goes on with the next device.
MakeFails(t) ==
    /\ At(t, "make") /\ "alloc" \in Faults
    /\ Goes(t, IF system = "usbdk" THEN "item" ELSE "failed")
    /\ Excused(t)
    /\ UNCHANGED <<system, bus, changes, lists, dev, known, hashed, found, unrefs, work, list,
                   undefined>>

\* The first passes of WinUSB keep the path and the API of a device.
SetupPath(t) ==
    /\ At(t, "setup") /\ job[t].pass \in {"hub", "dev"}
    /\ Goes(t, "item")
    /\ UNCHANGED <<system, bus, changes, lists, dev, known, hashed, found, unrefs, work, list,
                   calm, undefined>>

\* init_device: the reference of the ancestor becomes the one of parent_dev,
\* but not when the device is initialised already.
WithParent(t) ==
    IF dev[job[t].dev].ready THEN dev
    ELSE [dev EXCEPT ![job[t].dev].parent = job[t].par]

InitDevice(t) ==
    LET s == job[t].dev
        gone == ~dev[s].ready /\ job[t].par # 0 /\ Shown(bus, job[t].node) = 0
    IN /\ At(t, "setup") /\ job[t].pass = "gen"
       /\ dev' = [WithParent(t) EXCEPT ![s].ready = ~gone]
       /\ job' = [job EXCEPT ![t].pc = IF gone THEN "item" ELSE "append", ![t].par = 0]
       /\ UNCHANGED <<system, bus, changes, lists, known, hashed, found, unrefs, work, list,
                      calm, undefined>>

\* A hub that cannot be opened: there is no list at all.
InitDeviceFails(t) ==
    /\ At(t, "setup") /\ job[t].pass = "gen" /\ "init" \in Faults
    /\ ~dev[job[t].dev].ready /\ job[t].par # 0
    /\ dev' = WithParent(t)
    /\ job' = [job EXCEPT ![t].pc = "failed", ![t].par = 0]
    /\ Excused(t)
    /\ UNCHANGED <<system, bus, changes, lists, known, hashed, found, unrefs, work, list,
                   undefined>>

\* The descriptors of a new device on the other systems.
ReadDescriptors(t) ==
    /\ At(t, "setup") /\ job[t].pass = "all"
    /\ Goes(t, "append")
    /\ UNCHANGED <<system, bus, changes, lists, dev, known, hashed, found, unrefs, work, list,
                   calm, undefined>>

\* One device that cannot be read ends the list on NetBSD.
Skipped(t, s) == [work EXCEPT ![t] = <<Unref(s)>>]

ReadFails(t) ==
    /\ At(t, "setup") /\ job[t].pass = "all" /\ "init" \in Faults
    /\ job' = [job EXCEPT ![t].pc = IF system = "netbsd" THEN "failed" ELSE "item",
                          ![t].dev = 0]
    /\ work' = Skipped(t, job[t].dev)
    /\ Excused(t)
    /\ UNCHANGED <<system, bus, changes, lists, dev, known, hashed, found, unrefs, list,
                   undefined>>

\* discovered_devs_append takes a reference; what was looked up or allocated
\* is dropped at once but on WinUSB. A full list moves when it grows: NetBSD
\* goes on with the old one. One that cannot grow is freed, and once more by
\* libusb_get_device_list.
Full(t) == found[t] # <<>> /\ Len(found[t]) % Room = 0

\* Mutant: the list takes no reference.
InList_borrowed(s) == dev
InList(s) == Ref(dev, s)

AppendDevice(t) ==
    LET s == job[t].dev
    IN /\ At(t, "append")
       /\ found' = [found EXCEPT ![t] = Append(@, s)]
       /\ dev' = InList(s)
       /\ work' = IF system = "winusb" THEN work ELSE [work EXCEPT ![t] = <<Unref(s)>>]
       /\ job' = [job EXCEPT ![t].pc = "item", ![t].dev = 0]
       /\ undefined' = (undefined \/ (Full(t) /\ (system = "netbsd" \/ "append" \in Faults)))
       /\ UNCHANGED <<system, bus, changes, lists, known, hashed, unrefs, list, calm>>

Steps(t) ==
    \/ DropRef(t) \/ Destroy(t) \/ FreeList(t)
    \/ Begin(t) \/ NextPass(t) \/ Done(t) \/ GiveUp(t)
    \/ BelowHub(t) \/ BelowNothing(t) \/ RootHub(t) \/ Owner(t)
    \/ Nothing(t) \/ Find(t) \/ Make(t) \/ MakeFails(t)
    \/ SetupPath(t) \/ InitDevice(t) \/ InitDeviceFails(t)
    \/ ReadDescriptors(t) \/ ReadFails(t) \/ AppendDevice(t)
    \/ \E n \in Node : Item(t, n)

EnumNext ==
    \/ \E n \in Physical : Plug(n) \/ Unplug(n)
    \/ \E t \in Thread : Steps(t)

EnumSpec == EnumInit /\ [][EnumNext]_enumVars

----------------------------------------------------------------------------
(* Properties.                                                             *)

Count(q, s) == Cardinality({k \in DOMAIN q : q[k] = s})
Live(s) == dev[s] # NoDev

\* Who holds a reference of a device: the lists, the threads that look at it,
\* the devices below it.
HeldBy(t, s) ==
    Count(found[t], s) + Count(unrefs[t], s) + Count(list[t], s) + Count(work[t], Unref(s))
    + (IF job[t].dev = s /\ system # "winusb" THEN 1 ELSE 0)
    + (IF job[t].par = s THEN 1 ELSE 0)
Children(s) == {c \in Slot : dev[c].parent = s /\ dev[c].refs > 0}

\* The sum of h[t] over all threads.
Total(h) == Cardinality(UNION {{t} \X (1..h[t]) : t \in Thread})

Holders(s) == Total([t \in Thread |-> HeldBy(t, s)]) + Cardinality(Children(s))

\* A device lives exactly as long as somebody refers to it: through every
\* listing, match, failure and release of a list no reference is lost and none
\* is dropped twice. (A hub gets one too many each time WinUSB lists a device
\* below it again, windows_winusb.c:788.)
RefsBalance ==
    \A s \in Slot : Live(s) =>
        IF system = "winusb" /\ Kind[dev[s].node] = "hub"
        THEN dev[s].refs >= Holders(s) ELSE dev[s].refs = Holders(s)

\* Where nothing came, went or failed while a list was made, it has the devices
\* of the bus and each of them once, under its present identity, the interfaces
\* of a composite device with their paths: none is lost between the passes, and
\* none is an old structure of the same node.
ListMatchesBus ==
    \A t \in Thread : job[t].pc = "idle" /\ calm[t] # <<>> =>
        /\ IsInjective(list[t])
        /\ {<<dev[s].node, dev[s].id>> : s \in ToSet(list[t])}
           = {<<n, calm[t][n]>> : n \in {m \in Listed : calm[t][m] # 0}}
        /\ system = "winusb" => \A s \in ToSet(list[t]) : Kind[dev[s].node] = "device" =>
             dev[s].paths = {n \in Node : Kind[n] = "interface" /\ Parent[n] = dev[s].node}

\* No device is taken off the list of known devices twice, and no list that
\* moved or was freed is used.
NothingDangling == ~undefined

\* Devices and lists are freed when nobody refers to them, and only then.
MemorySafe == RefsBalance /\ NothingDangling
=============================================================================
