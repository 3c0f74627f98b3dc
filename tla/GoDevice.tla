----------------------------- MODULE GoDevice ------------------------------
(***************************************************************************)
(* The Go package: Find, DeviceInfo.Open and the devices it returns        *)
(* (src/device.go, src/libusb.go), over what their cgo calls do to the     *)
(* references of a libusb_device (src/libusb/libusb/core.c) and to the     *)
(* claims and drivers of interfaces (os/linux_usbfs.c).                    *)
(*                                                                         *)
(* Every Find and every Open makes a libusb context of its own, so a       *)
(* device of the system is a libusb_device in each: refs[n][d] counts the  *)
(* references of device d in context n.  An Open returns at most one       *)
(* Device: n also names the one whose handle lives in context n.           *)
(***************************************************************************)
EXTENDS Integers, FiniteSets

CONSTANTS
    Routine,      \* goroutines
    Dev,          \* USB devices of one vendor and product
    PortOf,       \* PortOf[d]: the number of the hub port d is plugged into
    Interface,    \* interface numbers of each of them
    Timeouts,     \* may a Read be bounded by a timeout, or wait forever?
    Careless,     \* does the application use devices it has closed?
    MaxContexts,  \* bound: calls of Find and Open
    None          \* owner of a free lock; no device

Context == 1..MaxContexts

\* What an interface is bound to, when not to the handle of a context.
KernelDriver == -1
Unbound == 0

ASSUME ConstantsAssumption ==
    /\ IsFiniteSet(Dev) /\ None \notin Routine /\ None \notin Dev \X Interface
    /\ PortOf \in [Dev -> Nat]
    /\ Timeouts \subseteq BOOLEAN /\ Careless \in BOOLEAN
    /\ MaxContexts \in Nat

VARIABLES
    pc,        \* where each goroutine is
    at,        \* the context it works in (0: none)
    info,      \* info[n]: the device and interface an Open looks for
    timed,     \* the Read or Write under way has a timeout
    lock,      \* owner of the package's lock
    devLock,   \* owner of each Device's lock
    contexts,  \* contexts made so far
    refs,      \* refcnt of every libusb_device
    listed,    \* listed[n]: the devices on usb_devs of context n
    device,    \* device[n]: the device that Open connects to
    handle,    \* contexts with an open libusb_device_handle
    known,     \* Devices that the application holds
    closed,    \* Devices that it has closed
    claim,     \* what is bound to each interface: a driver, or a context
    plugged,   \* devices in the system
    crashed    \* the process is dead

callVars   == <<at, info, timed>>
libusbVars == <<contexts, refs, listed, device, handle>>
appVars    == <<known, closed>>
usbVars    == <<claim, plugged>>
vars == <<pc, callVars, lock, devLock, libusbVars, appVars, usbVars, crashed>>

PCs == {"idle", "find", "find_enumerate", "open", "enumerate", "libusb_open",
        "detach", "claim", "give_up", "unlock", "io_lock", "io", "close_lock",
        "release", "attach", "libusb_close", "unref"}

TypeOK ==
    /\ pc \in [Routine -> PCs]
    /\ at \in [Routine -> Context \cup {0}]
    /\ info \in [Routine -> (Dev \X Interface) \cup {None}]
    /\ timed \in [Routine -> BOOLEAN]
    /\ lock \in Routine \cup {None}
    /\ devLock \in [Context -> Routine \cup {None}]
    /\ contexts \in 0..MaxContexts
    /\ refs \in [Context -> [Dev -> Nat]]
    /\ listed \in [Context -> SUBSET Dev]
    /\ device \in [Context -> (Dev \X Interface) \cup {None}]
    /\ handle \in SUBSET Context
    /\ known \in SUBSET Context
    /\ closed \in SUBSET Context
    /\ claim \in [Dev \X Interface -> {KernelDriver, Unbound} \cup Context]
    /\ plugged \in SUBSET Dev
    /\ crashed \in BOOLEAN

Init ==
    /\ pc = [g \in Routine |-> "idle"]
    /\ at = [g \in Routine |-> 0]
    /\ info = [g \in Routine |-> None]
    /\ timed = [g \in Routine |-> FALSE]
    /\ lock = None
    /\ devLock = [n \in Context |-> None]
    /\ contexts = 0
    /\ refs = [n \in Context |-> [d \in Dev |-> 0]]
    /\ listed = [n \in Context |-> {}]
    /\ device = [n \in Context |-> None]
    /\ handle = {} /\ known = {} /\ closed = {}
    /\ claim = [x \in Dev \X Interface |-> KernelDriver]
    /\ plugged = Dev
    /\ crashed = FALSE

----------------------------------------------------------------------------
At(g, p) == pc[g] = p /\ ~crashed
Goto(g, p) == pc' = [pc EXCEPT ![g] = p]

Step(g, from, to) == At(g, from) /\ Goto(g, to)

\* A call returns: its locks are released by its deferred Unlock.
Return(g) ==
    /\ Goto(g, "idle")
    /\ at' = [at EXCEPT ![g] = 0]
    /\ info' = [info EXCEPT ![g] = None]
    /\ timed' = [timed EXCEPT ![g] = FALSE]

AddRef(n, d, k) == refs' = [refs EXCEPT ![n][d] = @ + k]

----------------------------------------------------------------------------
(* Find and the first half of Open: getAllDevices.                         *)

Find(g) ==
    /\ Step(g, "idle", "find")
    /\ contexts < MaxContexts
    /\ UNCHANGED <<callVars, lock, devLock, libusbVars, appVars, usbVars, crashed>>

Open(g, d, i) ==
    /\ Step(g, "idle", "open")
    /\ contexts < MaxContexts
    /\ info' = [info EXCEPT ![g] = <<d, i>>]
    /\ UNCHANGED <<at, timed, lock, devLock, libusbVars, appVars, usbVars, crashed>>

Lock(g) ==
    /\ \/ Step(g, "find", "find_enumerate")
       \/ Step(g, "open", "enumerate")
    /\ lock = None
    /\ lock' = g
    /\ UNCHANGED <<callVars, devLock, libusbVars, appVars, usbVars, crashed>>

\* Mutant: the deferred libusb_free_device_list gives the list back.
EnumerateFreed ==
    /\ contexts < MaxContexts
    /\ contexts' = contexts + 1
    /\ listed' = [listed EXCEPT ![contexts + 1] = plugged]
    /\ refs' = [refs EXCEPT ![contexts + 1] =
                   [d \in Dev |-> IF d \in plugged THEN 1 ELSE 0]]

\* A new context lists what is plugged in, with a reference of its own to
\* each, and libusb_get_device_list takes another.  That one is never given
\* back: the deferred call frees the NULL that deviceList was when the defer
\* statement ran.  The references to matches are taken and dropped again.
Enumerate ==
    /\ contexts < MaxContexts
    /\ contexts' = contexts + 1
    /\ listed' = [listed EXCEPT ![contexts + 1] = plugged]
    /\ refs' = [refs EXCEPT ![contexts + 1] =
                   [d \in Dev |-> IF d \in plugged THEN 2 ELSE 0]]

\* libusb_init may fail, too.
FindEnumerates(g) ==
    /\ Step(g, "find_enumerate", "unlock")
    /\ Enumerate \/ UNCHANGED <<contexts, refs, listed>>
    /\ UNCHANGED <<callVars, lock, devLock, device, handle, appVars, usbVars,
                   crashed>>

\* The device Open takes is the first match on the list whose port number
\* and interface are those of the info.
SameAddress(d, g) == PortOf[d] = PortOf[info[g][1]]

OpenEnumerates(g) ==
    /\ At(g, "enumerate")
    /\ \/ /\ Enumerate
          /\ \/ /\ \A d \in plugged : ~SameAddress(d, g)
                /\ Goto(g, "unlock")
                /\ UNCHANGED <<at, device>>
             \/ \E d \in plugged :
                   /\ SameAddress(d, g)
                   /\ device' = [device EXCEPT ![contexts + 1] = <<d, info[g][2]>>]
                   /\ at' = [at EXCEPT ![g] = contexts + 1]
                   /\ Goto(g, "libusb_open")
       \/ /\ Goto(g, "unlock")
          /\ UNCHANGED <<at, contexts, refs, listed, device>>
    /\ UNCHANGED <<info, timed, lock, devLock, handle, appVars, usbVars, crashed>>

----------------------------------------------------------------------------
(* The second half of Open.                                                *)

LibusbOpen(g) ==
    LET n == at[g] IN
    /\ At(g, "libusb_open")
    /\ \/ /\ device[n][1] \in plugged
          /\ handle' = handle \cup {n}
          /\ AddRef(n, device[n][1], 1)
          /\ Goto(g, "detach")
       \/ /\ Goto(g, "unlock")                     \* op_open failed
          /\ UNCHANGED <<handle, refs>>
    /\ UNCHANGED <<callVars, lock, devLock, contexts, listed, device, appVars,
                   usbVars, crashed>>

\* libusb_detach_kernel_driver: not when usbfs, so another handle, has the
\* interface; errors are ignored.
DetachKernelDriver(g) ==
    LET x == device[at[g]] IN
    /\ Step(g, "detach", "claim")
    /\ claim' = IF claim[x] = KernelDriver THEN [claim EXCEPT ![x] = Unbound]
                                           ELSE claim
    /\ UNCHANGED <<callVars, lock, devLock, libusbVars, appVars, plugged, crashed>>

\* Mutant: the ioctl takes the interface from usbfs too.
ClaimSteals(g) ==
    LET n == at[g] IN
    /\ At(g, "claim")
    /\ \/ /\ device[n][1] \in plugged
          /\ claim' = [claim EXCEPT ![device[n]] = n]
          /\ known' = known \cup {n}
          /\ Goto(g, "unlock")
       \/ /\ device[n][1] \notin plugged
          /\ Goto(g, "give_up")
          /\ UNCHANGED <<claim, known>>
    /\ UNCHANGED <<callVars, lock, devLock, libusbVars, closed, plugged, crashed>>

\* libusb_claim_interface with auto-detach: disconnect any driver but usbfs,
\* and claim.
Claim(g) ==
    LET n == at[g]
        free == device[n][1] \in plugged /\ claim[device[n]] \in {KernelDriver, Unbound}
    IN
    /\ At(g, "claim")
    /\ \/ /\ free
          /\ claim' = [claim EXCEPT ![device[n]] = n]
          /\ known' = known \cup {n}
          /\ Goto(g, "unlock")
       \/ /\ ~free
          /\ Goto(g, "give_up")
          /\ UNCHANGED <<claim, known>>
    /\ UNCHANGED <<callVars, lock, devLock, libusbVars, closed, plugged, crashed>>

\* libusb_close of the handle that could not claim its interface.
GiveUp(g) ==
    LET n == at[g] IN
    /\ Step(g, "give_up", "unlock")
    /\ handle' = handle \ {n}
    /\ AddRef(n, device[n][1], -1)
    /\ UNCHANGED <<callVars, lock, devLock, contexts, listed, device, appVars,
                   usbVars, crashed>>

Unlock(g) ==
    /\ At(g, "unlock")
    /\ lock' = None
    /\ Return(g)
    /\ UNCHANGED <<devLock, libusbVars, appVars, usbVars, crashed>>

----------------------------------------------------------------------------
(* Read, Write and Close of a Device.                                      *)

Using(n, ps) == \E g \in Routine : at[g] = n /\ pc[g] \in ps

ClosePCs == {"close_lock", "release", "attach", "libusb_close", "unref"}

\* A careful application starts no Read or Write on a Device that it closes
\* or has closed, ...
ReadOrWrite(g, n) ==
    /\ Step(g, "idle", "io_lock")
    /\ n \in known
    /\ Careless \/ (n \notin closed /\ ~Using(n, ClosePCs))
    /\ at' = [at EXCEPT ![g] = n]
    /\ \E t \in Timeouts : timed' = [timed EXCEPT ![g] = t]
    /\ UNCHANGED <<info, lock, devLock, libusbVars, appVars, usbVars, crashed>>

\* ... and closes each once, perhaps while another goroutine reads.
Close(g, n) ==
    /\ Step(g, "idle", "close_lock")
    /\ n \in known
    /\ Careless \/ (n \notin closed /\ ~Using(n, ClosePCs \cup {"io_lock"}))
    /\ at' = [at EXCEPT ![g] = n]
    /\ UNCHANGED <<info, timed, lock, devLock, libusbVars, appVars, usbVars, crashed>>

\* The transfer is called with dev.handle, even if that is nil: libusb reads
\* the context of the handle before anything else, and the process dies.
IoLock(g) ==
    /\ Step(g, "io_lock", "io")
    /\ devLock[at[g]] = None
    /\ devLock' = [devLock EXCEPT ![at[g]] = g]
    /\ crashed' = (at[g] \notin handle)
    /\ UNCHANGED <<callVars, lock, libusbVars, appVars, usbVars>>

\* Mutant: a failed transfer returns without unlocking.
IoReturnsLocked(g) ==
    /\ At(g, "io")
    /\ \/ devLock' = [devLock EXCEPT ![at[g]] = None]
       \/ UNCHANGED devLock
    /\ Return(g)
    /\ UNCHANGED <<lock, libusbVars, appVars, usbVars, crashed>>

\* The transfer ends, well or not: its result is returned with the lock.
IoReturns(g) ==
    /\ At(g, "io")
    /\ devLock' = [devLock EXCEPT ![at[g]] = None]
    /\ Return(g)
    /\ UNCHANGED <<lock, libusbVars, appVars, usbVars, crashed>>

CloseLock(g) ==
    /\ At(g, "close_lock")
    /\ devLock[at[g]] = None
    /\ devLock' = [devLock EXCEPT ![at[g]] = g]
    /\ Goto(g, IF at[g] \in handle THEN "release" ELSE "unref")
    /\ UNCHANGED <<callVars, lock, libusbVars, appVars, usbVars, crashed>>

\* op_release_interface: release, and only if that succeeded ...
Release(g) ==
    LET n == at[g] IN
    /\ At(g, "release")
    /\ IF claim[device[n]] = n
       THEN claim' = [claim EXCEPT ![device[n]] = Unbound] /\ Goto(g, "attach")
       ELSE UNCHANGED claim /\ Goto(g, "libusb_close")
    /\ UNCHANGED <<callVars, lock, devLock, libusbVars, appVars, plugged, crashed>>

\* Mutant: the kernel's driver is not attached again.
AttachNothing(g) ==
    /\ Step(g, "attach", "libusb_close")
    /\ UNCHANGED <<callVars, lock, devLock, libusbVars, appVars, usbVars, crashed>>

\* ... attach the kernel's driver, unless another handle got the interface.
Attach(g) ==
    LET x == device[at[g]] IN
    /\ Step(g, "attach", "libusb_close")
    /\ claim' = IF claim[x] = Unbound /\ x[1] \in plugged
                THEN [claim EXCEPT ![x] = KernelDriver] ELSE claim
    /\ UNCHANGED <<callVars, lock, devLock, libusbVars, appVars, plugged, crashed>>

LibusbClose(g) ==
    LET n == at[g] IN
    /\ Step(g, "libusb_close", "unref")
    /\ handle' = handle \ {n}
    /\ AddRef(n, device[n][1], -1)
    /\ UNCHANGED <<callVars, lock, devLock, contexts, listed, device, appVars,
                   usbVars, crashed>>

\* libusb_unref_device, whether there was a handle or not.
Unref(g) ==
    LET n == at[g] IN
    /\ At(g, "unref")
    /\ AddRef(n, device[n][1], -1)
    /\ closed' = closed \cup {n}
    /\ devLock' = [devLock EXCEPT ![n] = None]
    /\ Return(g)
    /\ UNCHANGED <<lock, contexts, listed, device, handle, known, usbVars, crashed>>

----------------------------------------------------------------------------
(* The system.                                                             *)

\* The kernel unbinds every interface of a device that is unplugged, ...
Unplug(d) ==
    /\ ~crashed
    /\ d \in plugged
    /\ plugged' = plugged \ {d}
    /\ claim' = [x \in Dev \X Interface |-> IF x[1] = d THEN Unbound ELSE claim[x]]
    /\ UNCHANGED <<pc, callVars, lock, devLock, libusbVars, appVars, crashed>>

\* ... and a context that handles events drops it from its list.
Forget(n, d) ==
    /\ ~crashed
    /\ d \in listed[n] \ plugged
    /\ listed' = [listed EXCEPT ![n] = @ \ {d}]
    /\ AddRef(n, d, -1)
    /\ UNCHANGED <<pc, callVars, lock, devLock, contexts, device, handle, appVars,
                   usbVars, crashed>>

----------------------------------------------------------------------------
\* Steps of a goroutine inside a call, but for the end of a transfer.
CallStep(g) ==
    \/ Lock(g) \/ FindEnumerates(g) \/ OpenEnumerates(g) \/ LibusbOpen(g)
    \/ DetachKernelDriver(g) \/ Claim(g) \/ GiveUp(g) \/ Unlock(g)
    \/ IoLock(g) \/ CloseLock(g) \/ Release(g) \/ Attach(g) \/ LibusbClose(g)
    \/ Unref(g)

Next ==
    \/ \E g \in Routine :
          \/ Find(g)
          \/ \E d \in Dev, i \in Interface : Open(g, d, i)
          \/ \E n \in Context : ReadOrWrite(g, n) \/ Close(g, n)
          \/ CallStep(g)
          \/ IoReturns(g)
    \/ \E d \in Dev : Unplug(d) \/ \E n \in Context : Forget(n, d)

Spec == Init /\ [][Next]_vars

\* Goroutines run and get a sync.Mutex they wait for (in its starvation mode
\* it is handed to the first in line); a transfer with a timeout ends
\* (EventLoop), one without may wait forever for a silent device.
LiveSpec ==
    /\ Spec
    /\ \A g \in Routine :
          /\ WF_vars(CallStep(g))
          /\ SF_vars(Lock(g)) /\ SF_vars(IoLock(g)) /\ SF_vars(CloseLock(g))
          /\ WF_vars(timed[g] /\ IoReturns(g))

----------------------------------------------------------------------------
(* Properties.                                                             *)

\* A libusb_device is not destroyed while its context lists it, a handle is
\* open on it or an Open or a Close still works with it.  The reference that
\* Close drops is the one getAllDevices has leaked: neither the leak nor the
\* unref can be changed without the other.
DeviceAlive ==
    \A n \in Context : \A d \in Dev :
        \/ d \in listed[n]
        \/ n \in handle /\ device[n][1] = d
        \/ /\ Using(n, {"libusb_open", "release", "attach", "libusb_close", "unref"})
           /\ device[n][1] = d
        => refs[n][d] > 0

\* From the Open that returns it to its Close a Device has its interface to
\* itself, whatever else is opened and closed, until it is unplugged.
ClaimKept ==
    \A n \in known \ closed :
        \/ claim[device[n]] = n
        \/ device[n][1] \notin plugged
        \/ Using(n, {"attach", "libusb_close", "unref"})

\* When no Device holds an interface and no call is at work on it, the
\* kernel's driver is back, also after an Open that failed.
DriverComesBack ==
    \A x \in Dev \X Interface :
        \/ x[1] \notin plugged
        \/ claim[x] = KernelDriver
        \/ \E n \in handle : device[n] = x

\* Find and Open return though another goroutine waits forever in a Read:
\* the package's lock is never held over a transfer.
FindReturns ==
    \A g \in Routine : pc[g] \in {"find", "open"} ~> pc[g] = "idle"

\* Close returns when no transfer without a timeout holds its Device: it
\* waits for every Read that has one.
CloseReturns ==
    \A g \in Routine :
        pc[g] = "close_lock" ~>
            \/ pc[g] = "idle"
            \/ \E r \in Routine : at[r] = at[g] /\ pc[r] = "io" /\ ~timed[r]

\* device.go:20-22 says ErrDeviceClosed "is returned for operations where the
\* device closed before or during the execution": no such operation would
\* reach libusb without a handle.
ClosedIsReported == ~crashed

\* device.go:81-82: Open "connects to a previsouly discovered USB device",
\* the one the info describes.
OpensWhatWasFound ==
    [][\A g \in Routine :
          LibusbOpen(g) => device[at[g]] = info[g]]_vars
============================================================================
