---------------------------- MODULE UsbfsDevice ----------------------------
(***************************************************************************)
(* Configurations, interfaces and kernel drivers of a device over usbfs:   *)
(* the calls of core.c with the functions of linux_usbfs.c they end in.    *)
(* Each ioctl is a step, so that other threads, handles and the kernel's   *)
(* driver core come between two of them.                                   *)
(***************************************************************************)
EXTENDS Integers, Sequences, SequencesExt

CONSTANTS
    Thread,           \* threads that call the library
    Handle,           \* handles of the device, of one process
    LastInterface,    \* bound: interfaces are 0..LastInterface
    Drivers,          \* interfaces for which the kernel has a driver
    Interfaces,       \* configuration values -> the interfaces they have
    Systems,          \* kernels, and what the device's descriptors file holds there
    Faults            \* circumstances that the library does not cope with:
                      \* "resetFails", "sharedReset", "driverChanges",
                      \* "twoSetters"

ASSUME ConstantsAssumption ==
    /\ LastInterface \in Nat /\ Drivers \subseteq 0..LastInterface
    /\ DOMAIN Interfaces \subseteq Nat \ {0}
    /\ \A c \in DOMAIN Interfaces : Interfaces[c] \subseteq 0..LastInterface
    /\ Handle \cap {"none", "kernel"} = {} /\ "nobody" \notin Thread
    /\ Faults \subseteq {"resetFails", "sharedReset", "driverChanges", "twoSetters"}

VARIABLES
    system,        \* the kernel's abilities and priv->descriptors
    attached,      \* dev->attached
    activeConfig,  \* priv->active_config, used without sysfs
    open,          \* open handles
    claimed,       \* claimed_interfaces of each handle
    auto,          \* auto_detach_kernel_driver
    lock,          \* which thread has a handle's lock
    op,            \* where each thread is
    config,        \* the kernel: the active configuration, -1 when there is none,
    driver,        \*   the driver of each interface: a handle's usbfs, the kernel's,
    probing,       \*   interfaces that its driver is about to be bound to,
    gone           \*   the device is unplugged

libVars == <<attached, activeConfig, open, claimed, auto, lock>>
kernelVars == <<config, driver, probing, gone>>
vars == <<system, libVars, op, kernelVars>>

Interface == 0..LastInterface
Unconfigured == -1
Nobody == "nobody"

Idle == [do |-> "none"]
Doing(what, h, i, then) == [do |-> what, h |-> h, i |-> i, then |-> then]

\* The interfaces of the active configuration.
Present == IF config = Unconfigured THEN {} ELSE Interfaces[config]

Init ==
    /\ system \in Systems
    /\ attached = TRUE
    /\ config \in DOMAIN Interfaces /\ activeConfig = config
    /\ open = {}
    /\ claimed = [h \in Handle |-> {}]
    /\ auto = [h \in Handle |-> FALSE]
    /\ lock = [h \in Handle |-> Nobody]
    /\ op = [t \in Thread |-> Idle]
    /\ driver = [i \in Interface |-> IF i \in Drivers \cap Present THEN "kernel" ELSE "none"]
    /\ probing = {} /\ gone = FALSE

----------------------------------------------------------------------------
(* The kernel.                                                             *)

\* Its driver is bound to an interface, after a reset, a new configuration, or
\* when its module has been loaded.
KernelBinds(i) ==
    /\ i \in probing /\ driver[i] = "none" /\ ~gone
    /\ driver' = [driver EXCEPT ![i] = "kernel"]
    /\ probing' = probing \ {i}
    /\ UNCHANGED <<system, libVars, op, config, gone>>

Unplug ==
    /\ ~gone
    /\ gone' = TRUE
    /\ driver' = [i \in Interface |-> "none"]
    /\ probing' = {}
    /\ UNCHANGED <<system, libVars, op, config>>

\* usbfs claims an interface for a handle, also for an ioctl that needs it.
Takes(h, i) == ~gone /\ i \in Present /\ driver[i] \in {"none", h}

\* No thread has looked at i's driver and is about to disconnect it.
Undisturbed(i) ==
    \/ "driverChanges" \in Faults
    \/ \A t \in Thread : op[t].do = "disconnect" => op[t].i # i

----------------------------------------------------------------------------
(* Opening and closing.                                                    *)

\* op_open: an open that finds no device marks it as disconnected.
Open(t, h) ==
    /\ op[t] = Idle /\ attached /\ h \notin open
    /\ IF gone THEN attached' = FALSE /\ UNCHANGED open
               ELSE open' = open \cup {h} /\ UNCHANGED attached
    /\ UNCHANGED <<system, activeConfig, claimed, auto, lock, op, kernelVars>>

\* The monitor learns of the removal.
Disconnected ==
    /\ gone /\ attached
    /\ attached' = FALSE
    /\ UNCHANGED <<system, activeConfig, open, claimed, auto, lock, op, kernelVars>>

\* Closing the file releases what its usbfs had claimed.
Close(t, h) ==
    /\ op[t] = Idle /\ h \in open
    /\ \A u \in Thread : op[u] # Idle => op[u].h # h
    /\ open' = open \ {h}
    /\ claimed' = [claimed EXCEPT ![h] = {}]
    /\ auto' = [auto EXCEPT ![h] = FALSE]
    /\ driver' = [i \in Interface |-> IF driver[i] = h THEN "none" ELSE driver[i]]
    /\ UNCHANGED <<system, attached, activeConfig, lock, op, config, probing, gone>>

SetAuto(t, h) ==
    /\ op[t] = Idle /\ h \in open
    /\ \E enable \in BOOLEAN : auto' = [auto EXCEPT ![h] = enable]
    /\ UNCHANGED <<system, attached, activeConfig, open, claimed, lock, op, kernelVars>>

----------------------------------------------------------------------------
(* Claiming and releasing.                                                 *)

\* A call by thread t on the handle h of a device that is attached.
Calls(t, h) == op[t] = Idle /\ h \in open /\ attached

Locked(t, h) == lock[h] = Nobody /\ lock' = [lock EXCEPT ![h] = t]

\* detach_kernel_driver_and_claim starts with the one ioctl or, on a kernel
\* that does not have it, with op_detach_kernel_driver.
DetachAndClaim(h, i, then) ==
    Doing(IF system.disconnectClaim THEN "disconnectClaim" ELSE "getDriver", h, i, then)

\* op_claim_interface
ClaimWith(h, i) == IF auto[h] THEN DetachAndClaim(h, i, "claim")
                              ELSE Doing("claim", h, i, "claim")

\* libusb_claim_interface holds the handle's lock until it has set the bit.
Claim(t, h, i) ==
    /\ Calls(t, h)
    /\ i \notin claimed[h]
    /\ Locked(t, h)
    /\ op' = [op EXCEPT ![t] = ClaimWith(h, i)]
    /\ UNCHANGED <<system, attached, activeConfig, open, claimed, auto, kernelVars>>

\* Mutation: the bit stays set when the interface could not be claimed again.
AfterReclaim_kept(h, i, ok) == claimed' = [claimed EXCEPT ![h] = IF ok THEN @ \cup {i} ELSE @]

\* What op_reset_device makes of an attempt to claim i again.
AfterReclaim(h, i, ok) == claimed' = [claimed EXCEPT ![h] = IF ok THEN @ ELSE @ \ {i}]

\* What a thread does when its attempt to claim has ended, well or not.
Claimed(t, ok) ==
    LET h == op[t].h
        i == op[t].i
    IN IF op[t].then = "claim"
       THEN /\ claimed' = [claimed EXCEPT ![h] = IF ok THEN @ \cup {i} ELSE @]
            /\ lock' = [lock EXCEPT ![h] = Nobody]
            /\ op' = [op EXCEPT ![t] = Idle]
       ELSE /\ AfterReclaim(h, i, ok)
            /\ op' = [op EXCEPT ![t] = Doing("reclaim", h, i + 1, "return")]
            /\ UNCHANGED lock

\* IOCTL_USBFS_CLAIMINTF
ClaimIoctl(t) ==
    /\ op[t].do = "claim" /\ Undisturbed(op[t].i)
    /\ LET ok == Takes(op[t].h, op[t].i)
       IN /\ driver' = IF ok THEN [driver EXCEPT ![op[t].i] = op[t].h] ELSE driver
          /\ Claimed(t, ok)
    /\ UNCHANGED <<system, attached, activeConfig, open, auto, config, probing, gone>>

\* Mutation: the flag that spares usbfs is not passed.
Disconnectable_all(i) == driver[i] \in {"none", "kernel"} \cup Handle

\* IOCTL_USBFS_DISCONNECT_CLAIM disconnects any driver except usbfs.
Disconnectable(i) == driver[i] \in {"none", "kernel"}

DisconnectClaimIoctl(t) ==
    /\ op[t].do = "disconnectClaim" /\ Undisturbed(op[t].i)
    /\ LET ok == ~gone /\ op[t].i \in Present /\ Disconnectable(op[t].i)
       IN /\ driver' = IF ok THEN [driver EXCEPT ![op[t].i] = op[t].h] ELSE driver
          /\ Claimed(t, ok)
    /\ UNCHANGED <<system, attached, activeConfig, open, auto, config, probing, gone>>

\* IOCTL_USBFS_RELEASEINTF, which only the owner may ask for.
ReleaseIoctl(h, i) ==
    /\ driver[i] = h
    /\ driver' = [driver EXCEPT ![i] = "none"]

\* op_release_interface attaches the driver again, which libusb_release_interface
\* waits for before it clears the bit.
AfterRelease(t, h, i) ==
    IF auto[h] THEN /\ Locked(t, h)
                    /\ op' = [op EXCEPT ![t] = Doing("connect", h, i, "release")]
                    /\ UNCHANGED claimed
               ELSE /\ lock[h] = Nobody
                    /\ claimed' = [claimed EXCEPT ![h] = @ \ {i}]
                    /\ UNCHANGED <<lock, op>>

Release(t, h, i) ==
    /\ op[t] = Idle /\ h \in open /\ i \in claimed[h]
    /\ ReleaseIoctl(h, i)
    /\ AfterRelease(t, h, i)
    /\ UNCHANGED <<system, attached, activeConfig, open, auto, config, probing, gone>>

----------------------------------------------------------------------------
(* Kernel drivers.                                                         *)

\* libusb_detach_kernel_driver
Detach(t, h, i) ==
    /\ Calls(t, h)
    /\ op' = [op EXCEPT ![t] = Doing("getDriver", h, i, "detach")]
    /\ UNCHANGED <<system, libVars, kernelVars>>

\* libusb_attach_kernel_driver
Attach(t, h, i) ==
    /\ Calls(t, h)
    /\ op' = [op EXCEPT ![t] = Doing("connect", h, i, "attach")]
    /\ UNCHANGED <<system, libVars, kernelVars>>

\* Mutation: usbfs is a driver like any other.
SparesUsbfs_not(i) == i \in {}

\* op_detach_kernel_driver leaves usbfs alone, ...
SparesUsbfs(i) == ~gone /\ driver[i] \in Handle

\* ... and what follows it.
Detached(t) ==
    IF op[t].then = "detach" THEN Idle ELSE [op[t] EXCEPT !.do = "claim"]

GetDriver(t) ==
    /\ op[t].do = "getDriver"
    /\ op' = [op EXCEPT ![t] = IF SparesUsbfs(op[t].i) THEN Detached(t)
                               ELSE [op[t] EXCEPT !.do = "disconnect"]]
    /\ UNCHANGED <<system, libVars, kernelVars>>

\* IOCTL_USBFS_DISCONNECT disconnects whatever driver there is by now.
Disconnect(t) ==
    /\ op[t].do = "disconnect"
    /\ IF gone /\ op[t].then # "detach"
       THEN Claimed(t, FALSE) /\ UNCHANGED driver
       ELSE /\ driver' = [driver EXCEPT ![op[t].i] = "none"]
            /\ op' = [op EXCEPT ![t] = Detached(t)]
            /\ UNCHANGED <<claimed, lock>>
    /\ UNCHANGED <<system, attached, activeConfig, open, auto, config, probing, gone>>

\* op_attach_kernel_driver, whose result op_release_interface ignores.
Connect(t) ==
    /\ op[t].do = "connect"
    /\ LET i == op[t].i
       IN /\ driver' = IF ~gone /\ driver[i] = "none" /\ i \in Drivers \cap Present
                       THEN [driver EXCEPT ![i] = "kernel"] ELSE driver
          /\ IF op[t].then = "release"
             THEN /\ claimed' = [claimed EXCEPT ![op[t].h] = @ \ {i}]
                  /\ lock' = [lock EXCEPT ![op[t].h] = Nobody]
             ELSE UNCHANGED <<claimed, lock>>
    /\ op' = [op EXCEPT ![t] = Idle]
    /\ UNCHANGED <<system, attached, activeConfig, open, auto, config, probing, gone>>

----------------------------------------------------------------------------
(* op_reset_device.                                                        *)

Reset(t, h) ==
    /\ Calls(t, h)
    /\ "sharedReset" \notin Faults =>
          \A i \in Interface : driver[i] \notin Handle \ {h}
    /\ op' = [op EXCEPT ![t] = Doing("yield", h, 0, "return")]
    /\ UNCHANGED <<system, libVars, kernelVars>>

\* The claimed interfaces are released, one after the other, without the lock.
Yield(t) ==
    /\ op[t].do = "yield"
    /\ LET i == op[t].i
       IN IF i > LastInterface
          THEN op' = [op EXCEPT ![t].do = "reset"] /\ UNCHANGED driver
          ELSE /\ op' = [op EXCEPT ![t].i = i + 1]
               /\ driver' = IF i \in claimed[op[t].h] /\ driver[i] = op[t].h
                            THEN [driver EXCEPT ![i] = "none"] ELSE driver
    /\ UNCHANGED <<system, libVars, config, probing, gone>>

\* IOCTL_USBFS_RESET unbinds usbfs from the interfaces that it still has.
ResetIoctl(t) ==
    /\ op[t].do = "reset"
    /\ \/ /\ ~gone
          /\ "sharedReset" \notin Faults =>
                \A i \in Interface : driver[i] \notin Handle \ {op[t].h}
          /\ Locked(t, op[t].h)
          /\ driver' = [i \in Interface |-> IF driver[i] \in Handle THEN "none" ELSE driver[i]]
          /\ probing' = Drivers \cap Present
          /\ op' = [op EXCEPT ![t] = Doing("reclaim", op[t].h, 0, "return")]
       \/ /\ gone \/ "resetFails" \in Faults
          /\ lock[op[t].h] = Nobody
          /\ op' = [op EXCEPT ![t] = Idle]
          /\ UNCHANGED <<lock, driver, probing>>
    /\ UNCHANGED <<system, attached, activeConfig, open, claimed, auto, config, gone>>

\* The interfaces whose bits are set are claimed again.
Reclaim(t) ==
    /\ op[t].do = "reclaim"
    /\ LET h == op[t].h
           i == op[t].i
       IN IF i > LastInterface
          THEN /\ op' = [op EXCEPT ![t] = Idle]
               /\ lock' = [lock EXCEPT ![h] = Nobody]
          ELSE /\ op' = [op EXCEPT ![t] = IF i \in claimed[h]
                                          THEN DetachAndClaim(h, i, "reclaim")
                                          ELSE Doing("reclaim", h, i + 1, "return")]
               /\ UNCHANGED lock
    /\ UNCHANGED <<system, attached, activeConfig, open, claimed, auto, kernelVars>>

----------------------------------------------------------------------------
(* Configurations and alternate settings.                                  *)

\* A thread has changed or read the configuration and is to cache it.
Caching(c, h) == [do |-> "cache", c |-> c, h |-> h]

NoSetter == \A t \in Thread : op[t].do # "cache"

\* op_set_configuration: the kernel refuses while an interface has a driver.
SetConfiguration(t, h, c) ==
    /\ op[t] = Idle /\ h \in open
    /\ "twoSetters" \in Faults \/ NoSetter
    /\ ~gone /\ \A i \in Present : driver[i] = "none"
    /\ config' = c
    /\ probing' = IF c = Unconfigured THEN {} ELSE Drivers \cap Interfaces[c]
    /\ op' = [op EXCEPT ![t] = Caching(c, h)]
    /\ UNCHANGED <<system, libVars, driver, gone>>

\* usbfs_get_active_config: a transfer that fails counts as unconfigured.
Reported == {config, Unconfigured}

\* op_get_configuration without sysfs.
GetConfiguration(t, h) ==
    /\ op[t] = Idle /\ h \in open
    /\ ~system.sysfs /\ ("twoSetters" \in Faults \/ NoSetter)
    /\ ~gone
    /\ \E c \in Reported : op' = [op EXCEPT ![t] = Caching(c, h)]
    /\ UNCHANGED <<system, libVars, kernelVars>>

\* Mutation: the new value is not cached.
Cached_not(t) == IF op[t].c = Unconfigured THEN op[t].c ELSE activeConfig

\* The value that the cache takes.
Cached(t) == op[t].c

Cache(t) ==
    /\ op[t].do = "cache"
    /\ activeConfig' = Cached(t)
    /\ op' = [op EXCEPT ![t] = Idle]
    /\ UNCHANGED <<system, attached, open, claimed, auto, lock, kernelVars>>

\* libusb_set_interface_alt_setting looks at the bit before, not under, the ioctl.
SetInterface(t, h, i) ==
    /\ Calls(t, h) /\ lock[h] = Nobody
    /\ i \in claimed[h]
    /\ op' = [op EXCEPT ![t] = Doing("use", h, i, "return")]
    /\ UNCHANGED <<system, libVars, kernelVars>>

\* libusb_clear_halt leaves it to the kernel whose interface the endpoint is in.
ClearHalt(t, h, i) ==
    /\ Calls(t, h)
    /\ op' = [op EXCEPT ![t] = Doing("use", h, i, "return")]
    /\ UNCHANGED <<system, libVars, kernelVars>>

\* usbfs claims the interface that such an ioctl is about.
Use(t) ==
    /\ op[t].do = "use" /\ Undisturbed(op[t].i)
    /\ driver' = IF Takes(op[t].h, op[t].i) THEN [driver EXCEPT ![op[t].i] = op[t].h]
                                            ELSE driver
    /\ op' = [op EXCEPT ![t] = Idle]
    /\ UNCHANGED <<system, libVars, config, probing, gone>>

----------------------------------------------------------------------------
(* The descriptors file: at[p] is the descriptor at offset p, size what was *)
(* read of it, values the configurations of the device.                    *)

Header == 9   \* LIBUSB_DT_CONFIG_SIZE
NotFound == -1
IoError == -2

Hole == [len |-> 0, type |-> "none", value |-> 0, total |-> 0]
At(p) == IF p \in DOMAIN system.at THEN system.at[p] ELSE Hole

\* seek_to_next_descriptor: from p, the first other descriptor of that type.
Seek(type, p) ==
    LET seek[q \in Int] ==
            IF q > system.size THEN IoError
            ELSE IF q = system.size THEN NotFound
            ELSE IF q + 2 > system.size THEN IoError
            ELSE IF q # p /\ At(q).type = type THEN q - p
            ELSE seek[q + At(q).len]
    IN seek[p]

\* Mutation: the length is taken from the descriptor, as in usbfs.
SysfsLength_total(p) == At(p).total

\* How long the configuration at p is in sysfs, and in usbfs.
SysfsLength(p) ==
    LET next == Seek("config", p)
    IN IF next = NotFound THEN system.size - p ELSE next

UsbfsLength(p) ==
    IF At(p).total < Header THEN IoError
    ELSE IF At(p).total > system.size - p THEN system.size - p
    ELSE At(p).total

\* seek_to_next_config
ConfigLength(p) ==
    IF p = system.size THEN NotFound
    ELSE IF system.size - p < Header \/ At(p).type # "config" THEN IoError
    ELSE IF system.sysfs THEN SysfsLength(p) ELSE UsbfsLength(p)

\* The configurations that both lookups come by, and the error they end with.
Walk ==
    LET walk[p \in Int] ==
            LET n == ConfigLength(p)
            IN IF n < 0 THEN <<[at |-> p, len |-> n]>>
               ELSE <<[at |-> p, len |-> n]>> \o walk[p + n]
    IN walk[0]

\* op_get_config_descriptor
ByIndex(k) == IF k + 1 < Len(Walk) THEN Walk[k + 1] ELSE Last(Walk)

\* op_get_config_descriptor_by_value
ByValue(v) ==
    LET k == SelectInSeq(Walk, LAMBDA c : c.len < 0 \/ At(c.at).value = v)
    IN Walk[k]

\* sysfs_get_active_config: what bConfigurationValue says, nothing or a number.
SysfsConfig == config

\* op_get_active_config_descriptor
ActiveConfig ==
    LET c == IF system.sysfs THEN SysfsConfig ELSE activeConfig
    IN IF c = Unconfigured THEN [at |-> 0, len |-> NotFound] ELSE ByValue(c)

\* usbi_get_config_index_by_value, for num_configurations of them.
IndexOf(v, n) ==
    LET k == SelectInSeq([j \in 1..n |-> ByIndex(j - 1)],
                         LAMBDA c : c.len < 0 \/ At(c.at).value = v)
    IN IF k = 0 THEN NotFound ELSE IF ByIndex(k - 1).len < 0 THEN ByIndex(k - 1).len
       ELSE k - 1

\* What is parsed of a configuration, once its length has been read from its
\* header.
Parsed(c) ==
    IF c.len < 0 THEN c
    ELSE IF c.len < Header THEN [c EXCEPT !.len = IoError]
    ELSE IF At(c.at).total < c.len THEN [c EXCEPT !.len = At(c.at).total] ELSE c

\* libusb_get_active_config_descriptor, libusb_get_config_descriptor, and
\* libusb_get_config_descriptor_by_value, which parses all there is.
GetActive == Parsed(ActiveConfig)
GetByIndex(k, n) == IF k >= n THEN [at |-> 0, len |-> NotFound] ELSE Parsed(ByIndex(k))
GetByValue(v) == ByValue(v)

----------------------------------------------------------------------------
Library(t) ==
    \/ ClaimIoctl(t) \/ DisconnectClaimIoctl(t) \/ GetDriver(t) \/ Disconnect(t)
    \/ Connect(t) \/ Yield(t) \/ ResetIoctl(t) \/ Reclaim(t) \/ Cache(t) \/ Use(t)

Call(t, h) ==
    \/ Open(t, h) \/ Close(t, h) \/ SetAuto(t, h) \/ Reset(t, h)
    \/ GetConfiguration(t, h)
    \/ \E c \in DOMAIN Interfaces \cup {Unconfigured} : SetConfiguration(t, h, c)
    \/ \E i \in Interface :
          \/ Claim(t, h, i) \/ Release(t, h, i) \/ Detach(t, h, i) \/ Attach(t, h, i)
          \/ SetInterface(t, h, i) \/ ClearHalt(t, h, i)

Kernel == Unplug \/ Disconnected \/ \E i \in Interface : KernelBinds(i)

Next == Kernel \/ \E t \in Thread : Library(t) \/ \E h \in Handle : Call(t, h)

Spec == Init /\ [][Next]_vars

----------------------------------------------------------------------------
(* Properties.                                                             *)

TypeOK ==
    /\ system \in Systems
    /\ attached \in BOOLEAN /\ gone \in BOOLEAN
    /\ config \in DOMAIN Interfaces \cup {Unconfigured}
    /\ activeConfig \in DOMAIN Interfaces \cup {Unconfigured}
    /\ open \subseteq Handle
    /\ claimed \in [Handle -> SUBSET Interface] /\ auto \in [Handle -> BOOLEAN]
    /\ lock \in [Handle -> Thread \cup {Nobody}]
    /\ driver \in [Interface -> {"none", "kernel"} \cup Handle]
    /\ probing \subseteq Drivers

\* A thread is resetting the device through h, or gives an interface back.
Yielding(h) ==
    \E t \in Thread :
        /\ op[t].do # "none" /\ op[t].h = h
        /\ \/ op[t].do \in {"yield", "reset", "reclaim"}
           \/ op[t].do \in {"claim", "disconnectClaim", "getDriver", "disconnect"}
              /\ op[t].then = "reclaim"
           \/ op[t].do = "connect" /\ op[t].then = "release"

\* An interface that core.c holds to be claimed by a handle is claimed by it:
\* its transfers go to this interface and to no other driver's, whatever a
\* reset, another handle or the kernel's drivers did in between.
ClaimedIsOwned ==
    \A h \in open : gone \/ Yielding(h) \/ \A i \in claimed[h] : driver[i] = h

\* No call through one handle takes an interface that another one has claimed:
\* core.c documents of detaching that "if this driver [usbfs] is already
\* attached to the device, this call will not detach it".
ClaimsKept ==
    [][\A h \in Handle, i \in Interface :
          i \in claimed[h] /\ driver[i] = h /\ driver'[i] # h =>
              gone' \/ i \notin claimed'[h] \/ Yielding(h)']_vars

\* The descriptor of the active configuration is the one of the configuration
\* that the device is in, found in the file as sysfs or usbfs lays it out.
ActiveIsFound ==
    NoSetter /\ ~gone /\ GetActive.len >= 0 => At(GetActive.at).value = config

\* Looking a configuration up by its index and by its value leads to the same
\* bytes, all of them in the file, and to every configuration of the system.
LookupsAgree ==
    LET n == Len(system.values)
    IN \A k \in 1..n :
          LET c == GetByIndex(k - 1, n)
              v == system.values[k]
          IN /\ c.len >= Header /\ At(c.at).value = v
             /\ c.at + c.len <= system.size
             /\ GetByValue(v).at = c.at /\ GetByValue(v).len >= c.len
             /\ IndexOf(v, n) = k - 1

\* Every way of asking for a configuration leads to that configuration.
ConfigurationsFound == ActiveIsFound /\ LookupsAgree
============================================================================
