---------------------------- MODULE UnixBackends ----------------------------
(***************************************************************************)
(* Handles, interfaces and transfers of one device on macOS (darwin_usb.c) *)
(* and the BSDs (openbsd_usb.c, netbsd_usb.c). On macOS the handles share  *)
(* the open count of a cached device and a transfer is asynchronous; on    *)
(* the BSDs they share one file descriptor, each endpoint has a file of    *)
(* its own and submitting a transfer is carrying it out.                   *)
(***************************************************************************)
EXTENDS Integers, FiniteSets

CONSTANTS
    Handle,         \* handles of the device
    Transfer,       \* transfers
    Kind,           \* [type, itf, out, zero] of each; itf is -1 for control
    LastInterface,  \* bound: interfaces are 0..LastInterface, with one endpoint each
    Has,            \* the interfaces of configurations 0 (none), 1 (the first) and 2
    Alternates,     \* the interfaces with a second alternate setting
    LastFd,         \* bound: descriptors are 0..LastFd
    Backends,       \* which of "darwin", "openbsd", "netbsd"
    None,
    Faults          \* circumstances that a backend does not cope with, see the
                    \* definitions that name them

Interface == 0..LastInterface
Fd == 0..LastFd
Types == {"control", "bulk", "interrupt", "iso", "stream"}

ASSUME ConstantsAssumption ==
    /\ LastInterface \in Nat /\ LastFd \in Nat
    /\ Kind \in [Transfer -> [type : Types, itf : -1..LastInterface,
                             out : BOOLEAN, zero : BOOLEAN]]
    /\ \A t \in Transfer : Kind[t].type = "control" <=> Kind[t].itf = -1
    /\ Has \in [0..2 -> SUBSET Interface] /\ Has[0] = {} /\ Has[1] # {}
    /\ Alternates \subseteq Interface
    /\ Backends \subseteq {"darwin", "openbsd", "netbsd"}
    /\ None \notin Handle \cup Transfer

VARIABLES
    backend,
    ugen,       \* openbsd: the device has a ugen(4) driver, dpriv->devname
    open,       \* open handles
    claimed,    \* core.c: claimed_interfaces
    alt,        \* interfaces whose second alternate setting is selected
    told,       \*   and those where the program was told that it is
    config,     \* the device's configuration
    active,     \* what the backend has cached of it: active_config, cdesc
    fd,         \* BSD: dpriv->fd, one for the device
    file,       \* BSD: what each descriptor of the process is open on
    limit,      \* BSD: the transfer whose timeout was last set on it
    endpoints,  \* BSD: hpriv->endpoints, for each handle and interface
    count,      \* darwin: open_count
    isOpen,     \* darwin: handles with is_open
    source,     \* darwin: handles with a cfSource
    itf,        \* darwin: "none", "object" (not open) or "ready"
    freed,      \* darwin: where cfSource is a pointer to a freed one
    owner,      \* darwin: the handle that has each interface open in the system
    harm,       \* darwin: "leak" (an object held that nothing refers to), "twice" (freed)
    tr,         \* transfers
    io,         \* the system's request for each, until its completion is handled
    asked,      \* transfers that were cancelled
    result      \* what the last completion of a transfer reported

bsd == <<fd, file, limit, endpoints>>
darwin == <<count, isOpen, source, itf, freed, owner, harm>>
transfers == <<tr, io, asked, result>>
settings == <<alt, told>>
vars == <<backend, ugen, open, claimed, settings, config, active, bsd, darwin, transfers>>

Unused == [pc |-> "idle", h |-> None, fd |-> -1]

\* What a descriptor is open on
File(of, h, i) == [of |-> of, h |-> h, itf |-> i]
NoFile == File("nothing", None, -1)
Stdin == File("stdin", None, -1)
DeviceFile(h) == File("device", h, -1)
EndpointFile(h, i) == File("endpoint", h, i)

\* darwin_check_configuration: a device with interfaces is configured.
Configured(c) == IF Has[c] = {} THEN 0 ELSE c

Init ==
    /\ backend \in Backends
    /\ ugen \in IF backend = "openbsd" THEN BOOLEAN ELSE {TRUE}
    /\ open = {} /\ claimed = [h \in Handle |-> {}]
    /\ alt = {} /\ told = {}
    /\ config \in IF backend = "darwin" THEN {0, 1} ELSE {1}
    /\ active = Configured(config)
    /\ fd = -1 /\ limit = [k \in Fd |-> None]
    /\ file = [k \in Fd |-> IF k = 0 THEN Stdin ELSE NoFile]
    /\ endpoints = [h \in Handle |-> [i \in Interface |-> 0]]
    /\ count = 0 /\ isOpen = {} /\ source = {}
    /\ itf = [h \in Handle |-> [i \in Interface |-> "none"]]
    /\ freed = [h \in Handle |-> {}] /\ harm = {}
    /\ owner = [i \in Interface |-> None]
    /\ tr = [t \in Transfer |-> Unused]
    /\ io = [t \in Transfer |-> "none"]
    /\ asked = {} /\ result = [t \in Transfer |-> "idle"]

Darwin == backend = "darwin"
Control(t) == Kind[t].type = "control"
Busy(h) == {t \in Transfer : tr[t].pc # "idle" /\ tr[t].h = h}
Pending == {t \in Transfer : io[t] = "pending"}

FreeFds == {k \in Fd : file[k] = NoFile}
FirstFree == CHOOSE k \in FreeFds : \A j \in FreeFds : k <= j

----------------------------------------------------------------------------
(* Opening and closing.                                                    *)

\* The device is seized, or another process has it: that is no error. Without an
\* event source the handle is of no use.
DarwinOpen(h) ==
    IF count > 0 THEN {[ok |-> TRUE, isOpen |-> isOpen, source |-> source]}
    ELSE {[ok |-> TRUE, isOpen |-> isOpen \cup s, source |-> source \cup {h}] :
             s \in {{}, {h}}}
            \cup {[ok |-> FALSE, isOpen |-> isOpen, source |-> source]}

\* Only a ugen(4) device has a node; the number of another handle's file is lost.
ObsdOpen(h) ==
    IF ~ugen THEN UNCHANGED <<fd, file>>
    ELSE fd' = FirstFree /\ file' = [file EXCEPT ![FirstFree] = DeviceFile(h)]

NetbsdOpen(h) == fd' = FirstFree /\ file' = [file EXCEPT ![FirstFree] = DeviceFile(h)]

\* os_priv of a handle is zeroed. Fault "second open": of one device, on a BSD.
OpenHandle(h) ==
    /\ h \notin open
    /\ IF Darwin
       THEN \E r \in DarwinOpen(h) :
            /\ isOpen' = r.isOpen /\ source' = r.source
            /\ count' = IF r.ok THEN count + 1 ELSE count
            /\ open' = IF r.ok THEN open \cup {h} ELSE open
            /\ UNCHANGED <<fd, file, endpoints>>
       ELSE /\ open = {} \/ "second open" \in Faults
            /\ FreeFds # {}
            /\ IF backend = "openbsd" THEN ObsdOpen(h) ELSE NetbsdOpen(h)
            /\ open' = open \cup {h}
            /\ endpoints' = [endpoints EXCEPT ![h] = [i \in Interface |-> 0]]
            /\ UNCHANGED <<count, isOpen, source>>
    /\ UNCHANGED <<backend, ugen, claimed, settings, config, active, limit,
                   itf, freed, owner, harm, transfers>>

\* The program releases what it claimed on a BSD (fault "close claimed").
ObsdClose == IF ugen THEN file' = [k \in Fd |-> IF k = fd THEN NoFile ELSE file[k]] /\ fd' = -1
                     ELSE UNCHANGED <<fd, file>>
NetbsdClose == file' = [k \in Fd |-> IF k = fd THEN NoFile ELSE file[k]] /\ fd' = -1

\* darwin_release_interface, for the interfaces S of h that have an object: a source
\* is freed and its pointer left as it was, to be freed again with an object that
\* never got one.
Objects(h, S) == {i \in S : itf[h][i] # "none"}
Twice(h, S) ==
    IF \E i \in S : itf[h][i] = "object" /\ i \in freed[h] THEN {"twice"} ELSE {}
Disowned(h, S) ==
    [i \in Interface |-> IF i \in Objects(h, S) /\ owner[i] = h THEN None ELSE owner[i]]

DarwinRelease(h, S) ==
    /\ itf' = [itf EXCEPT ![h] = [i \in Interface |-> IF i \in S THEN "none" ELSE itf[h][i]]]
    /\ owner' = Disowned(h, S)
    /\ freed' = [freed EXCEPT ![h] = @ \cup Objects(h, S)]
    /\ harm' = harm \cup Twice(h, S)

\* Only the handle that opened the device can let it go, if it is the last to close
\* (fault "first closes early"). The handle is freed with its interfaces' table.
LastCloses_never == FALSE
LastCloses == count = 1

DarwinClose(h) ==
    /\ count' = count - 1
    /\ itf' = [itf EXCEPT ![h] = [i \in Interface |-> "none"]]
    /\ owner' = Disowned(h, claimed[h])
    /\ freed' = [freed EXCEPT ![h] = {}]
    /\ IF LastCloses THEN source' = source \ {h} /\ isOpen' = isOpen \ {h}
                     ELSE UNCHANGED <<source, isOpen>>
    /\ harm' = harm \cup Twice(h, claimed[h]) \cup
               IF h \in source' \/ Objects(h, Interface \ claimed[h]) # {} THEN {"leak"} ELSE {}

CloseHandle(h) ==
    /\ h \in open /\ Busy(h) = {}
    /\ IF Darwin
       THEN /\ count = 1 \/ h \notin source \/ "first closes early" \in Faults
            /\ DarwinClose(h)
            /\ UNCHANGED <<fd, file>>
       ELSE /\ claimed[h] = {} \/ "close claimed" \in Faults
            /\ IF backend = "openbsd" THEN ObsdClose ELSE NetbsdClose
            /\ UNCHANGED darwin
    /\ open' = open \ {h} /\ claimed' = [claimed EXCEPT ![h] = {}]
    /\ UNCHANGED <<backend, ugen, settings, config, active, limit, endpoints, transfers>>

----------------------------------------------------------------------------
(* Configurations and interfaces. The program has no transfer in flight    *)
(* when it sets a configuration.                                           *)

Lowest(S) == CHOOSE i \in S : \A j \in S : i <= j

\* The interfaces of the other handles go with the configuration.
OthersGone(h) == [i \in Interface |-> IF owner[i] = h THEN h ELSE None]

\* darwin_set_configuration releases what h has claimed, and claims it again. An
\* interface that c does not have makes the claim set the first configuration: all
\* are claimed there, and then claimed again over the objects they have.
Reclaimed(h, c) ==
    IF claimed[h] \subseteq Has[c]
    THEN [config |-> c, harm |-> {},
          itf |-> [i \in Interface |-> IF i \in claimed[h] THEN "ready" ELSE itf[h][i]]]
    ELSE [config |-> 1, harm |-> {"leak"},
          itf |-> [i \in Interface |->
                     IF i \notin claimed[h] THEN itf[h][i]
                     ELSE IF i < Lowest(claimed[h] \ Has[c]) THEN "ready" ELSE "object"]]

\* The value asked for is cached.
Cached_first(c) == 1
Cached(c) == c

DarwinSetConfiguration(h, c) ==
    \/ /\ claimed[h] \subseteq Has[c] \/ "missing interface" \in Faults
       /\ LET r == Reclaimed(h, c) IN
          /\ config' = r.config
          /\ itf' = [itf EXCEPT ![h] = r.itf]
          /\ harm' = harm \cup Twice(h, claimed[h]) \cup r.harm
          /\ owner' = [i \in Interface |-> IF i \in claimed[h] THEN h ELSE OthersGone(h)[i]]
          /\ freed' = [freed EXCEPT ![h] = @ \ claimed[h]]
       /\ active' = Cached(c)
    \/ /\ claimed[h] = {} \/ "configuration refused" \in Faults
       /\ DarwinRelease(h, claimed[h])
       /\ UNCHANGED <<config, active>>

\* The descriptor is cached again; if that fails (fault "cache fails") the old one stays.
CacheActive(c) == active' = Cached(c) \/ ("cache fails" \in Faults /\ UNCHANGED active)

ObsdSetConfiguration(c) ==
    /\ ugen
    /\ (config' = c /\ CacheActive(c))
NetbsdSetConfiguration(c) == config' = c /\ CacheActive(c)

\* Fault "shared configuration": another handle has interfaces.
SetConfiguration(h, c) ==
    /\ h \in open /\ \A x \in Handle : Busy(x) = {}
    /\ "shared configuration" \in Faults \/ \A x \in open \ {h} : claimed[x] = {}
    /\ IF Darwin THEN DarwinSetConfiguration(h, c) /\ UNCHANGED <<count, isOpen, source>>
       ELSE /\ claimed[h] = {}
            /\ IF backend = "openbsd" THEN ObsdSetConfiguration(c) ELSE NetbsdSetConfiguration(c)
            /\ UNCHANGED darwin
    /\ alt' = IF config' # config THEN {} ELSE alt
    /\ told' = IF config' # config THEN {} ELSE told
    /\ UNCHANGED <<backend, ugen, open, claimed, bsd, transfers>>

\* get_configuration
DarwinConfiguration == active
ObsdConfiguration == active
NetbsdConfiguration == config
GetConfiguration == CASE backend = "darwin" -> DarwinConfiguration
                      [] backend = "openbsd" -> ObsdConfiguration
                      [] backend = "netbsd" -> NetbsdConfiguration

\* get_active_config_descriptor, for every handle.
DarwinActive == active
ObsdActive == active
NetbsdActive == active
ActiveConfig == CASE backend = "darwin" -> DarwinActive
                  [] backend = "openbsd" -> ObsdActive
                  [] backend = "netbsd" -> NetbsdActive

\* darwin_get_interface: the first configuration is set if the current one has no
\* such interface (fault "missing interface", unless there is no configuration).
Found(h, i) ==
    IF i \in Has[config] THEN UNCHANGED <<config, active>>
    ELSE /\ config = 0 \/ "missing interface" \in Faults
         /\ config' = 1 /\ active' = 1

\* The claim, once the interface is found: it is opened, unless a driver or another
\* handle has it (fault "claim refused"), and its endpoints (get_endpoints, fault
\* "endpoints fail") and source are made, or it is closed again.
GetEndpoints(h, i) == "endpoints fail" \in Faults

Opened(h, i) ==
    /\ owner[i] = None
    /\ \E ok \in BOOLEAN :
        /\ itf' = [itf EXCEPT ![h][i] = IF ok THEN "ready" ELSE "none"]
        /\ owner' = IF ok THEN [owner EXCEPT ![i] = h] ELSE owner
        /\ claimed' = IF ok THEN [claimed EXCEPT ![h] = @ \cup {i}] ELSE claimed
    /\ \/ /\ freed' = [freed EXCEPT ![h] = @ \ {i}]
          /\ harm' = harm \cup (IF itf[h][i] = "object" THEN {"leak"} ELSE {})
       \/ GetEndpoints(h, i) /\ itf'[h][i] = "none" /\ i \in freed[h]
          /\ harm' = harm \cup {"twice"} /\ UNCHANGED freed

NotOpened(h, i) ==
    /\ "claim refused" \in Faults
    /\ itf' = [itf EXCEPT ![h][i] = "object"]
    /\ harm' = harm \cup IF itf[h][i] = "object" THEN {"leak"} ELSE {}
    /\ UNCHANGED <<owner, freed, claimed>>

DarwinClaim(h, i) == Found(h, i) /\ i \in Has[config'] /\ (Opened(h, i) \/ NotOpened(h, i))

\* A claim forgets the files of all endpoints (fault "several interfaces").
ObsdClaim(h) == endpoints' = [endpoints EXCEPT ![h] = [i \in Interface |-> -1]]
NetbsdClaim_kept(h) == UNCHANGED endpoints
NetbsdClaim(h) == endpoints' = [endpoints EXCEPT ![h] = [i \in Interface |-> -1]]

Claim(h, i) ==
    /\ h \in open /\ i \notin claimed[h]
    /\ IF Darwin
       THEN DarwinClaim(h, i) /\ UNCHANGED <<endpoints, count, isOpen, source>>
       ELSE /\ claimed[h] = {} \/ "several interfaces" \in Faults
            /\ IF backend = "openbsd" THEN ObsdClaim(h) ELSE NetbsdClaim(h)
            /\ claimed' = [claimed EXCEPT ![h] = @ \cup {i}]
            /\ UNCHANGED <<config, active, darwin>>
    /\ UNCHANGED <<backend, ugen, open, settings, fd, file, limit, transfers>>

\* The files of all endpoints are closed; their numbers stay.
Numbers(h) == {endpoints[h][i] : i \in Interface} \ {-1}
Closed(h) == [k \in Fd |-> IF k \in Numbers(h) THEN NoFile ELSE file[k]]
ObsdRelease(h) == file' = Closed(h)
NetbsdRelease(h) == file' = Closed(h)

\* The program's transfers on the interface have ended.
Release(h, i) ==
    /\ h \in open /\ i \in claimed[h]
    /\ \A t \in Busy(h) : Kind[t].itf # i
    /\ IF Darwin
       THEN DarwinRelease(h, {i}) /\ UNCHANGED <<file, count, isOpen, source>>
       ELSE /\ IF backend = "openbsd" THEN ObsdRelease(h) ELSE NetbsdRelease(h)
            /\ UNCHANGED darwin
    /\ claimed' = [claimed EXCEPT ![h] = @ \ {i}]
    /\ UNCHANGED <<backend, ugen, open, settings, config, active, fd, limit,
                   endpoints, transfers>>

SetTr(t, r) == tr' = [tr EXCEPT ![t] = r]
NotTransfers == UNCHANGED <<backend, ugen, open, claimed, settings, config, active, darwin>>
Abort(S) == io' = [t \in Transfer |-> IF t \in S \cap Pending THEN "aborted" ELSE io[t]]

\* What a call that selects a setting may come to, in the device and for the program.
Selected(S, i, second) == IF second THEN S \cup {i} ELSE S \ {i}
Honest(i, second) == {[alt |-> alt, told |-> told],
                      [alt |-> Selected(alt, i, second), told |-> Selected(told, i, second)]}

\* If the device refuses it is reset, and what is reported is how the table of
\* endpoints was made again (fault "setting refused").
DarwinSetAlt(i, second) ==
    {[alt |-> Selected(alt, i, second), told |-> Selected(told, i, second)]}
        \cup IF "setting refused" \in Faults
             THEN {[alt |-> alt, told |-> Selected(told, i, second)]} ELSE {}
ObsdSetAlt(i, second) == IF ugen THEN Honest(i, second) ELSE {[alt |-> alt, told |-> told]}
NetbsdSetAlt(i, second) == Honest(i, second)

SetAltSetting(h, i, second) ==
    /\ h \in open /\ i \in claimed[h] \cap Alternates /\ Busy(h) = {}
    /\ \E r \in CASE Darwin -> DarwinSetAlt(i, second)
                   [] backend = "openbsd" -> ObsdSetAlt(i, second)
                   [] backend = "netbsd" -> NetbsdSetAlt(i, second) :
        alt' = r.alt /\ told' = r.told
    /\ UNCHANGED <<backend, ugen, open, claimed, config, active, bsd, darwin, transfers>>

\* ResetDevice, after which the descriptors are compared; the BSDs have none.
DarwinReset == \E S \in SUBSET Pending : Abort(S)

Reset(h) ==
    /\ Darwin /\ h \in open
    /\ DarwinReset
    /\ UNCHANGED <<bsd, tr, asked, result>> /\ NotTransfers

----------------------------------------------------------------------------
(* Submission: core.c holds the transfer's lock.                           *)

\* The program has claimed the interface (fault "unclaimed"). Fault "shared file": two
\* transfers of a BSD at once that use one file.
SubmitStart(t, h) ==
    /\ tr[t].pc = "idle" /\ h \in open
    /\ Control(t) \/ Kind[t].itf \in claimed[h] \/ "unclaimed" \in Faults
    /\ Kind[t].type # "stream" \/ ~Darwin \/ "streams" \in Faults
    /\ Darwin => ~(Control(t) /\ Kind[t].zero) \/ "control zero" \in Faults
    /\ Darwin \/ "shared file" \in Faults \/ \A u \in Busy(h) : Kind[u].itf # Kind[t].itf
    /\ SetTr(t, [Unused EXCEPT !.pc = "listed", !.h = h])
    /\ asked' = asked \ {t}
    /\ result' = [result EXCEPT ![t] = "flying"]
    /\ UNCHANGED <<bsd, io>> /\ NotTransfers

Refused(t) ==
    /\ SetTr(t, Unused)
    /\ result' = [result EXCEPT ![t] = "idle"]
    /\ UNCHANGED <<asked, io>>

\* ep_to_pipeRef
EpToPipeRef(h, i) == i \in claimed[h] /\ itf[h][i] = "ready"

\* What the submission functions of each type need, beside the system's consent.
DarwinControl(t) == TRUE
DarwinBulk(t) == EpToPipeRef(tr[t].h, Kind[t].itf)
DarwinStream(t) == EpToPipeRef(tr[t].h, Kind[t].itf)
DarwinIso(t) == EpToPipeRef(tr[t].h, Kind[t].itf)
DarwinSubmits(t) ==
    CASE Kind[t].type = "control" -> DarwinControl(t)
      [] Kind[t].type \in {"bulk", "interrupt"} -> DarwinBulk(t)
      [] Kind[t].type = "iso" -> DarwinIso(t)
      [] Kind[t].type = "stream" -> DarwinStream(t)

DarwinSubmit(t) ==
    /\ Darwin /\ tr[t].pc = "listed"
    /\ \/ DarwinSubmits(t) /\ io' = [io EXCEPT ![t] = "pending"]
          /\ SetTr(t, [tr[t] EXCEPT !.pc = "started"]) /\ UNCHANGED <<result, asked>>
       \/ Refused(t)
    /\ UNCHANGED bsd /\ NotTransfers

\* Submission is over; the callback may have come first.
Started(t) ==
    /\ tr[t].pc = "started"
    /\ SetTr(t, [tr[t] EXCEPT !.pc = "in_flight"])
    /\ UNCHANGED <<bsd, io, asked, result>> /\ NotTransfers

\* The BSDs' submit_transfer: what they do not support.
Unsupported(t) ==
    \/ Kind[t].type = "stream"
    \/ Kind[t].out /\ (Kind[t].type = "iso" \/ (Kind[t].zero /\ ~Control(t)))
ObsdUnsupported(t) == Unsupported(t) \/ (~ugen /\ ~Control(t))
NetbsdUnsupported(t) == Unsupported(t)

\* _access_endpoint: the file is opened for the first transfer.
Endpoint(t) == endpoints[tr[t].h][Kind[t].itf]

ObsdAccess(t) ==
    IF Endpoint(t) >= 0
    THEN /\ SetTr(t, [tr[t] EXCEPT !.pc = "timeout", !.fd = Endpoint(t)])
         /\ UNCHANGED <<file, endpoints>>
    ELSE /\ FreeFds # {}
         /\ file' = [file EXCEPT ![FirstFree] = EndpointFile(tr[t].h, Kind[t].itf)]
         /\ endpoints' = [endpoints EXCEPT ![tr[t].h][Kind[t].itf] = FirstFree]
         /\ SetTr(t, [tr[t] EXCEPT !.pc = "timeout", !.fd = FirstFree])
NetbsdAccess(t) == ObsdAccess(t)

\* A control transfer has the device's file, or the bus' for the time of the request.
ObsdControl(t) ==
    /\ IF ugen
       THEN /\ SetTr(t, [tr[t] EXCEPT !.pc = "timeout", !.fd = fd])
            /\ UNCHANGED io
       ELSE /\ SetTr(t, [tr[t] EXCEPT !.pc = "request"])
            /\ io' = [io EXCEPT ![t] = "pending"]
    /\ UNCHANGED <<file, endpoints>>
NetbsdControl(t) ==
    SetTr(t, [tr[t] EXCEPT !.pc = "timeout", !.fd = fd]) /\ UNCHANGED <<io, file, endpoints>>

BsdSubmit(t) ==
    /\ ~Darwin /\ tr[t].pc = "listed"
    /\ \/ /\ IF backend = "openbsd" THEN ~ObsdUnsupported(t) ELSE ~NetbsdUnsupported(t)
          /\ CASE Control(t) /\ backend = "openbsd" -> ObsdControl(t)
               [] Control(t) /\ backend = "netbsd" -> NetbsdControl(t)
               [] ~Control(t) /\ backend = "openbsd" -> ObsdAccess(t) /\ UNCHANGED io
               [] ~Control(t) /\ backend = "netbsd" -> NetbsdAccess(t) /\ UNCHANGED io
          /\ UNCHANGED <<result, asked>>
       \/ Refused(t) /\ UNCHANGED <<file, endpoints>>
    /\ UNCHANGED <<fd, limit>> /\ NotTransfers

\* USB_SET_TIMEOUT, which fails if the file is not open.
SetTimeout(t) ==
    /\ tr[t].pc = "timeout"
    /\ \/ /\ tr[t].fd # -1 /\ file[tr[t].fd] # NoFile
          /\ limit' = [limit EXCEPT ![tr[t].fd] = t]
          /\ io' = [io EXCEPT ![t] = "pending"]
          /\ SetTr(t, [tr[t] EXCEPT !.pc = "request"])
          /\ UNCHANGED <<result, asked>>
       \/ Refused(t) /\ UNCHANGED limit
    /\ UNCHANGED <<fd, file, endpoints>> /\ NotTransfers

\* USB_DO_REQUEST, read or write return, also when the timeout has passed.
Request(t) ==
    /\ tr[t].pc = "request"
    /\ \/ io' = [io EXCEPT ![t] = "ok"] /\ SetTr(t, [tr[t] EXCEPT !.pc = "in_flight"])
          /\ UNCHANGED <<result, asked>>
       \/ /\ io' = [io EXCEPT ![t] = "none"] /\ SetTr(t, Unused)
          /\ result' = [result EXCEPT ![t] = "idle"] /\ UNCHANGED asked
    /\ UNCHANGED bsd /\ NotTransfers

----------------------------------------------------------------------------
(* The system's callbacks, cancellation and completion.                    *)

\* darwin_async_io_callback keeps the result and signals the transfer. The system
\* keeps the time of control and bulk transfers.
AsyncIoCallback(t) ==
    /\ Darwin /\ io[t] = "pending"
    /\ \E r \in {"ok", "failed", "stalled", "timeout"} :
        /\ r = "timeout" => Kind[t].type \in {"control", "bulk"}
        /\ io' = [io EXCEPT ![t] = r]
    /\ UNCHANGED <<bsd, tr, asked, result>> /\ NotTransfers

\* All control transfers of the device are aborted, ...
CancelControl(t) == Abort({u \in Transfer : Control(u)})

\* ... or all transfers of the pipe, ...
AbortTransfers_not(t) == UNCHANGED io
AbortTransfers(t) ==
    IF EpToPipeRef(tr[t].h, Kind[t].itf)
    THEN Abort({u \in Busy(tr[t].h) : Kind[u].itf = Kind[t].itf})
    ELSE UNCHANGED io

\* ... but no stream's.
DarwinCancel(t) == CASE Control(t) -> CancelControl(t)
                     [] Kind[t].type = "stream" -> UNCHANGED io
                     [] OTHER -> AbortTransfers(t)
ObsdCancel(t) == UNCHANGED io
NetbsdCancel(t) == UNCHANGED io

\* libusb_cancel_transfer, also for a timeout, needs the transfer's lock.
Cancel(t) ==
    /\ tr[t].pc = "in_flight" /\ t \notin asked
    /\ CASE Darwin -> DarwinCancel(t)
         [] backend = "openbsd" -> ObsdCancel(t)
         [] backend = "netbsd" -> NetbsdCancel(t)
    /\ asked' = asked \cup {t}
    /\ UNCHANGED <<bsd, tr, result>> /\ NotTransfers

\* darwin_transfer_status; an overrun is among the errors, and what libusb
\* aborts for its own timeout among the cancelled: only the status differs.
DarwinStatus == [ok |-> "completed", aborted |-> "cancelled", stalled |-> "stall",
                 timeout |-> "timed_out", failed |-> "error", pending |-> "error"]
ObsdStatus == "completed"
NetbsdStatus == "completed"
Status(t) == CASE Darwin -> DarwinStatus[io[t]]
               [] backend = "openbsd" -> ObsdStatus
               [] backend = "netbsd" -> NetbsdStatus

\* handle_transfer_completion; a stream's completion is refused, and forgotten.
Done_early(t) == io[t] # "none"
Done(t) == io[t] \notin {"none", "pending"}

HandleCompletion(t) ==
    /\ tr[t].pc = "in_flight" /\ Done(t)
    /\ io' = [io EXCEPT ![t] = IF io[t] = "pending" THEN "pending" ELSE "none"]
    /\ IF Darwin /\ Kind[t].type = "stream" THEN UNCHANGED <<tr, result>>
       ELSE SetTr(t, Unused) /\ result' = [result EXCEPT ![t] = Status(t)]
    /\ UNCHANGED <<bsd, asked>> /\ NotTransfers

----------------------------------------------------------------------------
Submission(t) == DarwinSubmit(t) \/ Started(t) \/ BsdSubmit(t) \/ SetTimeout(t)

Next ==
    \/ \E h \in Handle : OpenHandle(h) \/ CloseHandle(h) \/ Reset(h)
    \/ \E h \in Handle, i \in Interface, second \in BOOLEAN : SetAltSetting(h, i, second)
    \/ \E h \in Handle, c \in 1..2 : SetConfiguration(h, c)
    \/ \E h \in Handle, i \in Interface : Claim(h, i) \/ Release(h, i)
    \/ \E t \in Transfer, h \in Handle : SubmitStart(t, h)
    \/ \E t \in Transfer : \/ Submission(t) \/ Request(t) \/ AsyncIoCallback(t)
                            \/ Cancel(t) \/ HandleCompletion(t)

Spec == Init /\ [][Next]_vars

\* Threads go on with what they do; a request need not end unless it is aborted.
LiveSpec ==
    /\ Spec
    /\ \A t \in Transfer : WF_vars(Submission(t)) /\ WF_vars(HandleCompletion(t))

----------------------------------------------------------------------------
(* Properties.                                                             *)

TransferState == [pc : {"idle", "listed", "started", "timeout", "request", "in_flight"},
                  h : Handle \cup {None}, fd : Fd \cup {-1}]
FileState == [of : {"nothing", "stdin", "device", "endpoint"},
              h : Handle \cup {None}, itf : -1..LastInterface]
Requests == {"none", "pending", "aborted", "ok", "failed", "stalled", "timeout"}
Statuses == {"completed", "cancelled", "stall", "timed_out", "error"}

TypeOK ==
    /\ backend \in Backends /\ ugen \in BOOLEAN
    /\ open \subseteq Handle
    /\ claimed \in [Handle -> SUBSET Interface]
    /\ alt \subseteq Interface /\ told \subseteq Interface
    /\ config \in 0..2 /\ active \in 0..2
    /\ fd \in Fd \cup {-1}
    /\ file \in [Fd -> FileState]
    /\ limit \in [Fd -> Transfer \cup {None}]
    /\ endpoints \in [Handle -> [Interface -> Fd \cup {-1}]]
    /\ count \in Nat
    /\ isOpen \subseteq Handle /\ source \subseteq Handle
    /\ itf \in [Handle -> [Interface -> {"none", "object", "ready"}]]
    /\ freed \in [Handle -> SUBSET Interface]
    /\ owner \in [Interface -> Handle \cup {None}]
    /\ harm \subseteq {"leak", "twice"}
    /\ tr \in [Transfer -> TransferState]
    /\ io \in [Transfer -> Requests]
    /\ asked \subseteq Transfer
    /\ result \in [Transfer -> {"idle", "flying"} \cup Statuses]

\* A request goes to the file or pipe of the transfer's own endpoint, under its
\* own timeout, and the pipe is there for a zero packet after it: whatever was
\* claimed, released and opened again since, and although numbers are reused.
RequestsGoRight ==
    \A t \in Transfer : io[t] = "pending" =>
        LET h == tr[t].h
            i == Kind[t].itf
        IN IF Darwin
           THEN ~Control(t) \/ (Kind[t].out /\ Kind[t].zero)
                   => EpToPipeRef(h, i) /\ owner[i] = h
           ELSE ~ugen \/ /\ limit[tr[t].fd] = t
                         /\ file[tr[t].fd] = IF Control(t) THEN DeviceFile(h)
                                             ELSE EndpointFile(h, i)

\* When the program has closed every handle nothing is left open, and nothing was
\* lost or freed twice on the way.
NothingLeft ==
    /\ harm = {}
    /\ open = {} => /\ \A k \in Fd \ {0} : file[k] = NoFile
                    /\ source = {} /\ isOpen = {} /\ count = 0
                    /\ \A i \in Interface : owner[i] = None
    /\ file[0] = Stdin

\* What a handle has claimed it has, in the configuration that the device is
\* known to be in, with the setting that the program was told it has.
ClaimsKnown ==
    /\ told = alt
    /\ GetConfiguration = config /\ ActiveConfig = config
    /\ Darwin => \A h \in open, i \in Interface :
        /\ i \in claimed[h] <=> owner[i] = h
        /\ i \in claimed[h] => itf[h][i] = "ready" /\ i \in Has[config]

\* A handle is what the program takes it to be, from open to the last close.
HandlesSound == ClaimsKnown /\ NothingLeft

\* What io.c relies on.
Backend == INSTANCE TransferBackend WITH
    outcome <- result,
    held <- Pending

\* A transfer is reported once, when the system has let go of its buffer.
ImplementsBackend == Backend!Spec

\* A cancelled transfer ends.
CancelEnds ==
    \A t \in Transfer : (tr[t].pc = "in_flight" /\ t \in asked) ~> tr[t].pc = "idle"
============================================================================
