# A specification of zerousb and of the libusb it bundles

zerousb is a Go package (`src/device.go`, `src/libusb.go`) around a bundled copy
of libusb (`src/libusb/libusb`).  `src/imports.go` compiles the core of libusb
(`core.c`, `io.c`, `sync.c`, `hotplug.c`, `descriptor.c`, `strerror.c`) into the
package together with the backend of the system:

* Linux: `linux_usbfs.c`, `linux_netlink.c`, POSIX threads and poll;
* macOS: `darwin_usb.c`, POSIX threads and poll;
* Windows: `windows_nt_common.c`, `windows_winusb.c`, `windows_usbdk.c` and
  their threads and poll;
* OpenBSD: `openbsd_usb.c` is named there, but behind a macro (`DOS_OPENBSD`)
  that no flag defines; FreeBSD uses the libusb of the system.

`USBI_TIMERFD_AVAILABLE` is not defined by that build, and `linux_udev.c`,
`netbsd_usb.c` and the backends of Haiku, Solaris and Windows CE are not part
of it.

The modules here model what is hard to test in that program: who handles events
and what wakes whom, how transfers end, how devices come, go and are counted,
how interfaces are claimed, and how the Go package shares all of it.  TLC checks
every module on small instances; TLAPS proves the safety of the event loop, of
asynchronous transfers and their timeouts, of transfers, interfaces and
configurations over usbfs, of hotplug callbacks, contexts and device lists, of the Windows, macOS and
BSD backends and of the Go package for every number of threads, devices and
transfers.

Contents: 1 inventory, 2 modules, 3 runs, 4 where code and comments disagree,
5 proofs, 6 what is not modelled, 7 plan.

## 1. Inventory

| Part | State | Operations | Interacts with | What makes it correct |
|---|---|---|---|---|
| Event loop (`io.c`, parts of `core.c`) | events lock, waiters lock and condition, `event_handler_active`, event pipe, `event_flags`, `device_close`, `hotplug_msgs`, `completed_transfers`, the poll set and the handler's copy of it | handle events, become a waiter, interrupt, open, close, add and remove descriptors | everything posts to it under `event_data_lock`; it calls the backend and all callbacks | one handler; no lost wake-up; no blocking read of the pipe; waiters and closers get on; no closed descriptor is polled |
| Blocking transfers (`sync.c`) | `*completed` | control, bulk, interrupt | run the event loop themselves, with all other callers | a call returns after its own transfer was completed, once; a timeout bounds it |
| Asynchronous transfers (`io.c`) | `flying_transfers`, per transfer: lock, state and timeout flags | submit, cancel, timeouts, completion, disconnection, free | backend, event loop, application callbacks | one callback per submit, with the true reason; references balance; nothing is used after free |
| usbfs transfers (`linux_usbfs.c`) | URBs, `reap_action`, `num_retired` | submit, discard, reap, disconnect | called under the transfer's lock; the kernel completes URBs in any order | reported once, when the last URB is back, with all data |
| usbfs devices (`linux_usbfs.c`, `core.c`) | claimed interfaces, cached active configuration; in the kernel who owns each interface | open, close, claim, release, detach, attach, reset, configurations, settings, clear-halt | other handles, other threads, kernel drivers that bind by themselves | what libusb holds to be claimed is claimed; nobody loses a claim to another; the right configuration is found |
| Contexts (`core.c`) | default context and its count, list of active contexts | init, exit, get device list | the monitor starts with the first and stops with the last | a context lives as long as it is used and leaves nothing behind |
| Linux device monitor (`linux_netlink.c`) | netlink socket, thread, session ids, parents | start, stop, poll, scan | device lists of all contexts | each context lists what is on the bus, once |
| Hotplug (`hotplug.c`) | list of callbacks, flags, handle counter | register, deregister, match, notify | monitor posts messages, handler calls callbacks | each event reaches each callback once, arrivals before departures; a deregistered callback is freed; none is used after free |
| Enumeration without hotplug (`core.c`, `windows_winusb.c`, `windows_usbdk.c`, BSD) | known devices, references, session ids | `libusb_get_device_list`, free | several threads, a device tree that changes between passes | the list is the bus; references balance |
| Descriptors (`descriptor.c`) | a tree of allocated arrays | parse and free configurations, BOS, companions | Go's filter of devices, configurations of usbfs | sound input is parsed to its end, damaged input nests right, memory is freed once |
| Windows backend | claims, automatic claims, WinUSB handles, a table of events passed off as descriptors | open, claim, settings, submit, cancel, complete | the event thread, control transfers that claim by themselves | claims balance, descriptors are found, cancelled transfers are reported |
| macOS and BSD backends | open count, event source, pipes; endpoint files | the same | handles of one device share them | requests go to the right file or pipe; the last close leaves nothing |
| Go package | package lock, a lock and a handle per `Device` | `Find`, `Open`, `Read`, `Write`, `Close` | libusb through cgo; a context per `Find` and `Open` | claims and references last as long as the `Device` |

What is hard here: every thread that waits for a transfer may become the event
handler of all others; the pipe that wakes the handler holds one byte for a set
of conditions that four kinds of threads change; close must stop a handler that
sleeps; cancellations, timeouts, answers and unplugging race for the same
transfer; callbacks run with locks held, or dropped, and call back into the
library; the kernel, its drivers and the bus act between any two system calls;
the Go package's references are balanced only by two mistakes that cancel out.
`PROJECT.json` lists these hazards line by line, each with the properties that
are about it.

## 2. The modules

| Module | Models | Abstract specification |
|---|---|---|
| `EventLoop` | event handling in one context, shared by threads | `SyncService`: what a blocking transfer promises its caller |
| `Transfers` | the transfers of one handle over usbfs, with every lock section | `AsyncTransfer`: one callback per submit, with the reason that won |
| `Timeouts` | the order of the flying list, the timerfd, waits bounded by the next timeout | |
| `UsbfsUrbs` | one transfer split over several URBs | `TransferBackend`: what `io.c` relies on from any backend |
| `WindowsBackend` | transfers and claims over WinUSB, composite and UsbDk devices | `TransferBackend` |
| `UnixBackends` | handles, claims and transfers on macOS, OpenBSD, NetBSD | `TransferBackend` |
| `UsbfsDevice` | claims, kernel drivers, reset and configurations over usbfs | |
| `DeviceMonitor` | contexts, the netlink monitor, device lists and references | |
| `Enumeration` | device lists of the backends without hotplug | |
| `Hotplug` | hotplug callbacks and their messages | |
| `Descriptors` | the parsers of `descriptor.c` | |
| `GoDevice` | the Go package over references, claims and drivers | |
| `TransfersProofs` | proofs about `Transfers` and `Timeouts` | |
| `UsbfsProofs` | proofs about `UsbfsDevice` and `UsbfsUrbs` | |
| `HotplugProofs` | proofs about `Hotplug` and `Enumeration` | |
| `EventLoopProofs`, `DeviceMonitorProofs`, `WindowsBackendProofs`, `UnixBackendsProofs`, `GoDeviceProofs` | proofs about the module of that name | |
| `MC*` | instances for TLC | |

They meet at interfaces that are checked on one side and relied on at the other.
`Transfers` has one `Handler`, as `EventLoop` shows; `EventLoop` has URBs that
come back once, as `Transfers` shows; `Transfers` has one URB per transfer,
reported as `TransferBackend` says, which `UsbfsUrbs`, `WindowsBackend` and
`UnixBackends` implement; `Hotplug` and `DeviceMonitor` share the message that a
device has left, with its reference; `GoDevice` uses claims as `UsbfsDevice`
shows that they behave, and references as `DeviceMonitor` balances them.

### EventLoop

Each thread has a program counter; a section under one lock is one action.
`event_data_lock` is given an owner only where a thread may block while it holds
it: at a read of the event pipe (`StartClear`, `PipeClear`, `CloseClear`; the
read end of the pipe blocks, `poll_posix.c` makes only the write end
non-blocking) and in the loop over `completed_transfers`, which drops and takes
it again (`CompleteQueued`, `Relock`).  `event_handler_active` and `*completed`
are read without the lock that protects them, so each of those reads is an
action of its own (`HandlerActive`, `Recheck`, `Check`, `SyncWait`).

| Code | Actions |
|---|---|
| `do_sync_bulk_transfer`, `sync_transfer_wait_for_completion` | `SyncTransfer`, `SyncWait` |
| `libusb_handle_events_timeout_completed` | `NextTimeout`, `TryLockEvents`, `TryLock`, `SetActive`, `Check`, `LockWaiters`, `Recheck`, `HandlerClosing`, `HandlerActive`, `Woken`, `SleepTimesOut`, `TimedOut` |
| `handle_events` | `Start`, `StartClear`, `Poll`, `PollTimesOut`, `PollInterrupted`, `PollFails`, `PipeEvent`, `CompleteQueued`, `Relock`, `CompletedAll`, `PipeClear`, `HotplugMessage`, `MessagesDone`, `EndHandling` |
| `op_handle_events` | `Backend`, `Reap`, `ReapNext`, `BackendDone`, `BackendFails` |
| `libusb_unlock_events` | `ClearActive`, `UnlockEvents`, `Broadcast` |
| `libusb_close`, `do_close`, `op_close` | `Close`, `CloseLock`, `CloseActive`, `CloseList`, `ClosePollfd`, `CloseFd`, `CloseDec`, `CloseClear` |
| `libusb_open`, `op_open` | `Open`, `OpenList` |
| `libusb_interrupt_event_handler`, `libusb_hotplug_deregister_callback` | `InterruptEventHandler`, `HotplugDeregister` |
| monitor and backend threads | `HotplugNotification`, `SignalTransferCompletion` |

Callbacks are part of the action that calls them; what they call in libusb goes
on in later actions, with `cb` naming where the handler resumes.  An
*application* is a record that says what each thread and each callback may call,
how often, how many hotplug messages come, how often event handling fails
(`maxFailures`), and whether the backend's descriptors are polled (usbfs) or a
thread of its own queues completions (`queueBackend`); `app` is chosen from the constant
`Applications` at the start and stays.

Each thread has one transfer.  Time is the order of events: a timeout is armed,
due, then handled, and `deadline` records which timeouts bound a wait, because
without timerfd a wait does not learn of timeouts that are armed later.  The
60-second limit of `libusb_handle_events` and signals may end any wait.

`poll`, the backend's `handle_events` and its completion of a queued transfer may
fail (`PollFails`, `BackendFails`, `CompleteQueued`): `failed` has the threads whose
`handle_events` is to return the error.  One whose call is a blocking transfer
then cancels it and goes on waiting (`SyncWait`); a completion that fails ends
the loop over the queue, and the event stays for what is left.

### Transfers

One action per lock section of a transfer on one handle.  `itransfer->lock` and
`flying_transfers_lock` have owners where one is held while the other is taken.
Several user threads submit, cancel and free; the `Handler` reaps, completes,
scans for timeouts and disconnects, and may submit and cancel from the callback.
The kernel's side of an URB is `urb`: pending, done, cancelled, or shut down
with the device; `canReap` is `USBFS_CAP_REAP_AFTER_DISCONNECT`.

The application may free a transfer from the moment its callback is called,
also while the callback still runs, and after a failed submit; it does not
submit a transfer that is being submitted or is in flight.  `Racing` lifts the
latter rule.

### Timeouts

`list` is `flying_transfers` with its order.  Time is relative: `left[t]` is what
is left of a transfer's timeout, `timer` what is left on the timerfd and `wait[h]`
of a thread's sleep; `Tick` takes one from each of them, and `Never` stands for
no timeout and for a timer that is not armed.  `SubmitTransfer` and `Submitted`
are the sections of `libusb_submit_transfer` around the backend, `SubmitFails` its
undoing, `CancelFlying` the application's cancellation, `Finish` and
`ReapTransfer` the end of a request and its completion.  `AddToFlyingList` (with `Place` and `First`) and
`RemoveFromFlyingList` (with `Rearms` and `ArmedFor`) say where a transfer goes
and when the timer is armed anew.  `Look` is `get_next_timeout`, `TryLockEvents`
makes the thread the handler or a waiter, `SleepEnds`, `PollWakes` and
`TimerFires` end its sleep, `HandleTimeouts` and `TimerFires` handle what is
`Due`, `ReapEnds` and `UnlockEvents` end the round.  Each section under
`flying_transfers_lock` is one step; it waits where a transfer is being
submitted, whose lock the submitter keeps.
`platform` tells apart a build with timerfd (`USBI_TIMERFD_AVAILABLE`, which
`imports.go` leaves undefined), one without, and macOS, which takes some of the
timeouts over (`USBI_TRANSFER_OS_HANDLES_TIMEOUT`, the set `OsTimed`).
`Transfers` has the races of one timeout with all that may end a transfer; here
is which timeout is looked at when.  The two share no name, for one module has the
proofs about both.

### UsbfsUrbs

`Submit` and its loop of ioctls (`submit_bulk_transfer`, `submit_iso_transfer`,
`submit_control_transfer`), `Cancel` and the loop of `discard_urbs`, `Handler`
for `reap_for_handle` with the completion of each kind, and `UrbCompletes` and
`UnplugUrbs` for the kernel, each ioctl a step; `work` is what the holder of the
transfer's lock is at.  `buffer` holds the number of the byte of the device that
landed at each place, so that a hole, a loss or a swap shows; `received` counts
what came in.

### UsbfsDevice

`op[t]` is the call a thread is in and the ioctl that is next: `Claim` with
auto-detach over `USBDEVFS_DISCONNECT_CLAIM` or over get-driver, disconnect and
claim; `Reset` with its loops `Yield`, `ResetIoctl`, `Reclaim`; `Release`,
`Detach`, `Attach`, `SetConfiguration`, `GetConfiguration`, `SetInterface`,
`ClearHalt`.  `driver` says who owns each interface in the kernel; `KernelBinds`
lets its driver take a free one.  The file of descriptors is a function from
offsets to headers, laid out as sysfs or as usbfs does, and `GetActive`,
`GetByIndex` and `GetByValue` are the look-ups over it.

### DeviceMonitor

`libusb_init` is `InitBegin`, `ScanBegin`, `ScanEntry`, `ScanEnds`, `IoLists`,
`IoPipe` or `InitFails`; `libusb_exit` is `ExitBegin`, `ExitDevices`,
`ExitBackend`; `InitAgain` and `ExitAgain` only count.  `MonitorReads` is the
thread, `PollReads` and `PollBegin` are `linux_netlink_hotplug_poll` inside
`libusb_get_device_list`.  Both read one uevent under `linux_hotplug_lock` and
enumerate or disconnect in every context.  `HandleMessage` gives up the reference
of a message; `OpenGone` is the open that finds its device gone before the
uevent is read.  The kernel's side is `bus`, with a generation for
each address, and the queue of `uevents`.

### Hotplug

`Register` puts a callback on the list, `Registering` calls it for what is there
when ENUMERATE is given, `Deregister` marks it under the lock of the callbacks
and `PostDeregistration` wakes the handler under that of the events; `posting`
counts the deregistrations between the two.  `Handler` takes messages, frees
marked callbacks, and goes through the list for each message: `MatchNext` tests
the mark with the lock held, `MatchCalls` matches and calls after it was given
back, and `CallbackReturns` (with 0 or 1) ends the callback, which frees it or
goes on to the next.  All else may happen between the three: a callback that is
deregistered once it was chosen is still called.  The reference of a device that
left goes with the message.

### Enumeration

`job[t]` is the pass, the position and the device a listing thread is at.  WinUSB
makes five passes over the device tree (`NextPass`): the interfaces of hubs and
of devices, the root hubs (`RootHub`), all devices with a structure each (`Find`,
`Make`, `SetupPath`, `InitDevice`, which needs the parent), and the interfaces of
composite devices (`SetInterface`).  UsbDk and the BSDs make one.  `work`
is what a thread still has to do for references it drops (a chain, since
a destroyed device drops its parent), each step under one lock.  `Above` is the
host's device tree, in which `Ancestor` climbs as `get_ancestor` does.  `Place` is
where an identity is in the hash table of session ids, 0 when that is full.

### Descriptors

Every loop of the parsers is an action that consumes one header
(`Configuration`, `ConfigExtra`, `AltSetting`, `InterfaceExtra`, `Alternate`,
`Endpoint`, `EndpointExtra`, `Bos`, `Capability`, `Companion`, `NextConfig`),
chosen when the walk reaches it.  `seen` keeps the headers, `left` the bytes
left, `mem` what is allocated, and a failing allocation is a choice at each of
them; `Free` is `libusb_free_config_descriptor` and its like.

### WindowsBackend and UnixBackends

`WindowsBackend` composes `windows_nt_common.c` with one of its backends, chosen
at the start.  `Submission` is `CreateFd`, `ChooseInterface`, `AutoClaim`, `StartIo`,
`InFlight` and their failures; `Events` is the event thread: `Poll`, which takes
a snapshot, `CheckPollfds`, `Take`, `ClearTransferPriv`, `Report`.  Claims carry what the driver
below answers.  `UnixBackends` has operators of one signature for each backend
and dispatches on it, as the table of functions in `libusbi.h` does; on
macOS a request is a step of the system and `AsyncIoCallback` a message through
the pipe, on the BSDs the submission itself is the request.

### GoDevice

One action per call into libusb made by the Go methods, in their order, with the
package lock and the lock of each `Device`.  Every `Find` and `Open` makes a new
libusb context, which is never exited, so a context number also names the
`Device` that its `Open` returned.  `refs` is the reference count of each device
in each context; `claim` says what is bound to each interface: the kernel's
driver, nothing, or the usbfs handle of a context.  The application calls each
`Close` once and uses no closed `Device`, but may close one while another
goroutine reads; `Careless` lifts that rule.

### Circumstances the code does not cope with

`Faults`, `Racing`, `Careless`, `DoneEarly`, `DuringInit` and `UnplugAnytime`
switch on circumstances in which the code goes wrong by what it does, so that the
properties can be checked and proved in all others.  They are off in the runs
(`Enumeration` has failing allocations and initialisations on), and section 4
says what each of them shows when it is on.

## 3. What is checked

| Run | Instance | States | Shows |
|---|---|---|---|
| `EventLoop` | 3 threads, 2 handles, six applications: blocking transfers of two threads with a close or with an event handler that fails, on usbfs; one with a close and failures on a queue backend; handling with a hotplug message whose callback closes, beside open, close, interrupt and deregister; a queue backend whose callbacks close handles and handle events, with and without a hotplug message, and which may fail | 282,748 | `OneHandler`, `PipeIsExact`, `PollSetCurrent`, `WaitersHaveAWaker`; blocking calls implement `SyncService`; `CallsReturn` |
| `Transfers` | 2 transfers, one with a timeout, 2 threads and the handler, 2 submissions | 245,398 | `RefsBalance`, `NoUseAfterFree`, `ImplementsAsyncTransfer`, `TransfersEnd` |
| `Timeouts` | 2 transfers, each with and without a timeout, one of them timed by macOS, 2 threads that handle events, 3 platforms | 284,852 | `TimerCovers`, `TimeoutsHandled` |
| `UsbfsUrbs` | one transfer of each kind, up to 3 URBs of 2 bytes, 2 submissions, EPROTO and EOVERFLOW | 221,642 | `NoDataLost`, `ImplementsBackend` |
| `UsbfsDevice` | 2 threads, 2 handles, 2 interfaces, 2 configurations, a kernel driver, a kernel with sysfs and an old one | 1,087,473 | `ClaimedIsOwned`, `ConfigurationsFound`, `ClaimsKept` |
| `DeviceMonitor` | 2 contexts, a hub and a device behind it, 4 events, 5 structures per context | 105,082 | `RefsBalance`, `ListMatchesBus`, `KeptWhileUsed` |
| `Hotplug` | 2 callbacks, 2 registrations, 2 deregistrations at a time, 1 device, handles up to 3 | 196,171 | `NoUseAfterFree`, `OnceInOrder`, `HandlerFinishes` |
| `Enumeration` | 2 threads, hub, device and interface, 4 backends, 2 changes, 3 lists, failing allocations | 857,443 | `MemorySafe`, `ListMatchesBus` |
| `Descriptors` | up to 5 descriptors of a dozen shapes, 6 sizes of buffer, a failing malloc, 4 parsers | 4,342,947 | `ParsedRight`, `OnlyTheCutLeaks` |
| `WindowsBackend` | a handle, a control and an isochronous transfer, 2 interfaces, 2 descriptors, 3 backends | 1,006,437 | `ClaimsBalance`, `DescriptorsFound`, `OthersGoOn`, `ImplementsBackend`, `CancelEnds` |
| `UnixBackends` | 2 handles, a control and a bulk transfer, 2 interfaces, 2 configurations, 3 backends | 610,014 | `RequestsGoRight`, `HandlesSound`, `ImplementsBackend`, `CancelEnds` |
| `GoDevice` | 2 goroutines, 1 device of 2 interfaces that may be unplugged, 2 contexts | 39,352 | `DeviceAlive`, `ClaimKept`, `DriverComesBack`, `CloseReturns` |

Properties that belong together are conjunctions of named parts:

* `EventLoop`: `PipeIsExact` is that a pending event has a byte in the pipe, that
  no read of the pipe blocks and that no byte is left over.  `WaitersHaveAWaker`
  is that another thread, one that does not sleep as a waiter itself, is to
  broadcast to those that do.  It makes one exception, which it names: a thread
  that sleeps in a callback of its own event handling, the failure that
  `RecursionRefused` shows (section 4).  Where callbacks handle no events there is
  no such thread, and that is a part of the property.
* `Transfers`: `TransfersEnd` is `TimeoutsEndTransfers`, `UnplugEndsTransfers` and
  `SubmitsReturn`.
* `Timeouts`: `TimerCovers` has the order of the list and what counts as handled
  beside the timer; `TimeoutsHandled` is `SleepsShortEnough`, `AllExpiredHandled`
  and `ExpiredIsHandled`.
* `Hotplug`: `HandlerFinishes` is `EventsReachAll` and `DeregisteredFreed`.
  `OnceInOrder` is that a callback is called at most once for an event and not
  for an arrival after the departure, and that one that is deregistered is
  chosen for no further call; the call it was chosen for before is made.
* `UnixBackends`: `HandlesSound` is `NothingLeft` and `ClaimsKnown`.
* `UsbfsUrbs`: `ImplementsBackend` is the refinement of `TransferBackend` and that a
  transfer that is being torn down ends.

### Bounds, and why they are enough

* Three threads in `EventLoop`: a handler, a waiter and one that closes or posts.
  The races are between two of these roles while the third changes the pipe.
  Two handles: one in use and one that is closed or opened.  One or two calls per
  thread: a call goes around the loop as often as it wakes for nothing, so
  handing over the events lock is not bounded by it.  Each application has one
  group of these calls, and at most one failure of event handling; its safety properties are proved for all applications,
  so that the run is to show the liveness, and that every step can be taken.
* Two transfers in `Timeouts`: one first on the list and one behind it, either of
  which may be handled, untimed or timed by the system.  The order of longer
  lists is proved; three transfers with timeouts of 0, 1 and 2 were checked for
  safety beside the run.
* Two transfers and two submissions: one transfer is submitted again while the
  other is in flight, the case in which flags of an earlier submission matter.
* Three URBs: a first, one in the middle and a last, which the code treats
  differently, with completions, failures and discards in every order.
* Two threads and two handles in `UsbfsDevice`: one that resets or claims
  between any two ioctls of the other, through its own or the same handle.  Two
  configurations that sysfs and usbfs order and pad differently.
* Four events in `DeviceMonitor`: a hub and its device come, go, and come again
  at the same address.  `MaxSlots` leaves room for them while old structures are
  still referenced.  Two contexts: one is there while the other starts or ends.
* Two callbacks and a counter that wraps after three handles: one remains
  registered while the counter comes round.  `MaxRegs` does not exceed
  `MaxHandle`: with more registrations than handles a number is in use twice,
  and `HandlesUnique`, which is proved up to that point, fails.
* Two threads and two changes in `Enumeration`: a list made while another thread
  makes or frees one, of a device that comes, goes or is new at its place.
  The table of session ids, of `HashSize` 2, has room for both identities, and no
  list outgrows `Room`: section 4 tells of tables and lists that do.
* Five descriptors: a configuration, two settings and their endpoints, with one
  that is cut, surplus or out of place; the sizes of buffer end at, before and
  within each of them.
* Two interfaces and `MaxFds` 2 in the backends: one claimed by the program and
  one by a control transfer; every descriptor number is reused at once.
* Two contexts and two interfaces in `GoDevice`: two `Open`s on the same
  interface, on two interfaces of a device, or a `Find` beside an `Open`.

Symmetry is used where threads, handles or contexts are interchangeable and
only safety is checked (`DeviceMonitor`, `UsbfsDevice`, `Enumeration`).  Deadlock
checking is off: once the calls of an instance are used up the system rests, and
with the queue backend a handler that waits for itself is even one of the
behaviours shown.  That calls return is stated as liveness instead.

### Fairness

* `EventLoop`: each thread inside a call keeps running (weak fairness of `Step`);
  a wait whose `deadline` has passed ends; armed timeouts expire; the kernel
  gives back URBs that were discarded.  No device has to answer, no waiter has
  to be helped by the 60-second limit.  A mutex or `poll` that is free only now
  and then is not assumed to be won.
* `Transfers`: threads and the handler run, timeouts expire, and the handler
  looks at timeouts.  `EventLoop`'s `CallsReturn` is the reason for the last.
* `Timeouts`: threads handle events again and again, submissions end, time
  passes, and the kernel ends what is cancelled or what it times itself
  (`KernelEnds`).  Strong fairness for `HandleTimeouts` and `TimerFires`: a thread
  that waits there for the end of a submission holds `flying_transfers_lock`, so
  that no further submission can begin.  `ExpiredIsHandled` assumes that reaping
  ends again and again, for a backend reaps until nothing is done.
* `Hotplug`: callbacks return, a deregistration that has begun goes on and the
  application handles events (`Registering`, `PostDeregistration`, `Handler`).
* `UsbfsUrbs`: calls that are under way go on (`CallSteps`) and the handler reaps
  what the kernel has given back (`Handler`); an URB that is neither discarded
  nor lost with its device need not come back.
* `WindowsBackend`, `UnixBackends`: submissions go on and the event thread runs;
  a request ends only if the system is told to abort it.
* `GoDevice`: goroutines run and get a `sync.Mutex` they wait for (strong
  fairness of the three lock actions: Go's mutex hands itself to the first
  waiter in its starvation mode); a transfer with a timeout ends.


## 4. Where the code and what is said of it disagree

The modules also define what comments and documentation say where the code does
something else.  These definitions are checked by no run; the instance that
refutes each of them is the configuration of the component's run, changed as
named here.

| Definition | Says | Instance | The code |
|---|---|---|---|
| `EventLoop!CallbackMayClose` | the event handler can close a handle, for it "already" holds the lock (`core.c:1412`) | an application on usbfs whose transfer callback closes | `op_handle_events` holds `open_devs_lock` over callbacks (`linux_usbfs.c:2668`): the thread waits for itself |
| `EventLoop!RecursionRefused` | recursive event handling is prevented (`io.c:2083`) | an application whose `hotplugCallbackDoes` has `"handle_events"` | the call becomes a waiter of its own thread before the check is reached |
| `EventLoop!OpenPausesHandler` | `libusb_open` has "paused the events handler" (`io.c:1084`) | unchanged | `libusb_open` no longer takes the events lock (`core.c:1233-1276`): a handler goes on meanwhile |
| `Transfers!FlyingIsInFlight` | the flying list has what is in flight (`libusbi.h:314`) | `Racing = TRUE` | a submit that failed takes the transfer off the list after another submit of it succeeded (`io.c:1537-1539`) |
| `Timeouts!TimerShowsExpiry` | with a timerfd "all timeout events are handled internally or through regular activity on the file descriptors" (`io.c:2507`) | `Platform = {"timerfd"}` | a transfer added behind one that timed out and is still being cancelled has no timer: it may expire while no descriptor shows anything |
| `Timeouts!NoNextTimeoutOnDarwin` | on macOS "`libusb_get_next_timeout()` will always return 0" (`io.c:711-721`) | `Platform = {"os"}` | interrupt transfers get no timeout from the system (`darwin_usb.c:1626`), so libusb times them |
| `UsbfsUrbs!ReportedWhenAllBack` | "wait for their completion before reporting results" (`linux_usbfs.c:2420`) | `Kinds = {"bulk"}`, `Errors = {"EPIPE"}` | after a stall `reap_action` stays `NORMAL`, and the discarded URB that was submitted last completes the transfer while others are out |
| `UsbfsUrbs!PacketsInPlace` | "Status code for this packet" (`libusb.h`, `iso_packet_desc`) | `Kinds = {"iso"}`, `Errors = {}` | results are stored in the order in which the URBs come back (`linux_usbfs.c:2469`), and discarded URBs come back last first |
| `DeviceMonitor!PollDrains` | pending hotplug events "are fully processed" when `hotplug_poll` returns (`libusbi.h:697`) | one context, `MaxEvents` 3 or more | the loop ends with the first uevent that is not about a device (`linux_netlink.c:405`) |
| `Descriptors!EndpointsPresent` | `endpoint` has `bNumEndpoints` members (`libusb.h:622`) | `Parsers = {"config"}`, `MayFail = FALSE`, `MaxDescs = 4` | a short read returns success with the count and no array (`descriptor.c:288`) |
| `Descriptors!NothingFreedTwice` | memory is freed once | unchanged (`MayFail = TRUE`) | `usbi_reallocf` frees the array that the error path frees again (`descriptor.c:231`) |
| `GoDevice!ClosedIsReported` | `ErrDeviceClosed` is returned if the device "closed before or during the execution" (`device.go:20`) | `Careless = TRUE` | a `Read` or `Write` that waited for the lock goes on with the nil handle (`libusb.go:251`) |
| `GoDevice!OpensWhatWasFound` | `Open` "connects to a previsouly discovered USB device" (`device.go:81`) | `Dev = {d1, d2}`, `PortOf <- OneNumber` | the first device of the same kind on a port of the same number is taken (`libusb.go:177`) |

Circumstances the code does not cope with, and what fails when they are allowed:

| Switch | Circumstance | Fails |
|---|---|---|
| `DeviceMonitor`, `DuringInit` | an uevent reaches a context whose message list is not ready: the device that left is taken off the list and its reference is not dropped (`core.c:729`) | `RefsBalance` |
| `Hotplug`, `DoneEarly` | the handler calls a callback whose ENUMERATE is under way, and it ends itself: registration goes on with freed memory (`hotplug.c:306`) | `NoUseAfterFree` |
| `UsbfsUrbs`, `UnplugAnytime` | the device goes away between two discards | `NoDataLost`, `ReportedWhenAllBack`, and with them `ImplementsBackend` |
| `UsbfsDevice`, "resetFails" | the reset ioctl fails after the interfaces were released | `ClaimedIsOwned` |
| "sharedReset" | another handle has interfaces when one resets the device | `ClaimedIsOwned` |
| "driverChanges" | the kernel's driver is exchanged between the look at it and the disconnect | `ClaimedIsOwned` |
| "twoSetters" | two threads set or ask for the configuration at once | `ConfigurationsFound` |
| `Enumeration`, "twins" | two threads both find no structure of a device and make one each | `ListMatchesBus` |
| "replaced" | a device is plugged in where libusb knows another, or is listing it: the old structure is taken off the list of known ones, and once more when it is destroyed (`core.c:1168`) | `ListMatchesBus`, `MemorySafe` |
| `Enumeration`, `HashSize` | UsbDk has seen more devices than its table holds: `htab_hash` returns 0 for all others, which then share a session (`windows_nt_common.c:254`), seen with `Node <- TwoDevices`, `HashSize = 1`, `MaxChanges = 3` | `ListMatchesBus` |
| `Enumeration`, "dying" | a device is looked up after its last reference was dropped and before it is off the list | `MemorySafe` |
| "append" | the list cannot grow: it is freed twice; on NetBSD a list that grew is used at its old place (`netbsd_usb.c:199`), seen with `Room = 1` | `MemorySafe` |
| `WindowsBackend`, "shared auto claim" | two control transfers share an automatic claim, and which of them counts depends on the order (`windows_winusb.c:594`) | `ClaimsHeld` |
| "claim during auto", "release under control" | the program claims or releases what a control transfer has claimed or uses | `ClaimsHeld` |
| "auto claim fails", "claim again" | a claim fails after an interface was initialised for another's sake | `ClaimsHeld` |
| "auto claim left" | the request of a control transfer fails after its automatic claim | `AutoClaimsBalance` |
| "early" | a request is handled before its submission has noted its interface | `ClaimsBalance` |
| "failed submit" | a submission fails while its descriptor is in the snapshot of the event thread | `DescriptorsFound` |
| "late cancel" | a cancellation after the descriptor was given up cancels all of the file | `OthersGoOn` |
| "second open" | a second handle of a UsbDk device | `ClaimsHeld` |
| `UnixBackends`, "second open", "close claimed", "shared file", "several interfaces" | on the BSDs: a second handle, a close with claims, two transfers of one endpoint, claims of two interfaces, which forget each other's files (`netbsd_usb.c:608`) | `HandlesSound` or `RequestsGoRight` |
| "first closes early" | on macOS the handle that opened the device closes before the last (`darwin_usb.c:1157`): its event source and the device stay open | `HandlesSound` |
| "claim refused", "endpoints fail", "configuration refused", "missing interface", "cache fails", "setting refused" | a call of the system fails half way | `HandlesSound` |
| "shared configuration" | another handle has interfaces when one sets the configuration | `HandlesSound` |
| "unclaimed" | a transfer to an interface that the program has not claimed | `RequestsGoRight` |
| "control zero" | a control transfer with `ADD_ZERO_PACKET` on macOS | `RequestsGoRight` |
| "streams" | a stream on macOS is submitted, but neither its cancellation nor its completion is accepted | `CancelEnds` |

## 5. What is proved

TLAPS proves the following under each module's assumption on its constants, for every
value of the constants: any finite sets of threads, transfers, goroutines and
devices, and no bound on what they do.

### Event loop

`EventLoopProofs`, for every application, that is for both kinds of backend and
everything callbacks may do:

* `TypeCorrectness`: `Spec => []TypeOK`
* `HandlerExclusion`: `Spec => []OneHandler`
* `NoLostWakeup`: `Spec => []PendingIsSignalled`
* `ClearIsSafe`: `Spec => []ClearNeverBlocks`

None of these is inductive.  Their common strengthening (`Invariance`) is

    IInv == TypeOK /\ ControlInv /\ OneHandler /\ DataLockInv /\ PipeInv /\ CloseInv

* `ControlInv` ties a thread's program counter to its `event_handling_key`, to
  the wait set and to the callback it is in; a call made in a callback can be
  only at the few places where it does not hold the events lock for itself.
  Without it a recursive `handle_events` could not be told from a second handler.
* `OneHandler` gives mutual exclusion from the ownership of `events_lock`.
* `DataLockInv` says who owns `event_data_lock` while it is kept over steps, so
  that no event is posted between the test of `usbi_pending_events` and the
  read of the pipe.
* `PipeInv` is `PendingIsSignalled` together with what makes each read safe:
  at a read nothing is pending and a byte is there, and the handler that saw the
  pipe readable still has its byte, which needs `OneHandler`.
* `CloseInv` counts the threads in the middle of `libusb_close`: `device_close`
  is their number, so it is never decreased below zero, and is pending for as
  long as one of them needs it.

On it build:

* `PipeExactness`: `Spec => []PipeIsExact`, with `ByteInv`: on usbfs a second
  byte is never written, since whoever posts looks at what is pending first.
* `PollSetIsCurrent`: `Spec => []PollSetCurrent`, with `OwnersInv` (which
  descriptor a closing thread still has) and `PollInv` (what the handler copied).
* `WaitersWillWake`: `Spec => []WaitersHaveAWaker`, with `ActiveInv` and `WakerInv`
  (while threads sleep `events_lock` has an owner, a thread waits for it to close
  a device, or one is about to broadcast) and with `NestInv`: its owner is in the
  sections of the handler, so that an owner that sleeps does so in a callback,
  which only callbacks that handle events can do.
* `SyncServiceImplemented`: `Spec => ImplementsSyncService`, with `ServiceInv`:
  a transfer that is in flight or queued is that of a call under way, and each
  step moves the state of at most one caller, in the order the service allows.

### Asynchronous transfers

`TransfersProofs`, as long as no two threads submit one transfer at once
(`~Racing`):

* `ListedWhileInFlight`: `Spec => []FlyingIsInFlight`
* `ReferencesBalance`: `Spec => []RefsBalance`
* `FreedIsUnused`: `Spec => []NoUseAfterFree`
* `AsyncTransferImplemented`: `Spec => ImplementsAsyncTransfer`

from `Invariance` of

    IInv == TypeOK /\ ControlInv /\ SubmitInv /\ ListInv /\ UrbInv /\ RefsBalance

* `ControlInv`: who works on which transfer and holds which lock.
* `SubmitInv`: a transfer that is being submitted has one submitter and no
  callback owed.  This is where `~Racing` is needed.
* `ListInv`: callbacks are owed for what is in flight and for the completion
  that is about to call one; the flying list has that, and what is being
  submitted; who scans the list works on a member of it.
* `UrbInv`: the kernel's URBs are of transfers in flight that nobody completes.
* `RefsBalance` is inductive beside them: it equates a counter with the
  cardinality of a set that each submit and completion changes by one.

The refinement needs `CauseInv` too: the flags of a transfer in flight say who
cancelled it, also between the cancellation by a timeout and the flag that is set
after it, which is the step in which an answer could be reported for a timeout.

### The Go package

`GoDeviceProofs`, as long as the application uses no `Device` it has closed
(`~Careless`):

* `ClaimsAreKept`: `Spec => []ClaimKept`
* `DevicesLive`: `Spec => []DeviceAlive`
* `DriversComeBack`: `Spec => []DriverComesBack`

from `Invariance` of

    IInv == TypeOK /\ CallInv /\ FoundInv /\ HandleInv /\ BoundInv /\ UnboundInv
            /\ ClaimKept /\ RefInv /\ ContextInv

* `CallInv` gives exclusion by the package lock (no two `Open`s) and by
  each `Device` (no two `Close`s); `FoundInv` and `HandleInv` say which contexts
  have a device and a handle at each place of a call.
* `BoundInv` and `UnboundInv` account for every interface: claimed by a handle
  that has not begun to give it up, bound to the kernel's driver, or bound to
  nothing while one call, which is named, is about to bind it.
* `RefInv` bounds the references from below by those that are used: the list's,
  the handle's, and until `Close` the one that `getAllDevices` leaks.  This is the
  argument why `Close` may drop a reference it never took.

### Timeouts

`TransfersProofs` too, on each platform:

* `TheTimerCovers`: `Spec => []TimerCovers`
* `NoExpiredIsLeft`: `Spec => AllExpiredHandled`
* `NoOneOversleeps`: `Spec => SleepsShortEnough`

from `TimeoutsInvariance` of

    TimeoutsInv == TimeoutsTypeOK /\ OsInv /\ Sorted /\ OnlyExpiredHandled /\ TimerInv

* `Sorted` is what all else rests on: `Place` finds the first place behind those
  that are due no later (`PlaceIsRight`), and the loops stop at the least place
  that makes them (`SmallestIsLeast`).  `Tick` keeps it, for it is monotone.
* `OnlyExpiredHandled`: what is skipped has nothing left.  A new submission clears
  the flags, and so does not count as handled.
* `TimerInv` is `TimerCovers` in terms of places.  A transfer added at the front
  takes the timer over, one added elsewhere is due no earlier than the first; a
  first one that leaves hands the timer to the next that is not handled
  (`ArmedCovers`); one that leaves from elsewhere changes nothing.  The clause
  for a handled first transfer is needed: the timer is not armed behind it, which
  is what `TimerShowsExpiry` shows.
* `OsInv`: no platform has both a timerfd and timeouts of the system's own.

### Interfaces and configurations over usbfs

`UsbfsProofs`, when no reset fails or is shared with another handle and no
driver changes between the look at it and its disconnection (`Faults` has at most
`"twoSetters"`):

* `ClaimsOwned`: `Spec => []ClaimedIsOwned`
* `KeepsClaims`: `Spec => ClaimsKept`

from `Invariance` of

    IInv == TypeOK /\ OpInv /\ OpenInv /\ LockInv /\ OwnInv /\ DisconnectInv /\ GoneInv

* `OpInv` says at which step of which call a thread may be, and what is to follow
  it.  `Types` proves it without any condition.
* `OwnInv` is `ClaimedIsOwned` at a grain where it is inductive: an interface
  whose bit is set is the handle's in the kernel, or the thread that gave it up is
  on its way to claim it (in the order of the loops of `op_reset_device`) or to
  clear the bit.
* `LockInv` is what makes such a thread the only one that works on the claims of
  the handle, and `DisconnectInv` what keeps `op_detach_kernel_driver` from
  disconnecting usbfs: the driver it looked up is the one it disconnects.

When no two threads set or ask for the configuration at once (`"twoSetters"` is
not in `Faults`), whatever else happens:

* `ConfigurationCached`: `Spec => []CacheInv`
* `ActiveFound`: `Spec => [](WalkEnds => ActiveIsFound)`

`CacheInv` is inductive on top of `OpInv`: what is cached, or about to be, is the
active configuration or "unconfigured".  `WalkEnds` says that the walk over the
configurations ends in a sequence; it is defined by recursion over the file, and
that it ends would need an induction over data.  `LookupsAgree`, the
other part of `ConfigurationsFound`, compares two such walks and is left to TLC.

### Transfers of several URBs over usbfs

`UsbfsProofs` too, for any number and size of URBs:

* `AllDataReported`: `Plain => (UrbsSpec => []NoDataLost)`
* `ReportedAtTheEnd`: `Plain => (UrbsSpec => []ReportedWhenAllBack)`
* `UsbfsIsBackend`: `Plain => (UrbsSpec => Backend!Spec)`

`Plain` says that no URB stalls and that the device does not go away between two
discards, as in the run.  Both are needed: section 4 has what fails with either.
The results follow from `UrbsInvariance` of

    UrbsInv == UrbsTypeOK /\ WorkInv /\ IdleInv /\ QueueInv /\ StatusInv /\ PendingInv
               /\ CountInv /\ NormalInv /\ DiscardInv /\ DataInv

which TLC has checked as an invariant of the run's instance.

* `CountInv`: `num_retired` and the URBs in flight add up to the transfer, so that
  the handler's `num_retired == num_urbs` means that none is left.
* `NormalInv` is for the other end, a handler that goes by the number of the URB:
  while `reap_action` is `NORMAL`, URBs come back in order and all before those in
  flight were full, unless a cancellation is discarding (`Disturbs`), which the
  lock keeps from the handler and which then marks the transfer.
* `DiscardInv` is why it does mark it, or has disturbed nothing: a discard fails
  for the last URB only when none is pending, for those that are pending are
  consecutive (`PendingInv`) and discarded from the last.
* `DataInv` follows the bytes.  What came in before the k-th URB of the queue has
  room before that URB's block, so that moving surplus data down (`MoveSurplus`)
  overwrites nothing that is still to be moved.

### Hotplug callbacks

`HotplugProofs`:

* `CalledOnceInOrder`: `Spec => OnceInOrder`
* `HandlesUniqueUntilWrap`: `Spec => [](regs <= MaxHandle => HandlesUnique)`
* `NothingFreedIsUsed`: `~DoneEarly => (Spec => [](regs <= MaxHandle => NoUseAfterFree))`

from `Invariance` of

    IInv == TypeOK /\ ControlInv /\ QueueInv /\ ToldInv /\ RefsInv /\ HandleInv /\ AwakeInv

* `QueueInv`: what the handler has taken and what is still posted is one queue,
  in which a device arrives once and leaves once, in that order.
* `ToldInv`: a callback was told of nothing that is still to come.  Of the
  message being handled, those know that the loop has passed, and not the one
  that is chosen but not called yet; this is what the dropped lock could break.
  That no marked callback is chosen follows from the steps (`HandlerKeeps`).
* `RefsInv` equates each reference count with the list, the departures in the
  queue and the registration under way.
* `HandleInv`: registrations are numbered, and their handles are these numbers
  until the counter wraps.  After that a deregistration may mark a callback
  that shares its handle, so the third theorem has the same bound.  It also
  needs `RegInv`, which `DoneEarly` breaks: the callback being registered stays.
* `AwakeInv`: the pipe is readable while something is pending, and while a
  callback is marked its deregistration is pending, is about to be posted, or is
  what the handler is doing.

### Contexts, the device monitor and device lists

`DeviceMonitorProofs`, for any number of contexts and of devices behind the hub:

* `KeptWhileRelied`: `Spec => []KeptWhileUsed`
* `ReferencesBalance`: `~DuringInit => (Spec => []RefsBalance)`
* `ListsMatchTheBus`: `~DuringInit => (Spec => []ListMatchesBus)`

The invariant has three layers, each proved with the ones below it.

* `ContextInv`: the counts of users and of initialised backends are those of the
  contexts in the phases that have them, and the monitor runs exactly while one
  of these, or a scan, needs it.
* `DeviceInv` and `PollInv`: in each context, every structure's count is the sum
  of what refers to it (`Balanced`): the list, a message of its departure, the
  application's list and its children.  Dropping one may destroy a device and
  then its parent.
* `ListInv`: a list is right but for what is still to be read.  A listed device is
  the one on the bus, or its departure is among the uevents; one on the bus is
  listed, or its arrival is among them, or it is still to be scanned.  That the
  kernel tells of departures and arrivals in order (`UeventsOK`) puts it right one
  uevent after the other, also when an address is used again.

### Device lists without hotplug

`HotplugProofs` too, for any device tree and any number of threads and lists, with
failing allocations and initialisations:

* `ReferencesAreCounted`: `"dying" \notin Faults => (EnumSpec => []RefsBalance)`
* `ListsAreMemorySafe`: `Tidy => (EnumSpec => []MemorySafe)`
* `DevicesAreKnown`: `Tidy => (EnumSpec => []TidyInv)`
* `ListsAreComplete`: `Tidy /\ "twins" \notin Faults /\ RoomForAll =>
  (EnumSpec => []ListMatchesBus)`

The first needs only that nobody looks a device up while it is destroyed; replaced
devices, two threads that make a structure each and lists that move do not disturb
the references.  It follows from `EnumInvariance` of

    EnumInv == EnumTypes /\ JobInv /\ HubInv /\ BalanceInv /\ DoomInv /\ LiveInv /\ KnownInv

* `JobInv`: at which step of which pass a thread may be, and that it has a
  reference of the device it is at.
* `BalanceInv` is `RefsBalance` for every structure, free ones included.  A hub may
  keep a reference too many, where `init_device` finds its child initialised and does
  not give the ancestor back (`windows_winusb.c:788`), so that `HubInv` has to keep all
  other structures from being an ancestor.
* `DoomInv`: a structure without references has one removal pending, in one thread,
  and no other structure has any.  Without it two threads could destroy one device.
* `KnownInv`: the list of known devices has structures that are there, each once.

`Tidy` also excludes devices that are replaced and lists that move or cannot grow, for
section 4 shows that `MemorySafe` fails with them.  `TidyInv` adds to `EnumInv` that
every structure is on the list of known devices (`AllKnown`), that what structures,
snapshots and the bus say of a node agrees (`IdInv`), which is why `Find` takes no
known device off that list, and that NetBSD's list has room (`SizeInv`).

That a list is complete needs two more conditions: no two threads make a structure of
the same device ("twins"), and UsbDk's table has room for every device that is ever
plugged in (`RoomForAll`).  Both are in section 4 with what fails without them.  The
invariant is

    MatchInv == EntryInv /\ WholeInv /\ RoundInv
    WholeInv == UniqueInv /\ PathInv /\ BsdInv /\ HashInv /\ SightInv /\ CalmInv

on top of `EnumInv` and `TidyInv`.

* `EntryInv`: which steps belong to which pass, that the entry a thread is at is not
  among those to come, and that the device it looks at is the one of that node.
* `UniqueInv` and `PathInv`, for WinUSB: one structure for a node, and only paths of
  its own interfaces in it.
* `BsdInv`, `HashInv` and `SightInv`: what finds the right structure elsewhere.  The
  BSDs know a device by its address, where nothing else was plugged in meanwhile;
  UsbDk by its place in the table, where each identity has one, and an identity was
  never seen at two nodes, be it on the bus, in a snapshot or in a structure.
* `CalmInv`: `calm[t]` is what is on the bus and in the thread's snapshot for as long
  as the list is being made.
* `RoundInv`: how far an undisturbed listing has come.  `Complete` says that what was
  found is the bus but for the nodes still to come; `Track`, for WinUSB, that the
  passes over hubs and devices left a structure of each node they have visited, the
  pass over root hubs marked these, and the last one noted the paths of the interfaces
  it has visited, all in structures the thread has a reference of, which is why no
  other thread can have destroyed them.  When the last pass is over nothing is to
  come, and `Ended` is `ListMatchesBus`.

`MatchStep` splits a step into what it does to the structures (`Steady`: those that
stay keep their node, identity and paths) and to the thread itself; the other threads'
parts follow from the first.  TLC has checked `EnumInv`, `TidyInv` and the parts of
`MatchInv` as invariants of the run's instance.

### The Windows backend

`WindowsBackendProofs`, in the circumstances the backend copes with
(`Faults = {}`):

* `DescriptorsAreFound`: `Spec => []DescriptorsFound`
* `ClaimsAreBalanced`: `Spec => []ClaimsBalance`
* `OnlyTheAskedAreCancelled`: `EndpointsApart => (Spec => []OthersGoOn)`
* `BackendImplemented`: `Spec => ImplementsBackend`

from `Invariance` of

    IInv == TypeOK /\ FdInv /\ EventInv /\ IoInv /\ AbortInv /\ BusyInv /\ ClaimInv
            /\ AutoInv

`FdInv` and `EventInv` tie each transfer to one descriptor of the table and the
snapshot of the event thread to those that are open; `IoInv` says that the system
has requests only of transfers in flight; `ClaimInv` and `AutoInv` account for
every claim, whether it is the program's or a control transfer's, and say
who is to release it.  `EndpointsApart` (no two transfers but control
transfers on one endpoint) is needed because `WinUsb_AbortPipe` ends all of an
endpoint.

### The macOS and BSD backends

`UnixBackendsProofs`, with `Faults = {}`, on each of the three systems:

* `RequestsGoWhereTheyShould`: `Spec => []RequestsGoRight`
* `HandlesAreSound`: `Spec => []HandlesSound`
* `BackendImplemented`: `Spec => ImplementsBackend`

from `Invariance` of

    IInv == TypeOK /\ OpenInv /\ ConfigInv /\ OwnerInv /\ FileInv /\ BusyInv /\ IoInv
            /\ RequestInv

`OpenInv` counts the handles and says which has the event source; `OwnerInv` and
`FileInv` say which interfaces and files are open for whom, on macOS and on the
BSDs; `RequestInv` says that a request under way is on the file of its own
endpoint, with its own timeout, although the file's number may have been used
before.

### Only model-checked

* All liveness properties (`CallsReturn`, `TransfersEnd`, `ExpiredIsHandled`,
  `HandlerFinishes`, `CancelEnds`, `CloseReturns`, and that a transfer being torn
  down ends in `UsbfsUrbs`): they need fairness and `ENABLED`, which are out of
  the prover's reach.
* `LookupsAgree` of `UsbfsDevice`, which compares two walks over a file.
* `Descriptors` is a walk over data: what it computes for every input would need
  an induction that the installed provers cannot use.

## 6. What is not modelled

* A close with transfers in flight, which the documentation of `libusb_close`
  forbids and `core.c:1362` copes with in part; `LIBUSB_TRANSFER_FREE_TRANSFER`;
  a descriptor number that is opened again during one pass of the handler.
* Failed allocations outside `Descriptors` and `Enumeration`; the application
  polling libusb's descriptors itself; failures of the clock and of
  `timerfd_settime`.
* The codes of errors where only the reported reason depends on them: in
  `WindowsBackend` a semaphore timeout and a vanished file are one failure
  (`IoEnds`), in `UnixBackends` an overflow and a timeout that libusb itself set
  are those of macOS's other failures and cancellations (`DarwinStatus`).
* Netlink sockets that overflow; `linux_udev.c`.
* The hotplug thread, device cache and device scan of macOS; the memory and
  streams of usbfs; isochronous packets beyond their order.
* libusbK on Windows, and the thread primitives of both systems, which are
  taken as mutexes, conditions and events are.
* The request of strings and of the BOS, and the stateless getters of
  descriptors.
* The backends of Solaris, Haiku and Windows CE, which nothing compiles; the
  tables of errors; logging and options.

## 7. Plan

1. A close with transfers in flight, over `Transfers`.
2. The device cache and hotplug thread of macOS, beside `DeviceMonitor`.
3. Liveness of the queue backend in `EventLoop`.
