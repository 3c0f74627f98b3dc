--------------------------- MODULE WindowsBackend ---------------------------
(***************************************************************************)
(* Transfers and interfaces on Windows: windows_nt_common.c over one of    *)
(* its two drivers' backends, windows_winusb.c (a device with one driver,  *)
(* "winusb", or one for each interface, "composite") and windows_usbdk.c.  *)
(* Each transfer has an event that poll_windows.c passes off as a file     *)
(* descriptor; a control transfer claims an interface if it finds none.    *)
(***************************************************************************)
EXTENDS Integers, FiniteSets

CONSTANTS
    Handle,         \* open handles of one device
    Transfer,       \* transfers
    Kind,           \* Transfer -> the interface of its endpoint, -1 for control
    Iso,            \* transfers that are isochronous
    LastInterface,  \* bound: interfaces are 0..LastInterface
    MaxFds,         \* MAX_FDS
    Backends,       \* which of "winusb", "composite", "usbdk"
    None,
    Faults          \* circumstances that the library does not cope with, see
                    \* the definitions that name them

Interface == 0..LastInterface
Fd == 0..MaxFds - 1

ASSUME ConstantsAssumption ==
    /\ LastInterface \in Nat /\ MaxFds \in Nat
    /\ Kind \in [Transfer -> -1..LastInterface]
    /\ Iso \subseteq {t \in Transfer : Kind[t] # -1}
    /\ Backends \subseteq {"winusb", "composite", "usbdk"}
    /\ None \notin Transfer \cup Handle \cup Fd

VARIABLES
    backend,
    open,        \* open handles
    redirector,  \* usbdk: redirector_handle is valid, one for the device
    file,        \* dev_handle: the interfaces with a file, for each handle
    api,         \* api_handle: the interfaces with a WinUSB handle
    claimed,     \* core.c: claimed_interfaces
    user,        \* what the program itself claimed and not yet released
    auto,        \* autoclaim_count
    ends,        \* interfaces of the device with endpoints assigned
    cancelEx,    \* CancelIoEx_supported
    fdTable,     \* fd_table: the transfer of each descriptor
    polled,      \* descriptors on the context's list of pollfds
    tr,          \* transfers
    io,          \* the system's request for each transfer
    asked,       \* transfers whose end was asked for: cancel or reset
    result,      \* what the last completion of a transfer reported
    ev           \* the thread that handles events

claims == <<redirector, file, api, claimed, user, auto, ends>>
vars == <<backend, open, claims, cancelEx, fdTable, polled, tr, io, asked, result, ev>>

Unused == [pc |-> "idle", h |-> None, fd |-> None, itf |-> 0, via |-> 0, at |-> 0, tries |-> 0]
Waiting == [pc |-> "idle", seen |-> {}, ready |-> {}, cur |-> None, res |-> "none"]

Init ==
    /\ backend \in Backends
    /\ open = {} /\ redirector = FALSE
    /\ file = [h \in Handle |-> {}] /\ api = [h \in Handle |-> {}]
    /\ claimed = [h \in Handle |-> {}] /\ user = [h \in Handle |-> {}]
    /\ auto = [h \in Handle |-> [i \in Interface |-> 0]]
    /\ ends = {} /\ cancelEx = TRUE
    /\ fdTable = [k \in Fd |-> None] /\ polled = {}
    /\ tr = [t \in Transfer |-> Unused]
    /\ io = [t \in Transfer |-> "none"]
    /\ asked = {} /\ result = [t \in Transfer |-> "idle"]
    /\ ev = Waiting

Control(t) == Kind[t] = -1
Busy(h) == {t \in Transfer : tr[t].pc # "idle" /\ tr[t].h = h}
Unchanged(v) == UNCHANGED <<v, backend, cancelEx, fdTable, polled, tr, io, asked, result, ev>>

----------------------------------------------------------------------------
(* Handles.                                                                *)

\* winusbx_open: each interface with a path of its own has a file.
WinusbxOpen == IF backend = "composite" THEN Interface ELSE {0}

CompositeOpen == WinusbxOpen

\* UsbDk refuses to redirect a device that is: redirector_handle is then lost.
UsbdkOpen == IF redirector THEN "second open" \in Faults /\ redirector' = FALSE
                           ELSE redirector' = TRUE

OpenHandle(h) ==
    /\ h \notin open
    /\ IF backend = "usbdk" THEN UsbdkOpen /\ UNCHANGED file
       ELSE /\ file' = [file EXCEPT
                           ![h] = IF backend = "winusb" THEN WinusbxOpen ELSE CompositeOpen]
            /\ UNCHANGED redirector
    /\ open' = IF backend = "usbdk" /\ redirector THEN open ELSE open \cup {h}
    /\ Unchanged(<<api, claimed, user, auto, ends>>)

\* winusbx_close frees the interfaces, composite_close does by calling it.
WinusbxClose(h) ==
    /\ file' = [file EXCEPT ![h] = {}] /\ api' = [api EXCEPT ![h] = {}]
    /\ UNCHANGED redirector
CompositeClose(h) == WinusbxClose(h)
UsbdkClose == redirector' = FALSE /\ UNCHANGED <<file, api>>

\* The program has waited for its transfers.
CloseHandle(h) ==
    /\ h \in open /\ Busy(h) = {}
    /\ CASE backend = "winusb" -> WinusbxClose(h)
         [] backend = "composite" -> CompositeClose(h)
         [] backend = "usbdk" -> UsbdkClose
    /\ open' = open \ {h}
    /\ claimed' = [claimed EXCEPT ![h] = {}] /\ user' = [user EXCEPT ![h] = {}]
    /\ auto' = [auto EXCEPT ![h] = [i \in Interface |-> 0]]
    /\ Unchanged(<<ends>>)

----------------------------------------------------------------------------
(* Interfaces. What a claim may come to: its success, and the interfaces   *)
(* with a WinUSB handle after it.                                          *)

\* Through a file of its own: composite, or interface 0.
Initialize(h, i) ==
    IF i \in file[h]
    THEN {[ok |-> TRUE, api |-> api[h] \cup {i}], [ok |-> FALSE, api |-> api[h] \ {i}]}
    ELSE {[ok |-> FALSE, api |-> api[h]]}

\* Through interface 0, which is initialised for it.
GetAssociated(h, i) ==
    {[ok |-> TRUE, api |-> api[h] \cup {0, i}],
     [ok |-> FALSE, api |-> (api[h] \cup {0}) \ {i}]}
        \cup IF 0 \in api[h] THEN {} ELSE {[ok |-> FALSE, api |-> api[h]]}

WinusbxClaim(h, i) ==
    IF backend = "composite" \/ i = 0 THEN Initialize(h, i) ELSE GetAssociated(h, i)

CompositeClaim(h, i) == WinusbxClaim(h, i)

UsbdkClaim(h, i) == {[ok |-> TRUE, api |-> api[h]]}

\* winusb_claim_interface forgets the endpoints, claims, and assigns them again.
AfterClaim(ok, i) == IF ok THEN ends \cup {i} ELSE ends \ {i}

\* libusb_claim_interface: done if it is claimed already.
Claims(h, i) ==
    IF i \in claimed[h] THEN {[ok |-> TRUE, api |-> api[h], ends |-> ends]}
    ELSE {[ok |-> c.ok, api |-> c.api,
           ends |-> IF backend = "usbdk" THEN ends ELSE AfterClaim(c.ok, i)] :
          c \in CASE backend = "winusb" -> WinusbxClaim(h, i)
                  [] backend = "composite" -> CompositeClaim(h, i)
                  [] backend = "usbdk" -> UsbdkClaim(h, i)}

\* Fault "claim again": a claim fails of interface 0, initialised for another's sake.
\* Fault "claim during auto": a control transfer is claiming, or has claimed, i.
Claim(h, i) ==
    /\ h \in open
    /\ \/ "claim during auto" \in Faults
       \/ auto[h][i] = 0 /\ \A t \in Busy(h) : tr[t].pc # "auto"
    /\ \E c \in Claims(h, i) :
        /\ c.ok \/ "claim again" \in Faults \/ i \notin api[h]
        /\ api' = [api EXCEPT ![h] = c.api] /\ ends' = c.ends
        /\ claimed' = IF c.ok THEN [claimed EXCEPT ![h] = @ \cup {i}] ELSE claimed
        /\ user' = IF c.ok THEN [user EXCEPT ![h] = @ \cup {i}] ELSE user
    /\ Unchanged(<<open, redirector, file, auto>>)

WinusbxRelease(h, i) == api' = [api EXCEPT ![h] = @ \ {i}]
CompositeRelease(h, i) == WinusbxRelease(h, i)
UsbdkRelease(h, i) == UNCHANGED api

\* libusb_release_interface; WinUSB's fails if there is no handle.
ReleaseInterface(h, i) ==
    /\ CASE backend = "winusb" -> WinusbxRelease(h, i)
         [] backend = "composite" -> CompositeRelease(h, i)
         [] backend = "usbdk" -> UsbdkRelease(h, i)
    /\ claimed' = IF backend = "usbdk" \/ i \in api[h] THEN [claimed EXCEPT ![h] = @ \ {i}]
                                                       ELSE claimed

\* The program releases an interface that its transfers do not use; which one a
\* control transfer uses it cannot know (fault "release under control").
Release(h, i) ==
    /\ h \in open /\ i \in user[h]
    /\ \A t \in Busy(h) : Kind[t] # i
    /\ "release under control" \in Faults \/ \A t \in Busy(h) : ~Control(t)
    /\ ReleaseInterface(h, i)
    /\ user' = [user EXCEPT ![h] = @ \ {i}]
    /\ Unchanged(<<open, redirector, file, auto, ends>>)

\* A claimed interface has an alternate setting selected, or refuses.
WinusbxSetAlt(h, i) == IF i \in api[h] THEN BOOLEAN ELSE {FALSE}
CompositeSetAlt(h, i) == WinusbxSetAlt(h, i)

\* winusb_set_interface_altsetting: if it is refused the endpoints stay forgotten.
SetAltSetting(h, i) ==
    /\ h \in open /\ i \in user[h] /\ backend # "usbdk"
    /\ \E ok \in IF backend = "winusb" THEN WinusbxSetAlt(h, i) ELSE CompositeSetAlt(h, i) :
        ends' = AfterClaim(ok, i)
    /\ Unchanged(<<open, redirector, file, api, claimed, user, auto>>)

----------------------------------------------------------------------------
(* Submission: core.c puts the transfer on the list and holds its lock.    *)

SetTr(t, r) == tr' = [tr EXCEPT ![t] = r]

\* The program has claimed the interface whose endpoint it uses.
SubmitStart(t, h) ==
    /\ tr[t].pc = "idle" /\ h \in open /\ (Control(t) \/ Kind[t] \in user[h])
    /\ "shared auto claim" \in Faults \/ \A u \in Busy(h) : ~(Control(u) /\ Control(t))
    /\ SetTr(t, [tr[t] EXCEPT !.pc = "listed", !.h = h, !.tries = 0])
    /\ asked' = asked \ {t}
    /\ result' = [result EXCEPT ![t] = "flying"]
    /\ UNCHANGED <<backend, open, claims, cancelEx, fdTable, polled, io, ev>>

\* usbi_create_fd takes the first free entry of the table.
FreeFds == {k \in Fd : fdTable[k] = None}
FirstFree == CHOOSE k \in FreeFds : \A j \in FreeFds : k <= j

Refused(t) ==
    /\ SetTr(t, [tr[t] EXCEPT !.pc = "idle", !.fd = None])
    /\ result' = [result EXCEPT ![t] = "idle"]

\* do_submit_transfer, usbdk_do_submit_transfer: a descriptor first.
CreateFd(t) ==
    /\ tr[t].pc = "listed"
    /\ IF FreeFds = {} THEN Refused(t) /\ UNCHANGED <<fdTable, polled>>
       ELSE /\ fdTable' = [fdTable EXCEPT ![FirstFree] = t]
            /\ polled' = polled \cup {FirstFree}
            /\ SetTr(t, [tr[t] EXCEPT !.pc = "choose", !.fd = FirstFree])
            /\ UNCHANGED result
    /\ UNCHANGED <<backend, open, claims, cancelEx, io, asked, ev>>

\* usbi_remove_pollfd
PolledWithout_kept(k) == polled
PolledWithout(k) == polled \ {k}

\* The transfer function failed: the descriptor goes.
SubmitFails(t) ==
    /\ "failed submit" \in Faults \/ tr[t].fd \notin ev.seen
    /\ polled' = PolledWithout(tr[t].fd)
    /\ fdTable' = [fdTable EXCEPT ![tr[t].fd] = None]
    /\ Refused(t)

\* get_valid_interface, for control transfers.
ValidInterfaces_files(h) == file[h]
ValidInterfaces(h) == file[h] \cap api[h]

GetValidInterface(h) == CHOOSE i \in ValidInterfaces(h) : \A j \in ValidInterfaces(h) : i <= j

\* interface_by_endpoint, for the others.
HasInterface(t) == Kind[t] \in api[tr[t].h] \cap ends

\* The request will go through interface i.
Through(t, i) == SetTr(t, [tr[t] EXCEPT !.pc = "start", !.via = i])

WinusbxControl(t) ==
    IF ValidInterfaces(tr[t].h) # {} THEN Through(t, GetValidInterface(tr[t].h))
    ELSE SetTr(t, [tr[t] EXCEPT !.pc = "auto", !.at = 0])

\* Whatever interface the setup packet names, the first valid one is used.
CompositeControl(t) == WinusbxControl(t)

WinusbxBulk(t) == HasInterface(t) /\ Through(t, Kind[t])
WinusbxIso(t) == WinusbxBulk(t)
CompositeBulk(t) == WinusbxBulk(t)
CompositeIso(t) == WinusbxIso(t)

\* UsbDk needs no interface.
UsbdkControl(t) == Through(t, tr[t].itf)
UsbdkBulk(t) == Through(t, tr[t].itf)
UsbdkIso(t) == Through(t, tr[t].itf)

\* winusb_submit_transfer and usbdk_submit_transfer choose by the type.
WinusbSubmit(t) == CASE Control(t) -> WinusbxControl(t)
                     [] t \in Iso -> WinusbxIso(t)
                     [] OTHER -> WinusbxBulk(t)
CompositeSubmit(t) == CASE Control(t) -> CompositeControl(t)
                        [] t \in Iso -> CompositeIso(t)
                        [] OTHER -> CompositeBulk(t)
UsbdkSubmit(t) == CASE Control(t) -> UsbdkControl(t)
                    [] t \in Iso -> UsbdkIso(t)
                    [] OTHER -> UsbdkBulk(t)

ChooseInterface(t) ==
    /\ tr[t].pc = "choose"
    /\ CASE backend = "winusb" -> WinusbSubmit(t)
         [] backend = "composite" -> CompositeSubmit(t)
         [] backend = "usbdk" -> UsbdkSubmit(t)
    /\ UNCHANGED <<backend, open, claims, cancelEx, fdTable, polled, io, asked, result, ev>>

NoInterface(t) ==
    /\ tr[t].pc = "choose" /\ backend # "usbdk" /\ ~Control(t) /\ ~HasInterface(t)
    /\ SubmitFails(t)
    /\ UNCHANGED <<backend, open, claims, cancelEx, io, asked, ev>>

\* auto_claim, under autoclaim_lock: the first interface that can be claimed, or
\* that the program has (fault "auto claim fails": those before it are refused).
AutoLocked == \E t \in Transfer : tr[t].pc = "auto" /\ tr[t].at > 0

AutoClaim(t) ==
    /\ tr[t].pc = "auto" /\ tr[t].at \in Interface
    /\ tr[t].at = 0 => ~AutoLocked
    /\ LET h == tr[t].h  i == tr[t].at IN
       \E c \in Claims(h, i) :
        /\ c.ok \/ "auto claim fails" \in Faults \/ user[h] = {}
        /\ api' = [api EXCEPT ![h] = c.api] /\ ends' = c.ends
        /\ IF c.ok
           THEN /\ claimed' = [claimed EXCEPT ![h] = @ \cup {i}]
                /\ auto' = [auto EXCEPT ![h][i] = @ + 1]
                /\ Through(t, i)
           ELSE SetTr(t, [tr[t] EXCEPT !.at = i + 1]) /\ UNCHANGED <<claimed, auto>>
    /\ UNCHANGED <<backend, open, redirector, file, user, cancelEx, fdTable, polled, io, asked, result, ev>>

\* composite_submit_control_transfer tries once more when the first attempt was
\* for the interface that the setup packet names.
FailsOrRetries(t) ==
    \/ SubmitFails(t)
    \/ /\ backend = "composite" /\ Control(t) /\ tr[t].tries = 0
       /\ SetTr(t, [tr[t] EXCEPT !.pc = "choose", !.tries = 1])
       /\ UNCHANGED <<fdTable, polled, result>>

AutoClaimFails(t) ==
    /\ tr[t].pc = "auto" /\ tr[t].at = LastInterface + 1
    /\ FailsOrRetries(t)
    /\ UNCHANGED <<backend, open, claims, cancelEx, io, asked, ev>>

\* The request is made: it may be done at once, by windows_force_sync_completion.
StartIo(t) ==
    /\ tr[t].pc = "start"
    /\ backend = "usbdk" => redirector
    /\ \E r \in {"pending", "ok"} : io' = [io EXCEPT ![t] = r]
    /\ SetTr(t, [tr[t] EXCEPT !.pc = "started"])
    /\ UNCHANGED <<backend, open, claims, cancelEx, fdTable, polled, asked, result, ev>>

\* What was claimed for it stays claimed (fault "auto claim left").
StartFails(t) ==
    /\ tr[t].pc = "start"
    /\ "auto claim left" \in Faults \/ ~Control(t) \/ auto[tr[t].h][tr[t].via] = 0
    /\ FailsOrRetries(t)
    /\ UNCHANGED <<backend, open, claims, cancelEx, io, asked, ev>>

\* interface_number is set only now; then core.c marks the transfer as in flight.
InFlight(t) ==
    /\ tr[t].pc = "started"
    /\ SetTr(t, [tr[t] EXCEPT !.pc = "in_flight", !.itf = tr[t].via])
    /\ UNCHANGED <<backend, open, claims, cancelEx, fdTable, polled, io, asked, result, ev>>

----------------------------------------------------------------------------
(* The system, and cancellation.                                           *)

\* The device answers, or the request fails: a stall, a semaphore timeout and a
\* file that vanished differ from other failures only in the status reported.
IoEnds(t) ==
    /\ io[t] = "pending"
    /\ \E r \in {"ok", "failed"} : io' = [io EXCEPT ![t] = r]
    /\ UNCHANGED <<backend, open, claims, cancelEx, fdTable, polled, tr, asked, result, ev>>

Pending(S) == {t \in S : io[t] = "pending"}
Abort(S) == io' = [t \in Transfer |-> IF t \in Pending(S) THEN "aborted" ELSE io[t]]

\* CancelIoEx with the transfer's OVERLAPPED; when that has been given up, with
\* none, which cancels all that goes through the file (fault "late cancel").
CancelIoEx_all(t) == Abort(Busy(tr[t].h))
CancelIoEx(t) ==
    IF tr[t].fd # None THEN Abort({t})
    ELSE "late cancel" \in Faults
        /\ Abort({u \in Busy(tr[t].h) : backend = "usbdk" \/ backend = "winusb" \/ tr[u].via = tr[t].via})

\* AbortPipe: all that goes to the endpoint.
AbortPipe(t) == Abort({u \in Transfer : Kind[u] = Kind[t]})

\* winusbx_abort_transfers: only an interface with its own file can cancel one
\* transfer; the driver of any other is then held not to be able to.
WinusbxAbort_not(t) == UNCHANGED <<io, cancelEx>>
WinusbxAbort(t) ==
    IF cancelEx /\ tr[t].itf \in file[tr[t].h]
    THEN CancelIoEx(t) /\ UNCHANGED cancelEx
    ELSE AbortPipe(t) /\ cancelEx' = FALSE

CompositeAbort(t) == WinusbxAbort(t)
UsbdkAbort(t) == CancelIoEx(t) /\ UNCHANGED cancelEx

\* Nothing is done about a control transfer.
WinusbxAbortControl == UNCHANGED <<io, cancelEx>>
CompositeAbortControl == WinusbxAbortControl

\* winusb_cancel_transfer, usbdk_cancel_transfer
WinusbCancel(t) ==
    CASE Control(t) -> IF backend = "winusb" THEN WinusbxAbortControl ELSE CompositeAbortControl
      [] OTHER -> IF backend = "winusb" THEN WinusbxAbort(t) ELSE CompositeAbort(t)
UsbdkCancel(t) == IF Control(t) THEN UNCHANGED <<io, cancelEx>> ELSE UsbdkAbort(t)

\* libusb_cancel_transfer, also for a timeout, needs the transfer's lock.
Cancel(t) ==
    /\ tr[t].pc = "in_flight" /\ t \notin asked
    /\ IF backend = "usbdk" THEN UsbdkCancel(t) ELSE WinusbCancel(t)
    /\ asked' = asked \cup {t}
    /\ UNCHANGED <<backend, open, claims, fdTable, polled, tr, result, ev>>

\* winusbx_reset_device can only abort the pipes of the claimed interfaces.
WinusbxReset(h) == {t \in Busy(h) : ~Control(t) /\ Kind[t] \in api[h] \cap ends}
CompositeReset(h) == WinusbxReset(h)
UsbdkReset(h) == Busy(h)

Reset(h) ==
    /\ h \in open
    /\ LET S == CASE backend = "winusb" -> WinusbxReset(h)
                   [] backend = "composite" -> CompositeReset(h)
                   [] backend = "usbdk" -> UsbdkReset(h)
       IN Pending(S) # {} /\ Abort(S) /\ asked' = asked \cup Pending(S)
    /\ UNCHANGED <<backend, open, claims, cancelEx, fdTable, polled, tr, result, ev>>

----------------------------------------------------------------------------
(* Events.                                                                 *)

NotEvents == UNCHANGED <<backend, open, redirector, file, user, cancelEx, asked>>

\* handle_events copies the list of descriptors, and usbi_poll waits.
Poll ==
    /\ ev.pc = "idle" /\ polled # {}
    /\ ev' = [ev EXCEPT !.pc = "poll", !.seen = polled]
    /\ UNCHANGED <<api, claimed, auto, ends, fdTable, polled, tr, io, result>> /\ NotEvents

\* HasOverlappedIoCompleted, or a descriptor that is not open (POLLNVAL).
Signalled_all(k) == TRUE
Signalled(k) == IF fdTable[k] = None THEN TRUE ELSE io[fdTable[k]] \notin {"none", "pending"}

CheckPollfds ==
    /\ ev.pc = "poll"
    /\ LET ready == {k \in ev.seen : Signalled(k)} IN
       ev' = IF ready = {} THEN Waiting ELSE [Waiting EXCEPT !.pc = "scan", !.ready = ready]
    /\ UNCHANGED <<api, claimed, auto, ends, fdTable, polled, tr, io, result>> /\ NotEvents

\* The flying transfer with descriptor k, of which the descriptor is given up.
Owners(k) == {t \in Transfer : tr[t].pc # "idle" /\ tr[t].fd = k}

\* What get_overlapped_result reads; UsbDk's errors all become ERROR_GEN_FAILURE.
WinusbResult(t) == io[t]
UsbdkResult(t) == IF io[t] = "failed" THEN "stalled" ELSE io[t]

\* Fault "early": handled before its submission is over.
Take(k) ==
    /\ ev.pc = "scan" /\ k \in ev.ready
    /\ IF Owners(k) = {} THEN ev' = Waiting /\ UNCHANGED <<io, polled>>
       ELSE \E t \in Owners(k) :
            /\ "early" \in Faults \/ tr[t].pc = "in_flight"
            /\ ev' = [ev EXCEPT !.pc = "taken", !.ready = @ \ {k}, !.cur = t,
                                 !.res = IF backend = "usbdk" THEN UsbdkResult(t) ELSE WinusbResult(t)]
            /\ io' = [io EXCEPT ![t] = IF io[t] = "pending" THEN "pending" ELSE "none"]
            /\ polled' = PolledWithout(k)
    /\ UNCHANGED <<api, claimed, auto, ends, fdTable, tr, result>> /\ NotEvents

\* auto_release, with the last of the transfers that it was claimed for.
LastOf_never(n) == FALSE
LastOf(n) == n = 1

AutoRelease(t) ==
    LET h == tr[t].h  i == tr[t].itf IN
    IF auto[h][i] = 0 THEN UNCHANGED <<api, claimed, auto>>
    ELSE /\ auto' = [auto EXCEPT ![h][i] = @ - 1]
         /\ IF LastOf(auto[h][i]) THEN ReleaseInterface(h, i) ELSE UNCHANGED <<api, claimed>>

\* usbi_close
GiveUp(t) ==
    /\ fdTable' = [fdTable EXCEPT ![tr[t].fd] = None]
    /\ SetTr(t, [tr[t] EXCEPT !.fd = None])

WinusbClearPriv(t) == GiveUp(t) /\ ~AutoLocked /\ AutoRelease(t)
UsbdkClearPriv(t) == GiveUp(t) /\ UNCHANGED <<api, claimed, auto>>

ClearTransferPriv ==
    /\ ev.pc = "taken"
    /\ IF backend = "usbdk" THEN UsbdkClearPriv(ev.cur) ELSE WinusbClearPriv(ev.cur)
    /\ ev' = [ev EXCEPT !.pc = "report"]
    /\ UNCHANGED <<ends, polled, io, result>> /\ NotEvents

\* windows_transfer_callback
Status == [ok |-> "completed", failed |-> "error", stalled |-> "stall", aborted |-> "cancelled",
           pending |-> "error", none |-> "error"]

\* The completion waits for the transfer's lock.
Report ==
    /\ ev.pc = "report" /\ tr[ev.cur].pc = "in_flight"
    /\ result' = [result EXCEPT ![ev.cur] = Status[ev.res]]
    /\ SetTr(ev.cur, [tr[ev.cur] EXCEPT !.pc = "idle"])
    /\ ev' = IF ev.ready = {} THEN Waiting ELSE [ev EXCEPT !.pc = "scan", !.cur = None]
    /\ UNCHANGED <<api, claimed, auto, ends, fdTable, polled, io>> /\ NotEvents

----------------------------------------------------------------------------
Submission(t) ==
    \/ CreateFd(t) \/ ChooseInterface(t) \/ NoInterface(t) \/ AutoClaim(t)
    \/ AutoClaimFails(t) \/ StartIo(t) \/ StartFails(t) \/ InFlight(t)

Events == Poll \/ CheckPollfds \/ (\E k \in Fd : Take(k)) \/ ClearTransferPriv \/ Report

Next ==
    \/ \E h \in Handle : OpenHandle(h) \/ CloseHandle(h) \/ Reset(h)
    \/ \E h \in Handle, i \in Interface : Claim(h, i) \/ Release(h, i) \/ SetAltSetting(h, i)
    \/ \E t \in Transfer, h \in Handle : SubmitStart(t, h)
    \/ \E t \in Transfer : Submission(t) \/ IoEnds(t) \/ Cancel(t)
    \/ Events

Spec == Init /\ [][Next]_vars

\* Threads go on with what they do, and the system with what it is to abort.
LiveSpec ==
    /\ Spec
    /\ \A t \in Transfer : WF_vars(Submission(t))
    /\ WF_vars(Events)

----------------------------------------------------------------------------
(* Properties.                                                             *)

\* A submission passes through these.
TransferState == [pc : {"idle", "listed", "choose", "auto", "start", "started", "in_flight"},
                  h : Handle \cup {None}, fd : Fd \cup {None}, itf : Interface,
                  via : Interface, at : 0..LastInterface + 1, tries : {0, 1}]
Request == {"none", "pending", "ok", "failed", "aborted"}
EventThread == [pc : {"idle", "poll", "scan", "taken", "report"}, seen : SUBSET Fd,
                ready : SUBSET Fd, cur : Transfer \cup {None}, res : Request \cup {"stalled"}]

TypeOK ==
    /\ backend \in Backends
    /\ open \subseteq Handle /\ redirector \in BOOLEAN /\ cancelEx \in BOOLEAN
    /\ file \in [Handle -> SUBSET Interface] /\ api \in [Handle -> SUBSET Interface]
    /\ claimed \in [Handle -> SUBSET Interface] /\ user \in [Handle -> SUBSET Interface]
    /\ auto \in [Handle -> [Interface -> Nat]]
    /\ ends \subseteq Interface
    /\ fdTable \in [Fd -> Transfer \cup {None}] /\ polled \subseteq Fd
    /\ tr \in [Transfer -> TransferState]
    /\ io \in [Transfer -> Request]
    /\ asked \subseteq Transfer
    /\ result \in [Transfer -> {"idle", "flying", "completed", "error", "stall", "cancelled"}]
    /\ ev \in EventThread

\* The program keeps what it claimed while control transfers claim and release
\* interfaces of their own; a request goes through an interface that is claimed
\* and has its WinUSB handle.
ClaimsHeld ==
    IF backend = "usbdk" THEN open # {} => redirector
    ELSE /\ \A h \in open : user[h] \subseteq claimed[h] \cap api[h]
         /\ \A t \in Transfer : io[t] = "pending" =>
               /\ tr[t].via \in claimed[tr[t].h] \cup {0}
               /\ tr[t].via \in api[tr[t].h]

\* What a control transfer claimed is released when it ends, whatever its end.
AutoClaimsBalance ==
    \A h \in Handle : Busy(h) = {} => \A i \in Interface :
        auto[h][i] = 0 /\ (h \in open => (i \in claimed[h] <=> i \in user[h]))

\* Claims of the program and of control transfers, kept apart.
ClaimsBalance == ClaimsHeld /\ AutoClaimsBalance

\* The event thread finds each descriptor of its snapshot open and owned,
\* although other threads submit meanwhile and a number is used again at once.
DescriptorsFound ==
    /\ ev.pc = "poll" => \A k \in ev.seen : fdTable[k] # None
    /\ ev.pc = "scan" => \A k \in ev.ready : Cardinality(Owners(k)) = 1
    /\ \A k \in Fd : fdTable[k] # None => tr[fdTable[k]].fd = k

\* Only a transfer whose end was asked for is cancelled.
OthersGoOn == \A t \in Transfer : result[t] = "cancelled" => t \in asked

\* What io.c relies on.
Backend == INSTANCE TransferBackend WITH
    Statuses <- {"completed", "error", "stall", "cancelled"},
    outcome <- result,
    held <- Pending(Transfer)

\* A transfer is reported once, when the system has let go of its buffer.
ImplementsBackend == Backend!Spec

\* A transfer that is not a control transfer ends once it was cancelled.
CancelEnds ==
    \A t \in Transfer : ~Control(t) =>
        (tr[t].pc = "in_flight" /\ t \in asked) ~> tr[t].pc = "idle"
============================================================================
