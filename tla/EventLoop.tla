----------------------------- MODULE EventLoop -----------------------------
(***************************************************************************)
(* Event handling in one libusb context, as several threads share it:      *)
(* src/libusb/libusb/io.c (locks, handle_events, waiting for another       *)
(* thread's event handling), core.c (the event pipe, open and close),      *)
(* sync.c (the blocking transfers that the Go methods Device.Read and      *)
(* Device.Write run on), hotplug.c (the messages that wake the handler)    *)
(* and the backend's handle_events.                                        *)
(*                                                                         *)
(* Each thread has a program counter.  A section of code under             *)
(* event_data_lock is one step, except where it may block inside: reading  *)
(* the event pipe (its read end is blocking) and the loop that drops the   *)
(* lock around a completion.  event_handler_active and *completed are read *)
(* without the lock that protects them, so each such read is a step.       *)
(***************************************************************************)
EXTENDS Naturals, FiniteSets

CONSTANTS
    Thread,                \* threads of the application
    Handle,                \* device handles, each with its file descriptor
    Pipe,                  \* the read end of the event pipe in a poll set
    None,                  \* owner of a free lock
    Applications           \* what applications do, on which kind of backend

Calls == {"sync", "async", "handle_events", "open", "close", "interrupt",
          "deregister"}
CallbackCalls == {"close", "handle_events"}

\* An application is a record: queueBackend (completions arrive on
\* completed_transfers), hasTimeout (the threads whose transfers carry a
\* timeout), mayCall and mayUse (the API calls each thread makes, and the
\* handles it makes them on), what its transfer and hotplug callbacks call into
\* libusb, and three bounds: maxCalls (how many calls each thread makes),
\* maxMessages (how many hotplug messages the monitor posts) and maxFailures
\* (how often poll, or the backend, fails).
ASSUME ConstantsAssumption ==
    /\ IsFiniteSet(Thread) /\ None \notin Thread
    /\ Pipe \notin Handle \cup {None}
    /\ \A a \in Applications :
          /\ a.queueBackend \in BOOLEAN
          /\ a.hasTimeout \subseteq Thread
          /\ a.mayCall \in [Thread -> SUBSET Calls]
          /\ a.mayUse \in [Thread -> SUBSET Handle]
          /\ a.maxCalls \in [Thread -> Nat]
          /\ a.transferCallbackDoes \subseteq CallbackCalls
          /\ a.hotplugCallbackDoes \subseteq CallbackCalls
          /\ a.maxMessages \in Nat /\ a.maxFailures \in Nat

VARIABLES
    pc,                  \* where each thread is
    call,                \* the API call each thread is in
    callsLeft,           \* calls a thread may still make
    cb,                  \* where a call made in a callback resumes
    handling,            \* the event_handling_key of each thread is set
    target,              \* the handle a thread is opening or closing
    dev,                 \* the handle of the transfer a thread submitted
    urb,                 \* the transfer a thread submitted
    async,               \* threads whose transfer has a user callback
    timer,               \* the timeout of each transfer
    deadline,            \* transfers whose timeouts bound a thread's wait
    completed,           \* *completed of each synchronous call
    eventsLock, dataLock, waitersLock, openDevsLock,    \* owners
    handlerActive,       \* ctx->event_handler_active
    waitSet,             \* threads in event_waiters_cond
    eventFlags, deviceClose, hotplugMsgs, completedTransfers, ipollfds,
    pipe,                \* bytes in the event pipe
    pollfds,             \* ctx->pollfds, what the handler polls
    revents,             \* members of pollfds that poll() reported
    cutMsgs,             \* messages the handler cut off for itself
    failed,              \* threads whose handle_events ends with an error
    openDevs,            \* ctx->open_devs
    opened,              \* handles the application holds
    fdOpen,              \* handles whose file descriptor is open
    msgsLeft,            \* messages the monitor may still post
    failuresLeft,        \* failures there may still be
    app                  \* the application at hand, which never changes

threadVars == <<call, callsLeft, target>>
userVars   == <<dev, async, opened>>
xferVars   == <<urb, timer, completed>>
lockVars   == <<eventsLock, dataLock, waitersLock, openDevsLock>>
dataVars   == <<eventFlags, deviceClose, hotplugMsgs, completedTransfers,
                ipollfds, pipe>>
loopVars   == <<pollfds, revents, cutMsgs, failed>>
outside    == <<msgsLeft, failuresLeft, app>>
vars == <<pc, cb, handling, deadline, threadVars, userVars, xferVars,
          lockVars, dataVars, loopVars, handlerActive, waitSet, openDevs,
          fdOpen, outside>>

----------------------------------------------------------------------------
(* The program counter, by what the thread is doing.                       *)

\* libusb_handle_events_timeout_completed up to the events lock.
TryPCs == {"next_timeout", "try", "trylock"}

\* As an event waiter: those that hold event_waiters_lock, and the others.
WaiterLockPCs == {"recheck", "closing", "active"}
WaiterPCs == {"waiters", "asleep", "woken", "timed_out"} \cup WaiterLockPCs

\* With events_lock held: taking and giving up the events lock, inside
\* handle_events, and the event-data part of libusb_close.
HandlerPCs == {"start", "start_clear", "poll", "pipe", "complete",
               "relock", "pipe_clear", "messages", "backend", "reap", "end"}
OwnerPCs == {"set_active", "check", "unlock", "unlock_events"}
                \cup HandlerPCs
CloserPCs == {"close_active", "close_list", "close_pollfd", "close_fd",
              "close_dec", "close_clear"}

\* Program counters at which the thread reads the event pipe.
ClearPCs == {"start_clear", "pipe_clear", "close_clear"}

PCs == {"idle", "wait", "close_lock", "open_list", "broadcast"}
           \cup TryPCs \cup WaiterPCs \cup OwnerPCs \cup CloserPCs

Flags == {"POLLFDS_MODIFIED", "USER_INTERRUPT", "HOTPLUG_CB_DEREGISTERED"}

TypeOK ==
    /\ pc \in [Thread -> PCs]
    /\ call \in [Thread -> Calls \cup {"none"}]
    /\ callsLeft \in [Thread -> Nat]
    /\ cb \in [Thread -> {"none", "messages", "reap", "relock"}]
    /\ handling \in [Thread -> BOOLEAN]
    /\ target \in [Thread -> Handle \cup {None}]
    /\ dev \in [Thread -> Handle \cup {None}]
    /\ urb \in [Thread -> {"none", "flying", "discarded", "ready", "queued"}]
    /\ async \in SUBSET Thread
    /\ timer \in [Thread -> {"none", "armed", "due", "handled"}]
    /\ deadline \in [Thread -> SUBSET Thread]
    /\ completed \in [Thread -> BOOLEAN]
    /\ eventsLock \in Thread \cup {None}
    /\ dataLock \in Thread \cup {None}
    /\ waitersLock \in Thread \cup {None}
    /\ openDevsLock \in Thread \cup {None}
    /\ handlerActive \in BOOLEAN
    /\ waitSet \in SUBSET Thread
    /\ eventFlags \in SUBSET Flags
    /\ deviceClose \in Nat
    /\ hotplugMsgs \in Nat
    /\ completedTransfers \in SUBSET Thread
    /\ ipollfds \in SUBSET (Handle \cup {Pipe})
    /\ pipe \in Nat
    /\ pollfds \in SUBSET (Handle \cup {Pipe})
    /\ revents \in SUBSET (Handle \cup {Pipe})
    /\ cutMsgs \in Nat
    /\ failed \in SUBSET Thread
    /\ openDevs \in SUBSET Handle
    /\ opened \in SUBSET Handle
    /\ fdOpen \in SUBSET Handle
    /\ msgsLeft \in Nat
    /\ failuresLeft \in Nat
    /\ app \in Applications

\* The application starts with every handle open; usbi_io_init has put the
\* pipe in the poll set, so the first handler rebuilds ctx->pollfds.
Init ==
    /\ app \in Applications
    /\ pc = [t \in Thread |-> "idle"]
    /\ call = [t \in Thread |-> "none"]
    /\ callsLeft = app.maxCalls
    /\ cb = [t \in Thread |-> "none"]
    /\ handling = [t \in Thread |-> FALSE]
    /\ target = [t \in Thread |-> None]
    /\ dev = [t \in Thread |-> None]
    /\ urb = [t \in Thread |-> "none"]
    /\ async = {}
    /\ timer = [t \in Thread |-> "none"]
    /\ deadline = [t \in Thread |-> {}]
    /\ completed = [t \in Thread |-> FALSE]
    /\ eventsLock = None /\ dataLock = None
    /\ waitersLock = None /\ openDevsLock = None
    /\ handlerActive = FALSE
    /\ waitSet = {}
    /\ eventFlags = {"POLLFDS_MODIFIED"}
    /\ deviceClose = 0
    /\ hotplugMsgs = 0
    /\ completedTransfers = {}
    /\ ipollfds = {Pipe} \cup (IF app.queueBackend THEN {} ELSE Handle)
    /\ pipe = 1
    /\ pollfds = {}
    /\ revents = {}
    /\ cutMsgs = 0
    /\ failed = {}
    /\ openDevs = Handle
    /\ opened = Handle
    /\ fdOpen = Handle
    /\ msgsLeft = app.maxMessages
    /\ failuresLeft = app.maxFailures

----------------------------------------------------------------------------
(* Helpers.                                                                *)

At(t, p) == pc[t] = p
Goto(t, p) == pc' = [pc EXCEPT ![t] = p]

\* usbi_pending_events, for some event_flags and device_close.
PendingWith(flags, closes) ==
    flags # {} \/ closes > 0 \/ hotplugMsgs > 0 \/ completedTransfers # {}

Pending == PendingWith(eventFlags, deviceClose)

\* Mutant: an event that is posted without a byte.
SignalNothing == UNCHANGED pipe

\* What every poster of an event does under event_data_lock: one byte goes
\* into the pipe only when nothing was pending before.
SignalIfQuiet == pipe' = IF Pending THEN pipe ELSE pipe + 1

\* A transfer in use on a handle, other than those in done.
InUse(h, done) == \E t \in Thread \ done : urb[t] # "none" /\ dev[t] = h

\* libusb_cancel_transfer of the transfer of t, in flight or not
CancelledUrb(t) == IF urb[t] = "flying" THEN "discarded" ELSE urb[t]

\* handle_timeouts: cancel every transfer whose timeout has expired.
HandleTimeouts ==
    /\ timer' = [t \in Thread |-> IF timer[t] = "due" THEN "handled"
                                                      ELSE timer[t]]
    /\ urb' = [t \in Thread |-> IF timer[t] = "due" THEN CancelledUrb(t) ELSE urb[t]]
    /\ UNCHANGED completed

\* handle_events is to end with an error.
Fail(t) ==
    /\ failuresLeft > 0
    /\ failuresLeft' = failuresLeft - 1
    /\ failed' = failed \cup {t}

\* A call into libusb returns: to the callback that made it, to the loop in
\* sync_transfer_wait_for_completion, or to the application.
Return(t) ==
    /\ Goto(t, IF cb[t] # "none" THEN cb[t]
               ELSE IF call[t] = "sync" THEN "wait" ELSE "idle")
    /\ cb' = [cb EXCEPT ![t] = "none"]
    /\ call' = [call EXCEPT ![t] =
                   IF cb[t] = "none" /\ call[t] # "sync" THEN "none" ELSE @]
    /\ deadline' = [deadline EXCEPT ![t] = {}]

\* The thread's own *completed is set; libusb_handle_events passes NULL.
SeesCompleted(t) == cb[t] = "none" /\ call[t] = "sync" /\ completed[t]

\* usbi_handle_transfer_completion of x, before its callback is called;
\* sync_transfer_cb sets *completed.
Complete(x) ==
    /\ urb' = [urb EXCEPT ![x] = "none"]
    /\ timer' = [timer EXCEPT ![x] = "none"]
    /\ completed' = [completed EXCEPT ![x] = x \notin async]

\* A member of pollfds is readable: the pipe when it holds a byte, a usbfs
\* descriptor when the kernel has a finished URB for it.
Readable == {f \in pollfds : \/ f = Pipe /\ pipe > 0
                             \/ \E x \in Thread : dev[x] = f /\ urb[x] = "ready"}

\* Some timeout that bounds t's wait has expired.
DeadlinePassed(t) == \E x \in deadline[t] : timer[x] # "armed"

----------------------------------------------------------------------------
(* Calls of the application.                                               *)

BeginCall(t, c) ==
    /\ At(t, "idle")
    /\ c \in app.mayCall[t]
    /\ callsLeft[t] > 0
    /\ callsLeft' = [callsLeft EXCEPT ![t] = @ - 1]

\* libusb_submit_transfer, from a synchronous call or for a user callback.
Submit(t, h, isAsync) ==
    /\ h \in opened
    /\ urb[t] = "none"
    /\ urb' = [urb EXCEPT ![t] = "flying"]
    /\ timer' = [timer EXCEPT
                    ![t] = IF t \in app.hasTimeout THEN "armed" ELSE "none"]
    /\ completed' = [completed EXCEPT ![t] = FALSE]
    /\ dev' = [dev EXCEPT ![t] = h]
    /\ async' = IF isAsync THEN async \cup {t} ELSE async \ {t}

\* do_sync_bulk_transfer up to its wait.
SyncTransfer(t, h) ==
    /\ BeginCall(t, "sync")
    /\ Submit(t, h, FALSE)
    /\ call' = [call EXCEPT ![t] = "sync"]
    /\ Goto(t, "wait")
    /\ UNCHANGED <<cb, handling, deadline, target, opened, lockVars, dataVars,
                   loopVars, handlerActive, waitSet, openDevs, fdOpen, outside>>

SubmitAsync(t, h) ==
    /\ BeginCall(t, "async")
    /\ Submit(t, h, TRUE)
    /\ UNCHANGED <<pc, call, cb, handling, deadline, target, opened, lockVars,
                   dataVars, loopVars, handlerActive, waitSet, openDevs, fdOpen,
                   outside>>

HandleEvents(t) ==
    /\ BeginCall(t, "handle_events")
    /\ call' = [call EXCEPT ![t] = "handle_events"]
    /\ Goto(t, "next_timeout")
    /\ UNCHANGED <<cb, handling, deadline, target, userVars, xferVars, lockVars,
                   dataVars, loopVars, handlerActive, waitSet, openDevs, fdOpen,
                   outside>>

\* libusb_interrupt_event_handler
InterruptEventHandler(t) ==
    /\ BeginCall(t, "interrupt")
    /\ dataLock = None
    /\ eventFlags' = eventFlags \cup {"USER_INTERRUPT"}
    /\ SignalIfQuiet
    /\ UNCHANGED <<pc, call, cb, handling, deadline, target, userVars, xferVars,
                   lockVars, deviceClose, hotplugMsgs, completedTransfers,
                   ipollfds, loopVars, handlerActive, waitSet, openDevs, fdOpen,
                   outside>>

\* libusb_hotplug_deregister_callback, the part that wakes the handler.
HotplugDeregister(t) ==
    /\ BeginCall(t, "deregister")
    /\ dataLock = None
    /\ eventFlags' = eventFlags \cup {"HOTPLUG_CB_DEREGISTERED"}
    /\ SignalIfQuiet
    /\ UNCHANGED <<pc, call, cb, handling, deadline, target, userVars, xferVars,
                   lockVars, deviceClose, hotplugMsgs, completedTransfers,
                   ipollfds, loopVars, handlerActive, waitSet, openDevs, fdOpen,
                   outside>>

\* libusb_open: op_open opens the descriptor and adds it to the poll set ...
Open(t, h) ==
    /\ BeginCall(t, "open")
    /\ h \notin fdOpen
    /\ dataLock = None
    /\ call' = [call EXCEPT ![t] = "open"]
    /\ target' = [target EXCEPT ![t] = h]
    /\ fdOpen' = fdOpen \cup {h}
    /\ IF app.queueBackend
       THEN UNCHANGED <<ipollfds, eventFlags, pipe>>
       ELSE /\ ipollfds' = ipollfds \cup {h}
            /\ eventFlags' = eventFlags \cup {"POLLFDS_MODIFIED"}
            /\ SignalIfQuiet
    /\ Goto(t, "open_list")
    /\ UNCHANGED <<cb, handling, deadline, userVars, xferVars, lockVars,
                   deviceClose, hotplugMsgs, completedTransfers, loopVars,
                   handlerActive, waitSet, openDevs, outside>>

\* ... and the handle joins open_devs.
OpenList(t) ==
    /\ At(t, "open_list")
    /\ openDevsLock = None
    /\ openDevs' = openDevs \cup {target[t]}
    /\ opened' = opened \cup {target[t]}
    /\ Return(t)
    /\ UNCHANGED <<callsLeft, target, handling, dev, async, xferVars, lockVars,
                   dataVars, loopVars, handlerActive, waitSet, fdOpen, outside>>

\* libusb_close outside event handling: interrupt the handler.  The
\* application closes a handle only when no transfer of its uses it.
Close(t, h) ==
    /\ BeginCall(t, "close")
    /\ h \in opened
    /\ ~InUse(h, {})
    /\ dataLock = None
    /\ call' = [call EXCEPT ![t] = "close"]
    /\ target' = [target EXCEPT ![t] = h]
    /\ opened' = opened \ {h}
    /\ deviceClose' = deviceClose + 1
    /\ SignalIfQuiet
    /\ Goto(t, "close_lock")
    /\ UNCHANGED <<cb, handling, deadline, dev, async, xferVars, lockVars,
                   eventFlags, hotplugMsgs, completedTransfers, ipollfds,
                   loopVars, handlerActive, waitSet, openDevs, fdOpen, outside>>

----------------------------------------------------------------------------
(* The rest of libusb_close.                                               *)

\* Mutant: libusb_close does not wait for the events lock.
CloseLockSkipped(t) ==
    /\ At(t, "close_lock")
    /\ Goto(t, "close_active")
    /\ UNCHANGED <<cb, handling, deadline, threadVars, userVars, xferVars,
                   lockVars, dataVars, loopVars, handlerActive, waitSet,
                   openDevs, fdOpen, outside>>

\* libusb_lock_events
CloseLock(t) ==
    /\ At(t, "close_lock")
    /\ eventsLock = None
    /\ eventsLock' = t
    /\ Goto(t, "close_active")
    /\ UNCHANGED <<cb, handling, deadline, threadVars, userVars, xferVars,
                   dataLock, waitersLock, openDevsLock, dataVars, loopVars,
                   handlerActive, waitSet, openDevs, fdOpen, outside>>

CloseActive(t) ==
    /\ At(t, "close_active")
    /\ handlerActive' = TRUE
    /\ Goto(t, "close_list")
    /\ UNCHANGED <<cb, handling, deadline, threadVars, userVars, xferVars,
                   lockVars, dataVars, loopVars, waitSet, openDevs, fdOpen,
                   outside>>

\* do_close: off open_devs, off the poll set, and the descriptor closed.
CloseList(t) ==
    /\ At(t, "close_list")
    /\ openDevsLock = None
    /\ openDevs' = openDevs \ {target[t]}
    /\ Goto(t, "close_pollfd")
    /\ UNCHANGED <<cb, handling, deadline, threadVars, userVars, xferVars,
                   lockVars, dataVars, loopVars, handlerActive, waitSet, fdOpen,
                   outside>>

\* Mutant: the descriptor leaves the poll set without telling the handler.
ClosePollfdSilently(t) ==
    /\ At(t, "close_pollfd")
    /\ dataLock = None
    /\ ipollfds' = ipollfds \ {target[t]}
    /\ Goto(t, "close_fd")
    /\ UNCHANGED <<cb, handling, deadline, threadVars, userVars, xferVars,
                   lockVars, eventFlags, pipe, deviceClose, hotplugMsgs,
                   completedTransfers, loopVars, handlerActive, waitSet,
                   openDevs, fdOpen, outside>>

\* usbi_remove_pollfd
ClosePollfd(t) ==
    /\ At(t, "close_pollfd")
    /\ dataLock = None
    /\ IF target[t] \in ipollfds
       THEN /\ ipollfds' = ipollfds \ {target[t]}
            /\ eventFlags' = eventFlags \cup {"POLLFDS_MODIFIED"}
            /\ SignalIfQuiet
       ELSE UNCHANGED <<ipollfds, eventFlags, pipe>>
    /\ Goto(t, "close_fd")
    /\ UNCHANGED <<cb, handling, deadline, threadVars, userVars, xferVars,
                   lockVars, deviceClose, hotplugMsgs, completedTransfers,
                   loopVars, handlerActive, waitSet, openDevs, fdOpen, outside>>

\* A close made by a callback of the event handler ends here.
CloseFd(t) ==
    /\ At(t, "close_fd")
    /\ fdOpen' = fdOpen \ {target[t]}
    /\ IF handling[t]
       THEN Return(t)
       ELSE Goto(t, "close_dec") /\ UNCHANGED <<cb, call, deadline>>
    /\ UNCHANGED <<handling, callsLeft, target, userVars, xferVars, lockVars,
                   dataVars, loopVars, handlerActive, waitSet, openDevs,
                   outside>>

CloseDec(t) ==
    /\ At(t, "close_dec")
    /\ dataLock = None
    /\ deviceClose' = deviceClose - 1
    /\ IF PendingWith(eventFlags, deviceClose - 1)
       THEN Goto(t, "unlock") /\ UNCHANGED dataLock
       ELSE Goto(t, "close_clear") /\ dataLock' = t
    /\ UNCHANGED <<cb, handling, deadline, threadVars, userVars, xferVars,
                   eventsLock, waitersLock, openDevsLock, eventFlags,
                   hotplugMsgs, completedTransfers, ipollfds, pipe, loopVars,
                   handlerActive, waitSet, openDevs, fdOpen, outside>>

\* usbi_clear_event, then event_data_lock released: a read of the pipe,
\* which blocks while the pipe is empty.
ClearEvent(t, from, to) ==
    /\ At(t, from)
    /\ pipe > 0
    /\ pipe' = pipe - 1
    /\ dataLock' = None
    /\ Goto(t, to)
    /\ UNCHANGED <<cb, handling, deadline, threadVars, userVars, xferVars,
                   eventsLock, waitersLock, openDevsLock, eventFlags,
                   deviceClose, hotplugMsgs, completedTransfers, ipollfds,
                   loopVars, handlerActive, waitSet, openDevs, fdOpen, outside>>

CloseClear(t) == ClearEvent(t, "close_clear", "unlock")

----------------------------------------------------------------------------
(* libusb_handle_events_timeout_completed.                                 *)

\* Mutant: after an error the call cancels its transfer and gives up.
SyncWaitGivesUp(t) ==
    /\ At(t, "wait")
    /\ IF completed[t] \/ t \in failed
       THEN Goto(t, "idle") /\ call' = [call EXCEPT ![t] = "none"]
       ELSE Goto(t, "next_timeout") /\ UNCHANGED call
    /\ urb' = [urb EXCEPT ![t] = IF t \in failed THEN CancelledUrb(t) ELSE @]
    /\ failed' = failed \ {t}
    /\ UNCHANGED <<cb, handling, deadline, callsLeft, target, userVars, timer,
                   completed, lockVars, dataVars, pollfds, revents, cutMsgs,
                   handlerActive, waitSet, openDevs, fdOpen, outside>>

\* sync_transfer_wait_for_completion: test *completed, or handle events, after
\* an error with the transfer cancelled.
SyncWait(t) ==
    /\ At(t, "wait")
    /\ IF completed[t]
       THEN Goto(t, "idle") /\ call' = [call EXCEPT ![t] = "none"]
       ELSE Goto(t, "next_timeout") /\ UNCHANGED call
    /\ urb' = [urb EXCEPT ![t] = IF t \in failed THEN CancelledUrb(t) ELSE @]
    /\ failed' = failed \ {t}
    /\ UNCHANGED <<cb, handling, deadline, callsLeft, target, userVars, timer,
                   completed, lockVars, dataVars, pollfds, revents, cutMsgs,
                   handlerActive, waitSet, openDevs, fdOpen, outside>>

\* get_next_timeout: when a timeout has already expired the call only
\* handles it; otherwise the timeouts now armed bound the wait.
NextTimeout(t) ==
    /\ At(t, "next_timeout")
    /\ IF \E x \in Thread : timer[x] = "due"
       THEN HandleTimeouts /\ Return(t)
       ELSE /\ deadline' = [deadline EXCEPT ![t] = {x \in Thread : timer[x] = "armed"}]
            /\ Goto(t, "try")
            /\ UNCHANGED <<cb, call, xferVars>>
    /\ UNCHANGED <<handling, callsLeft, target, userVars, lockVars, dataVars,
                   loopVars, handlerActive, waitSet, openDevs, fdOpen, outside>>

\* libusb_try_lock_events: refuse while a device is being closed ...
TryLockEvents(t) ==
    /\ At(t, "try")
    /\ dataLock = None
    /\ Goto(t, IF deviceClose > 0 THEN "waiters" ELSE "trylock")
    /\ UNCHANGED <<cb, handling, deadline, threadVars, userVars, xferVars,
                   lockVars, dataVars, loopVars, handlerActive, waitSet,
                   openDevs, fdOpen, outside>>

\* ... then take events_lock if it is free.
TryLock(t) ==
    /\ At(t, "trylock")
    /\ IF eventsLock = None
       THEN eventsLock' = t /\ Goto(t, "set_active")
       ELSE UNCHANGED eventsLock /\ Goto(t, "waiters")
    /\ UNCHANGED <<cb, handling, deadline, threadVars, userVars, xferVars,
                   dataLock, waitersLock, openDevsLock, dataVars, loopVars,
                   handlerActive, waitSet, openDevs, fdOpen, outside>>

SetActive(t) ==
    /\ At(t, "set_active")
    /\ handlerActive' = TRUE
    /\ Goto(t, "check")
    /\ UNCHANGED <<cb, handling, deadline, threadVars, userVars, xferVars,
                   lockVars, dataVars, loopVars, waitSet, openDevs, fdOpen,
                   outside>>

\* Test *completed again under the lock; handle_events refuses a thread that
\* is already handling events.
Check(t) ==
    /\ At(t, "check")
    /\ IF SeesCompleted(t) \/ handling[t]
       THEN Goto(t, "unlock") /\ UNCHANGED handling
       ELSE Goto(t, "start") /\ handling' = [handling EXCEPT ![t] = TRUE]
    /\ UNCHANGED <<cb, deadline, threadVars, userVars, xferVars, lockVars,
                   dataVars, loopVars, handlerActive, waitSet, openDevs, fdOpen,
                   outside>>

LockWaiters(t) ==
    /\ At(t, "waiters")
    /\ waitersLock = None
    /\ waitersLock' = t
    /\ Goto(t, "recheck")
    /\ UNCHANGED <<cb, handling, deadline, threadVars, userVars, xferVars,
                   eventsLock, dataLock, openDevsLock, dataVars, loopVars,
                   handlerActive, waitSet, openDevs, fdOpen, outside>>

\* Another thread may have completed the transfer in the meantime.
Recheck(t) ==
    /\ At(t, "recheck")
    /\ IF SeesCompleted(t)
       THEN Return(t) /\ waitersLock' = None
       ELSE /\ Goto(t, "closing")
            /\ UNCHANGED <<cb, call, deadline, waitersLock>>
    /\ UNCHANGED <<handling, callsLeft, target, userVars, xferVars, eventsLock,
                   dataLock, openDevsLock, dataVars, loopVars, handlerActive,
                   waitSet, openDevs, fdOpen, outside>>

\* libusb_event_handler_active says yes while a device is being closed, ...
HandlerClosing(t) ==
    /\ At(t, "closing")
    /\ dataLock = None
    /\ IF deviceClose > 0
       THEN /\ Goto(t, "asleep")
            /\ waitSet' = waitSet \cup {t}
            /\ waitersLock' = None
       ELSE Goto(t, "active") /\ UNCHANGED <<waitSet, waitersLock>>
    /\ UNCHANGED <<cb, handling, deadline, threadVars, userVars, xferVars,
                   eventsLock, dataLock, openDevsLock, dataVars, loopVars,
                   handlerActive, openDevs, fdOpen, outside>>

\* Mutant: the waiter sleeps without asking whether a handler is active.
HandlerActiveAssumed(t) ==
    /\ At(t, "active")
    /\ waitersLock' = None
    /\ Goto(t, "asleep") /\ waitSet' = waitSet \cup {t}
    /\ UNCHANGED <<cb, handling, deadline, threadVars, userVars, xferVars,
                   eventsLock, dataLock, openDevsLock, dataVars, loopVars,
                   handlerActive, openDevs, fdOpen, outside>>

\* ... and otherwise what the flag says, read without its lock.
HandlerActive(t) ==
    /\ At(t, "active")
    /\ waitersLock' = None
    /\ IF handlerActive
       THEN Goto(t, "asleep") /\ waitSet' = waitSet \cup {t}
       ELSE Goto(t, "try") /\ UNCHANGED waitSet
    /\ UNCHANGED <<cb, handling, deadline, threadVars, userVars, xferVars,
                   eventsLock, dataLock, openDevsLock, dataVars, loopVars,
                   handlerActive, openDevs, fdOpen, outside>>

\* libusb_wait_for_event returns because another thread broadcast.
Woken(t) ==
    /\ At(t, "woken")
    /\ waitersLock = None
    /\ Return(t)
    /\ UNCHANGED <<handling, callsLeft, target, userVars, xferVars, lockVars,
                   dataVars, loopVars, handlerActive, waitSet, openDevs, fdOpen,
                   outside>>

\* Its timed wait may also end by itself (after at most 60 seconds).
SleepTimesOut(t) ==
    /\ At(t, "asleep")
    /\ waitSet' = waitSet \ {t}
    /\ Goto(t, "timed_out")
    /\ UNCHANGED <<cb, handling, deadline, threadVars, userVars, xferVars,
                   lockVars, dataVars, loopVars, handlerActive, openDevs, fdOpen,
                   outside>>

TimedOut(t) ==
    /\ At(t, "timed_out")
    /\ waitersLock = None
    /\ HandleTimeouts
    /\ Return(t)
    /\ UNCHANGED <<handling, callsLeft, target, userVars, lockVars, dataVars,
                   loopVars, handlerActive, waitSet, openDevs, fdOpen, outside>>

----------------------------------------------------------------------------
(* handle_events.                                                          *)

\* Rebuild ctx->pollfds if the set changed; clear the event if it was the
\* only one.
Start(t) ==
    /\ At(t, "start")
    /\ dataLock = None
    /\ IF "POLLFDS_MODIFIED" \in eventFlags
       THEN /\ pollfds' = ipollfds
            /\ eventFlags' = eventFlags \ {"POLLFDS_MODIFIED"}
            /\ IF PendingWith(eventFlags \ {"POLLFDS_MODIFIED"}, deviceClose)
               THEN Goto(t, "poll") /\ UNCHANGED dataLock
               ELSE Goto(t, "start_clear") /\ dataLock' = t
       ELSE Goto(t, "poll") /\ UNCHANGED <<pollfds, eventFlags, dataLock>>
    /\ UNCHANGED <<cb, handling, deadline, threadVars, userVars, xferVars,
                   eventsLock, waitersLock, openDevsLock, deviceClose,
                   hotplugMsgs, completedTransfers, ipollfds, pipe, revents,
                   cutMsgs, failed, handlerActive, waitSet, openDevs, fdOpen,
                   outside>>

StartClear(t) == ClearEvent(t, "start_clear", "poll")

Poll(t) ==
    /\ At(t, "poll")
    /\ Readable # {}
    /\ revents' = Readable
    /\ Goto(t, IF Pipe \in Readable THEN "pipe" ELSE "backend")
    /\ UNCHANGED <<cb, handling, deadline, threadVars, userVars, xferVars,
                   lockVars, dataVars, pollfds, cutMsgs, failed, handlerActive,
                   waitSet, openDevs, fdOpen, outside>>

PollTimesOut(t) ==
    /\ At(t, "poll")
    /\ Readable = {}
    /\ HandleTimeouts
    /\ Goto(t, "end")
    /\ UNCHANGED <<cb, handling, deadline, threadVars, userVars, lockVars,
                   dataVars, loopVars, handlerActive, waitSet, openDevs, fdOpen,
                   outside>>

\* A signal: LIBUSB_ERROR_INTERRUPTED, which synchronous calls retry.
PollInterrupted(t) ==
    /\ At(t, "poll")
    /\ Readable = {}
    /\ Goto(t, "end")
    /\ UNCHANGED <<cb, handling, deadline, threadVars, userVars, xferVars,
                   lockVars, dataVars, loopVars, handlerActive, waitSet,
                   openDevs, fdOpen, outside>>

\* poll() fails otherwise.
PollFails(t) ==
    /\ At(t, "poll")
    /\ Fail(t)
    /\ Goto(t, "end")
    /\ UNCHANGED <<cb, handling, deadline, threadVars, userVars, xferVars,
                   lockVars, dataVars, pollfds, revents, cutMsgs, handlerActive,
                   waitSet, openDevs, fdOpen, msgsLeft, app>>

\* The event pipe is readable: take over the flags and the messages, ...
PipeEvent(t) ==
    /\ At(t, "pipe")
    /\ dataLock = None
    /\ dataLock' = t
    /\ eventFlags' = eventFlags \ {"USER_INTERRUPT", "HOTPLUG_CB_DEREGISTERED"}
    /\ cutMsgs' = hotplugMsgs
    /\ hotplugMsgs' = 0
    /\ Goto(t, "complete")
    /\ UNCHANGED <<cb, handling, deadline, threadVars, userVars, xferVars,
                   eventsLock, waitersLock, openDevsLock, deviceClose,
                   completedTransfers, ipollfds, pipe, pollfds, revents, failed,
                   handlerActive, waitSet, openDevs, fdOpen, outside>>

\* What a callback of the event handler does before it returns to `back`:
\* nothing that concerns the event loop, libusb_close on the handle h, or
\* libusb_handle_events.
CallbackReturns(t, back) ==
    /\ Goto(t, back)
    /\ UNCHANGED <<cb, target, opened>>

CallbackCloses(t, h, back) ==
    /\ h \in opened
    /\ opened' = opened \ {h}
    /\ target' = [target EXCEPT ![t] = h]
    /\ cb' = [cb EXCEPT ![t] = back]
    /\ Goto(t, "close_list")

CallbackHandlesEvents(t, back) ==
    /\ cb' = [cb EXCEPT ![t] = back]
    /\ Goto(t, "next_timeout")
    /\ UNCHANGED <<target, opened>>

\* The callback of transfer x, with its user callback's choices.
TransferCallback(t, x, back) ==
    \/ CallbackReturns(t, back)
    \/ /\ x \in async
       /\ "close" \in app.transferCallbackDoes
       /\ ~InUse(dev[x], {x})
       /\ CallbackCloses(t, dev[x], back)
    \/ /\ x \in async
       /\ "handle_events" \in app.transferCallbackDoes
       /\ CallbackHandlesEvents(t, back)

\* ... complete the transfers on completed_transfers one by one with
\* event_data_lock dropped around each, until the backend reports an error, ...
CompleteQueued(t) ==
    /\ At(t, "complete")
    /\ t \notin failed
    /\ \E x \in completedTransfers :
          /\ completedTransfers' = completedTransfers \ {x}
          /\ Complete(x)
          /\ TransferCallback(t, x, "relock")
    /\ Fail(t) \/ UNCHANGED <<failed, failuresLeft>>
    /\ dataLock' = None
    /\ UNCHANGED <<call, handling, deadline, callsLeft, dev, async, eventsLock,
                   waitersLock, openDevsLock, eventFlags, deviceClose,
                   hotplugMsgs, ipollfds, pipe, pollfds, revents, cutMsgs,
                   handlerActive, waitSet, openDevs, fdOpen, msgsLeft, app>>

Relock(t) ==
    /\ At(t, "relock")
    /\ dataLock = None
    /\ dataLock' = t
    /\ Goto(t, "complete")
    /\ UNCHANGED <<cb, handling, deadline, threadVars, userVars, xferVars,
                   eventsLock, waitersLock, openDevsLock, dataVars, loopVars,
                   handlerActive, waitSet, openDevs, fdOpen, outside>>

\* Mutant: the event is cleared although something else is pending.
CompletedAllClears(t) ==
    /\ At(t, "complete")
    /\ completedTransfers = {} \/ t \in failed
    /\ Goto(t, "pipe_clear")
    /\ UNCHANGED <<cb, handling, deadline, threadVars, userVars, xferVars,
                   lockVars, dataVars, loopVars, handlerActive, waitSet,
                   openDevs, fdOpen, outside>>

\* ... and clear the event unless something is pending again.
CompletedAll(t) ==
    /\ At(t, "complete")
    /\ completedTransfers = {} \/ t \in failed
    /\ IF Pending
       THEN Goto(t, "messages") /\ dataLock' = None
       ELSE Goto(t, "pipe_clear") /\ UNCHANGED dataLock
    /\ UNCHANGED <<cb, handling, deadline, threadVars, userVars, xferVars,
                   eventsLock, waitersLock, openDevsLock, dataVars, loopVars,
                   handlerActive, waitSet, openDevs, fdOpen, outside>>

PipeClear(t) == ClearEvent(t, "pipe_clear", "messages")

\* One hotplug message: usbi_hotplug_match calls the hotplug callbacks.  A
\* callback may close a handle that no transfer uses.
HotplugMessage(t) ==
    /\ At(t, "messages")
    /\ cutMsgs > 0
    /\ cutMsgs' = cutMsgs - 1
    /\ \/ CallbackReturns(t, "messages")
       \/ /\ "close" \in app.hotplugCallbackDoes
          /\ \E h \in Handle : ~InUse(h, {}) /\ CallbackCloses(t, h, "messages")
       \/ /\ "handle_events" \in app.hotplugCallbackDoes
          /\ CallbackHandlesEvents(t, "messages")
    /\ UNCHANGED <<call, handling, deadline, callsLeft, dev, async, xferVars,
                   lockVars, dataVars, pollfds, revents, failed, handlerActive,
                   waitSet, openDevs, fdOpen, outside>>

\* There was an error, or nothing but the pipe was ready: done; otherwise the
\* backend's turn.
MessagesDone(t) ==
    /\ At(t, "messages")
    /\ cutMsgs = 0
    /\ Goto(t, IF t \in failed \/ revents = {Pipe} THEN "end" ELSE "backend")
    /\ UNCHANGED <<cb, handling, deadline, threadVars, userVars, xferVars,
                   lockVars, dataVars, loopVars, handlerActive, waitSet,
                   openDevs, fdOpen, outside>>

\* op_handle_events (Linux): with open_devs_lock held, ...
Backend(t) ==
    /\ At(t, "backend")
    /\ openDevsLock = None
    /\ openDevsLock' = t
    /\ revents' = revents \ {Pipe}
    /\ Goto(t, "reap")
    /\ UNCHANGED <<cb, handling, deadline, threadVars, userVars, xferVars,
                   eventsLock, dataLock, waitersLock, dataVars, pollfds, cutMsgs,
                   failed, handlerActive, waitSet, openDevs, fdOpen, outside>>

Reapable(h) == {x \in Thread : dev[x] = h /\ urb[x] = "ready"}

\* ... reap the finished URBs of each ready descriptor and complete their
\* transfers, the callbacks running under open_devs_lock; ...
Reap(t) ==
    /\ At(t, "reap")
    /\ \E h \in revents \cap openDevs : \E x \in Reapable(h) :
          /\ Complete(x)
          /\ TransferCallback(t, x, "reap")
    /\ UNCHANGED <<call, handling, deadline, callsLeft, dev, async, lockVars,
                   dataVars, loopVars, handlerActive, waitSet, openDevs, fdOpen,
                   outside>>

\* ... go on to the next descriptor when there is no more to reap (EAGAIN)
\* or when no open handle has this descriptor; ...
ReapNext(t) ==
    /\ At(t, "reap")
    /\ \E h \in revents : /\ h \in openDevs => Reapable(h) = {}
                          /\ revents' = revents \ {h}
    /\ UNCHANGED <<pc, cb, handling, deadline, threadVars, userVars, xferVars,
                   lockVars, dataVars, pollfds, cutMsgs, failed, handlerActive,
                   waitSet, openDevs, fdOpen, outside>>

\* ... and release open_devs_lock after the last.
BackendDone(t) ==
    /\ At(t, "reap")
    /\ revents = {}
    /\ openDevsLock' = None
    /\ Goto(t, "end")
    /\ UNCHANGED <<cb, handling, deadline, threadVars, userVars, xferVars,
                   eventsLock, dataLock, waitersLock, dataVars, loopVars,
                   handlerActive, waitSet, openDevs, fdOpen, outside>>

\* A descriptor or a completion fails, and the others must wait for the next
\* handle_events.
BackendFails(t) ==
    /\ At(t, "reap")
    /\ Fail(t)
    /\ openDevsLock' = None
    /\ Goto(t, "end")
    /\ UNCHANGED <<cb, handling, deadline, threadVars, userVars, xferVars,
                   eventsLock, dataLock, waitersLock, dataVars, pollfds, revents,
                   cutMsgs, handlerActive, waitSet, openDevs, fdOpen, msgsLeft, app>>

EndHandling(t) ==
    /\ At(t, "end")
    /\ handling' = [handling EXCEPT ![t] = FALSE]
    /\ revents' = {}
    /\ Goto(t, "unlock")
    /\ UNCHANGED <<cb, deadline, threadVars, userVars, xferVars, lockVars,
                   dataVars, pollfds, cutMsgs, failed, handlerActive, waitSet,
                   openDevs, fdOpen, outside>>

----------------------------------------------------------------------------
(* libusb_unlock_events: the flag, the lock, and the waiters.              *)

ClearActive(t) ==
    /\ At(t, "unlock")
    /\ handlerActive' = FALSE
    /\ Goto(t, "unlock_events")
    /\ UNCHANGED <<cb, handling, deadline, threadVars, userVars, xferVars,
                   lockVars, dataVars, loopVars, waitSet, openDevs, fdOpen,
                   outside>>

UnlockEvents(t) ==
    /\ At(t, "unlock_events")
    /\ eventsLock' = None
    /\ Goto(t, "broadcast")
    /\ UNCHANGED <<cb, handling, deadline, threadVars, userVars, xferVars,
                   dataLock, waitersLock, openDevsLock, dataVars, loopVars,
                   handlerActive, waitSet, openDevs, fdOpen, outside>>

Broadcast(t) ==
    /\ At(t, "broadcast")
    /\ waitersLock = None
    /\ waitSet' = {}
    /\ cb' = [cb EXCEPT ![t] = "none"]
    /\ pc' = [u \in Thread |->
                 IF u \in waitSet THEN "woken"
                 ELSE IF u # t THEN pc[u]
                 ELSE IF call[t] = "sync" THEN "wait" ELSE "idle"]
    /\ call' = [call EXCEPT ![t] = IF @ = "sync" THEN @ ELSE "none"]
    /\ deadline' = [deadline EXCEPT ![t] = {}]
    /\ failed' = IF call[t] = "sync" THEN failed ELSE failed \ {t}
    /\ UNCHANGED <<handling, callsLeft, target, userVars, xferVars, lockVars,
                   dataVars, pollfds, revents, cutMsgs, handlerActive, openDevs,
                   fdOpen, outside>>

----------------------------------------------------------------------------
(* The environment: the clock, the devices, and the threads of the backend *)
(* and of the hotplug monitor.                                             *)

TimerExpires(x) ==
    /\ timer[x] = "armed"
    /\ timer' = [timer EXCEPT ![x] = "due"]
    /\ UNCHANGED <<pc, cb, handling, deadline, threadVars, userVars, urb,
                   completed, lockVars, dataVars, loopVars, handlerActive,
                   waitSet, openDevs, fdOpen, outside>>

\* The device answers, or the host controller gives back a discarded URB.
UrbReturns(x) ==
    /\ urb[x] \in {"flying", "discarded"}
    /\ urb' = [urb EXCEPT ![x] = "ready"]
    /\ UNCHANGED <<pc, cb, handling, deadline, threadVars, userVars, timer,
                   completed, lockVars, dataVars, loopVars, handlerActive,
                   waitSet, openDevs, fdOpen, outside>>

\* usbi_signal_transfer_completion, called by the backend's own thread.
SignalTransferCompletion(x) ==
    /\ app.queueBackend
    /\ urb[x] = "ready"
    /\ dataLock = None
    /\ urb' = [urb EXCEPT ![x] = "queued"]
    /\ completedTransfers' = completedTransfers \cup {x}
    /\ SignalIfQuiet
    /\ UNCHANGED <<pc, cb, handling, deadline, threadVars, userVars, timer,
                   completed, lockVars, eventFlags, deviceClose, hotplugMsgs,
                   ipollfds, loopVars, handlerActive, waitSet, openDevs, fdOpen,
                   outside>>

\* usbi_hotplug_notification, called by the hotplug monitor's thread.
HotplugNotification ==
    /\ msgsLeft > 0
    /\ msgsLeft' = msgsLeft - 1
    /\ dataLock = None
    /\ hotplugMsgs' = hotplugMsgs + 1
    /\ SignalIfQuiet
    /\ UNCHANGED <<pc, cb, handling, deadline, threadVars, userVars, xferVars,
                   lockVars, eventFlags, deviceClose, completedTransfers,
                   ipollfds, loopVars, handlerActive, waitSet, openDevs, fdOpen,
                   failuresLeft, app>>

----------------------------------------------------------------------------
(* The specification.                                                      *)

StartCall(t) ==
    \/ \E h \in app.mayUse[t] : \/ SyncTransfer(t, h)
                                \/ SubmitAsync(t, h)
                                \/ Open(t, h)
                                \/ Close(t, h)
    \/ HandleEvents(t)
    \/ InterruptEventHandler(t)
    \/ HotplugDeregister(t)

\* The steps a thread inside a call takes without waiting for anything but
\* locks, descriptors and signals.
Step(t) ==
    \/ OpenList(t)
    \/ CloseLock(t) \/ CloseActive(t) \/ CloseList(t) \/ ClosePollfd(t)
    \/ CloseFd(t) \/ CloseDec(t) \/ CloseClear(t)
    \/ SyncWait(t) \/ NextTimeout(t)
    \/ TryLockEvents(t) \/ TryLock(t) \/ SetActive(t) \/ Check(t)
    \/ LockWaiters(t) \/ Recheck(t) \/ HandlerClosing(t) \/ HandlerActive(t)
    \/ Woken(t) \/ TimedOut(t)
    \/ Start(t) \/ StartClear(t) \/ Poll(t) \/ PipeEvent(t)
    \/ CompleteQueued(t) \/ Relock(t) \/ CompletedAll(t) \/ PipeClear(t)
    \/ HotplugMessage(t) \/ MessagesDone(t)
    \/ Backend(t) \/ Reap(t) \/ ReapNext(t) \/ BackendDone(t)
    \/ EndHandling(t)
    \/ ClearActive(t) \/ UnlockEvents(t) \/ Broadcast(t)

\* A wait ends by itself, or something fails.
Elapse(t) ==
    \/ PollTimesOut(t) \/ PollInterrupted(t) \/ SleepTimesOut(t)
    \/ PollFails(t) \/ BackendFails(t)

Environment ==
    \/ \E x \in Thread : \/ TimerExpires(x)
                         \/ UrbReturns(x)
                         \/ SignalTransferCompletion(x)
    \/ HotplugNotification

Next == \/ \E t \in Thread : StartCall(t) \/ Step(t) \/ Elapse(t)
        \/ Environment

Spec == Init /\ [][Next]_vars

\* Threads in a call keep running, the clock advances and the kernel gives
\* back discarded URBs.  No device needs to answer, and nothing is assumed of
\* the 60-second limit of a wait: only a wait that a transfer's own timeout
\* bounds must end by itself.
Fairness ==
    /\ \A t \in Thread :
          /\ WF_vars(Step(t))
          /\ WF_vars(DeadlinePassed(t) /\ (PollTimesOut(t) \/ SleepTimesOut(t)))
    /\ \A x \in Thread :
          /\ WF_vars(TimerExpires(x))
          /\ WF_vars(UrbReturns(x) /\ urb[x] = "discarded")
          /\ WF_vars(SignalTransferCompletion(x))

LiveSpec == Spec /\ Fairness

----------------------------------------------------------------------------
(* Properties.                                                             *)

\* A thread works with events_lock held: it is in the sections the lock
\* protects, or in a callback made from there.
InHandler(t) == pc[t] \in OwnerPCs \cup CloserPCs \/ cb[t] # "none"

\* At most one thread handles events or takes a device out of the poll set,
\* and it is the owner of events_lock (io.c:1732-1808, core.c:1408-1431).
OneHandler == \A t \in Thread : InHandler(t) => eventsLock = t

\* Whatever waits for the event handler keeps the pipe readable, however
\* posts, clears and closes interleave: no wake-up is lost (the test of
\* usbi_pending_events around every usbi_signal_event).
PendingIsSignalled == Pending => pipe > 0

\* No thread reads the event pipe when it is empty.  That read would block
\* with event_data_lock held (core.c:1199-1212; only the write end of the
\* pipe is non-blocking, poll_posix.c).
ClearNeverBlocks == \A t \in Thread : pc[t] \in ClearPCs => pipe > 0

\* With the Linux backend the pipe never holds a second byte, and holds one
\* only while something is pending or a thread is about to clear it: no
\* stale byte makes later calls to poll() return for nothing.
NoStaleByte ==
    ~app.queueBackend => /\ pipe <= 1
                         /\ pipe = 1 => Pending \/ dataLock # None

\* The pipe holds a byte for what is pending or left to clear, and nothing
\* else, however posts, clears and closes interleave.
PipeIsExact == PendingIsSignalled /\ ClearNeverBlocks /\ NoStaleByte

\* The handler blocked in poll() watches no descriptor that was closed, and
\* watches every descriptor of the poll set unless the pipe already tells
\* it to start again (io.c:1066-1076, the purpose of the close protocol).
PollSetCurrent ==
    \A t \in Thread : At(t, "poll") =>
        /\ pollfds \subseteq fdOpen \cup {Pipe}
        /\ pollfds = ipollfds \/ pipe > 0

\* No callback handles events, where its thread would wait for itself
\* (RecursionRefused).
NoRecursion == "handle_events" \notin app.transferCallbackDoes \cup app.hotplugCallbackDoes

\* A thread sleeps on event_waiters_cond only while another thread, one that
\* does not sleep there, is still to broadcast: the owner of events_lock, one
\* about to broadcast, or one that waits for events_lock to close a device
\* (io.c:1939-1962). The exception is a thread that sleeps in a callback of its
\* own event handling: it owns events_lock, and nobody will wake it or those
\* that sleep with it. No thread gets there unless a callback handles events.
WaitersHaveAWaker ==
    LET selfWait == \E t \in waitSet : handling[t]
    IN /\ waitSet # {} /\ ~selfWait =>
             \/ eventsLock \in Thread \ waitSet
             \/ \E t \in Thread : pc[t] \in {"close_lock", "broadcast"}
       /\ NoRecursion => ~selfWait

\* No callback calls back into libusb, where it may wait for its own thread
\* (CallbackMayClose, RecursionRefused).
CallbacksReturn == app.transferCallbackDoes \cup app.hotplugCallbackDoes = {}

\* A thread in libusb_close, or in a blocking transfer that has a timeout or
\* was answered.
MustReturn(t) ==
    \/ call[t] = "close"
    \/ call[t] = "sync" /\ (t \in app.hasTimeout \/ urb[t] # "flying")

\* A synchronous transfer returns once its device has answered, and one with
\* a timeout returns though the device never does, whichever thread handles
\* the events, even one that waits forever for a transfer of its own, and
\* without help from the 60-second limit of a wait.  libusb_close gets its
\* "free ride" to the events lock (io.c:1048-1068): it returns even when the
\* handler sleeps in poll() and no transfer completes.
CallsReturn ==
    \A t \in Thread :
        CallbacksReturn /\ MustReturn(t) ~> call[t] \notin {"sync", "close"}

\* io.c:1084-1087 says of libusb_open that it takes its free ride to the
\* events lock and has "successfully paused the events handler" when it
\* releases it: no thread would be handling events as the handle is added.
OpenPausesHandler ==
    [][\A t \in Thread :
          OpenList(t) => \A u \in Thread : pc[u] \notin HandlerPCs]_vars

\* core.c:1412-1414 says that a libusb_close made by the current event handler
\* can go ahead, for "we already hold the event handling lock": the thread
\* would never wait for a lock that it holds itself.
CallbackMayClose ==
    \A t \in Thread : At(t, "close_list") => openDevsLock # t

\* io.c:2083-2084 says that handle_events prevents "attempts to recursively
\* handle events (e.g. calling into libusb_handle_events() from within a
\* hotplug or transfer callback)": such a call would not wait for itself.
RecursionRefused ==
    \A t \in Thread : At(t, "asleep") => ~handling[t]

----------------------------------------------------------------------------
(* The abstract specification.                                             *)

Service == INSTANCE SyncService WITH
    Caller <- Thread,
    request <- [t \in Thread |-> IF call[t] # "sync" THEN "idle"
                                 ELSE IF completed[t] THEN "answered"
                                 ELSE "pending"]

\* The event loop implements SyncService: however the threads hand event
\* handling to each other, no blocking call returns without its answer, is
\* answered for another call, or is answered twice (sync.c:33-80).
ImplementsSyncService == Service!Spec
============================================================================
