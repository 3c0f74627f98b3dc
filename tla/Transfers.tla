----------------------------- MODULE Transfers -----------------------------
(***************************************************************************)
(* The life of asynchronous transfers on one device handle:                *)
(* src/libusb/libusb/io.c (submit, cancel, timeouts, completion,           *)
(* disconnection) over the usbfs backend os/linux_usbfs.c, for transfers   *)
(* of one URB, as control transfers are.                                   *)
(*                                                                         *)
(* Several threads submit, cancel, free and handle timeouts while one, the *)
(* Handler, handles events (EventLoop shows there is one at a time) and    *)
(* runs the callbacks.  A section under one lock is one step; a step that  *)
(* holds a lock while it takes another is two.                             *)
(***************************************************************************)
EXTENDS Naturals, FiniteSets

CONSTANTS
    Transfer,            \* libusb_transfer structures
    User,                \* threads of the application
    Handler,             \* the thread that handles events
    None,                \* owner of a free lock; no transfer
    HasTimeout,          \* transfers submitted with a timeout
    Racing,              \* may two threads submit one transfer at once?
    MaxSubmits           \* bound: submissions in a behaviour

Actor == User \cup {Handler}

ASSUME ConstantsAssumption ==
    /\ IsFiniteSet(Transfer) /\ None \notin Transfer
    /\ Handler \notin User /\ None \notin Actor
    /\ HasTimeout \subseteq Transfer
    /\ Racing \in BOOLEAN
    /\ MaxSubmits \in Nat

VARIABLES
    pc, cur,             \* where each actor is, and the transfer it works on
    result,              \* what libusb_cancel_transfer returned to handle_timeout
    lock,                \* owner of each itransfer->lock
    flyingLock,          \* owner of flying_transfers_lock
    flying,              \* ctx->flying_transfers
    inFlight, cancelling, disappeared,  \* state_flags
    timeoutHandled, timedOut,           \* timeout_flags
    hasUrbs,             \* tpriv->urbs is not NULL
    reapCancelled,       \* tpriv->reap_action is CANCELLED
    status,              \* the status the last completion reports
    urb,                 \* the kernel's view of the URB
    expired,             \* the transfer's timeout has passed
    gone,                \* the device is unplugged
    canReap,             \* its kernel has USBFS_CAP_REAP_AFTER_DISCONNECT
    fdRemoved,           \* hpriv->fd_removed
    refs,                \* references to the device
    freed,               \* transfers the application freed
    owed,                \* submitted, and the callback not yet called
    cancelledBy,         \* whose cancellation of the transfer succeeded
    submitsLeft

flagVars == <<inFlight, cancelling, disappeared, timeoutHandled, timedOut>>
privVars == <<hasUrbs, reapCancelled>>
envVars  == <<urb, expired, gone, canReap>>
histVars == <<owed, cancelledBy, submitsLeft>>
vars == <<pc, cur, result, lock, flyingLock, flying, flagVars, privVars,
          status, envVars, fdRemoved, refs, freed, histVars>>

SubmitPCs   == {"submit", "submit_lock", "submit_urb", "submit_failed"}
TimeoutPCs  == {"timeouts", "timeout_scan", "timeout_cancel", "timeout_flag"}
CompletePCs == {"cancellation", "completion", "landed", "call"}
HandlerPCs  == {"callback", "unref", "scan", "examine", "clear"} \cup CompletePCs
PCs == {"idle"} \cup SubmitPCs \cup TimeoutPCs \cup HandlerPCs

Statuses == {"COMPLETED", "CANCELLED", "TIMED_OUT", "NO_DEVICE"}

TypeOK ==
    /\ pc \in [Actor -> PCs]
    /\ cur \in [Actor -> Transfer \cup {None}]
    /\ result \in [Actor -> {"SUCCESS", "NOT_FOUND", "NO_DEVICE"}]
    /\ lock \in [Transfer -> Actor \cup {None}]
    /\ flyingLock \in Actor \cup {None}
    /\ flying \in SUBSET Transfer
    /\ inFlight \in SUBSET Transfer
    /\ cancelling \in SUBSET Transfer
    /\ disappeared \in SUBSET Transfer
    /\ timeoutHandled \in SUBSET Transfer
    /\ timedOut \in SUBSET Transfer
    /\ hasUrbs \in SUBSET Transfer
    /\ reapCancelled \in SUBSET Transfer
    /\ status \in [Transfer -> Statuses \cup {"none"}]
    /\ urb \in [Transfer -> {"none", "pending", "ok", "enoent", "eshutdown"}]
    /\ expired \in SUBSET Transfer
    /\ gone \in BOOLEAN /\ canReap \in BOOLEAN /\ fdRemoved \in BOOLEAN
    /\ refs \in Nat
    /\ freed \in SUBSET Transfer
    /\ owed \in SUBSET Transfer
    /\ cancelledBy \in [Transfer -> {"none", "user", "timeout"}]
    /\ submitsLeft \in 0..MaxSubmits

\* An open handle (its reference to the device) and allocated transfers.
Init ==
    /\ pc = [a \in Actor |-> "idle"]
    /\ cur = [a \in Actor |-> None]
    /\ result = [a \in Actor |-> "SUCCESS"]
    /\ lock = [x \in Transfer |-> None]
    /\ flyingLock = None
    /\ flying = {}
    /\ inFlight = {} /\ cancelling = {} /\ disappeared = {}
    /\ timeoutHandled = {} /\ timedOut = {}
    /\ hasUrbs = {} /\ reapCancelled = {}
    /\ status = [x \in Transfer |-> "none"]
    /\ urb = [x \in Transfer |-> "none"]
    /\ expired = {}
    /\ gone = FALSE /\ fdRemoved = FALSE
    /\ canReap \in BOOLEAN
    /\ refs = 1
    /\ freed = {} /\ owed = {}
    /\ cancelledBy = [x \in Transfer |-> "none"]
    /\ submitsLeft = MaxSubmits

----------------------------------------------------------------------------
At(a, p) == pc[a] = p
Goto(a, p) == pc' = [pc EXCEPT ![a] = p]
Work(a, x) == cur' = [cur EXCEPT ![a] = x]

\* A call returns: to the callback it was made from, or to the application.
Return(a) ==
    /\ Goto(a, IF a = Handler /\ cur[a] # None THEN "callback" ELSE "idle")
    /\ IF a = Handler THEN UNCHANGED cur ELSE Work(a, None)

----------------------------------------------------------------------------
(* libusb_submit_transfer.                                                 *)

Submitting(x) == \E a \in Actor : pc[a] \in SubmitPCs /\ cur[a] = x

\* A user thread, or the callback of the transfer, submits x.
Submit(a, x) ==
    /\ \/ a \in User /\ At(a, "idle")
       \/ a = Handler /\ At(a, "callback") /\ cur[a] = x
    /\ x \notin freed
    /\ Racing \/ (x \notin owed /\ ~Submitting(x))
    /\ submitsLeft > 0
    /\ submitsLeft' = submitsLeft - 1
    /\ Work(a, x)
    /\ Goto(a, "submit")
    /\ UNCHANGED <<result, lock, flyingLock, flying, flagVars, privVars, status,
                   envVars, fdRemoved, refs, freed, owed, cancelledBy>>

LockFlying(a, from, to) ==
    /\ At(a, from)
    /\ flyingLock = None
    /\ flyingLock' = a
    /\ Goto(a, to)
    /\ UNCHANGED <<cur, result, lock, flying, flagVars, privVars, status, envVars,
                   fdRemoved, refs, freed, histVars>>

SubmitFlying(a) == LockFlying(a, "submit", "submit_lock")

\* Mutant: timeout_flags survive into the next submission.
SubmitLockKeepsFlags(a) ==
    LET x == cur[a] IN
    /\ At(a, "submit_lock")
    /\ lock[x] = None
    /\ flyingLock' = None
    /\ IF x \in inFlight
       THEN /\ Return(a)
            /\ UNCHANGED <<lock, flying, flagVars, expired>>
       ELSE /\ lock' = [lock EXCEPT ![x] = a]
            /\ cancelling' = cancelling \ {x}
            /\ disappeared' = disappeared \ {x}
            /\ flying' = flying \cup {x}
            /\ expired' = expired \ {x}
            /\ Goto(a, "submit_urb")
            /\ UNCHANGED <<cur, inFlight, timeoutHandled, timedOut>>
    /\ UNCHANGED <<result, privVars, status, urb, gone, canReap, fdRemoved, refs, freed,
                   histVars>>

\* Refuse a transfer in flight; otherwise reset it, put it on the flying
\* list and go on with only its own lock held.
SubmitLock(a) ==
    LET x == cur[a] IN
    /\ At(a, "submit_lock")
    /\ lock[x] = None
    /\ flyingLock' = None
    /\ IF x \in inFlight
       THEN /\ Return(a)
            /\ UNCHANGED <<lock, flying, flagVars, expired>>
       ELSE /\ lock' = [lock EXCEPT ![x] = a]
            /\ cancelling' = cancelling \ {x}
            /\ disappeared' = disappeared \ {x}
            /\ timeoutHandled' = timeoutHandled \ {x}
            /\ timedOut' = timedOut \ {x}
            /\ flying' = flying \cup {x}
            /\ expired' = expired \ {x}
            /\ Goto(a, "submit_urb")
            /\ UNCHANGED <<cur, inFlight>>
    /\ UNCHANGED <<result, privVars, status, urb, gone, canReap, fdRemoved, refs, freed,
                   histVars>>

\* The backend submits the URB: in flight, with a reference to the device.
SubmitUrb(a) ==
    LET x == cur[a] IN
    /\ At(a, "submit_urb")
    /\ ~gone
    /\ urb' = [urb EXCEPT ![x] = "pending"]
    /\ hasUrbs' = hasUrbs \cup {x}
    /\ reapCancelled' = reapCancelled \ {x}
    /\ inFlight' = inFlight \cup {x}
    /\ refs' = refs + 1
    /\ lock' = [lock EXCEPT ![x] = None]
    /\ owed' = owed \cup {x}
    /\ cancelledBy' = [cancelledBy EXCEPT ![x] = "none"]
    /\ Return(a)
    /\ UNCHANGED <<result, flyingLock, flying, cancelling, disappeared,
                   timeoutHandled, timedOut, status, expired, gone, canReap, fdRemoved,
                   freed, submitsLeft>>

\* The kernel refuses it, as it does when the device is gone: the lock is
\* released first and the flying list put right afterwards.
SubmitUrbFails(a) ==
    LET x == cur[a] IN
    /\ At(a, "submit_urb")
    /\ hasUrbs' = hasUrbs \ {x}
    /\ reapCancelled' = reapCancelled \ {x}
    /\ lock' = [lock EXCEPT ![x] = None]
    /\ Goto(a, "submit_failed")
    /\ UNCHANGED <<cur, result, flyingLock, flying, flagVars, status, envVars,
                   fdRemoved, refs, freed, histVars>>

SubmitFailed(a) ==
    /\ At(a, "submit_failed")
    /\ flyingLock = None
    /\ flying' = flying \ {cur[a]}
    /\ Return(a)
    /\ UNCHANGED <<result, lock, flyingLock, flagVars, privVars, status, envVars,
                   fdRemoved, refs, freed, histVars>>

----------------------------------------------------------------------------
(* libusb_cancel_transfer, and the application's free.                     *)

\* What op_cancel_transfer makes of IOCTL_USBFS_DISCARDURB for x.
DiscardResult(x) == IF x \notin hasUrbs THEN "NOT_FOUND"
                    ELSE IF gone THEN "NO_DEVICE"
                    ELSE IF urb[x] = "pending" THEN "SUCCESS" ELSE "NOT_FOUND"

CancelResult(x) == IF x \notin inFlight \/ x \in cancelling
                   THEN "NOT_FOUND" ELSE DiscardResult(x)

\* Cancel x for `who`, in one section under its lock.
CancelTransfer(x, who) ==
    /\ lock[x] = None
    /\ cancelling' = cancelling \cup (inFlight \cap {x})
    /\ disappeared' = IF CancelResult(x) = "NO_DEVICE" THEN disappeared \cup {x}
                                                       ELSE disappeared
    /\ IF CancelResult(x) = "SUCCESS"
       THEN /\ urb' = [urb EXCEPT ![x] = "enoent"]
            /\ reapCancelled' = reapCancelled \cup {x}
            /\ cancelledBy' = [cancelledBy EXCEPT ![x] = who]
       ELSE UNCHANGED <<urb, reapCancelled, cancelledBy>>

Cancel(a, x) ==
    /\ \/ a \in User /\ At(a, "idle")
       \/ a = Handler /\ At(a, "callback")
    /\ x \notin freed
    /\ CancelTransfer(x, "user")
    /\ UNCHANGED <<pc, cur, result, lock, flyingLock, flying, inFlight,
                   timeoutHandled, timedOut, hasUrbs, status, expired, gone, canReap,
                   fdRemoved, refs, freed, owed, submitsLeft>>

\* The application frees a transfer of which no callback is owed and that
\* none of its threads is submitting: from the moment its callback is called
\* (a synchronous call sees *completed at once), or after a failed submit.
FreeTransfer(x) ==
    /\ x \notin (freed \cup owed)
    /\ ~Submitting(x)
    /\ freed' = freed \cup {x}
    /\ UNCHANGED <<pc, cur, result, lock, flyingLock, flying, flagVars, privVars,
                   status, envVars, fdRemoved, refs, histVars>>

----------------------------------------------------------------------------
(* handle_timeouts, by the event handler or by an event waiter.            *)

Timeouts(a) ==
    /\ At(a, "idle")
    /\ (flying \cap expired) \ timeoutHandled # {}
    /\ Goto(a, "timeouts")
    /\ UNCHANGED <<cur, result, lock, flyingLock, flying, flagVars, privVars,
                   status, envVars, fdRemoved, refs, freed, histVars>>

TimeoutsLock(a) == LockFlying(a, "timeouts", "timeout_scan")

\* handle_timeout of one transfer on the list: marked first, ...
TimeoutScan(a) ==
    /\ At(a, "timeout_scan")
    /\ \E x \in (flying \cap expired) \ timeoutHandled :
          /\ timeoutHandled' = timeoutHandled \cup {x}
          /\ Work(a, x)
    /\ Goto(a, "timeout_cancel")
    /\ UNCHANGED <<result, lock, flyingLock, flying, inFlight, cancelling,
                   disappeared, timedOut, privVars, status, envVars, fdRemoved,
                   refs, freed, histVars>>

\* ... then cancelled, ...
TimeoutCancel(a) ==
    /\ At(a, "timeout_cancel")
    /\ CancelTransfer(cur[a], "timeout")
    /\ result' = [result EXCEPT ![a] = CancelResult(cur[a])]
    /\ Goto(a, "timeout_flag")
    /\ UNCHANGED <<cur, lock, flyingLock, flying, inFlight, timeoutHandled,
                   timedOut, hasUrbs, status, expired, gone, canReap, fdRemoved, refs,
                   freed, owed, submitsLeft>>

\* ... and flagged as timed out if that succeeded (the result is then dead).
TimeoutFlag(a) ==
    /\ At(a, "timeout_flag")
    /\ timedOut' = IF result[a] = "SUCCESS" THEN timedOut \cup {cur[a]}
                                            ELSE timedOut
    /\ result' = [result EXCEPT ![a] = "SUCCESS"]
    /\ Work(a, None)
    /\ Goto(a, "timeout_scan")
    /\ UNCHANGED <<lock, flyingLock, flying, inFlight, cancelling,
                   disappeared, timeoutHandled, privVars, status, envVars,
                   fdRemoved, refs, freed, histVars>>

TimeoutsDone(a) ==
    /\ At(a, "timeout_scan")
    /\ flying \cap expired \subseteq timeoutHandled
    /\ flyingLock' = None
    /\ Goto(a, "idle")
    /\ UNCHANGED <<cur, result, lock, flying, flagVars, privVars, status, envVars,
                   fdRemoved, refs, freed, histVars>>

----------------------------------------------------------------------------
(* The event handler.                                                      *)

\* The URB of x is reaped and its completion handler runs under x's lock.
Reap(x) ==
    /\ At(Handler, "idle")
    /\ urb[x] \in {"ok", "enoent", "eshutdown"}
    /\ ~fdRemoved
    /\ gone => canReap
    /\ lock[x] = None
    /\ Work(Handler, x)
    /\ urb' = [urb EXCEPT ![x] = "none"]
    /\ hasUrbs' = hasUrbs \ {x}
    /\ IF x \in reapCancelled
       THEN Goto(Handler, "cancellation") /\ UNCHANGED status
       ELSE /\ Goto(Handler, "completion")
            /\ status' = [status EXCEPT ![x] = IF urb[x] = "ok" THEN "COMPLETED"
                                               ELSE IF urb[x] = "enoent"
                                                    THEN "CANCELLED"
                                                    ELSE "NO_DEVICE"]
    /\ UNCHANGED <<result, lock, flyingLock, flying, flagVars, reapCancelled,
                   expired, gone, canReap, fdRemoved, refs, freed, histVars>>

\* Mutant: the flag is read without flying_transfers_lock.
CancellationUnlocked ==
    LET x == cur[Handler] IN
    /\ At(Handler, "cancellation")
    /\ status' = [status EXCEPT ![x] = IF x \in timedOut THEN "TIMED_OUT"
                                                         ELSE "CANCELLED"]
    /\ Goto(Handler, "completion")
    /\ UNCHANGED <<cur, result, lock, flyingLock, flying, flagVars, privVars,
                   envVars, fdRemoved, refs, freed, histVars>>

\* usbi_handle_transfer_cancellation: the flag is read under the lock that
\* handle_timeouts holds until it has set it.
Cancellation ==
    LET x == cur[Handler] IN
    /\ At(Handler, "cancellation")
    /\ flyingLock = None
    /\ status' = [status EXCEPT ![x] = IF x \in timedOut THEN "TIMED_OUT"
                                                         ELSE "CANCELLED"]
    /\ Goto(Handler, "completion")
    /\ UNCHANGED <<cur, result, lock, flyingLock, flying, flagVars, privVars,
                   envVars, fdRemoved, refs, freed, histVars>>

\* Mutant: the list is changed without flying_transfers_lock.
CompletionUnlocked ==
    /\ At(Handler, "completion")
    /\ flying' = flying \ {cur[Handler]}
    /\ Goto(Handler, "landed")
    /\ UNCHANGED <<cur, result, lock, flyingLock, flagVars, privVars, status,
                   envVars, fdRemoved, refs, freed, histVars>>

\* usbi_handle_transfer_completion: off the flying list, ...
Completion ==
    /\ At(Handler, "completion")
    /\ flyingLock = None
    /\ flying' = flying \ {cur[Handler]}
    /\ Goto(Handler, "landed")
    /\ UNCHANGED <<cur, result, lock, flyingLock, flagVars, privVars, status,
                   envVars, fdRemoved, refs, freed, histVars>>

\* ... no longer in flight, ...
Landed ==
    LET x == cur[Handler] IN
    /\ At(Handler, "landed")
    /\ lock[x] = None
    /\ inFlight' = inFlight \ {x}
    /\ Goto(Handler, "call")
    /\ UNCHANGED <<cur, result, lock, flyingLock, flying, cancelling,
                   disappeared, timeoutHandled, timedOut, privVars, status,
                   envVars, fdRemoved, refs, freed, histVars>>

\* ... the callback, which may submit the transfer again, cancel others, or
\* let the application free the transfer, ...
CallCallback ==
    /\ At(Handler, "call")
    /\ owed' = owed \ {cur[Handler]}
    /\ Goto(Handler, "callback")
    /\ UNCHANGED <<cur, result, lock, flyingLock, flying, flagVars, privVars,
                   status, envVars, fdRemoved, refs, freed, cancelledBy,
                   submitsLeft>>

CallbackReturns ==
    /\ At(Handler, "callback")
    /\ Goto(Handler, "unref")
    /\ UNCHANGED <<cur, result, lock, flyingLock, flying, flagVars, privVars,
                   status, envVars, fdRemoved, refs, freed, histVars>>

\* Mutant: a disconnection does not drop the transfer's reference.
UnrefDeviceAttached ==
    /\ At(Handler, "unref")
    /\ refs' = IF fdRemoved THEN refs ELSE refs - 1
    /\ Work(Handler, None)
    /\ Goto(Handler, IF fdRemoved THEN "scan" ELSE "idle")
    /\ UNCHANGED <<result, lock, flyingLock, flying, flagVars, privVars, status,
                   envVars, fdRemoved, freed, histVars>>

\* ... and the reference to the device is dropped.  When the transfer was
\* completed by usbi_handle_disconnect, its scan of the list starts again.
UnrefDevice ==
    /\ At(Handler, "unref")
    /\ refs' = refs - 1
    /\ Work(Handler, None)
    /\ Goto(Handler, IF fdRemoved THEN "scan" ELSE "idle")
    /\ UNCHANGED <<result, lock, flyingLock, flying, flagVars, privVars, status,
                   envVars, fdRemoved, freed, histVars>>

\* op_handle_events sees POLLERR: the descriptor leaves the poll set, URBs
\* have been reaped as far as the kernel allows, and usbi_handle_disconnect
\* completes what is still in flight.
Disconnect ==
    /\ At(Handler, "idle")
    /\ gone /\ ~fdRemoved
    /\ canReap => \A x \in Transfer : urb[x] \in {"none", "pending"}
    /\ fdRemoved' = TRUE
    /\ Goto(Handler, "scan")
    /\ UNCHANGED <<cur, result, lock, flyingLock, flying, flagVars, privVars,
                   status, envVars, refs, freed, histVars>>

ScanFlying == LockFlying(Handler, "scan", "examine")

\* Each transfer on the list is examined under its own lock until one is in
\* flight; the order of the list does not matter.
Examine ==
    /\ At(Handler, "examine")
    /\ \E x \in flying \cap inFlight : lock[x] = None /\ Work(Handler, x)
    /\ flyingLock' = None
    /\ Goto(Handler, "clear")
    /\ UNCHANGED <<result, lock, flying, flagVars, privVars, status, envVars,
                   fdRemoved, refs, freed, histVars>>

ExaminedAll ==
    /\ At(Handler, "examine")
    /\ \A x \in flying : lock[x] = None /\ x \notin inFlight
    /\ flyingLock' = None
    /\ Goto(Handler, "idle")
    /\ UNCHANGED <<cur, result, lock, flying, flagVars, privVars, status, envVars,
                   fdRemoved, refs, freed, histVars>>

\* clear_transfer_priv, then completion with LIBUSB_TRANSFER_NO_DEVICE.
ClearPriv ==
    LET x == cur[Handler] IN
    /\ At(Handler, "clear")
    /\ lock[x] = None
    /\ hasUrbs' = hasUrbs \ {x}
    /\ urb' = [urb EXCEPT ![x] = "none"]
    /\ status' = [status EXCEPT ![x] = "NO_DEVICE"]
    /\ Goto(Handler, "completion")
    /\ UNCHANGED <<cur, result, lock, flyingLock, flying, flagVars, reapCancelled,
                   expired, gone, canReap, fdRemoved, refs, freed, histVars>>

----------------------------------------------------------------------------
(* The kernel, the device and the clock.                                   *)

UrbCompletes(x) ==
    /\ urb[x] = "pending"
    /\ ~gone
    /\ urb' = [urb EXCEPT ![x] = "ok"]
    /\ UNCHANGED <<pc, cur, result, lock, flyingLock, flying, flagVars, privVars,
                   status, expired, gone, canReap, fdRemoved, refs, freed, histVars>>

TimeoutExpires(x) ==
    /\ x \in (HasTimeout \cap flying) \ expired
    /\ expired' = expired \cup {x}
    /\ UNCHANGED <<pc, cur, result, lock, flyingLock, flying, flagVars, privVars,
                   status, urb, gone, canReap, fdRemoved, refs, freed, histVars>>

\* The kernel gives back every pending URB of an unplugged device.
Unplug ==
    /\ ~gone
    /\ gone' = TRUE
    /\ urb' = [x \in Transfer |-> IF urb[x] = "pending" THEN "eshutdown"
                                                        ELSE urb[x]]
    /\ UNCHANGED <<pc, cur, result, lock, flyingLock, flying, flagVars, privVars,
                   status, expired, canReap, fdRemoved, refs, freed, histVars>>

----------------------------------------------------------------------------
\* Steps of an actor inside a call.
ActorStep(a) ==
    \/ SubmitFlying(a) \/ SubmitLock(a) \/ SubmitUrb(a) \/ SubmitUrbFails(a)
    \/ SubmitFailed(a)
    \/ TimeoutsLock(a) \/ TimeoutScan(a) \/ TimeoutCancel(a) \/ TimeoutFlag(a)
    \/ TimeoutsDone(a)

HandlerStep ==
    \/ \E x \in Transfer : Reap(x)
    \/ Cancellation \/ Completion \/ Landed \/ CallCallback \/ CallbackReturns
    \/ UnrefDevice
    \/ Disconnect \/ ScanFlying \/ Examine \/ ExaminedAll \/ ClearPriv

Next ==
    \/ \E a \in Actor : \/ ActorStep(a)
                        \/ Timeouts(a)
                        \/ \E x \in Transfer : Submit(a, x) \/ Cancel(a, x)
    \/ HandlerStep
    \/ \E x \in Transfer : FreeTransfer(x) \/ UrbCompletes(x) \/ TimeoutExpires(x)
    \/ Unplug

Spec == Init /\ [][Next]_vars

\* Threads run, the event handler handles events and expired timeouts
\* (EventLoop's CallsReturn shows why it gets to them), and timeouts expire.
\* No device needs to answer.
Fairness ==
    /\ \A a \in Actor : WF_vars(ActorStep(a))
    /\ WF_vars(HandlerStep)
    /\ WF_vars(Timeouts(Handler))
    /\ \A x \in Transfer : WF_vars(TimeoutExpires(x))

LiveSpec == Spec /\ Fairness

----------------------------------------------------------------------------
(* Properties.                                                             *)

\* The transfer the handler has taken from the kernel or from the list, and
\* whose callback it has not called.
Completing == IF pc[Handler] \in CompletePCs \cup {"clear"}
              THEN {cur[Handler]} ELSE {}

\* The list libusbi.h calls "a list of in-flight transfer handles" holds each
\* of them: otherwise its timeout is never seen and a disconnection leaves it
\* without an answer.  Only the completion under way may have taken it off.
FlyingIsInFlight ==
    \A x \in inFlight :
        \/ x \in flying
        \/ At(Handler, "landed") /\ cur[Handler] = x

\* Each transfer in flight holds one reference to the device from its submit
\* to the end of its completion, whatever completes it and even if the
\* callback submits it again, and the handle holds one: the device neither
\* leaks nor dies under a transfer.
RefsBalance ==
    refs = 1 + Cardinality(inFlight)
             + IF pc[Handler] \in {"call", "callback", "unref"}
                  \/ pc[Handler] \in SubmitPCs
               THEN 1 ELSE 0

\* A transfer the application has freed is on no list, its lock is free, and
\* no thread, neither one scanning for timeouts nor the handler, will touch
\* it again, although it may be freed while its callback still runs.
NoUseAfterFree ==
    \A x \in freed :
        /\ x \notin flying \cup inFlight \cup Completing
        /\ lock[x] = None
        /\ \A a \in Actor : pc[a] \in SubmitPCs \cup TimeoutPCs => cur[a] # x

\* Every callback is called once per submit, and says why the transfer ended:
\* timed out when the timeout cancelled it, cancelled when the application
\* did, although both, the answer and the unplugging race.
Service == INSTANCE AsyncTransfer WITH
    pending <- owed,
    cause   <- cancelledBy,
    outcome <- [x \in Transfer |-> IF x \in owed THEN "none" ELSE status[x]]

ImplementsAsyncTransfer == Service!Spec

\* A transfer with a timeout is always answered, though the device need not.
TimeoutsEndTransfers ==
    \A x \in HasTimeout : x \in owed ~> x \notin owed

\* When the device is unplugged every transfer is answered, with or without
\* a timeout, and with a submit racing the disconnection.
UnplugEndsTransfers ==
    \A x \in Transfer : gone /\ x \in owed ~> x \notin owed

\* No call is stuck on the two kinds of lock.
SubmitsReturn ==
    \A a \in User : pc[a] # "idle" ~> pc[a] = "idle"

\* Every transfer that must end without its device does, and so do the calls
\* that submit and cancel.
TransfersEnd == TimeoutsEndTransfers /\ UnplugEndsTransfers /\ SubmitsReturn
============================================================================
