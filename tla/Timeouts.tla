------------------------------ MODULE Timeouts ------------------------------
(***************************************************************************)
(* How transfers time out: src/libusb/libusb/io.c.  The transfers in       *)
(* flight are a list sorted by timeout.  Where there is a timerfd, it is   *)
(* armed for the next timeout and is one more descriptor to poll; where    *)
(* there is none, a thread computes how long it may sleep before it takes  *)
(* the events lock.  Some transfers of the macOS backend are timed by the  *)
(* system.                                                                 *)
(*                                                                         *)
(* Time is relative: left[t] is what is left of t's timeout, 0 once it has *)
(* passed, and Tick takes one from every clock.  Each section under        *)
(* flying_transfers_lock is one step.  EventLoop has the locks of the      *)
(* event loop, and Transfers those of a transfer, whose names this module  *)
(* leaves alone: TransfersProofs extends both.                             *)
(***************************************************************************)
EXTENDS Naturals, SequencesExt, FiniteSetsExt

CONSTANTS
    Thread,              \* threads in libusb_handle_events_timeout
    UsbTransfer,
    NoThread,                \* owner of the free events lock
    Duration,            \* transfer->timeout, 0 for no timeout
    UserWait,            \* the tv the application passes
    Platform,            \* {"timerfd", "none", "os"} or a part of it
    OsTimed,             \* transfers the macOS backend gives a timeout of its own
    Never                \* longer than any of them: infinite, or a timer not armed

Time == 0 .. Never

ASSUME TimeoutsAssumption ==
    /\ NoThread \notin Thread
    /\ Never \in Nat /\ Duration \cup {UserWait} \subseteq 0 .. Never - 1
    /\ Platform \subseteq {"timerfd", "none", "os"} /\ OsTimed \subseteq UsbTransfer

VARIABLES
    platform,            \* usbi_using_timerfd(ctx), and the backend
    phase,               \* of each transfer: on the list unless idle
    list,                \* ctx->flying_transfers
    left,                \* transfer->timeout, from now
    handled, hasTimedOut,   \* timeout_flags
    osHandled,           \* timeout_flags: OS_HANDLES_TIMEOUT
    beingCancelled,          \* state_flags
    timer,               \* what is left on the timerfd, readable at 0
    at, wait,            \* of each thread, and how long it still sleeps
    events               \* owner of events_lock

transferVars == <<phase, list, left, handled, hasTimedOut, osHandled, beingCancelled>>
threadVars == <<at, wait, events>>
timeoutsVars == <<platform, transferVars, timer, threadVars>>

TimeoutsTypeOK ==
    /\ platform \in Platform
    /\ phase \in [UsbTransfer -> {"idle", "submitting", "refused", "flying", "done"}]
    /\ list \in Seq(UsbTransfer) /\ IsInjective(list)
    /\ Range(list) = {t \in UsbTransfer : phase[t] # "idle"}
    /\ left \in [UsbTransfer -> Time]
    /\ handled \subseteq UsbTransfer /\ hasTimedOut \subseteq handled
    /\ osHandled \subseteq OsTimed /\ beingCancelled \subseteq UsbTransfer
    /\ timer \in Time
    /\ at \in [Thread -> {"idle", "looked", "late", "poll", "sleep", "reap", "end"}]
    /\ wait \in [Thread -> Time]
    /\ events \in Thread \cup {NoThread}

TimeoutsInit ==
    /\ platform \in Platform
    /\ phase = [t \in UsbTransfer |-> "idle"]
    /\ list = <<>>
    /\ left = [t \in UsbTransfer |-> Never]
    /\ handled = {} /\ hasTimedOut = {} /\ osHandled = {} /\ beingCancelled = {}
    /\ timer = Never
    /\ at = [h \in Thread |-> "idle"]
    /\ wait = [h \in Thread |-> 0]
    /\ events = NoThread

UsingTimerfd == platform = "timerfd"
Timed(t) == left[t] # Never
Done == {t \in UsbTransfer : phase[t] = "done"}
-----------------------------------------------------------------------------
(* The loops over the flying transfers.                                    *)

Smallest(S, none) == IF S = {} THEN none ELSE Min(S)

\* before the first later timeout, or at the end
Place(time) ==
    Smallest({i \in DOMAIN list : ~Timed(list[i]) \/ left[list[i]] > time},
             Len(list) + 1)

\* the timer for the next of transfers s, when those of H have been handled
ArmedFor(s, H) ==
    LET stop == Smallest({i \in DOMAIN s :
                            ~Timed(s[i]) \/ s[i] \notin H \cup osHandled}, 0)
    IN  IF stop = 0 THEN Never ELSE left[s[stop]]

\* libusb_get_next_timeout
NextTimeout ==
    LET stop == Smallest({i \in DOMAIN list :
                            list[i] \notin handled \cup osHandled}, 0)
    IN  IF UsingTimerfd \/ stop = 0 THEN Never ELSE left[list[stop]]

\* Mutant: a handled transfer ends the search.
Due_head ==
    LET stop == Smallest({i \in DOMAIN list :
                            \/ list[i] \in handled \cup osHandled
                            \/ left[list[i]] > 0},
                         Len(list) + 1)
    IN  {list[i] : i \in 1 .. stop - 1}

\* the transfers handle_timeouts_locked finds expired and not handled
Due ==
    LET stop == Smallest({i \in DOMAIN list :
                            \/ ~Timed(list[i])
                            \/ /\ list[i] \notin handled \cup osHandled
                               /\ left[list[i]] > 0},
                         Len(list) + 1)
    IN  {list[i] : i \in 1 .. stop - 1} \ (handled \cup osHandled)
-----------------------------------------------------------------------------
(* Submission, under the transfer's lock to its end.                       *)

\* a new round of t clears what was left of the last
ClearFlags(t) ==
    /\ handled' = handled \ {t}
    /\ hasTimedOut' = hasTimedOut \ {t}
    /\ osHandled' = osHandled \ {t}
    /\ beingCancelled' = beingCancelled \ {t}

\* Mutant: only a transfer that finds the list empty is the first.
First_empty(place) == list = <<>>

First(place) == list = <<>> \/ place = 1

AddToFlyingList(t, time) ==
    LET place == IF time = Never THEN Len(list) + 1 ELSE Place(time)
    IN  /\ list' = InsertAt(list, place, t)
        /\ left' = [left EXCEPT ![t] = time]
        /\ timer' = IF First(place) /\ UsingTimerfd /\ time # Never THEN time ELSE timer

\* calculate_timeout
SubmitTransfer(t, duration) ==
    /\ phase[t] = "idle"
    /\ ClearFlags(t)
    /\ AddToFlyingList(t, IF duration = 0 THEN Never ELSE duration)
    /\ phase' = [phase EXCEPT ![t] = "submitting"]
    /\ UNCHANGED <<platform, threadVars>>

\* the backend takes it, or the submission fails
Submitted(t, ok) ==
    /\ phase[t] = "submitting"
    /\ phase' = [phase EXCEPT ![t] = IF ok THEN "flying" ELSE "refused"]
    /\ osHandled' = osHandled \cup (IF platform = "os" THEN {t} \cap OsTimed ELSE {})
    /\ UNCHANGED <<platform, list, left, handled, hasTimedOut, beingCancelled, timer,
                   threadVars>>

Rearms(t) == UsingTimerfd /\ Timed(t) /\ Head(list) = t

RemoveFromFlyingList(t) ==
    LET rest == RemoveAt(list, CHOOSE i \in DOMAIN list : list[i] = t)
    IN  /\ list' = rest
        /\ timer' = IF Rearms(t) THEN ArmedFor(rest, handled) ELSE timer
        /\ phase' = [phase EXCEPT ![t] = "idle"]
        /\ left' = [left EXCEPT ![t] = Never]       \* no longer read
        /\ UNCHANGED <<handled, hasTimedOut, osHandled, beingCancelled>>

SubmitFails(t) ==
    /\ phase[t] = "refused"
    /\ RemoveFromFlyingList(t)
    /\ UNCHANGED <<platform, threadVars>>

\* the application cancels a transfer in flight
CancelFlying(t) ==
    /\ phase[t] \in {"flying", "done"} /\ t \notin beingCancelled
    /\ beingCancelled' = beingCancelled \cup {t}
    /\ UNCHANGED <<platform, phase, list, left, handled, hasTimedOut, osHandled, timer,
                   threadVars>>

\* the kernel is done with it: answered, cancelled, or timed out by the system
Finish(t) ==
    /\ phase[t] = "flying"
    /\ phase' = [phase EXCEPT ![t] = "done"]
    /\ UNCHANGED <<platform, list, left, handled, hasTimedOut, osHandled, beingCancelled,
                   timer, threadVars>>
-----------------------------------------------------------------------------
(* Event handling.                                                         *)

MoveTo(h, label) == at' = [at EXCEPT ![h] = label]

\* get_next_timeout: how long to sleep, or handle what has expired at once
Look(h) ==
    /\ at[h] = "idle"
    /\ MoveTo(h, IF NextTimeout = 0 THEN "late" ELSE "looked")
    /\ wait' = [wait EXCEPT ![h] = IF NextTimeout < UserWait THEN NextTimeout ELSE UserWait]
    /\ UNCHANGED <<platform, transferVars, timer, events>>

\* libusb_try_lock_events: poll, or wait for the thread that polls
TryLockEvents(h) ==
    /\ at[h] = "looked"
    /\ IF events = NoThread THEN events' = h /\ MoveTo(h, "poll")
                            ELSE UNCHANGED events /\ MoveTo(h, "sleep")
    /\ UNCHANGED <<platform, transferVars, timer, wait>>

\* handle_timeout of each expired transfer; its lock must not be a submitter's
CancelDue ==
    /\ \A t \in Due : phase[t] # "submitting"
    /\ handled' = handled \cup Due
    /\ hasTimedOut' = hasTimedOut \cup
         {t \in Due : phase[t] \in {"flying", "done"} /\ t \notin beingCancelled}
    /\ beingCancelled' = beingCancelled \cup {t \in Due : phase[t] \in {"flying", "done"}}
    /\ UNCHANGED <<phase, list, left, osHandled>>

HandleTimeouts(h) ==
    /\ at[h] = "late"
    /\ CancelDue
    /\ MoveTo(h, IF events = h THEN "end" ELSE "idle")
    /\ UNCHANGED <<platform, timer, wait, events>>

\* poll or the wait for the other thread ran into its own timeout
SleepEnds(h) ==
    /\ wait[h] = 0
    /\ \/ at[h] = "poll" /\ ~(UsingTimerfd /\ timer = 0) /\ Done = {}
       \/ at[h] = "sleep"
    /\ MoveTo(h, "late")
    /\ UNCHANGED <<platform, transferVars, timer, wait, events>>

\* handle_timerfd_trigger, before the backend handles its descriptors
TimerFires(h) ==
    /\ at[h] = "poll" /\ UsingTimerfd /\ timer = 0
    /\ CancelDue
    /\ timer' = ArmedFor(list, handled')
    /\ MoveTo(h, IF Done = {} THEN "end" ELSE "reap")
    /\ UNCHANGED <<platform, wait, events>>

\* a transfer is done, or an event that is no transfer's (with no timer due)
PollWakes(h) ==
    /\ at[h] = "poll" /\ ~(UsingTimerfd /\ timer = 0)
    /\ MoveTo(h, IF Done = {} THEN "end" ELSE "reap")
    /\ UNCHANGED <<platform, transferVars, timer, wait, events>>

\* the backend completes what is done, until nothing is
ReapTransfer(h, t) ==
    /\ at[h] = "reap" /\ t \in Done
    /\ RemoveFromFlyingList(t)
    /\ UNCHANGED <<platform, threadVars>>

ReapEnds(h) ==
    /\ at[h] = "reap" /\ Done = {}
    /\ MoveTo(h, "end")
    /\ UNCHANGED <<platform, transferVars, timer, wait, events>>

\* libusb_unlock_events wakes the threads that wait
UnlockEvents(h) ==
    /\ at[h] = "end"
    /\ events' = NoThread
    /\ at' = [g \in Thread |-> IF g = h \/ at[g] = "sleep" THEN "idle" ELSE at[g]]
    /\ UNCHANGED <<platform, transferVars, timer, wait>>

Pass(time) == IF time \in {0, Never} THEN time ELSE time - 1

Tick ==
    /\ left' = [t \in UsbTransfer |-> Pass(left[t])]
    /\ timer' = Pass(timer)
    /\ wait' = [h \in Thread |-> IF at[h] \in {"poll", "sleep"} THEN Pass(wait[h]) ELSE wait[h]]
    /\ UNCHANGED <<platform, phase, list, handled, hasTimedOut, osHandled, beingCancelled, at,
                   events>>

HandleEvents(h) ==
    \/ Look(h) \/ TryLockEvents(h) \/ HandleTimeouts(h)
    \/ SleepEnds(h) \/ TimerFires(h) \/ PollWakes(h)
    \/ \E t \in UsbTransfer : ReapTransfer(h, t)
    \/ ReapEnds(h) \/ UnlockEvents(h)

TimeoutsNext ==
    \/ \E h \in Thread : HandleEvents(h)
    \/ \E t \in UsbTransfer : \/ \E d \in Duration : SubmitTransfer(t, d)
                              \/ \E ok \in BOOLEAN : Submitted(t, ok)
                              \/ SubmitFails(t) \/ CancelFlying(t) \/ Finish(t)
    \/ Tick

TimeoutsSpec == TimeoutsInit /\ [][TimeoutsNext]_timeoutsVars
-----------------------------------------------------------------------------
(* Fairness: each thread goes on handling events, a submission ends, time  *)
(* passes, and the kernel ends what is cancelled or what it times itself.  *)
(* Strong where timeouts are handled: a thread that waits there for the    *)
(* end of a submission keeps the next one out, for it holds the            *)
(* flying_transfers_lock already.                                          *)

KernelEnds(t) == Finish(t) /\ (t \in beingCancelled \/ (t \in osHandled /\ left[t] = 0))

TimeoutsFairness ==
    /\ \A h \in Thread : /\ WF_timeoutsVars(HandleEvents(h))
                         /\ SF_timeoutsVars(HandleTimeouts(h))
                         /\ SF_timeoutsVars(TimerFires(h))
    /\ \A t \in UsbTransfer : /\ WF_timeoutsVars(\E ok \in BOOLEAN : Submitted(t, ok))
                              /\ WF_timeoutsVars(SubmitFails(t))
                              /\ WF_timeoutsVars(KernelEnds(t))
    /\ WF_timeoutsVars(Tick)

TimeoutsLiveSpec == TimeoutsSpec /\ TimeoutsFairness
-----------------------------------------------------------------------------
Waiting(t) == phase[t] # "idle" /\ t \notin handled \cup osHandled

(***************************************************************************)
(* The flying transfers stay in the order of their timeouts, those without *)
(* one last: the loops that look for the next timeout stop at the first    *)
(* that has not expired (io.c:1366-1424).                                  *)
(***************************************************************************)
Sorted ==
    \A i, j \in DOMAIN list : i < j => left[list[i]] <= left[list[j]]

(***************************************************************************)
(* Only an expired transfer counts as handled, in the round it expired in: *)
(* a submission clears what the last round left (io.c:1516-1518).          *)
(***************************************************************************)
OnlyExpiredHandled == \A t \in handled : phase[t] # "idle" => left[t] = 0

(***************************************************************************)
(* With a timerfd, no timeout is later than what the timer is armed for,   *)
(* unless a transfer that already timed out stands first: the timer is     *)
(* armed when a transfer becomes the first, by being added or by the       *)
(* removal of the one before it, or when it fires (io.c:1409-1448, 2063),  *)
(* which covers the others only as long as the list is in order.           *)
(***************************************************************************)
TimerCovers ==
    /\ Sorted /\ OnlyExpiredHandled
    /\ UsingTimerfd =>
         \A t \in UsbTransfer : Waiting(t) /\ Timed(t) =>
             timer <= left[t] \/ Head(list) \in handled

(***************************************************************************)
(* Whoever handles timeouts leaves no expired transfer unhandled, however  *)
(* many stand before it that were handled or that the system times         *)
(* (io.c:1998-2038).                                                       *)
(***************************************************************************)
AllExpiredHandled ==
    [][\A h \in Thread : HandleTimeouts(h) \/ TimerFires(h) =>
          \A t \in UsbTransfer : Waiting(t) /\ left[t] = 0 => t \in handled']_timeoutsVars

(***************************************************************************)
(* A thread that goes to sleep without a timerfd does not sleep past the   *)
(* timeout of a transfer then on the list, whether it polls or waits for   *)
(* the thread that does (io.c:2283-2302, 2550-2610).                       *)
(***************************************************************************)
SleepsShortEnough ==
    [][\A h \in Thread : Look(h) /\ ~UsingTimerfd =>
          \A t \in UsbTransfer : Waiting(t) => wait'[h] <= left[t]]_timeoutsVars

(***************************************************************************)
(* A transfer whose timeout has passed is handled or leaves the list, as   *)
(* long as the reaping of done transfers ends again and again: a backend   *)
(* reaps until nothing is done, and resubmissions that are always answered *)
(* in time can keep it there (io.c:2249-2275).                             *)
(***************************************************************************)
ExpiredIsHandled ==
    (\A h \in Thread : []<>(at[h] # "reap"))
        => \A t \in UsbTransfer : (Waiting(t) /\ left[t] = 0) ~> ~Waiting(t)

(***************************************************************************)
(* Timeouts are handled: nobody sleeps past one or passes one over, and    *)
(* none is forgotten.                                                      *)
(***************************************************************************)
TimeoutsHandled == SleepsShortEnough /\ AllExpiredHandled /\ ExpiredIsHandled
-----------------------------------------------------------------------------
(***************************************************************************)
(* libusb_pollfds_handle_timeouts returns 1 with a timerfd, for "all       *)
(* timeout events are handled internally or through regular activity on    *)
(* the file descriptors" (io.c:2507-2509).  Not so for a transfer added    *)
(* behind one that timed out and is still being cancelled: no timer is     *)
(* armed for it before that one has left, so it may expire while no        *)
(* descriptor shows anything.                                              *)
(***************************************************************************)
TimerShowsExpiry ==
    UsingTimerfd /\ (\A t \in UsbTransfer : phase[t] \in {"idle", "flying"})
        => \A t \in UsbTransfer : Waiting(t) /\ left[t] = 0 => timer = 0

(***************************************************************************)
(* On macOS "libusb_get_next_timeout() will always return 0" (io.c:711-    *)
(* 721).  Not so for an interrupt transfer with a timeout, which macOS     *)
(* does not time (darwin_usb.c:1626), and libusb does.                     *)
(***************************************************************************)
NoNextTimeoutOnDarwin ==
    platform = "os" /\ (\A t \in UsbTransfer : phase[t] \in {"idle", "flying"})
        => NextTimeout = Never
=============================================================================
