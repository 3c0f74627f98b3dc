-------------------------- MODULE EventLoopProofs --------------------------
(***************************************************************************)
(* Proofs about the event loop (EventLoop.tla), for any number of threads  *)
(* and handles and both kinds of backend: one thread at a time handles     *)
(* events, no wake-up is lost, the pipe holds what is left to clear, the   *)
(* handler polls the current descriptors, a waiter has somebody to wake    *)
(* it, and blocking calls implement SyncService.                           *)
(***************************************************************************)
EXTENDS EventLoop, FiniteSetTheorems, TLAPS

----------------------------------------------------------------------------
(* The inductive invariant.                                                *)

\* A call made in a callback is either the part of libusb_close after its
\* test of handling_events, or libusb_handle_events on its way to sleep: it
\* cannot take events_lock, which its own thread holds.
NestedPCs == {"close_list", "close_pollfd", "close_fd"} \cup TryPCs \cup WaiterPCs

\* t has increased device_close and not yet decreased it.
Closing(t) ==
    \/ pc[t] \in {"close_lock", "close_active", "close_dec"}
    \/ pc[t] \in {"close_list", "close_pollfd", "close_fd"} /\ cb[t] = "none"

Closers == {t \in Thread : Closing(t)}

\* The handler found the pipe readable and has not cleared it yet.
HoldsByte(t) == pc[t] \in {"pipe", "complete", "relock"} \/ cb[t] = "relock"

\* How the control state determines who is handling events and who sleeps.
ControlInv ==
    \A t \in Thread :
        /\ cb[t] # "none" => pc[t] \in NestedPCs
        /\ handling[t] <=> pc[t] \in HandlerPCs \/ cb[t] # "none"
        /\ t \in waitSet <=> pc[t] = "asleep"
        /\ pc[t] = "open_list" => target[t] \in Handle

\* event_data_lock stays with a thread only where it may block.
DataLockInv ==
    \A t \in Thread :
        pc[t] \in ClearPCs \cup {"complete"} => dataLock = t

PipeInv ==
    /\ PendingIsSignalled
    /\ \A t \in Thread : /\ pc[t] \in ClearPCs => ~Pending /\ pipe > 0
                         /\ HoldsByte(t) => pipe > 0

CloseInv == deviceClose = Cardinality(Closers)

IInv == TypeOK /\ ControlInv /\ OneHandler /\ DataLockInv /\ PipeInv /\ CloseInv

----------------------------------------------------------------------------
(* Each part of the invariant is kept by every step.  The sets of program  *)
(* counters and the groups of variables are expanded everywhere.           *)

USE DEF At, Goto, PCs, TryPCs, WaiterPCs, WaiterLockPCs, HandlerPCs, OwnerPCs,
        CloserPCs, ClearPCs, Flags, Calls, threadVars, userVars, xferVars,
        lockVars, dataVars, loopVars, outside, CancelledUrb, Fail

\* A thread between the two halves of libusb_close has been counted.
LEMMA CloserCounted ==
    ASSUME ConstantsAssumption, IInv, NEW t \in Thread, Closing(t)
    PROVE  deviceClose > 0
<1>1. Closers \subseteq Thread /\ IsFiniteSet(Closers)
      BY FS_Subset DEF ConstantsAssumption, Closers
<1>2. t \in Closers
      BY DEF Closers
<1>3. Cardinality(Closers) \in Nat /\ Cardinality(Closers) # 0
      BY <1>1, <1>2, FS_CardinalityType, FS_EmptySet
<1> QED BY <1>3 DEF IInv, CloseInv

\* Every step keeps the types.  Only CloseDec needs more than the types: a
\* thread that closes a device has been counted.
LEMMA TypePreserved ==
    ASSUME ConstantsAssumption, IInv, [Next]_vars
    PROVE  TypeOK'
<1> USE DEF IInv, TypeOK
<1>1. ASSUME NEW t \in Thread, StartCall(t) PROVE TypeOK'
  <2>1. ASSUME NEW h \in Handle, SyncTransfer(t, h) PROVE TypeOK'
        BY <2>1 DEF SyncTransfer, BeginCall, Submit
  <2>2. ASSUME NEW h \in Handle, SubmitAsync(t, h) PROVE TypeOK'
        BY <2>2 DEF SubmitAsync, BeginCall, Submit
  <2>3. ASSUME NEW h \in Handle, Open(t, h) PROVE TypeOK'
    <3>1. ipollfds' \in SUBSET (Handle \cup {Pipe}) /\ pipe' \in Nat
          BY <2>3 DEF Open, SignalIfQuiet
    <3>2. eventFlags' \in SUBSET Flags
          BY <2>3, ZenonT(60) DEF Open
    <3> QED BY <2>3, <3>1, <3>2 DEF Open, BeginCall
  <2>4. ASSUME NEW h \in Handle, Close(t, h) PROVE TypeOK'
        BY <2>4 DEF Close, BeginCall, SignalIfQuiet
  <2>5. CASE HandleEvents(t)
        BY <2>5 DEF HandleEvents, BeginCall
  <2>6. CASE InterruptEventHandler(t)
        BY <2>6 DEF InterruptEventHandler, BeginCall, SignalIfQuiet
  <2>7. CASE HotplugDeregister(t)
        BY <2>7, SMTT(30) DEF HotplugDeregister, BeginCall, SignalIfQuiet
  <2> QED BY <1>1, <2>1, <2>2, <2>3, <2>4, <2>5, <2>6, <2>7
         DEF StartCall, ConstantsAssumption
<1>2. ASSUME NEW t \in Thread, Step(t) PROVE TypeOK'
  <2>1. CASE OpenList(t)
        BY <2>1 DEF OpenList, Return, ControlInv
  <2>2. CASE CloseLock(t)
        BY <2>2 DEF CloseLock
  <2>3. CASE CloseActive(t)
        BY <2>3 DEF CloseActive
  <2>4. CASE CloseList(t)
        BY <2>4 DEF CloseList
  <2>5. CASE ClosePollfd(t)
    <3>1. ipollfds' \in SUBSET (Handle \cup {Pipe}) /\ pipe' \in Nat
          BY <2>5 DEF ClosePollfd, SignalIfQuiet
    <3>2. eventFlags' \in SUBSET Flags
          BY <2>5, ZenonT(60) DEF ClosePollfd
    <3> QED BY <2>5, <3>1, <3>2 DEF ClosePollfd
  <2>6. CASE CloseFd(t)
        BY <2>6, SMTT(60) DEF CloseFd, Return
  <2>7. CASE CloseDec(t)
        BY <2>7, CloserCounted DEF CloseDec, Closing
  <2>8. CASE CloseClear(t)
        BY <2>8 DEF CloseClear, ClearEvent
  <2>9. CASE SyncWait(t)
        BY <2>9 DEF SyncWait
  <2>10. CASE NextTimeout(t)
        BY <2>10, SMTT(60) DEF NextTimeout, HandleTimeouts, Return
  <2>11. CASE TryLockEvents(t)
        BY <2>11 DEF TryLockEvents
  <2>12. CASE TryLock(t)
        BY <2>12 DEF TryLock
  <2>13. CASE SetActive(t)
        BY <2>13 DEF SetActive
  <2>14. CASE Check(t)
    <3>1. handling' \in [Thread -> BOOLEAN]
          BY <2>14, ZenonT(60) DEF Check
    <3> QED BY <2>14, <3>1 DEF Check
  <2>15. CASE LockWaiters(t)
        BY <2>15 DEF LockWaiters
  <2>16. CASE Recheck(t)
        BY <2>16, SMTT(30) DEF Recheck, Return
  <2>17. CASE HandlerClosing(t)
        BY <2>17 DEF HandlerClosing
  <2>18. CASE HandlerActive(t)
        BY <2>18 DEF HandlerActive
  <2>19. CASE Woken(t)
        BY <2>19 DEF Woken, Return
  <2>20. CASE TimedOut(t)
        BY <2>20 DEF TimedOut, HandleTimeouts, Return
  <2>21. CASE Start(t)
    <3>1. pc' \in [Thread -> PCs] /\ dataLock' \in Thread \cup {None}
          BY <2>21 DEF Start
    <3>2. eventFlags' \in SUBSET Flags
          BY <2>21, ZenonT(60) DEF Start
    <3>3. pollfds' \in SUBSET (Handle \cup {Pipe})
          BY <2>21 DEF Start
    <3> QED BY <2>21, <3>1, <3>2, <3>3 DEF Start
  <2>22. CASE StartClear(t)
        BY <2>22 DEF StartClear, ClearEvent
  <2>23. CASE Poll(t)
        BY <2>23 DEF Poll, Readable
  <2>24. CASE PipeEvent(t)
        BY <2>24 DEF PipeEvent
  <2>25. CASE CompleteQueued(t)
        BY <2>25, SMTT(60) DEF CompleteQueued, Complete, TransferCallback,
            CallbackReturns, CallbackCloses, CallbackHandlesEvents
  <2>26. CASE Relock(t)
        BY <2>26 DEF Relock
  <2>27. CASE CompletedAll(t)
        BY <2>27 DEF CompletedAll
  <2>28. CASE PipeClear(t)
        BY <2>28 DEF PipeClear, ClearEvent
  <2>29. CASE HotplugMessage(t)
        BY <2>29, SMTT(30) DEF HotplugMessage, CallbackReturns, CallbackCloses,
            CallbackHandlesEvents
  <2>30. CASE MessagesDone(t)
        BY <2>30 DEF MessagesDone
  <2>31. CASE Backend(t)
        BY <2>31 DEF Backend
  <2>32. CASE Reap(t)
    <3>1. PICK h \in revents \cap openDevs : \E x \in Reapable(h) :
              Complete(x) /\ TransferCallback(t, x, "reap")
          BY <2>32 DEF Reap
    <3>2. PICK x \in Thread : Complete(x) /\ TransferCallback(t, x, "reap")
          BY <3>1 DEF Reapable
    <3>3. /\ pc' \in [Thread -> PCs]
          /\ cb' \in [Thread -> {"none", "messages", "reap", "relock"}]
          BY <3>2 DEF TransferCallback, CallbackReturns, CallbackCloses,
              CallbackHandlesEvents
    <3>4. target' \in [Thread -> Handle \cup {None}] /\ opened' \in SUBSET Handle
          BY <3>2 DEF TransferCallback, CallbackReturns, CallbackCloses,
              CallbackHandlesEvents
    <3> QED BY <2>32, <3>2, <3>3, <3>4 DEF Reap, Complete
  <2>33. CASE ReapNext(t)
        BY <2>33 DEF ReapNext
  <2>34. CASE BackendDone(t)
        BY <2>34 DEF BackendDone
  <2>35. CASE EndHandling(t)
        BY <2>35 DEF EndHandling
  <2>36. CASE ClearActive(t)
        BY <2>36 DEF ClearActive
  <2>37. CASE UnlockEvents(t)
        BY <2>37 DEF UnlockEvents
  <2>38. CASE Broadcast(t)
        BY <2>38 DEF Broadcast
  <2> QED BY <1>2, <2>1, <2>2, <2>3, <2>4, <2>5, <2>6, <2>7, <2>8, <2>9,
           <2>10, <2>11, <2>12, <2>13, <2>14, <2>15, <2>16, <2>17, <2>18,
           <2>19, <2>20, <2>21, <2>22, <2>23, <2>24, <2>25, <2>26, <2>27,
           <2>28, <2>29, <2>30, <2>31, <2>32, <2>33, <2>34, <2>35, <2>36,
           <2>37, <2>38 DEF Step
<1>3. ASSUME NEW t \in Thread, Elapse(t) PROVE TypeOK'
  <2>1. CASE PollTimesOut(t)
        BY <2>1 DEF PollTimesOut, HandleTimeouts
  <2>2. CASE PollInterrupted(t)
        BY <2>2 DEF PollInterrupted
  <2>3. CASE SleepTimesOut(t)
        BY <2>3 DEF SleepTimesOut
  <2>4. CASE PollFails(t)
        BY <2>4 DEF PollFails
  <2>5. CASE BackendFails(t)
        BY <2>5 DEF BackendFails
  <2> QED BY <1>3, <2>1, <2>2, <2>3, <2>4, <2>5 DEF Elapse
<1>4. ASSUME Environment PROVE TypeOK'
  <2>1. ASSUME NEW x \in Thread, TimerExpires(x) PROVE TypeOK'
        BY <2>1 DEF TimerExpires
  <2>2. ASSUME NEW x \in Thread, UrbReturns(x) PROVE TypeOK'
        BY <2>2 DEF UrbReturns
  <2>3. ASSUME NEW x \in Thread, SignalTransferCompletion(x) PROVE TypeOK'
        BY <2>3 DEF SignalTransferCompletion, SignalIfQuiet
  <2>4. CASE HotplugNotification
        BY <2>4 DEF HotplugNotification, SignalIfQuiet
  <2> QED BY <1>4, <2>1, <2>2, <2>3, <2>4 DEF Environment
<1>5. CASE UNCHANGED vars
      BY <1>5 DEF vars
<1> QED BY <1>1, <1>2, <1>3, <1>4, <1>5 DEF Next

\* Who is where, and which locks follow from it.
LocksInv == ControlInv /\ OneHandler /\ DataLockInv

\* events_lock is taken before the handler's sections and released after, and
\* event_data_lock is given up only by its owner.  A call made in a callback
\* stays within NestedPCs: it cannot become the event handler, for its own
\* thread holds events_lock.
LEMMA LocksPreserved ==
    ASSUME ConstantsAssumption, IInv, [Next]_vars
    PROVE  LocksInv'
<1> USE DEF IInv, TypeOK, ControlInv, OneHandler, InHandler, NestedPCs,
              DataLockInv, LocksInv
<1>1. ASSUME NEW t \in Thread, StartCall(t) PROVE LocksInv'
  <2>1. ASSUME NEW h \in Handle, SyncTransfer(t, h) PROVE LocksInv'
        BY <2>1 DEF SyncTransfer, BeginCall, Submit
  <2>2. ASSUME NEW h \in Handle, SubmitAsync(t, h) PROVE LocksInv'
        BY <2>2 DEF SubmitAsync, BeginCall, Submit
  <2>3. ASSUME NEW h \in Handle, Open(t, h) PROVE LocksInv'
        BY <2>3 DEF Open, BeginCall, SignalIfQuiet
  <2>4. ASSUME NEW h \in Handle, Close(t, h) PROVE LocksInv'
        BY <2>4 DEF Close, BeginCall, SignalIfQuiet
  <2>5. CASE HandleEvents(t)
        BY <2>5 DEF HandleEvents, BeginCall
  <2>6. CASE InterruptEventHandler(t)
        BY <2>6 DEF InterruptEventHandler, BeginCall, SignalIfQuiet
  <2>7. CASE HotplugDeregister(t)
        BY <2>7, SMTT(30) DEF HotplugDeregister, BeginCall, SignalIfQuiet
  <2> QED BY <1>1, <2>1, <2>2, <2>3, <2>4, <2>5, <2>6, <2>7
         DEF StartCall, ConstantsAssumption
<1>2. ASSUME NEW t \in Thread, Step(t) PROVE LocksInv'
  <2>1. CASE OpenList(t)
        BY <2>1 DEF OpenList, Return
  <2>2. CASE CloseLock(t)
        BY <2>2 DEF CloseLock
  <2>3. CASE CloseActive(t)
        BY <2>3 DEF CloseActive
  <2>4. CASE CloseList(t)
        BY <2>4 DEF CloseList
  <2>5. CASE ClosePollfd(t)
        BY <2>5 DEF ClosePollfd, SignalIfQuiet
  <2>6. CASE CloseFd(t)
        BY <2>6 DEF CloseFd, Return
  <2>7. CASE CloseDec(t)
        BY <2>7 DEF CloseDec
  <2>8. CASE CloseClear(t)
        BY <2>8 DEF CloseClear, ClearEvent
  <2>9. CASE SyncWait(t)
        BY <2>9, SMTT(30) DEF SyncWait
  <2>10. CASE NextTimeout(t)
        BY <2>10 DEF NextTimeout, HandleTimeouts, Return
  <2>11. CASE TryLockEvents(t)
        BY <2>11 DEF TryLockEvents
  <2>12. CASE TryLock(t)
        BY <2>12 DEF TryLock
  <2>13. CASE SetActive(t)
        BY <2>13 DEF SetActive
  <2>14. CASE Check(t)
        BY <2>14 DEF Check
  <2>15. CASE LockWaiters(t)
        BY <2>15 DEF LockWaiters
  <2>16. CASE Recheck(t)
        BY <2>16 DEF Recheck, Return
  <2>17. CASE HandlerClosing(t)
        BY <2>17 DEF HandlerClosing
  <2>18. CASE HandlerActive(t)
        BY <2>18 DEF HandlerActive
  <2>19. CASE Woken(t)
        BY <2>19 DEF Woken, Return
  <2>20. CASE TimedOut(t)
        BY <2>20 DEF TimedOut, HandleTimeouts, Return
  <2>21. CASE Start(t)
        BY <2>21, SMTT(30) DEF Start
  <2>22. CASE StartClear(t)
        BY <2>22 DEF StartClear, ClearEvent
  <2>23. CASE Poll(t)
        BY <2>23 DEF Poll, Readable
  <2>24. CASE PipeEvent(t)
        BY <2>24 DEF PipeEvent
  <2>25. CASE CompleteQueued(t)
        BY <2>25, SMTT(30) DEF CompleteQueued, Complete, TransferCallback,
            CallbackReturns, CallbackCloses, CallbackHandlesEvents
  <2>26. CASE Relock(t)
        BY <2>26 DEF Relock
  <2>27. CASE CompletedAll(t)
        BY <2>27 DEF CompletedAll
  <2>28. CASE PipeClear(t)
        BY <2>28 DEF PipeClear, ClearEvent
  <2>29. CASE HotplugMessage(t)
        BY <2>29 DEF HotplugMessage, CallbackReturns, CallbackCloses,
            CallbackHandlesEvents
  <2>30. CASE MessagesDone(t)
        BY <2>30 DEF MessagesDone
  <2>31. CASE Backend(t)
        BY <2>31 DEF Backend
  <2>32. CASE Reap(t)
        BY <2>32 DEF Reap, Complete, TransferCallback, CallbackReturns,
            CallbackCloses, CallbackHandlesEvents
  <2>33. CASE ReapNext(t)
        BY <2>33 DEF ReapNext
  <2>34. CASE BackendDone(t)
        BY <2>34 DEF BackendDone
  <2>35. CASE EndHandling(t)
        BY <2>35 DEF EndHandling
  <2>36. CASE ClearActive(t)
        BY <2>36 DEF ClearActive
  <2>37. CASE UnlockEvents(t)
        BY <2>37 DEF UnlockEvents
  <2>38. CASE Broadcast(t)
        BY <2>38 DEF Broadcast
  <2> QED BY <1>2, <2>1, <2>2, <2>3, <2>4, <2>5, <2>6, <2>7, <2>8, <2>9,
           <2>10, <2>11, <2>12, <2>13, <2>14, <2>15, <2>16, <2>17, <2>18,
           <2>19, <2>20, <2>21, <2>22, <2>23, <2>24, <2>25, <2>26, <2>27,
           <2>28, <2>29, <2>30, <2>31, <2>32, <2>33, <2>34, <2>35, <2>36,
           <2>37, <2>38 DEF Step
<1>3. ASSUME NEW t \in Thread, Elapse(t) PROVE LocksInv'
  <2>1. CASE PollTimesOut(t)
        BY <2>1 DEF PollTimesOut, HandleTimeouts
  <2>2. CASE PollInterrupted(t)
        BY <2>2 DEF PollInterrupted
  <2>3. CASE SleepTimesOut(t)
        BY <2>3 DEF SleepTimesOut
  <2>4. CASE PollFails(t)
        BY <2>4 DEF PollFails
  <2>5. CASE BackendFails(t)
        BY <2>5 DEF BackendFails
  <2> QED BY <1>3, <2>1, <2>2, <2>3, <2>4, <2>5 DEF Elapse
<1>4. ASSUME Environment PROVE LocksInv'
  <2>1. ASSUME NEW x \in Thread, TimerExpires(x) PROVE LocksInv'
        BY <2>1 DEF TimerExpires
  <2>2. ASSUME NEW x \in Thread, UrbReturns(x) PROVE LocksInv'
        BY <2>2 DEF UrbReturns
  <2>3. ASSUME NEW x \in Thread, SignalTransferCompletion(x) PROVE LocksInv'
        BY <2>3 DEF SignalTransferCompletion, SignalIfQuiet
  <2>4. CASE HotplugNotification
        BY <2>4 DEF HotplugNotification, SignalIfQuiet
  <2> QED BY <1>4, <2>1, <2>2, <2>3, <2>4 DEF Environment
<1>5. CASE UNCHANGED vars
      BY <1>5 DEF vars
<1> QED BY <1>1, <1>2, <1>3, <1>4, <1>5 DEF Next

\* The pipe holds a byte whenever something is pending: posting adds one,
\* and the only reader, the owner of events_lock, leaves event_data_lock
\* between its test of usbi_pending_events and its read to nobody.
LEMMA PipePreserved ==
    ASSUME ConstantsAssumption, IInv, [Next]_vars
    PROVE  PipeInv'
<1> USE DEF IInv, TypeOK, ControlInv, OneHandler, InHandler, NestedPCs,
              DataLockInv, PipeInv, PendingIsSignalled, HoldsByte, Pending,
              PendingWith
<1>1. ASSUME NEW t \in Thread, StartCall(t) PROVE PipeInv'
  <2>1. ASSUME NEW h \in Handle, SyncTransfer(t, h) PROVE PipeInv'
        BY <2>1 DEF SyncTransfer, BeginCall, Submit
  <2>2. ASSUME NEW h \in Handle, SubmitAsync(t, h) PROVE PipeInv'
        BY <2>2 DEF SubmitAsync, BeginCall, Submit
  <2>3. ASSUME NEW h \in Handle, Open(t, h) PROVE PipeInv'
        BY <2>3 DEF Open, BeginCall, SignalIfQuiet
  <2>4. ASSUME NEW h \in Handle, Close(t, h) PROVE PipeInv'
        BY <2>4 DEF Close, BeginCall, SignalIfQuiet
  <2>5. CASE HandleEvents(t)
        BY <2>5 DEF HandleEvents, BeginCall
  <2>6. CASE InterruptEventHandler(t)
        BY <2>6 DEF InterruptEventHandler, BeginCall, SignalIfQuiet
  <2>7. CASE HotplugDeregister(t)
        BY <2>7 DEF HotplugDeregister, BeginCall, SignalIfQuiet
  <2> QED BY <1>1, <2>1, <2>2, <2>3, <2>4, <2>5, <2>6, <2>7
         DEF StartCall, ConstantsAssumption
<1>2. ASSUME NEW t \in Thread, Step(t) PROVE PipeInv'
  <2>1. CASE OpenList(t)
        BY <2>1 DEF OpenList, Return
  <2>2. CASE CloseLock(t)
        BY <2>2 DEF CloseLock
  <2>3. CASE CloseActive(t)
        BY <2>3 DEF CloseActive
  <2>4. CASE CloseList(t)
        BY <2>4 DEF CloseList
  <2>5. CASE ClosePollfd(t)
        BY <2>5 DEF ClosePollfd, SignalIfQuiet
  <2>6. CASE CloseFd(t)
        BY <2>6 DEF CloseFd, Return
  <2>7. CASE CloseDec(t)
        BY <2>7, CloserCounted DEF CloseDec, Closing
  <2>8. CASE CloseClear(t)
        BY <2>8 DEF CloseClear, ClearEvent
  <2>9. CASE SyncWait(t)
        BY <2>9 DEF SyncWait
  <2>10. CASE NextTimeout(t)
        BY <2>10 DEF NextTimeout, HandleTimeouts, Return
  <2>11. CASE TryLockEvents(t)
        BY <2>11 DEF TryLockEvents
  <2>12. CASE TryLock(t)
        BY <2>12 DEF TryLock
  <2>13. CASE SetActive(t)
        BY <2>13 DEF SetActive
  <2>14. CASE Check(t)
        BY <2>14 DEF Check
  <2>15. CASE LockWaiters(t)
        BY <2>15 DEF LockWaiters
  <2>16. CASE Recheck(t)
        BY <2>16 DEF Recheck, Return
  <2>17. CASE HandlerClosing(t)
        BY <2>17 DEF HandlerClosing
  <2>18. CASE HandlerActive(t)
        BY <2>18 DEF HandlerActive
  <2>19. CASE Woken(t)
        BY <2>19 DEF Woken, Return
  <2>20. CASE TimedOut(t)
        BY <2>20 DEF TimedOut, HandleTimeouts, Return
  <2>21. CASE Start(t)
        BY <2>21 DEF Start
  <2>22. CASE StartClear(t)
        BY <2>22 DEF StartClear, ClearEvent
  <2>23. CASE Poll(t)
        BY <2>23 DEF Poll, Readable, ConstantsAssumption
  <2>24. CASE PipeEvent(t)
        BY <2>24 DEF PipeEvent
  <2>25. CASE CompleteQueued(t)
        BY <2>25 DEF CompleteQueued, Complete, TransferCallback,
            CallbackReturns, CallbackCloses, CallbackHandlesEvents
  <2>26. CASE Relock(t)
        BY <2>26 DEF Relock
  <2>27. CASE CompletedAll(t)
        BY <2>27 DEF CompletedAll
  <2>28. CASE PipeClear(t)
        BY <2>28 DEF PipeClear, ClearEvent
  <2>29. CASE HotplugMessage(t)
        BY <2>29 DEF HotplugMessage, CallbackReturns, CallbackCloses,
            CallbackHandlesEvents
  <2>30. CASE MessagesDone(t)
        BY <2>30 DEF MessagesDone
  <2>31. CASE Backend(t)
        BY <2>31 DEF Backend
  <2>32. CASE Reap(t)
        BY <2>32 DEF Reap, Complete, TransferCallback, CallbackReturns,
            CallbackCloses, CallbackHandlesEvents
  <2>33. CASE ReapNext(t)
        BY <2>33 DEF ReapNext
  <2>34. CASE BackendDone(t)
        BY <2>34 DEF BackendDone
  <2>35. CASE EndHandling(t)
        BY <2>35 DEF EndHandling
  <2>36. CASE ClearActive(t)
        BY <2>36 DEF ClearActive
  <2>37. CASE UnlockEvents(t)
        BY <2>37 DEF UnlockEvents
  <2>38. CASE Broadcast(t)
        BY <2>38 DEF Broadcast
  <2> QED BY <1>2, <2>1, <2>2, <2>3, <2>4, <2>5, <2>6, <2>7, <2>8, <2>9,
           <2>10, <2>11, <2>12, <2>13, <2>14, <2>15, <2>16, <2>17, <2>18,
           <2>19, <2>20, <2>21, <2>22, <2>23, <2>24, <2>25, <2>26, <2>27,
           <2>28, <2>29, <2>30, <2>31, <2>32, <2>33, <2>34, <2>35, <2>36,
           <2>37, <2>38 DEF Step
<1>3. ASSUME NEW t \in Thread, Elapse(t) PROVE PipeInv'
  <2>1. CASE PollTimesOut(t)
        BY <2>1 DEF PollTimesOut, HandleTimeouts
  <2>2. CASE PollInterrupted(t)
        BY <2>2 DEF PollInterrupted
  <2>3. CASE SleepTimesOut(t)
        BY <2>3 DEF SleepTimesOut
  <2>4. CASE PollFails(t)
        BY <2>4 DEF PollFails
  <2>5. CASE BackendFails(t)
        BY <2>5 DEF BackendFails
  <2> QED BY <1>3, <2>1, <2>2, <2>3, <2>4, <2>5 DEF Elapse
<1>4. ASSUME Environment PROVE PipeInv'
  <2>1. ASSUME NEW x \in Thread, TimerExpires(x) PROVE PipeInv'
        BY <2>1 DEF TimerExpires
  <2>2. ASSUME NEW x \in Thread, UrbReturns(x) PROVE PipeInv'
        BY <2>2 DEF UrbReturns
  <2>3. ASSUME NEW x \in Thread, SignalTransferCompletion(x) PROVE PipeInv'
        BY <2>3 DEF SignalTransferCompletion, SignalIfQuiet
  <2>4. CASE HotplugNotification
        BY <2>4 DEF HotplugNotification, SignalIfQuiet
  <2> QED BY <1>4, <2>1, <2>2, <2>3, <2>4 DEF Environment
<1>5. CASE UNCHANGED vars
      BY <1>5 DEF vars
<1> QED BY <1>1, <1>2, <1>3, <1>4, <1>5 DEF Next

\* What a step does to device_close and to the threads it counts.
CountStep ==
    \/ deviceClose' = deviceClose /\ Closers' = Closers
    \/ /\ deviceClose' = deviceClose + 1
       /\ \E t \in Thread \ Closers : Closers' = Closers \cup {t}
    \/ /\ deviceClose' = deviceClose - 1
       /\ \E t \in Closers : Closers' = Closers \ {t}

\* libusb_close counts itself in and out, once each; a close made in a callback
\* does neither.
LEMMA CountStepTaken ==
    ASSUME ConstantsAssumption, IInv, [Next]_vars
    PROVE  CountStep
<1> USE DEF IInv, TypeOK, ControlInv, NestedPCs, CountStep, Closers, Closing
<1>1. ASSUME NEW t \in Thread, StartCall(t) PROVE CountStep
  <2>1. ASSUME NEW h \in Handle, SyncTransfer(t, h) PROVE CountStep
        BY <2>1 DEF SyncTransfer, BeginCall, Submit
  <2>2. ASSUME NEW h \in Handle, SubmitAsync(t, h) PROVE CountStep
        BY <2>2 DEF SubmitAsync, BeginCall, Submit
  <2>3. ASSUME NEW h \in Handle, Open(t, h) PROVE CountStep
        BY <2>3 DEF Open, BeginCall, SignalIfQuiet
  <2>4. ASSUME NEW h \in Handle, Close(t, h) PROVE CountStep
    <3>1. Closers' = Closers \cup {t} /\ t \notin Closers
          BY <2>4 DEF Close, BeginCall
    <3> QED BY <2>4, <3>1 DEF Close
  <2>5. CASE HandleEvents(t)
        BY <2>5 DEF HandleEvents, BeginCall
  <2>6. CASE InterruptEventHandler(t)
        BY <2>6 DEF InterruptEventHandler, BeginCall, SignalIfQuiet
  <2>7. CASE HotplugDeregister(t)
        BY <2>7, SMTT(30) DEF HotplugDeregister, BeginCall, SignalIfQuiet
  <2> QED BY <1>1, <2>1, <2>2, <2>3, <2>4, <2>5, <2>6, <2>7, SMTT(60)
         DEF StartCall, ConstantsAssumption
<1>2. ASSUME NEW t \in Thread, Step(t) PROVE CountStep
  <2>1. CASE OpenList(t)
        BY <2>1, SMTT(30) DEF OpenList, Return
  <2>2. CASE CloseLock(t)
        BY <2>2 DEF CloseLock
  <2>3. CASE CloseActive(t)
        BY <2>3 DEF CloseActive
  <2>4. CASE CloseList(t)
        BY <2>4 DEF CloseList
  <2>5. CASE ClosePollfd(t)
        BY <2>5 DEF ClosePollfd, SignalIfQuiet
  <2>6. CASE CloseFd(t)
        BY <2>6 DEF CloseFd, Return
  <2>7. CASE CloseDec(t)
    <3>1. Closers' = Closers \ {t} /\ t \in Closers
          BY <2>7 DEF CloseDec
    <3> QED BY <2>7, <3>1 DEF CloseDec
  <2>8. CASE CloseClear(t)
        BY <2>8 DEF CloseClear, ClearEvent
  <2>9. CASE SyncWait(t)
        BY <2>9 DEF SyncWait
  <2>10. CASE NextTimeout(t)
        BY <2>10 DEF NextTimeout, HandleTimeouts, Return
  <2>11. CASE TryLockEvents(t)
        BY <2>11 DEF TryLockEvents
  <2>12. CASE TryLock(t)
        BY <2>12 DEF TryLock
  <2>13. CASE SetActive(t)
        BY <2>13 DEF SetActive
  <2>14. CASE Check(t)
        BY <2>14 DEF Check
  <2>15. CASE LockWaiters(t)
        BY <2>15 DEF LockWaiters
  <2>16. CASE Recheck(t)
        BY <2>16 DEF Recheck, Return
  <2>17. CASE HandlerClosing(t)
        BY <2>17 DEF HandlerClosing
  <2>18. CASE HandlerActive(t)
        BY <2>18 DEF HandlerActive
  <2>19. CASE Woken(t)
        BY <2>19, SMTT(30) DEF Woken, Return
  <2>20. CASE TimedOut(t)
        BY <2>20, SMTT(30) DEF TimedOut, HandleTimeouts, Return
  <2>21. CASE Start(t)
        BY <2>21 DEF Start
  <2>22. CASE StartClear(t)
        BY <2>22 DEF StartClear, ClearEvent
  <2>23. CASE Poll(t)
        BY <2>23 DEF Poll, Readable
  <2>24. CASE PipeEvent(t)
        BY <2>24 DEF PipeEvent
  <2>25. CASE CompleteQueued(t)
        BY <2>25 DEF CompleteQueued, Complete, TransferCallback,
            CallbackReturns, CallbackCloses, CallbackHandlesEvents
  <2>26. CASE Relock(t)
        BY <2>26 DEF Relock
  <2>27. CASE CompletedAll(t)
        BY <2>27 DEF CompletedAll
  <2>28. CASE PipeClear(t)
        BY <2>28 DEF PipeClear, ClearEvent
  <2>29. CASE HotplugMessage(t)
        BY <2>29 DEF HotplugMessage, CallbackReturns, CallbackCloses,
            CallbackHandlesEvents
  <2>30. CASE MessagesDone(t)
        BY <2>30 DEF MessagesDone
  <2>31. CASE Backend(t)
        BY <2>31 DEF Backend
  <2>32. CASE Reap(t)
        BY <2>32 DEF Reap, Complete, TransferCallback, CallbackReturns,
            CallbackCloses, CallbackHandlesEvents
  <2>33. CASE ReapNext(t)
        BY <2>33 DEF ReapNext
  <2>34. CASE BackendDone(t)
        BY <2>34 DEF BackendDone
  <2>35. CASE EndHandling(t)
        BY <2>35 DEF EndHandling
  <2>36. CASE ClearActive(t)
        BY <2>36 DEF ClearActive
  <2>37. CASE UnlockEvents(t)
        BY <2>37 DEF UnlockEvents
  <2>38. CASE Broadcast(t)
        BY <2>38 DEF Broadcast
  <2> QED BY <1>2, <2>1, <2>2, <2>3, <2>4, <2>5, <2>6, <2>7, <2>8, <2>9,
           <2>10, <2>11, <2>12, <2>13, <2>14, <2>15, <2>16, <2>17, <2>18,
           <2>19, <2>20, <2>21, <2>22, <2>23, <2>24, <2>25, <2>26, <2>27,
           <2>28, <2>29, <2>30, <2>31, <2>32, <2>33, <2>34, <2>35, <2>36,
           <2>37, <2>38 DEF Step
<1>3. ASSUME NEW t \in Thread, Elapse(t) PROVE CountStep
  <2>1. CASE PollTimesOut(t)
        BY <2>1 DEF PollTimesOut, HandleTimeouts
  <2>2. CASE PollInterrupted(t)
        BY <2>2 DEF PollInterrupted
  <2>3. CASE SleepTimesOut(t)
        BY <2>3 DEF SleepTimesOut
  <2>4. CASE PollFails(t)
        BY <2>4 DEF PollFails
  <2>5. CASE BackendFails(t)
        BY <2>5 DEF BackendFails
  <2> QED BY <1>3, <2>1, <2>2, <2>3, <2>4, <2>5 DEF Elapse
<1>4. ASSUME Environment PROVE CountStep
  <2>1. ASSUME NEW x \in Thread, TimerExpires(x) PROVE CountStep
        BY <2>1 DEF TimerExpires
  <2>2. ASSUME NEW x \in Thread, UrbReturns(x) PROVE CountStep
        BY <2>2 DEF UrbReturns
  <2>3. ASSUME NEW x \in Thread, SignalTransferCompletion(x) PROVE CountStep
        BY <2>3 DEF SignalTransferCompletion, SignalIfQuiet
  <2>4. CASE HotplugNotification
        BY <2>4 DEF HotplugNotification, SignalIfQuiet
  <2> QED BY <1>4, <2>1, <2>2, <2>3, <2>4 DEF Environment
<1>5. CASE UNCHANGED vars
      BY <1>5 DEF vars
<1> QED BY <1>1, <1>2, <1>3, <1>4, <1>5 DEF Next

\* device_close is the number of threads that are closing a device.
LEMMA ClosePreserved ==
    ASSUME ConstantsAssumption, IInv, [Next]_vars
    PROVE  CloseInv'
<1>1. IsFiniteSet(Closers)
      BY FS_Subset DEF ConstantsAssumption, Closers
<1>2. CountStep
      BY CountStepTaken
<1>3. ASSUME Closers' = Closers, deviceClose' = deviceClose PROVE CloseInv'
      BY <1>3 DEF IInv, CloseInv
<1>4. ASSUME NEW t \in Thread \ Closers, Closers' = Closers \cup {t},
             deviceClose' = deviceClose + 1
      PROVE  CloseInv'
      BY <1>1, <1>4, FS_AddElement DEF IInv, CloseInv
<1>5. ASSUME NEW t \in Closers, Closers' = Closers \ {t},
             deviceClose' = deviceClose - 1
      PROVE  CloseInv'
      BY <1>1, <1>5, FS_RemoveElement DEF IInv, CloseInv
<1> QED BY <1>2, <1>3, <1>4, <1>5 DEF CountStep

----------------------------------------------------------------------------
(* The theorems.                                                           *)

LEMMA InitIInv == ASSUME ConstantsAssumption, Init PROVE IInv
<1>1. TypeOK
      BY DEF ConstantsAssumption, Init, TypeOK
<1>2. ControlInv /\ OneHandler /\ DataLockInv
      BY DEF Init, ControlInv, OneHandler, InHandler, DataLockInv
<1>3. PipeInv
      BY DEF Init, PipeInv, PendingIsSignalled, HoldsByte
<1>4. Closers = {}
      BY DEF Init, Closers, Closing
<1>5. CloseInv
      BY <1>4, FS_EmptySet DEF Init, CloseInv
<1> QED BY <1>1, <1>2, <1>3, <1>5 DEF IInv

LEMMA NextIInv == ASSUME ConstantsAssumption, IInv, [Next]_vars PROVE IInv'
BY TypePreserved, LocksPreserved, PipePreserved, ClosePreserved
   DEF IInv, LocksInv

\* The inductive invariant holds in every behaviour.
THEOREM Invariance == Spec => []IInv
<1>1. Init => IInv
      BY InitIInv, ConstantsAssumption
<1>2. IInv /\ [Next]_vars => IInv'
      BY NextIInv, ConstantsAssumption
<1> QED BY <1>1, <1>2, PTL DEF Spec

\* Every variable of the event loop keeps its type; device_close, which
\* libusb_close decreases, never falls below zero (core.c:1421, 1437).
THEOREM TypeCorrectness == Spec => []TypeOK
<1>1. IInv => TypeOK
      BY DEF IInv
<1> QED BY <1>1, Invariance, PTL

\* At most one thread handles events or closes a device, and nothing called
\* from a callback breaks that: the events lock does its work (io.c:1732-1808).
THEOREM HandlerExclusion == Spec => []OneHandler
<1>1. IInv => OneHandler
      BY DEF IInv
<1> QED BY <1>1, Invariance, PTL

\* No wake-up of the event handler is lost: while a flag, a closer, a hotplug
\* message or a completed transfer waits, the event pipe is readable.
THEOREM NoLostWakeup == Spec => []PendingIsSignalled
<1>1. IInv => PendingIsSignalled
      BY DEF IInv, PipeInv
<1> QED BY <1>1, Invariance, PTL

\* usbi_clear_event never blocks on an empty pipe, with event_data_lock held.
THEOREM ClearIsSafe == Spec => []ClearNeverBlocks
<1>1. IInv => ClearNeverBlocks
      BY DEF IInv, PipeInv, ClearNeverBlocks
<1> QED BY <1>1, Invariance, PTL

----------------------------------------------------------------------------
(* The event pipe, once more.  From here on each invariant reads a few     *)
(* variables: a lemma says which steps leave those alone, and the others   *)
(* are looked at one by one.                                               *)

\* Without a backend that queues completions, event_data_lock is given up
\* only when the pipe agrees with what is pending.
ByteInv ==
    ~app.queueBackend =>
        /\ pipe <= 1 /\ completedTransfers = {}
        /\ pipe = 1 => Pending \/ dataLock # None

\* The steps that touch the pipe, what is pending or event_data_lock.
DataStep ==
    \/ \E t \in Thread :
          \/ \E h \in Handle : Open(t, h) \/ Close(t, h)
          \/ InterruptEventHandler(t) \/ HotplugDeregister(t)
          \/ ClosePollfd(t) \/ CloseDec(t) \/ CloseClear(t)
          \/ Start(t) \/ StartClear(t)
          \/ PipeEvent(t) \/ CompleteQueued(t) \/ Relock(t) \/ CompletedAll(t)
          \/ PipeClear(t)
          \/ SignalTransferCompletion(t)
    \/ HotplugNotification

LEMMA DataSteps ==
    ASSUME ConstantsAssumption, IInv, [Next]_vars
    PROVE  DataStep \/ UNCHANGED <<dataVars, dataLock, app>>
<1> DEFINE Quiet == UNCHANGED <<dataVars, dataLock, app>>
<1>1. ASSUME NEW t \in Thread, StartCall(t) PROVE DataStep \/ Quiet
  <2>1. ASSUME NEW h \in app.mayUse[t], SyncTransfer(t, h) \/ SubmitAsync(t, h)
        PROVE  Quiet
        BY <2>1 DEF SyncTransfer, SubmitAsync
  <2>2. ASSUME NEW h \in app.mayUse[t], Open(t, h) \/ Close(t, h) PROVE DataStep
    <3>1. h \in Handle
          BY DEF IInv, TypeOK, ConstantsAssumption
    <3> QED BY <2>2, <3>1 DEF DataStep
  <2>3. CASE HandleEvents(t)
        BY <2>3 DEF HandleEvents
  <2>4. CASE InterruptEventHandler(t) \/ HotplugDeregister(t)
        BY <2>4 DEF DataStep
  <2> QED BY <1>1, <2>1, <2>2, <2>3, <2>4 DEF StartCall
<1>2. ASSUME NEW t \in Thread, Step(t) PROVE DataStep \/ Quiet
  <2>1. CASE OpenList(t) \/ CloseLock(t) \/ CloseActive(t) \/ CloseList(t)
                \/ CloseFd(t) \/ SyncWait(t) \/ NextTimeout(t)
        BY <2>1 DEF OpenList, CloseLock, CloseActive, CloseList, CloseFd,
            SyncWait, NextTimeout
  <2>2. CASE TryLockEvents(t) \/ TryLock(t) \/ SetActive(t) \/ Check(t)
                \/ LockWaiters(t) \/ Recheck(t) \/ HandlerClosing(t)
                \/ HandlerActive(t) \/ Woken(t) \/ TimedOut(t)
        BY <2>2 DEF TryLockEvents, TryLock, SetActive, Check, LockWaiters,
            Recheck, HandlerClosing, HandlerActive, Woken, TimedOut
  <2>3. CASE Poll(t) \/ HotplugMessage(t) \/ MessagesDone(t) \/ Backend(t)
                \/ Reap(t) \/ ReapNext(t) \/ BackendDone(t)
        BY <2>3 DEF Poll, HotplugMessage, MessagesDone, Backend, Reap,
            ReapNext, BackendDone
  <2>4. CASE EndHandling(t) \/ ClearActive(t) \/ UnlockEvents(t) \/ Broadcast(t)
        BY <2>4 DEF EndHandling, ClearActive, UnlockEvents, Broadcast
  <2> QED BY <1>2, <2>1, <2>2, <2>3, <2>4 DEF Step, DataStep
<1>3. ASSUME NEW t \in Thread, Elapse(t) PROVE Quiet
      BY <1>3 DEF Elapse, PollTimesOut, PollInterrupted, SleepTimesOut, PollFails,
                  BackendFails
<1>4. ASSUME Environment PROVE DataStep \/ Quiet
      BY <1>4 DEF Environment, TimerExpires, UrbReturns, DataStep
<1>5. CASE UNCHANGED vars
      BY <1>5 DEF vars
<1> QED BY <1>1, <1>2, <1>3, <1>4, <1>5 DEF Next

\* An event posted with a byte if none was pending.
LEMMA Posted ==
    ASSUME IInv, ByteInv, SignalIfQuiet, dataLock = None,
           UNCHANGED <<completedTransfers, app>>,
           eventFlags' # {} \/ deviceClose' > 0 \/ hotplugMsgs' > 0
    PROVE  ByteInv'
BY DEF IInv, TypeOK, ByteInv, SignalIfQuiet, Pending, PendingWith

LEMMA BytePreserved ==
    ASSUME ConstantsAssumption, IInv, ByteInv, [Next]_vars
    PROVE  ByteInv'
<1> USE DEF IInv, TypeOK, DataLockInv, PipeInv, ByteInv, Pending, PendingWith
<1>1. CASE UNCHANGED <<dataVars, dataLock, app>>
      BY <1>1
<1>2. ASSUME NEW t \in Thread, NEW h \in Handle, Open(t, h) \/ Close(t, h)
      PROVE  ByteInv'
  <2>1. CASE Open(t, h)
    <3>1. CASE app.queueBackend
          BY <2>1, <3>1 DEF Open
    <3>2. CASE ~app.queueBackend
      <4>1. "POLLFDS_MODIFIED" \in eventFlags'
            BY <2>1, <3>2 DEF Open
      <4> QED BY <2>1, <3>2, <4>1, Posted DEF Open
    <3> QED BY <3>1, <3>2
  <2>2. CASE Close(t, h)
    <3>1. deviceClose' > 0
          BY <2>2 DEF Close
    <3> QED BY <2>2, <3>1, Posted DEF Close
  <2> QED BY <1>2, <2>1, <2>2
<1>3. ASSUME NEW t \in Thread, InterruptEventHandler(t) \/ HotplugDeregister(t)
      PROVE  ByteInv'
  <2>1. eventFlags' # {}
        BY <1>3 DEF InterruptEventHandler, HotplugDeregister
  <2> QED BY <1>3, <2>1, Posted DEF InterruptEventHandler, HotplugDeregister
<1>4. ASSUME NEW t \in Thread, ClosePollfd(t) \/ CloseDec(t) PROVE ByteInv'
  <2>1. CASE ClosePollfd(t)
    <3>1. CASE target[t] \in ipollfds
      <4>1. "POLLFDS_MODIFIED" \in eventFlags'
            BY <2>1, <3>1 DEF ClosePollfd
      <4> QED BY <2>1, <3>1, <4>1, Posted DEF ClosePollfd
    <3>2. CASE target[t] \notin ipollfds
          BY <2>1, <3>2 DEF ClosePollfd
    <3> QED BY <3>1, <3>2
  <2>2. CASE CloseDec(t)
        BY <2>2 DEF CloseDec, ConstantsAssumption
  <2> QED BY <1>4, <2>1, <2>2
<1>5. ASSUME NEW t \in Thread, CloseClear(t) \/ StartClear(t) \/ PipeClear(t)
      PROVE  ByteInv'
      BY <1>5 DEF CloseClear, StartClear, PipeClear, ClearEvent
<1>6. ASSUME NEW t \in Thread, Start(t) \/ PipeEvent(t) PROVE ByteInv'
      BY <1>6 DEF Start, PipeEvent, ConstantsAssumption
<1>7. ASSUME NEW t \in Thread, CompleteQueued(t) PROVE ByteInv'
      BY <1>7 DEF CompleteQueued
<1>8. ASSUME NEW t \in Thread, Relock(t) \/ CompletedAll(t) PROVE ByteInv'
      BY <1>8 DEF Relock, CompletedAll, ConstantsAssumption
<1>9. ASSUME NEW t \in Thread, SignalTransferCompletion(t) PROVE ByteInv'
      BY <1>9 DEF SignalTransferCompletion
<1>10. CASE HotplugNotification
      BY <1>10 DEF HotplugNotification, SignalIfQuiet
<1> QED BY DataSteps, <1>1, <1>2, <1>3, <1>4, <1>5, <1>6, <1>7, <1>8, <1>9,
           <1>10 DEF DataStep

\* The pipe is never read empty, holds at most one byte, and no byte that
\* nobody needs: no later poll() returns for nothing.
THEOREM PipeExactness == Spec => []PipeIsExact
<1>1. Init => ByteInv
      BY DEF Init, ByteInv, Pending, PendingWith
<1>2. IInv /\ ByteInv /\ [Next]_vars => ByteInv'
      BY BytePreserved, ConstantsAssumption
<1>3. IInv /\ ByteInv => PipeIsExact
      BY DEF IInv, PipeInv, ByteInv, PipeIsExact, PendingIsSignalled, ClearNeverBlocks,
         NoStaleByte
<1> QED BY <1>1, <1>2, <1>3, Invariance, PTL DEF Spec

----------------------------------------------------------------------------
(* The poll set.                                                           *)

\* t is to close, or to add to the open handles, the handle it targets.
Owns(t) == pc[t] \in {"close_lock", "close_active", "close_list", "close_pollfd",
                      "close_fd", "open_list"}

\* A handle belongs to the application or to one thread that closes or opens
\* it, so that its descriptor stays open until that thread closes it.
OwnersInv ==
    /\ opened \subseteq fdOpen
    /\ \A t \in Thread : Owns(t) => target[t] \in fdOpen \ opened
    /\ \A t, u \in Thread : Owns(t) /\ Owns(u) /\ target[t] = target[u] => t = u

\* The handler's copy of the poll set is the set, or is flagged as old; a
\* descriptor leaves the set before it is closed.
PollInv ==
    /\ pollfds = ipollfds \/ "POLLFDS_MODIFIED" \in eventFlags
    /\ ipollfds \subseteq fdOpen \cup {Pipe}
    /\ \A t \in Thread : At(t, "close_fd") => target[t] \notin ipollfds
    /\ \A t \in Thread : pc[t] \in {"start_clear", "poll"}
                             => pollfds \subseteq fdOpen \cup {Pipe}

\* The steps that open and close handles.
HandleStep(t) ==
    \/ \E h \in Handle : Open(t, h) \/ Close(t, h)
    \/ OpenList(t) \/ CloseFd(t)
    \/ CompleteQueued(t) \/ HotplugMessage(t) \/ Reap(t)

\* Any other step moves no thread into or out of the sections that own a
\* handle; within them it may go on.
LEMMA HandleSteps ==
    ASSUME ConstantsAssumption, IInv, [Next]_vars
    PROVE  \/ \E t \in Thread : HandleStep(t)
           \/ /\ UNCHANGED <<opened, fdOpen, target>>
              /\ \A t \in Thread : Owns(t)' => Owns(t)
<1> DEFINE Quiet == /\ UNCHANGED <<opened, fdOpen, target>>
                    /\ \A u \in Thread : Owns(u)' => Owns(u)
           Goal == Quiet \/ \E t \in Thread : HandleStep(t)
<1> USE DEF IInv, TypeOK, ControlInv, NestedPCs, Owns
<1>1. ASSUME NEW t \in Thread, StartCall(t) PROVE Goal
  <2>1. ASSUME NEW h \in app.mayUse[t], SyncTransfer(t, h) \/ SubmitAsync(t, h)
        PROVE  Quiet
    <3>1. CASE SyncTransfer(t, h)
          BY <3>1 DEF SyncTransfer
    <3>2. CASE SubmitAsync(t, h)
          BY <3>2 DEF SubmitAsync
    <3> QED BY <2>1, <3>1, <3>2
  <2>2. ASSUME NEW h \in app.mayUse[t], Open(t, h) \/ Close(t, h)
        PROVE  HandleStep(t)
    <3>1. h \in Handle
          BY DEF ConstantsAssumption
    <3> QED BY <2>2, <3>1 DEF HandleStep
  <2>3. CASE HandleEvents(t) \/ InterruptEventHandler(t) \/ HotplugDeregister(t)
        BY <2>3 DEF HandleEvents, InterruptEventHandler, HotplugDeregister
  <2> QED BY <1>1, <2>1, <2>2, <2>3 DEF StartCall
<1>2. ASSUME NEW t \in Thread, Step(t) PROVE Goal
  <2>1. CASE CloseLock(t) \/ CloseActive(t) \/ CloseList(t) \/ ClosePollfd(t)
                \/ CloseDec(t) \/ CloseClear(t)
        BY <2>1 DEF CloseLock, CloseActive, CloseList, ClosePollfd, CloseDec,
            CloseClear, ClearEvent
  <2>2. CASE SyncWait(t) \/ NextTimeout(t) \/ TryLockEvents(t) \/ TryLock(t)
                \/ SetActive(t) \/ Check(t)
        BY <2>2 DEF SyncWait, NextTimeout, TryLockEvents, TryLock, SetActive,
            Check, Return
  <2>3. CASE LockWaiters(t) \/ Recheck(t) \/ HandlerClosing(t)
                \/ HandlerActive(t) \/ Woken(t) \/ TimedOut(t)
        BY <2>3 DEF LockWaiters, Recheck, HandlerClosing, HandlerActive, Woken,
            TimedOut, Return
  <2>4. CASE Start(t) \/ StartClear(t) \/ Poll(t) \/ PipeEvent(t) \/ Relock(t)
                \/ CompletedAll(t) \/ PipeClear(t)
        BY <2>4 DEF Start, StartClear, Poll, PipeEvent, Relock, CompletedAll,
            PipeClear, ClearEvent
  <2>5. CASE MessagesDone(t) \/ Backend(t) \/ ReapNext(t) \/ BackendDone(t)
                \/ EndHandling(t) \/ ClearActive(t) \/ UnlockEvents(t)
        BY <2>5 DEF MessagesDone, Backend, ReapNext, BackendDone, EndHandling,
            ClearActive, UnlockEvents
  <2>6. CASE Broadcast(t)
        BY <2>6 DEF Broadcast
  <2> QED BY <1>2, <2>1, <2>2, <2>3, <2>4, <2>5, <2>6 DEF Step, HandleStep
<1>3. ASSUME NEW t \in Thread, Elapse(t) PROVE Quiet
      BY <1>3 DEF Elapse, PollTimesOut, PollInterrupted, SleepTimesOut, PollFails,
                  BackendFails
<1>4. ASSUME Environment PROVE Quiet
      BY <1>4 DEF Environment, TimerExpires, UrbReturns,
         SignalTransferCompletion, HotplugNotification
<1>5. CASE UNCHANGED vars
      BY <1>5 DEF vars
<1> QED BY <1>1, <1>2, <1>3, <1>4, <1>5 DEF Next

LEMMA OwnersPreserved ==
    ASSUME ConstantsAssumption, IInv, OwnersInv, [Next]_vars
    PROVE  OwnersInv'
<1> USE DEF IInv, TypeOK, ControlInv, NestedPCs, Owns, OwnersInv
<1>1. CASE /\ UNCHANGED <<opened, fdOpen, target>>
           /\ \A t \in Thread : Owns(t)' => Owns(t)
      BY <1>1
<1>2. ASSUME NEW t \in Thread, HandleStep(t) PROVE OwnersInv'
  <2>1. ASSUME NEW h \in Handle, Open(t, h) PROVE OwnersInv'
        BY <2>1 DEF Open, BeginCall
  <2>2. ASSUME NEW h \in Handle, Close(t, h) PROVE OwnersInv'
        BY <2>2, SMTT(30) DEF Close, BeginCall
  <2>3. CASE OpenList(t)
        BY <2>3 DEF OpenList, Return
  <2>4. CASE CloseFd(t)
        BY <2>4 DEF CloseFd, Return
  <2>5. CASE CompleteQueued(t)
        BY <2>5, SMTT(30) DEF CompleteQueued, TransferCallback, CallbackReturns,
           CallbackCloses, CallbackHandlesEvents
  <2>6. CASE HotplugMessage(t)
        BY <2>6, SMTT(30) DEF HotplugMessage, CallbackReturns, CallbackCloses,
           CallbackHandlesEvents
  <2>7. CASE Reap(t)
        BY <2>7, SMTT(30) DEF Reap, TransferCallback, CallbackReturns, CallbackCloses,
           CallbackHandlesEvents
  <2> QED BY <1>2, <2>1, <2>2, <2>3, <2>4, <2>5, <2>6, <2>7 DEF HandleStep
<1> QED BY HandleSteps, <1>1, <1>2
\* A thread that works with the poll set holds events_lock, and only the
\* closing of a descriptor invalidates what the handler polls.
LEMMA PollPreserved ==
    ASSUME ConstantsAssumption, IInv, OwnersInv, PollInv, [Next]_vars
    PROVE  PollInv'
<1> DEFINE Quiet == /\ UNCHANGED <<pollfds, ipollfds, fdOpen, target>>
                    /\ "POLLFDS_MODIFIED" \in eventFlags
                           => "POLLFDS_MODIFIED" \in eventFlags'
                    /\ \A u \in Thread : pc'[u] \in {"start_clear", "poll"}
                                            => pc[u] \in {"start_clear", "poll"}
                    /\ \A u \in Thread : At(u, "close_fd")' => At(u, "close_fd")
<1> USE DEF IInv, TypeOK, ControlInv, NestedPCs, Owns, OwnersInv, OneHandler,
            InHandler, PollInv
<1>0. ASSUME Quiet PROVE PollInv'
      BY <1>0
<1>1. ASSUME NEW t \in Thread, StartCall(t) PROVE PollInv'
  <2>1. ASSUME NEW h \in Handle, Open(t, h) PROVE PollInv'
        BY <2>1 DEF Open, BeginCall
  <2>2. ASSUME NEW h \in Handle, Close(t, h) PROVE PollInv'
        BY <2>2 DEF Close, BeginCall
  <2>3. ASSUME NEW h \in Handle, SyncTransfer(t, h) PROVE Quiet
        BY <2>3 DEF SyncTransfer
  <2>4. ASSUME NEW h \in Handle, SubmitAsync(t, h) PROVE Quiet
        BY <2>4 DEF SubmitAsync
  <2>5. CASE HandleEvents(t) \/ InterruptEventHandler(t) \/ HotplugDeregister(t)
    <3>1. Quiet
          BY <2>5 DEF HandleEvents, InterruptEventHandler, HotplugDeregister
    <3> QED BY <3>1, <1>0
  <2> QED BY <1>0, <1>1, <2>1, <2>2, <2>3, <2>4, <2>5
         DEF StartCall, ConstantsAssumption
<1>2. ASSUME NEW t \in Thread, Step(t) PROVE PollInv'
  <2>1. CASE OpenList(t) \/ CloseLock(t) \/ CloseActive(t) \/ CloseList(t)
                \/ CloseDec(t) \/ CloseClear(t)
        BY <2>1 DEF OpenList, CloseLock, CloseActive, CloseList, CloseDec,
            CloseClear, ClearEvent, Return
  <2>2. CASE ClosePollfd(t)
        BY <2>2 DEF ClosePollfd
  <2>3. CASE CloseFd(t)
        BY <2>3, SMTT(30) DEF CloseFd, Return
  <2>4. CASE SyncWait(t) \/ NextTimeout(t) \/ TryLockEvents(t) \/ TryLock(t)
                \/ SetActive(t) \/ Check(t)
        BY <2>4 DEF SyncWait, NextTimeout, TryLockEvents, TryLock, SetActive,
            Check, Return
  <2>5. CASE LockWaiters(t) \/ Recheck(t) \/ HandlerClosing(t)
                \/ HandlerActive(t) \/ Woken(t) \/ TimedOut(t)
        BY <2>5 DEF LockWaiters, Recheck, HandlerClosing, HandlerActive, Woken,
            TimedOut, Return
  <2>6. CASE Start(t)
        BY <2>6 DEF Start
  <2>7. CASE StartClear(t)
        BY <2>7 DEF StartClear, ClearEvent
  <2>8. CASE Poll(t) \/ PipeEvent(t) \/ Relock(t) \/ CompletedAll(t) \/ PipeClear(t)
        BY <2>8 DEF Poll, PipeEvent, Relock, CompletedAll, PipeClear, ClearEvent
  <2>9. CASE CompleteQueued(t)
        BY <2>9 DEF CompleteQueued, TransferCallback, CallbackReturns,
            CallbackCloses, CallbackHandlesEvents
  <2>10. CASE HotplugMessage(t)
        BY <2>10 DEF HotplugMessage, CallbackReturns, CallbackCloses,
            CallbackHandlesEvents
  <2>11. CASE Reap(t)
        BY <2>11 DEF Reap, TransferCallback, CallbackReturns, CallbackCloses,
            CallbackHandlesEvents
  <2>12. CASE MessagesDone(t) \/ Backend(t) \/ ReapNext(t) \/ BackendDone(t)
                \/ EndHandling(t) \/ ClearActive(t) \/ UnlockEvents(t)
        BY <2>12 DEF MessagesDone, Backend, ReapNext, BackendDone, EndHandling,
            ClearActive, UnlockEvents
  <2>13. CASE Broadcast(t)
        BY <2>13 DEF Broadcast
  <2> QED BY <1>2, <2>1, <2>2, <2>3, <2>4, <2>5, <2>6, <2>7, <2>8, <2>9,
             <2>10, <2>11, <2>12, <2>13 DEF Step
<1>3. ASSUME NEW t \in Thread, Elapse(t) PROVE PollInv'
      BY <1>3 DEF Elapse, PollTimesOut, PollInterrupted, SleepTimesOut, PollFails,
                  BackendFails
<1>4. ASSUME Environment PROVE PollInv'
      BY <1>4 DEF Environment, TimerExpires, UrbReturns,
         SignalTransferCompletion, HotplugNotification
<1>5. CASE UNCHANGED vars
      BY <1>5 DEF vars
<1> QED BY <1>1, <1>2, <1>3, <1>4, <1>5 DEF Next

\* A handler that sleeps in poll() watches no descriptor that was closed, even
\* one that is opened again under its number, and none of the set unwatched.
THEOREM PollSetIsCurrent == Spec => []PollSetCurrent
<1>1. Init => OwnersInv /\ PollInv
      BY DEF Init, OwnersInv, Owns, PollInv
<1>2. IInv /\ OwnersInv /\ PollInv /\ [Next]_vars => OwnersInv' /\ PollInv'
      BY OwnersPreserved, PollPreserved, ConstantsAssumption
<1>3. IInv /\ PollInv => PollSetCurrent
      BY DEF IInv, TypeOK, PipeInv, PendingIsSignalled, Pending, PendingWith, PollInv,
         PollSetCurrent
<1> QED BY <1>1, <1>2, <1>3, Invariance, PTL DEF Spec
----------------------------------------------------------------------------
(* The waiters.                                                            *)

\* event_handler_active is set only while somebody holds events_lock, and is
\* cleared before the lock is released.
ActiveInv ==
    /\ handlerActive => eventsLock # None
    /\ \A t \in Thread : At(t, "unlock_events") => ~handlerActive

\* While threads sleep somebody holds events_lock, waits for it or has given
\* it up, be it one of them.
WakerInv ==
    waitSet # {} => \/ eventsLock # None
                    \/ \E t \in Thread : pc[t] \in {"close_lock", "broadcast"}

\* The owner of events_lock is in its sections or in a callback, which may
\* handle events only where callbacks do.
NestInv ==
    /\ eventsLock # None => InHandler(eventsLock)
    /\ NoRecursion => \A t \in Thread : cb[t] # "none" =>
                          pc[t] \in {"close_list", "close_pollfd", "close_fd"}

\* Whoever closes a device is on its way to events_lock or has it.
LEMMA CloserIsThere ==
    ASSUME ConstantsAssumption, IInv, deviceClose > 0
    PROVE  eventsLock # None \/ \E t \in Thread : At(t, "close_lock")
<1>1. Closers # {}
      BY FS_EmptySet DEF IInv, CloseInv
<1>2. PICK t \in Thread : Closing(t)
      BY <1>1 DEF Closers
<1> QED BY <1>2 DEF ConstantsAssumption, IInv, OneHandler, InHandler, Closing

\* A thread goes to sleep where it has seen a closer or an active handler,
\* and the last of those broadcasts after it has given up events_lock.
LEMMA WakerPreserved ==
    ASSUME ConstantsAssumption, IInv, ActiveInv, WakerInv, [Next]_vars
    PROVE  ActiveInv' /\ WakerInv'
<1> DEFINE Goal == ActiveInv' /\ WakerInv'
<1> USE DEF IInv, TypeOK, ControlInv, NestedPCs, OneHandler, InHandler,
            ConstantsAssumption, ActiveInv, WakerInv
<1>1. ASSUME NEW t \in Thread, StartCall(t) PROVE Goal
  <2>1. ASSUME NEW h \in Handle, SyncTransfer(t, h) PROVE Goal
        BY <2>1 DEF SyncTransfer, BeginCall
  <2>2. ASSUME NEW h \in Handle, SubmitAsync(t, h) PROVE Goal
        BY <2>2 DEF SubmitAsync
  <2>3. ASSUME NEW h \in Handle, Open(t, h) PROVE Goal
        BY <2>3 DEF Open, BeginCall
  <2>4. ASSUME NEW h \in Handle, Close(t, h) PROVE Goal
        BY <2>4 DEF Close, BeginCall
  <2>5. CASE HandleEvents(t) \/ InterruptEventHandler(t) \/ HotplugDeregister(t)
        BY <2>5 DEF HandleEvents, InterruptEventHandler, HotplugDeregister,
            BeginCall
  <2> QED BY <1>1, <2>1, <2>2, <2>3, <2>4, <2>5 DEF StartCall
<1>2. ASSUME NEW t \in Thread, Step(t) PROVE Goal
  <2>1. CASE OpenList(t) \/ CloseList(t) \/ ClosePollfd(t) \/ CloseFd(t)
                \/ CloseDec(t) \/ CloseClear(t)
        BY <2>1 DEF OpenList, CloseList, ClosePollfd, CloseFd, CloseDec,
            CloseClear, ClearEvent, Return
  <2>2. CASE CloseLock(t) \/ CloseActive(t)
        BY <2>2 DEF CloseLock, CloseActive
  <2>3. CASE SyncWait(t) \/ NextTimeout(t) \/ TryLockEvents(t) \/ Check(t)
        BY <2>3 DEF SyncWait, NextTimeout, TryLockEvents, Check, Return
  <2>4. CASE TryLock(t) \/ SetActive(t)
        BY <2>4 DEF TryLock, SetActive
  <2>5. CASE LockWaiters(t) \/ Recheck(t) \/ Woken(t) \/ TimedOut(t)
        BY <2>5 DEF LockWaiters, Recheck, Woken, TimedOut, Return
  <2>6. CASE HandlerClosing(t)
        BY <2>6, CloserIsThere DEF HandlerClosing
  <2>7. CASE HandlerActive(t)
        BY <2>7 DEF HandlerActive
  <2>8. CASE Start(t) \/ StartClear(t) \/ Poll(t) \/ PipeEvent(t) \/ Relock(t)
                \/ CompletedAll(t) \/ PipeClear(t)
        BY <2>8 DEF Start, StartClear, Poll, PipeEvent, Relock, CompletedAll,
            PipeClear, ClearEvent
  <2>9. CASE CompleteQueued(t)
        BY <2>9 DEF CompleteQueued, TransferCallback, CallbackReturns,
            CallbackCloses, CallbackHandlesEvents
  <2>10. CASE HotplugMessage(t)
        BY <2>10 DEF HotplugMessage, CallbackReturns, CallbackCloses,
            CallbackHandlesEvents
  <2>11. CASE Reap(t)
        BY <2>11 DEF Reap, TransferCallback, CallbackReturns, CallbackCloses,
            CallbackHandlesEvents
  <2>12. CASE MessagesDone(t) \/ Backend(t) \/ ReapNext(t) \/ BackendDone(t)
                \/ EndHandling(t)
        BY <2>12 DEF MessagesDone, Backend, ReapNext, BackendDone, EndHandling
  <2>13. CASE ClearActive(t)
        BY <2>13 DEF ClearActive
  <2>14. CASE UnlockEvents(t)
        BY <2>14 DEF UnlockEvents
  <2>15. CASE Broadcast(t)
        BY <2>15 DEF Broadcast
  <2> QED BY <1>2, <2>1, <2>2, <2>3, <2>4, <2>5, <2>6, <2>7, <2>8, <2>9,
             <2>10, <2>11, <2>12, <2>13, <2>14, <2>15 DEF Step
<1>3. ASSUME NEW t \in Thread, Elapse(t) PROVE Goal
      BY <1>3 DEF Elapse, PollTimesOut, PollInterrupted, SleepTimesOut, PollFails,
                  BackendFails
<1>4. ASSUME Environment PROVE Goal
      BY <1>4 DEF Environment, TimerExpires, UrbReturns,
         SignalTransferCompletion, HotplugNotification
<1>5. CASE UNCHANGED vars
      BY <1>5 DEF vars
<1> QED BY <1>1, <1>2, <1>3, <1>4, <1>5 DEF Next

\* events_lock changes hands with its owner's place, and a callback that does
\* not handle events stays in its close.
LEMMA NestPreserved ==
    ASSUME ConstantsAssumption, IInv, NestInv, [Next]_vars
    PROVE  NestInv'
<1> DEFINE Goal == NestInv'
<1> USE DEF IInv, TypeOK, ControlInv, NestedPCs, OneHandler, InHandler,
            ConstantsAssumption, NestInv, NoRecursion
<1>1. ASSUME NEW t \in Thread, StartCall(t) PROVE Goal
  <2>1. ASSUME NEW h \in Handle, SyncTransfer(t, h) PROVE Goal
        BY <2>1 DEF SyncTransfer, BeginCall
  <2>2. ASSUME NEW h \in Handle, SubmitAsync(t, h) PROVE Goal
        BY <2>2 DEF SubmitAsync
  <2>3. ASSUME NEW h \in Handle, Open(t, h) PROVE Goal
        BY <2>3 DEF Open, BeginCall
  <2>4. ASSUME NEW h \in Handle, Close(t, h) PROVE Goal
        BY <2>4 DEF Close, BeginCall
  <2>5. CASE HandleEvents(t) \/ InterruptEventHandler(t) \/ HotplugDeregister(t)
        BY <2>5 DEF HandleEvents, InterruptEventHandler, HotplugDeregister,
            BeginCall
  <2> QED BY <1>1, <2>1, <2>2, <2>3, <2>4, <2>5 DEF StartCall
<1>2. ASSUME NEW t \in Thread, Step(t) PROVE Goal
  <2>1. CASE OpenList(t) \/ CloseList(t) \/ ClosePollfd(t) \/ CloseFd(t)
                \/ CloseDec(t) \/ CloseClear(t)
        BY <2>1 DEF OpenList, CloseList, ClosePollfd, CloseFd, CloseDec,
            CloseClear, ClearEvent, Return
  <2>2. CASE CloseLock(t) \/ CloseActive(t)
        BY <2>2 DEF CloseLock, CloseActive
  <2>3. CASE SyncWait(t) \/ NextTimeout(t) \/ TryLockEvents(t) \/ Check(t)
        BY <2>3 DEF SyncWait, NextTimeout, TryLockEvents, Check, Return
  <2>4. CASE TryLock(t) \/ SetActive(t)
        BY <2>4 DEF TryLock, SetActive
  <2>5. CASE LockWaiters(t) \/ Recheck(t) \/ Woken(t) \/ TimedOut(t)
        BY <2>5 DEF LockWaiters, Recheck, Woken, TimedOut, Return
  <2>6. CASE HandlerClosing(t)
        BY <2>6 DEF HandlerClosing
  <2>7. CASE HandlerActive(t)
        BY <2>7 DEF HandlerActive
  <2>8. CASE Start(t) \/ StartClear(t) \/ Poll(t) \/ PipeEvent(t) \/ Relock(t)
                \/ CompletedAll(t) \/ PipeClear(t)
        BY <2>8 DEF Start, StartClear, Poll, PipeEvent, Relock, CompletedAll,
            PipeClear, ClearEvent
  <2>9. CASE CompleteQueued(t)
        BY <2>9 DEF CompleteQueued, TransferCallback, CallbackReturns,
            CallbackCloses, CallbackHandlesEvents
  <2>10. CASE HotplugMessage(t)
        BY <2>10 DEF HotplugMessage, CallbackReturns, CallbackCloses,
            CallbackHandlesEvents
  <2>11. CASE Reap(t)
        BY <2>11 DEF Reap, TransferCallback, CallbackReturns, CallbackCloses,
            CallbackHandlesEvents
  <2>12. CASE MessagesDone(t) \/ Backend(t) \/ ReapNext(t) \/ BackendDone(t)
                \/ EndHandling(t)
        BY <2>12 DEF MessagesDone, Backend, ReapNext, BackendDone, EndHandling
  <2>13. CASE ClearActive(t)
        BY <2>13 DEF ClearActive
  <2>14. CASE UnlockEvents(t)
        BY <2>14 DEF UnlockEvents
  <2>15. CASE Broadcast(t)
        BY <2>15 DEF Broadcast
  <2> QED BY <1>2, <2>1, <2>2, <2>3, <2>4, <2>5, <2>6, <2>7, <2>8, <2>9,
             <2>10, <2>11, <2>12, <2>13, <2>14, <2>15 DEF Step
<1>3. ASSUME NEW t \in Thread, Elapse(t) PROVE Goal
      BY <1>3 DEF Elapse, PollTimesOut, PollInterrupted, SleepTimesOut, PollFails,
                  BackendFails
<1>4. ASSUME Environment PROVE Goal
      BY <1>4 DEF Environment, TimerExpires, UrbReturns,
         SignalTransferCompletion, HotplugNotification
<1>5. CASE UNCHANGED vars
      BY <1>5 DEF vars
<1> QED BY <1>1, <1>2, <1>3, <1>4, <1>5 DEF Next

\* Nobody sleeps on event_waiters_cond for good: another thread, that holds
\* events_lock, waits for it or has given it up, is still to broadcast, unless
\* a thread sleeps in a callback of its own event handling; none does where
\* callbacks handle no events.
THEOREM WaitersWillWake == Spec => []WaitersHaveAWaker
<1>1. Init => ActiveInv /\ WakerInv /\ NestInv
      BY DEF Init, ActiveInv, WakerInv, NestInv, NoRecursion
<1>2. IInv /\ ActiveInv /\ WakerInv /\ NestInv /\ [Next]_vars
          => ActiveInv' /\ WakerInv' /\ NestInv'
      BY WakerPreserved, NestPreserved, ConstantsAssumption
<1>3. IInv /\ WakerInv /\ NestInv => WaitersHaveAWaker
  <2> SUFFICES ASSUME IInv, WakerInv, NestInv PROVE WaitersHaveAWaker
      OBVIOUS
  <2> USE DEF IInv, TypeOK, ControlInv
  <2>1. ASSUME NEW t \in waitSet, eventsLock = t PROVE handling[t]
    <3>1. t \in Thread /\ t # None /\ pc[t] = "asleep"
          BY ConstantsAssumption DEF ConstantsAssumption
    <3> QED BY <2>1, <3>1 DEF NestInv, InHandler
  <2>2. ASSUME NoRecursion, NEW t \in waitSet PROVE ~handling[t]
    <3>1. t \in Thread /\ pc[t] = "asleep"
          OBVIOUS
    <3> QED BY <2>2, <3>1 DEF NestInv
  <2> QED BY <2>1, <2>2 DEF WakerInv, WaitersHaveAWaker
<1> QED BY <1>1, <1>2, <1>3, Invariance, PTL DEF Spec

----------------------------------------------------------------------------
(* The refinement.                                                         *)

\* A transfer in use belongs to a blocking call that has no answer yet, or
\* has a user callback; what is queued is in use.
ServiceInv ==
    /\ \A t \in Thread : urb[t] # "none" =>
           IF t \in async THEN call[t] # "sync"
                          ELSE call[t] = "sync" /\ ~completed[t]
    /\ \A t \in Thread : At(t, "idle") => call[t] = "none"
    /\ \A t \in completedTransfers : urb[t] = "queued"

\* The mapping of EventLoop's state to SyncService's.
Request(t) == IF call[t] # "sync" THEN "idle"
              ELSE IF completed[t] THEN "answered" ELSE "pending"

\* One caller's request goes on, or none does.
Moves(t, from, to) ==
    /\ Request(t) = from /\ Request(t)' = to
    /\ \A u \in Thread \ {t} : Request(u)' = Request(u)

ServiceStep ==
    \/ \A t \in Thread : Request(t)' = Request(t)
    \/ \E t \in Thread : \/ Moves(t, "idle", "pending")
                         \/ Moves(t, "pending", "answered")
                         \/ Moves(t, "answered", "idle")

\* A step that begins, ends and completes nothing.
LEMMA NoService ==
    ASSUME IInv, ServiceInv, UNCHANGED <<call, completed, async, completedTransfers>>,
           \A t \in Thread : urb'[t] # "none" => urb[t] # "none",
           \A t \in completedTransfers : urb'[t] = "queued",
           \A t \in Thread : At(t, "idle")' => At(t, "idle")
    PROVE  ServiceInv' /\ ServiceStep
BY DEF IInv, TypeOK, ServiceInv, ServiceStep, Request

\* Every step does to the blocking calls what SyncService allows: the answer
\* is that of a transfer in use, so of a call that has none yet.
LEMMA ServiceStepTaken ==
    ASSUME ConstantsAssumption, IInv, ServiceInv, [Next]_vars
    PROVE  ServiceInv' /\ ServiceStep
<1> DEFINE Goal == ServiceInv' /\ ServiceStep
<1> USE DEF IInv, TypeOK, ControlInv, NestedPCs, ConstantsAssumption
<1>1. ASSUME NEW t \in Thread, StartCall(t) PROVE Goal
  <2> USE DEF ServiceInv, ServiceStep, Moves, Request
  <2>1. ASSUME NEW h \in Handle, SyncTransfer(t, h) PROVE Goal
        BY <2>1 DEF SyncTransfer, BeginCall, Submit
  <2>2. ASSUME NEW h \in Handle, SubmitAsync(t, h) PROVE Goal
        BY <2>2 DEF SubmitAsync, BeginCall, Submit
  <2>3. ASSUME NEW h \in Handle, Open(t, h) PROVE Goal
        BY <2>3 DEF Open, BeginCall
  <2>4. ASSUME NEW h \in Handle, Close(t, h) PROVE Goal
        BY <2>4 DEF Close, BeginCall
  <2>5. CASE HandleEvents(t)
        BY <2>5 DEF HandleEvents, BeginCall
  <2>6. CASE InterruptEventHandler(t) \/ HotplugDeregister(t)
        BY <2>6 DEF InterruptEventHandler, HotplugDeregister
  <2> QED BY <1>1, <2>1, <2>2, <2>3, <2>4, <2>5, <2>6 DEF StartCall
<1>2. ASSUME NEW t \in Thread, Step(t) PROVE Goal
  <2>1. ASSUME Return(t), UNCHANGED <<completed, async, completedTransfers>>,
               \A u \in Thread : urb'[u] # "none" => urb[u] # "none",
               \A u \in completedTransfers : urb'[u] = "queued"
        PROVE  Goal
        BY <2>1 DEF Return, ServiceInv, ServiceStep, Request
  <2>2. CASE OpenList(t)
        BY <2>1, <2>2 DEF OpenList, ServiceInv
  <2>3. CASE CloseLock(t) \/ CloseActive(t) \/ CloseList(t) \/ ClosePollfd(t)
                \/ CloseDec(t) \/ CloseClear(t)
        BY <2>3, NoService DEF CloseLock, CloseActive, CloseList, ClosePollfd,
           CloseDec, CloseClear, ClearEvent, ServiceInv
  <2>4. CASE CloseFd(t)
    <3>1. CASE handling[t]
          BY <2>1, <2>4, <3>1 DEF CloseFd, ServiceInv
    <3>2. CASE ~handling[t]
          BY <2>4, <3>2, NoService DEF CloseFd, ServiceInv
    <3> QED BY <3>1, <3>2
  <2>5. CASE SyncWait(t)
        BY <2>5, SMTT(30) DEF SyncWait, ServiceInv, ServiceStep, Moves, Request
  <2>6. CASE NextTimeout(t)
    <3>1. CASE HandleTimeouts /\ Return(t)
          BY <2>1, <2>6, <3>1 DEF NextTimeout, HandleTimeouts, ServiceInv
    <3>2. CASE At(t, "next_timeout") /\ Goto(t, "try") /\ UNCHANGED <<call, xferVars>>
          BY <2>6, <3>2, NoService DEF NextTimeout, ServiceInv
    <3> QED BY <2>6, <3>1, <3>2 DEF NextTimeout
  <2>7. CASE TryLockEvents(t) \/ TryLock(t) \/ SetActive(t) \/ Check(t)
        BY <2>7, NoService DEF TryLockEvents, TryLock, SetActive, Check,
           ServiceInv
  <2>8. CASE LockWaiters(t) \/ HandlerClosing(t) \/ HandlerActive(t)
        BY <2>8, NoService DEF LockWaiters, HandlerClosing, HandlerActive,
           ServiceInv
  <2>9. CASE Recheck(t)
    <3>1. CASE Return(t)
          BY <2>1, <2>9, <3>1 DEF Recheck, ServiceInv
    <3>2. CASE At(t, "recheck") /\ Goto(t, "closing") /\ UNCHANGED call
          BY <2>9, <3>2, NoService DEF Recheck, ServiceInv
    <3> QED BY <2>9, <3>1, <3>2 DEF Recheck
  <2>10. CASE Woken(t)
        BY <2>1, <2>10 DEF Woken, ServiceInv
  <2>11. CASE TimedOut(t)
        BY <2>1, <2>11 DEF TimedOut, HandleTimeouts, ServiceInv
  <2>12. CASE Start(t) \/ StartClear(t) \/ Poll(t) \/ PipeEvent(t) \/ Relock(t)
                \/ CompletedAll(t) \/ PipeClear(t)
        BY <2>12, NoService DEF Start, StartClear, Poll, PipeEvent, Relock,
           CompletedAll, PipeClear, ClearEvent, ServiceInv
  <2>13. ASSUME NEW x \in Thread, urb[x] # "none", Complete(x), UNCHANGED <<call, async>>,
                completedTransfers' \subseteq completedTransfers \ {x},
                \A u \in Thread : At(u, "idle")' => At(u, "idle")
         PROVE  Goal
        BY <2>13 DEF Complete, ServiceInv, ServiceStep, Moves, Request
  <2>14. ASSUME NEW x \in Thread, NEW back \in {"relock", "reap"},
                TransferCallback(t, x, back)
         PROVE  \A u \in Thread : At(u, "idle")' => At(u, "idle")
        BY <2>14 DEF TransferCallback, CallbackReturns, CallbackCloses,
           CallbackHandlesEvents
  <2>15. CASE CompleteQueued(t)
    <3>1. PICK x \in completedTransfers :
              /\ completedTransfers' = completedTransfers \ {x}
              /\ Complete(x)
              /\ TransferCallback(t, x, "relock")
          BY <2>15 DEF CompleteQueued
    <3>2. x \in Thread /\ urb[x] # "none"
          BY DEF ServiceInv
    <3> QED BY <2>13, <2>14, <2>15, <3>1, <3>2 DEF CompleteQueued
  <2>16. CASE Reap(t)
    <3>1. PICK h \in revents \cap openDevs : \E x \in Reapable(h) :
              Complete(x) /\ TransferCallback(t, x, "reap")
          BY <2>16 DEF Reap
    <3>2. PICK x \in Thread : urb[x] = "ready" /\ Complete(x)
                                 /\ TransferCallback(t, x, "reap")
          BY <3>1 DEF Reapable
    <3>3. x \notin completedTransfers
          BY <3>2 DEF ServiceInv
    <3> QED BY <2>13, <2>14, <2>16, <3>2, <3>3 DEF Reap
  <2>17. CASE HotplugMessage(t)
        BY <2>17, NoService DEF HotplugMessage, CallbackReturns, CallbackCloses,
           CallbackHandlesEvents, ServiceInv
  <2>18. CASE MessagesDone(t) \/ Backend(t) \/ ReapNext(t) \/ BackendDone(t)
                \/ EndHandling(t) \/ ClearActive(t) \/ UnlockEvents(t)
        BY <2>18, NoService DEF MessagesDone, Backend, ReapNext, BackendDone,
           EndHandling, ClearActive, UnlockEvents, ServiceInv
  <2>19. CASE Broadcast(t)
        BY <2>19 DEF Broadcast, ServiceInv, ServiceStep, Request
  <2> QED BY <1>2, <2>2, <2>3, <2>4, <2>5, <2>6, <2>7, <2>8, <2>9, <2>10, <2>11,
             <2>12, <2>15, <2>16, <2>17, <2>18, <2>19 DEF Step
<1>3. ASSUME NEW t \in Thread, Elapse(t) PROVE Goal
  <2>1. CASE PollTimesOut(t) \/ PollInterrupted(t) \/ PollFails(t) \/ BackendFails(t)
        BY <2>1, NoService DEF PollTimesOut, PollInterrupted, PollFails,
           BackendFails, Fail, HandleTimeouts, ServiceInv
  <2>2. CASE SleepTimesOut(t)
        BY <2>2, NoService DEF SleepTimesOut, HandleTimeouts, ServiceInv
  <2> QED BY <1>3, <2>1, <2>2 DEF Elapse
<1>4. ASSUME Environment PROVE Goal
  <2>1. ASSUME NEW x \in Thread, TimerExpires(x) \/ UrbReturns(x) PROVE Goal
        BY <2>1, NoService DEF TimerExpires, UrbReturns, ServiceInv
  <2>2. ASSUME NEW x \in Thread, SignalTransferCompletion(x) PROVE Goal
        BY <2>2 DEF SignalTransferCompletion, ServiceInv, ServiceStep, Request
  <2>3. CASE HotplugNotification
        BY <2>3, NoService DEF HotplugNotification, ServiceInv
  <2> QED BY <1>4, <2>1, <2>2, <2>3 DEF Environment
<1>5. CASE UNCHANGED vars
      BY <1>5, NoService DEF vars, ServiceInv
<1> QED BY <1>1, <1>2, <1>3, <1>4, <1>5 DEF Next

\* Blocking calls keep the promise of SyncService: each is answered once, for
\* its own transfer, and returns only after that, whichever threads handle
\* the events (sync.c:33-80).
THEOREM SyncServiceImplemented == Spec => ImplementsSyncService
<1>1. Init => ServiceInv /\ Service!Init
      BY DEF Init, ServiceInv, Service!Init
<1>2. IInv /\ ServiceInv /\ [Next]_vars => ServiceInv' /\ ServiceStep
      BY ServiceStepTaken, ConstantsAssumption
<1>3. ServiceStep => [Service!Next]_[t \in Thread |->
                         IF call[t] # "sync" THEN "idle"
                         ELSE IF completed[t] THEN "answered" ELSE "pending"]
  <2> DEFINE request == [t \in Thread |-> Request(t)]
  <2>1. ASSUME NEW t \in Thread, NEW from, NEW to, Moves(t, from, to)
        PROVE  request[t] = from /\ request' = [request EXCEPT ![t] = to]
        BY <2>1 DEF Moves
  <2>2. ASSUME \A t \in Thread : Request(t)' = Request(t)
        PROVE  request' = request
        BY <2>2
  <2>3. ServiceStep =>
          \/ request' = request
          \/ \E t \in Thread :
                \/ request[t] = "idle" /\ request' = [request EXCEPT ![t] = "pending"]
                \/ request[t] = "pending" /\ request' = [request EXCEPT ![t] = "answered"]
                \/ request[t] = "answered" /\ request' = [request EXCEPT ![t] = "idle"]
        BY <2>1, <2>2 DEF ServiceStep
  <2> QED BY <2>3 DEF Request, Service!Next, Service!Submit, Service!Answer,
                     Service!Return, Service!Move
<1> QED BY <1>1, <1>2, <1>3, Invariance, PTL
        DEF Spec, ImplementsSyncService, Service!Spec
============================================================================
