-------------------------- MODULE TransfersProofs --------------------------
(***************************************************************************)
(* Proofs about the asynchronous transfers of io.c, for any number of      *)
(* threads and transfers.  First Transfers.tla, as long as no two threads  *)
(* submit one transfer at once: the list of flying transfers is exact,     *)
(* references balance, nothing is used after it is freed, and every        *)
(* callback is called once with the reason that ended its transfer.        *)
(*                                                                         *)
(* Then Timeouts.tla, for any timeouts: the flying list stays in order,    *)
(* the timer covers what is to expire, whoever looks at the list handles   *)
(* all that has expired, and nobody sleeps past a timeout.                 *)
(***************************************************************************)
EXTENDS Transfers, Timeouts, FiniteSetTheorems, WellFoundedInduction, TLAPS

----------------------------------------------------------------------------
(* The inductive invariant.                                                *)

\* The program counters of a thread that works on no transfer, ...
FreePCs == {"idle", "timeouts", "timeout_scan", "scan", "examine"}

\* ... and of one that holds flying_transfers_lock.
FlyingPCs == {"submit_lock", "timeout_scan", "timeout_cancel", "timeout_flag",
              "examine"}

\* Who works on what, and holds which lock.
ControlInv ==
    /\ \A a \in Actor : /\ cur[a] = None <=> pc[a] \in FreePCs
                        /\ pc[a] \in HandlerPCs => a = Handler
                        /\ pc[a] \in FlyingPCs => flyingLock = a
                        /\ pc[a] = "submit_urb" => lock[cur[a]] = a
    /\ \A x \in Transfer : lock[x] # None =>
           pc[lock[x]] = "submit_urb" /\ cur[lock[x]] = x

\* One thread submits a transfer, of which no callback is owed.
SubmitInv ==
    /\ \A a \in Actor : pc[a] \in SubmitPCs => cur[a] \notin owed \cup freed
    /\ \A a, b \in Actor : pc[a] \in SubmitPCs /\ pc[b] \in SubmitPCs
                              /\ cur[a] = cur[b] => a = b

\* The transfer whose completion the handler has begun and that still counts
\* as in flight.
Ending == IF pc[Handler] \in {"cancellation", "completion", "landed", "clear"}
          THEN {cur[Handler]} ELSE {}

\* A callback is owed for what is in flight and for the completion that is
\* about to call it; the list holds what is in flight or being submitted; a
\* thread that scans it works on one of its members.
ListInv ==
    /\ owed = inFlight \cup (IF At(Handler, "call") THEN {cur[Handler]} ELSE {})
    /\ At(Handler, "call") => cur[Handler] \notin inFlight
    /\ Ending \subseteq inFlight
    /\ freed \cap owed = {}
    /\ \A x \in inFlight : x \in flying \/ (At(Handler, "landed") /\ cur[Handler] = x)
    /\ At(Handler, "landed") => cur[Handler] \notin flying
    /\ \A x \in flying : \/ x \in inFlight
                         \/ \E a \in Actor : /\ pc[a] \in {"submit_urb", "submit_failed"}
                                             /\ cur[a] = x
    /\ \A a \in Actor : pc[a] \in {"submit_urb", "timeout_cancel", "timeout_flag"}
                            => cur[a] \in flying

\* The kernel has URBs of transfers in flight that are not being completed.
UrbInv ==
    /\ \A x \in Transfer : urb[x] # "none" => x \in inFlight
    /\ pc[Handler] \in {"cancellation", "completion", "landed"} => urb[cur[Handler]] = "none"

IInv == TypeOK /\ ControlInv /\ SubmitInv /\ ListInv /\ UrbInv /\ RefsBalance

USE DEF Actor, At, Goto, Work, PCs, SubmitPCs, TimeoutPCs, CompletePCs, HandlerPCs,
        FreePCs, FlyingPCs, Statuses, flagVars, privVars, envVars, histVars

----------------------------------------------------------------------------
(* Each part of the invariant is kept by every step.                       *)

LEMMA ControlPreserved ==
    ASSUME ConstantsAssumption, IInv, [Next]_vars
    PROVE  ControlInv'
<1> USE DEF IInv, TypeOK, ControlInv, ConstantsAssumption
<1>1. ASSUME NEW a \in Actor, NEW x \in Transfer, Submit(a, x) PROVE ControlInv'
      BY <1>1 DEF Submit
<1>2. ASSUME NEW a \in Actor, SubmitFlying(a) \/ TimeoutsLock(a) PROVE ControlInv'
      BY <1>2 DEF SubmitFlying, TimeoutsLock, LockFlying
<1>3. ASSUME NEW a \in Actor, SubmitLock(a) PROVE ControlInv'
      BY <1>3 DEF SubmitLock, Return
<1>4. ASSUME NEW a \in Actor, SubmitUrb(a) PROVE ControlInv'
      BY <1>4 DEF SubmitUrb, Return
<1>5. ASSUME NEW a \in Actor, SubmitUrbFails(a) PROVE ControlInv'
      BY <1>5 DEF SubmitUrbFails
<1>6. ASSUME NEW a \in Actor, SubmitFailed(a) PROVE ControlInv'
      BY <1>6 DEF SubmitFailed, Return
<1>7. ASSUME NEW a \in Actor, NEW x \in Transfer, Cancel(a, x) PROVE ControlInv'
      BY <1>7 DEF Cancel
<1>8. ASSUME NEW a \in Actor, Timeouts(a) \/ TimeoutsDone(a) PROVE ControlInv'
      BY <1>8 DEF Timeouts, TimeoutsDone
<1>9. ASSUME NEW a \in Actor, TimeoutScan(a) PROVE ControlInv'
      BY <1>9 DEF TimeoutScan
<1>10. ASSUME NEW a \in Actor, TimeoutCancel(a) \/ TimeoutFlag(a) PROVE ControlInv'
      BY <1>10 DEF TimeoutCancel, TimeoutFlag
<1>11. ASSUME NEW x \in Transfer, Reap(x) PROVE ControlInv'
      BY <1>11 DEF Reap
<1>12. CASE Cancellation \/ Completion \/ Landed \/ CallCallback \/ CallbackReturns
      BY <1>12 DEF Cancellation, Completion, Landed, CallCallback, CallbackReturns
<1>13. CASE UnrefDevice \/ Disconnect \/ ScanFlying
      BY <1>13 DEF UnrefDevice, Disconnect, ScanFlying, LockFlying
<1>14. CASE Examine \/ ExaminedAll \/ ClearPriv
      BY <1>14 DEF Examine, ExaminedAll, ClearPriv
<1>15. ASSUME NEW x \in Transfer, FreeTransfer(x) \/ UrbCompletes(x) \/ TimeoutExpires(x)
       PROVE  ControlInv'
      BY <1>15 DEF FreeTransfer, UrbCompletes, TimeoutExpires
<1>16. CASE Unplug
      BY <1>16 DEF Unplug
<1>17. CASE UNCHANGED vars
      BY <1>17 DEF vars
<1> QED BY <1>1, <1>2, <1>3, <1>4, <1>5, <1>6, <1>7, <1>8, <1>9, <1>10, <1>11,
           <1>12, <1>13, <1>14, <1>15, <1>16, <1>17
        DEF Next, ActorStep, HandlerStep

\* No two threads submit one transfer, and none submits one that is in flight.
LEMMA SubmitPreserved ==
    ASSUME ConstantsAssumption, ~Racing, IInv, [Next]_vars
    PROVE  SubmitInv'
<1> USE DEF IInv, TypeOK, ControlInv, SubmitInv, ConstantsAssumption
<1>1. ASSUME NEW a \in Actor, NEW x \in Transfer, Submit(a, x) PROVE SubmitInv'
      BY <1>1 DEF Submit, Submitting
<1>2. ASSUME NEW a \in Actor, SubmitFlying(a) \/ TimeoutsLock(a) PROVE SubmitInv'
      BY <1>2 DEF SubmitFlying, TimeoutsLock, LockFlying
<1>3. ASSUME NEW a \in Actor, SubmitLock(a) PROVE SubmitInv'
      BY <1>3 DEF SubmitLock, Return
<1>4. ASSUME NEW a \in Actor, SubmitUrb(a) PROVE SubmitInv'
      BY <1>4 DEF SubmitUrb, Return
<1>5. ASSUME NEW a \in Actor, SubmitUrbFails(a) PROVE SubmitInv'
      BY <1>5 DEF SubmitUrbFails
<1>6. ASSUME NEW a \in Actor, SubmitFailed(a) PROVE SubmitInv'
      BY <1>6 DEF SubmitFailed, Return
<1>7. ASSUME NEW a \in Actor, NEW x \in Transfer, Cancel(a, x) PROVE SubmitInv'
      BY <1>7 DEF Cancel
<1>8. ASSUME NEW a \in Actor, Timeouts(a) \/ TimeoutsDone(a) PROVE SubmitInv'
      BY <1>8 DEF Timeouts, TimeoutsDone
<1>9. ASSUME NEW a \in Actor, TimeoutScan(a) PROVE SubmitInv'
      BY <1>9 DEF TimeoutScan
<1>10. ASSUME NEW a \in Actor, TimeoutCancel(a) \/ TimeoutFlag(a) PROVE SubmitInv'
      BY <1>10 DEF TimeoutCancel, TimeoutFlag
<1>11. ASSUME NEW x \in Transfer, Reap(x) PROVE SubmitInv'
      BY <1>11 DEF Reap
<1>12. CASE Cancellation \/ Completion \/ Landed \/ CallCallback \/ CallbackReturns
      BY <1>12 DEF Cancellation, Completion, Landed, CallCallback, CallbackReturns
<1>13. CASE UnrefDevice \/ Disconnect \/ ScanFlying
      BY <1>13 DEF UnrefDevice, Disconnect, ScanFlying, LockFlying
<1>14. CASE Examine \/ ExaminedAll \/ ClearPriv
      BY <1>14 DEF Examine, ExaminedAll, ClearPriv
<1>15. ASSUME NEW x \in Transfer, FreeTransfer(x) PROVE SubmitInv'
      BY <1>15 DEF FreeTransfer, Submitting
<1>16. ASSUME NEW x \in Transfer, UrbCompletes(x) \/ TimeoutExpires(x)
       PROVE  SubmitInv'
      BY <1>16 DEF UrbCompletes, TimeoutExpires
<1>17. CASE Unplug \/ UNCHANGED vars
      BY <1>17, SMTT(30) DEF Unplug, vars
<1> QED BY <1>1, <1>2, <1>3, <1>4, <1>5, <1>6, <1>7, <1>8, <1>9, <1>10, <1>11,
           <1>12, <1>13, <1>14, <1>15, <1>16, <1>17
        DEF Next, ActorStep, HandlerStep

\* The handler completes what is in flight, and the list follows in the order
\* of the code: on it before in flight, off it before landed.
LEMMA ListPreserved ==
    ASSUME ConstantsAssumption, ~Racing, IInv, [Next]_vars
    PROVE  ListInv'
<1> USE DEF IInv, TypeOK, ControlInv, SubmitInv, ListInv, UrbInv, Ending,
            ConstantsAssumption
<1>1. ASSUME NEW a \in Actor, NEW x \in Transfer, Submit(a, x) PROVE ListInv'
      BY <1>1 DEF Submit, Submitting
<1>2. ASSUME NEW a \in Actor, SubmitFlying(a) \/ TimeoutsLock(a) PROVE ListInv'
      BY <1>2 DEF SubmitFlying, TimeoutsLock, LockFlying
<1>3. ASSUME NEW a \in Actor, SubmitLock(a) PROVE ListInv'
      BY <1>3 DEF SubmitLock, Return
<1>4. ASSUME NEW a \in Actor, SubmitUrb(a) PROVE ListInv'
  <2> DEFINE x == cur[a]
  <2>1. /\ x \in Transfer /\ x \notin owed \cup freed \cup inFlight
        /\ pc[a] = "submit_urb" /\ a \in Actor
        BY <1>4 DEF SubmitUrb
  <2>2. /\ inFlight' = inFlight \cup {x} /\ owed' = owed \cup {x}
        /\ flying' = flying /\ freed' = freed
        BY <1>4 DEF SubmitUrb, Return
  <2>3. \A b \in Actor : b # a => pc'[b] = pc[b] /\ cur'[b] = cur[b]
        BY <1>4 DEF SubmitUrb, Return
  <2>4. pc'[a] \in {"idle", "callback"} /\ (a = Handler => cur'[a] = cur[a])
        BY <1>4 DEF SubmitUrb, Return
  <2>5. /\ owed' = inFlight' \cup (IF At(Handler, "call") THEN {cur[Handler]} ELSE {})'
        /\ At(Handler, "call")' => cur'[Handler] \notin inFlight'
        BY <2>1, <2>2, <2>3, <2>4
  <2>6. Ending' \subseteq inFlight' /\ freed' \cap owed' = {}
        BY <2>1, <2>2, <2>3, <2>4
  <2>7. x \in flying
        BY <2>1
  <2> QED BY <2>1, <2>2, <2>3, <2>4, <2>5, <2>6, <2>7
<1>5. ASSUME NEW a \in Actor, SubmitUrbFails(a) PROVE ListInv'
      BY <1>5 DEF SubmitUrbFails
<1>6. ASSUME NEW a \in Actor, SubmitFailed(a) PROVE ListInv'
      BY <1>6 DEF SubmitFailed, Return
<1>7. ASSUME NEW a \in Actor, NEW x \in Transfer, Cancel(a, x) PROVE ListInv'
      BY <1>7 DEF Cancel
<1>8. ASSUME NEW a \in Actor, Timeouts(a) \/ TimeoutsDone(a) PROVE ListInv'
      BY <1>8 DEF Timeouts, TimeoutsDone
<1>9. ASSUME NEW a \in Actor, TimeoutScan(a) PROVE ListInv'
      BY <1>9 DEF TimeoutScan
<1>10. ASSUME NEW a \in Actor, TimeoutCancel(a) \/ TimeoutFlag(a) PROVE ListInv'
      BY <1>10 DEF TimeoutCancel, TimeoutFlag
<1>11. ASSUME NEW x \in Transfer, Reap(x) PROVE ListInv'
      BY <1>11 DEF Reap
<1>12. CASE Cancellation \/ CallbackReturns
      BY <1>12 DEF Cancellation, CallbackReturns
<1>13. CASE Completion
      BY <1>13 DEF Completion
<1>14. CASE Landed
      BY <1>14 DEF Landed
<1>15. CASE CallCallback
      BY <1>15 DEF CallCallback
<1>16. CASE UnrefDevice \/ Disconnect \/ ScanFlying
      BY <1>16 DEF UnrefDevice, Disconnect, ScanFlying, LockFlying
<1>17. CASE Examine \/ ExaminedAll \/ ClearPriv
      BY <1>17 DEF Examine, ExaminedAll, ClearPriv
<1>18. ASSUME NEW x \in Transfer, FreeTransfer(x) PROVE ListInv'
      BY <1>18 DEF FreeTransfer
<1>19. ASSUME NEW x \in Transfer, UrbCompletes(x) \/ TimeoutExpires(x)
       PROVE  ListInv'
      BY <1>19 DEF UrbCompletes, TimeoutExpires
<1>20. CASE Unplug \/ UNCHANGED vars
      BY <1>20 DEF Unplug, vars
<1> QED BY <1>1, <1>2, <1>3, <1>4, <1>5, <1>6, <1>7, <1>8, <1>9, <1>10, <1>11,
           <1>12, <1>13, <1>14, <1>15, <1>16, <1>17, <1>18, <1>19, <1>20, ZenonT(60)
        DEF Next, ActorStep, HandlerStep

\* An URB belongs to a transfer in flight until it is reaped or given up.
LEMMA UrbPreserved ==
    ASSUME ConstantsAssumption, ~Racing, IInv, [Next]_vars
    PROVE  UrbInv'
<1> USE DEF IInv, TypeOK, ControlInv, SubmitInv, ListInv, UrbInv, Ending,
            ConstantsAssumption
<1>1. ASSUME NEW a \in Actor, SubmitUrb(a) PROVE UrbInv'
      BY <1>1 DEF SubmitUrb, Return
<1>2. ASSUME NEW x \in Transfer, NEW who \in {"user", "timeout"}, CancelTransfer(x, who),
             UNCHANGED <<cur, inFlight>>,
             pc'[Handler] \in {"cancellation", "completion", "landed"} => pc' = pc
      PROVE  UrbInv'
      BY <1>2 DEF CancelTransfer, CancelResult, DiscardResult
<1>3. ASSUME NEW a \in Actor, NEW x \in Transfer, Cancel(a, x) PROVE UrbInv'
      BY <1>2, <1>3 DEF Cancel
<1>4. ASSUME NEW a \in Actor, TimeoutCancel(a) PROVE UrbInv'
      BY <1>4 DEF TimeoutCancel, CancelTransfer, CancelResult, DiscardResult
<1>5. ASSUME NEW a \in Actor,
             \/ SubmitFlying(a) \/ SubmitLock(a) \/ SubmitUrbFails(a) \/ SubmitFailed(a)
             \/ TimeoutsLock(a) \/ TimeoutScan(a) \/ TimeoutFlag(a) \/ TimeoutsDone(a)
             \/ Timeouts(a) \/ \E x \in Transfer : Submit(a, x)
      PROVE  UrbInv'
      BY <1>5 DEF SubmitFlying, SubmitLock, SubmitUrbFails, SubmitFailed, TimeoutsLock,
         TimeoutScan, TimeoutFlag, TimeoutsDone, Timeouts, Submit, LockFlying, Return
<1>6. ASSUME NEW x \in Transfer, Reap(x) PROVE UrbInv'
      BY <1>6 DEF Reap
<1>7. CASE Landed
      BY <1>7 DEF Landed
<1>8. CASE ClearPriv
      BY <1>8 DEF ClearPriv
<1>9. CASE \/ Cancellation \/ Completion \/ CallCallback \/ CallbackReturns \/ UnrefDevice
           \/ Disconnect \/ ScanFlying \/ Examine \/ ExaminedAll
      BY <1>9 DEF Cancellation, Completion, CallCallback, CallbackReturns, UnrefDevice,
         Disconnect, ScanFlying, LockFlying, Examine, ExaminedAll
<1>10. ASSUME NEW x \in Transfer, FreeTransfer(x) \/ UrbCompletes(x) \/ TimeoutExpires(x)
       PROVE  UrbInv'
      BY <1>10 DEF FreeTransfer, UrbCompletes, TimeoutExpires
<1>11. CASE Unplug
      BY <1>11 DEF Unplug
<1>12. CASE UNCHANGED vars
      BY <1>12 DEF vars
<1> QED BY <1>1, <1>3, <1>4, <1>5, <1>6, <1>7, <1>8, <1>9, <1>10, <1>11, <1>12
        DEF Next, ActorStep, HandlerStep
\* One for the completion whose transfer has landed, until its unref.
Landing == IF pc[Handler] \in {"call", "callback", "unref"} \/ pc[Handler] \in SubmitPCs
           THEN 1 ELSE 0

\* A reference comes with each transfer in flight and goes after its callback,
\* even if the transfer is in flight again by then.
LEMMA RefsPreserved ==
    ASSUME ConstantsAssumption, ~Racing, IInv, [Next]_vars
    PROVE  RefsBalance'
<1> USE DEF IInv, TypeOK, ControlInv, SubmitInv, ListInv, Ending, ConstantsAssumption
<1>0. IsFiniteSet(inFlight) /\ Cardinality(inFlight) \in Nat
      BY FS_Subset, FS_CardinalityType
<1>1. refs = 1 + Cardinality(inFlight) + Landing
      BY DEF RefsBalance, Landing
<1>2. SUFFICES refs' = 1 + Cardinality(inFlight') + Landing'
      BY DEF RefsBalance, Landing
<1>3. ASSUME NEW a \in Actor, SubmitUrb(a)
      PROVE  refs' = 1 + Cardinality(inFlight') + Landing'
  <2>1. /\ cur[a] \notin inFlight /\ inFlight' = inFlight \cup {cur[a]}
        /\ refs' = refs + 1
        BY <1>3 DEF SubmitUrb
  <2>2. Cardinality(inFlight') = Cardinality(inFlight) + 1
        BY <1>0, <2>1, FS_AddElement
  <2>3. Landing' = Landing
        BY <1>3 DEF SubmitUrb, Return, Landing
  <2> QED BY <1>0, <1>1, <2>1, <2>2, <2>3 DEF Landing
<1>4. CASE Landed
  <2>1. /\ cur[Handler] \in inFlight /\ inFlight' = inFlight \ {cur[Handler]}
        /\ refs' = refs
        BY <1>4 DEF Landed
  <2>2. Cardinality(inFlight') = Cardinality(inFlight) - 1
    <3> HIDE DEF IInv, TypeOK, ControlInv, SubmitInv, ListInv, Ending
    <3> QED BY <1>0, <2>1, FS_RemoveElement
  <2>3. Landing = 0 /\ Landing' = 1
        BY <1>4 DEF Landed, Landing
  <2> QED BY <1>0, <1>1, <2>1, <2>2, <2>3
<1>5. CASE UnrefDevice
  <2>1. refs' = refs - 1 /\ inFlight' = inFlight /\ Landing = 1 /\ Landing' = 0
        BY <1>5 DEF UnrefDevice, Landing
  <2> QED BY <1>0, <1>1, <2>1
<1>6. ASSUME UNCHANGED <<refs, inFlight>>, Landing' = Landing
      PROVE  refs' = 1 + Cardinality(inFlight') + Landing'
      BY <1>1, <1>6
<1>7. ASSUME NEW a \in Actor,
             \/ SubmitFlying(a) \/ SubmitLock(a) \/ SubmitUrbFails(a) \/ SubmitFailed(a)
             \/ TimeoutsLock(a) \/ TimeoutScan(a) \/ TimeoutCancel(a) \/ TimeoutFlag(a)
             \/ TimeoutsDone(a) \/ Timeouts(a)
             \/ \E x \in Transfer : Submit(a, x) \/ Cancel(a, x)
      PROVE  UNCHANGED <<refs, inFlight>> /\ Landing' = Landing
      BY <1>7 DEF SubmitFlying, SubmitLock, SubmitUrbFails, SubmitFailed, TimeoutsLock,
         TimeoutScan, TimeoutCancel, TimeoutFlag, TimeoutsDone, Timeouts, Submit, Cancel,
         LockFlying, Return, Landing
<1>8. CASE \/ Cancellation \/ Completion \/ CallCallback \/ CallbackReturns
           \/ Disconnect \/ ScanFlying \/ Examine \/ ExaminedAll \/ ClearPriv
           \/ \E x \in Transfer : Reap(x)
  <2>1. UNCHANGED <<refs, inFlight>> /\ Landing' = Landing
        BY <1>8 DEF Cancellation, Completion, CallCallback, CallbackReturns, Disconnect,
           ScanFlying, LockFlying, Examine, ExaminedAll, ClearPriv, Reap, Landing
  <2> QED BY <1>6, <2>1
<1>9. CASE Unplug \/ UNCHANGED vars
           \/ \E x \in Transfer : FreeTransfer(x) \/ UrbCompletes(x) \/ TimeoutExpires(x)
  <2>1. UNCHANGED <<refs, inFlight>> /\ Landing' = Landing
        BY <1>9 DEF Unplug, vars, FreeTransfer, UrbCompletes, TimeoutExpires, Landing
  <2> QED BY <1>6, <2>1
<1> QED BY <1>3, <1>4, <1>5, <1>6, <1>7, <1>8, <1>9 DEF Next, ActorStep, HandlerStep

\* Every step keeps the types; that the last reference is never dropped by a
\* completion is the only part that needs more than the types.
LEMMA TypePreserved ==
    ASSUME ConstantsAssumption, ~Racing, IInv, [Next]_vars
    PROVE  TypeOK'
<1> USE DEF IInv, TypeOK, ControlInv, ConstantsAssumption
<1>1. ASSUME NEW a \in Actor, NEW x \in Transfer, Submit(a, x) \/ Cancel(a, x)
      PROVE  TypeOK'
      BY <1>1 DEF Submit, Cancel, CancelTransfer
<1>2. ASSUME NEW a \in Actor, SubmitFlying(a) \/ SubmitLock(a) PROVE TypeOK'
      BY <1>2 DEF SubmitFlying, LockFlying, SubmitLock, Return
<1>3. ASSUME NEW a \in Actor, SubmitUrb(a) PROVE TypeOK'
      BY <1>3 DEF SubmitUrb, Return
<1>4. ASSUME NEW a \in Actor, SubmitUrbFails(a) \/ SubmitFailed(a) PROVE TypeOK'
      BY <1>4 DEF SubmitUrbFails, SubmitFailed, Return
<1>5. ASSUME NEW a \in Actor, Timeouts(a) \/ TimeoutsLock(a) \/ TimeoutsDone(a)
      PROVE  TypeOK'
      BY <1>5 DEF Timeouts, TimeoutsLock, TimeoutsDone, LockFlying
<1>6. ASSUME NEW a \in Actor, TimeoutScan(a) \/ TimeoutFlag(a) PROVE TypeOK'
      BY <1>6 DEF TimeoutScan, TimeoutFlag
<1>7. ASSUME NEW a \in Actor, TimeoutCancel(a) PROVE TypeOK'
      BY <1>7 DEF TimeoutCancel, CancelTransfer, CancelResult, DiscardResult
<1>8. ASSUME NEW x \in Transfer, Reap(x) PROVE TypeOK'
      BY <1>8 DEF Reap
<1>9. CASE Cancellation \/ Completion \/ Landed \/ CallCallback \/ CallbackReturns
      BY <1>9 DEF Cancellation, Completion, Landed, CallCallback, CallbackReturns
<1>10. CASE UnrefDevice
  <2>1. IsFiniteSet(inFlight) /\ Cardinality(inFlight) \in Nat
        BY FS_Subset, FS_CardinalityType
  <2>2. refs - 1 \in Nat
        BY <1>10, <2>1 DEF UnrefDevice, RefsBalance
  <2> QED BY <1>10, <2>2 DEF UnrefDevice
<1>11. CASE Disconnect \/ ScanFlying \/ Examine \/ ExaminedAll
  <2>1. CASE Disconnect
        BY <2>1 DEF Disconnect
  <2>2. CASE ScanFlying
        BY <2>2 DEF ScanFlying, LockFlying
  <2>3. CASE Examine
        BY <2>3 DEF Examine
  <2>4. CASE ExaminedAll
        BY <2>4 DEF ExaminedAll
  <2> QED BY <1>11, <2>1, <2>2, <2>3, <2>4
<1>12. CASE ClearPriv
      BY <1>12 DEF ClearPriv
<1>13. ASSUME NEW x \in Transfer, FreeTransfer(x) \/ UrbCompletes(x) \/ TimeoutExpires(x)
       PROVE  TypeOK'
      BY <1>13 DEF FreeTransfer, UrbCompletes, TimeoutExpires
<1>14. CASE Unplug
      BY <1>14 DEF Unplug
<1>15. CASE UNCHANGED vars
      BY <1>15 DEF vars
<1> QED BY <1>1, <1>2, <1>3, <1>4, <1>5, <1>6, <1>7, <1>8, <1>9, <1>10, <1>11, <1>12,
           <1>13, <1>14, <1>15 DEF Next, ActorStep, HandlerStep

----------------------------------------------------------------------------
(* The safety theorems.                                                    *)

LEMMA InitIInv == ASSUME ConstantsAssumption, Init PROVE IInv
<1>1. TypeOK
  <2>1. /\ pc \in [Actor -> PCs] /\ cur \in [Actor -> Transfer \cup {None}]
        /\ result \in [Actor -> {"SUCCESS", "NOT_FOUND", "NO_DEVICE"}]
        /\ lock \in [Transfer -> Actor \cup {None}]
        BY DEF Init
  <2>2. /\ status \in [Transfer -> Statuses \cup {"none"}]
        /\ urb \in [Transfer -> {"none", "pending", "ok", "enoent", "eshutdown"}]
        /\ cancelledBy \in [Transfer -> {"none", "user", "timeout"}]
        BY DEF Init
  <2>3. refs \in Nat /\ submitsLeft \in 0..MaxSubmits
        BY DEF Init, ConstantsAssumption
  <2> QED BY <2>1, <2>2, <2>3 DEF Init, TypeOK
<1>2. ControlInv /\ SubmitInv
      BY DEF Init, ConstantsAssumption, ControlInv, SubmitInv
<1>3. ListInv /\ UrbInv
      BY DEF Init, ConstantsAssumption, ListInv, UrbInv, Ending
<1>4. RefsBalance
      BY FS_EmptySet DEF Init, RefsBalance
<1> QED BY <1>1, <1>2, <1>3, <1>4 DEF IInv

LEMMA NextIInv ==
    ASSUME ConstantsAssumption, ~Racing, IInv, [Next]_vars PROVE IInv'
BY TypePreserved, ControlPreserved, SubmitPreserved, ListPreserved, UrbPreserved,
   RefsPreserved DEF IInv

\* The inductive invariant holds in every behaviour.
THEOREM Invariance == ~Racing => (Spec => []IInv)
<1> SUFFICES ASSUME ~Racing PROVE Spec => []IInv
    OBVIOUS
<1>1. Init => IInv
      BY InitIInv, ConstantsAssumption
<1>2. IInv /\ [Next]_vars => IInv'
      BY NextIInv, ConstantsAssumption
<1> QED BY <1>1, <1>2, PTL DEF Spec

\* What is in flight is on the list that timeouts and disconnection go by.
THEOREM ListedWhileInFlight == ~Racing => (Spec => []FlyingIsInFlight)
<1>1. IInv => FlyingIsInFlight
      BY DEF IInv, ListInv, FlyingIsInFlight
<1> QED BY <1>1, Invariance, PTL

\* The references to the device are those of the handle, of what is in flight,
\* and of the completion under way.
THEOREM ReferencesBalance == ~Racing => (Spec => []RefsBalance)
<1>1. IInv => RefsBalance
      BY DEF IInv
<1> QED BY <1>1, Invariance, PTL

\* No list, lock or thread reaches a transfer that the application has freed.
THEOREM FreedIsUnused == ~Racing => (Spec => []NoUseAfterFree)
<1>1. ASSUME ConstantsAssumption, IInv PROVE NoUseAfterFree
  <2> USE <1>1 DEF ConstantsAssumption, IInv, TypeOK, ControlInv, SubmitInv, ListInv, Ending
  <2> SUFFICES ASSUME NEW x \in freed
               PROVE  /\ x \notin flying \cup inFlight \cup Completing
                      /\ lock[x] = None
                      /\ \A a \in Actor : pc[a] \in SubmitPCs \cup TimeoutPCs => cur[a] # x
      BY DEF NoUseAfterFree
  <2>1. x \notin inFlight /\ x \notin flying
        OBVIOUS
  <2>2. x \notin Completing
        BY DEF Completing
  <2>3. lock[x] = None
        OBVIOUS
  <2>4. \A a \in Actor : pc[a] \in SubmitPCs \cup TimeoutPCs => cur[a] # x
        BY <2>1, SMTT(30)
  <2> QED BY <2>1, <2>2, <2>3, <2>4
<1> QED BY <1>1, Invariance, ConstantsAssumption, PTL

----------------------------------------------------------------------------
(* The refinement.                                                         *)

\* a has cancelled its transfer for a timeout, and has yet to say so.
Flagging(a) == At(a, "timeout_flag") /\ result[a] = "SUCCESS"

\* What the kernel and the flags say of an URB is what cancelled it; that a
\* timeout did is known to whoever holds flying_transfers_lock.
CauseInv ==
    /\ \A x \in Transfer :
          IF x \in reapCancelled /\ urb[x] # "none"
          THEN urb[x] = "enoent" /\ cancelledBy[x] # "none"
          ELSE urb[x] # "enoent" /\ (urb[x] # "none" => cancelledBy[x] = "none")
    /\ At(Handler, "cancellation") => cancelledBy[cur[Handler]] # "none"
    /\ pc[Handler] \in {"completion", "landed", "call"}
          => status[cur[Handler]] \in Service!Reasons(cur[Handler])
    /\ \A x \in inFlight : x \in timedOut => cancelledBy[x] = "timeout"
    /\ \A x \in inFlight : cancelledBy[x] = "timeout"
           => x \in timedOut \/ \E a \in Actor : Flagging(a) /\ cur[a] = x
    /\ \A a \in Actor : At(a, "submit_urb") => cur[a] \notin timedOut
    /\ \A a \in Actor : Flagging(a) => /\ cur[a] \in inFlight
                                       /\ cancelledBy[cur[a]] = "timeout"
                                       /\ urb[cur[a]] # "pending"

LEMMA CausePreserved ==
    ASSUME ConstantsAssumption, ~Racing, IInv, CauseInv, [Next]_vars
    PROVE  CauseInv'
<1> USE DEF IInv, TypeOK, ControlInv, SubmitInv, ListInv, UrbInv, Ending, CauseInv,
            Flagging, Service!Reasons, ConstantsAssumption
<1>1. ASSUME NEW a \in Actor, NEW x \in Transfer, Submit(a, x) PROVE CauseInv'
      BY <1>1 DEF Submit
<1>2. ASSUME NEW a \in Actor, SubmitFlying(a) \/ TimeoutsLock(a) PROVE CauseInv'
      BY <1>2 DEF SubmitFlying, TimeoutsLock, LockFlying
<1>3. ASSUME NEW a \in Actor, SubmitLock(a) PROVE CauseInv'
      BY <1>3 DEF SubmitLock, Return
<1>4. ASSUME NEW a \in Actor, SubmitUrb(a) PROVE CauseInv'
      BY <1>4 DEF SubmitUrb, Return
<1>5. ASSUME NEW a \in Actor, SubmitUrbFails(a) PROVE CauseInv'
      BY <1>5 DEF SubmitUrbFails
<1>6. ASSUME NEW a \in Actor, SubmitFailed(a) PROVE CauseInv'
      BY <1>6 DEF SubmitFailed, Return
<1>7. ASSUME NEW a \in Actor, NEW x \in Transfer, Cancel(a, x) PROVE CauseInv'
      BY <1>7 DEF Cancel, CancelTransfer, CancelResult, DiscardResult
<1>8. ASSUME NEW a \in Actor, Timeouts(a) \/ TimeoutsDone(a) PROVE CauseInv'
      BY <1>8 DEF Timeouts, TimeoutsDone
<1>9. ASSUME NEW a \in Actor, TimeoutScan(a) PROVE CauseInv'
      BY <1>9 DEF TimeoutScan
<1>10. ASSUME NEW a \in Actor, TimeoutCancel(a) PROVE CauseInv'
      BY <1>10 DEF TimeoutCancel, CancelTransfer, CancelResult, DiscardResult
<1>11. ASSUME NEW a \in Actor, TimeoutFlag(a) PROVE CauseInv'
      BY <1>11 DEF TimeoutFlag
<1>12. ASSUME NEW x \in Transfer, Reap(x) PROVE CauseInv'
      BY <1>12 DEF Reap
<1>13. CASE Cancellation
      BY <1>13 DEF Cancellation
<1>14. CASE Completion \/ Landed \/ CallCallback \/ CallbackReturns
      BY <1>14 DEF Completion, Landed, CallCallback, CallbackReturns
<1>15. CASE UnrefDevice \/ Disconnect \/ ScanFlying
      BY <1>15 DEF UnrefDevice, Disconnect, ScanFlying, LockFlying
<1>16. CASE Examine \/ ExaminedAll
      BY <1>16 DEF Examine, ExaminedAll
<1>17. CASE ClearPriv
      BY <1>17 DEF ClearPriv
<1>18. ASSUME NEW x \in Transfer, FreeTransfer(x) \/ UrbCompletes(x) \/ TimeoutExpires(x)
       PROVE  CauseInv'
      BY <1>18 DEF FreeTransfer, UrbCompletes, TimeoutExpires
<1>19. CASE Unplug
      BY <1>19 DEF Unplug
<1>20. CASE UNCHANGED vars
      BY <1>20 DEF vars
<1> QED BY <1>1, <1>2, <1>3, <1>4, <1>5, <1>6, <1>7, <1>8, <1>9, <1>10, <1>11, <1>12,
           <1>13, <1>14, <1>15, <1>16, <1>17, <1>18, <1>19, <1>20, ZenonT(60)
        DEF Next, ActorStep, HandlerStep

\* The status a transfer has reported, as the refinement maps it.
Outcome == [x \in Transfer |-> IF x \in owed THEN "none" ELSE status[x]]

LEMMA StepImplements ==
    ASSUME ConstantsAssumption, ~Racing, IInv, CauseInv, [Next]_vars
    PROVE  [Service!Next]_<<owed, cancelledBy, Outcome>>
<1> USE DEF IInv, TypeOK, ControlInv, SubmitInv, ListInv, UrbInv, Ending, CauseInv,
            Flagging, Outcome, ConstantsAssumption
<1>1. ASSUME NEW a \in Actor, SubmitUrb(a) PROVE Service!Next
  <2>0. PICK x \in Transfer : x = cur[a]
        BY <1>1 DEF SubmitUrb
  <2>1. x \notin owed
        BY <1>1, <2>0 DEF SubmitUrb
  <2>2. /\ owed' = owed \cup {x} /\ UNCHANGED status
        /\ cancelledBy' = [cancelledBy EXCEPT ![x] = "none"]
        BY <1>1, <2>0 DEF SubmitUrb
  <2>3. Outcome' = [Outcome EXCEPT ![x] = "none"]
        BY <2>1, <2>2
  <2>4. Service!Submit(x)
        BY <2>1, <2>2, <2>3 DEF Service!Submit
  <2> QED BY <2>4 DEF Service!Next
<1>2. ASSUME NEW x \in Transfer, NEW who \in {"user", "timeout"}, CancelTransfer(x, who),
             UNCHANGED <<owed, status>>
      PROVE  Service!Cancel(x, who) \/ UNCHANGED <<owed, cancelledBy, Outcome>>
  <2>1. CASE CancelResult(x) = "SUCCESS"
    <3>1. x \in inFlight /\ urb[x] = "pending"
          BY <2>1 DEF CancelResult, DiscardResult
    <3>2. x \in owed /\ cancelledBy[x] = "none"
          BY <3>1
    <3> QED BY <1>2, <2>1, <3>2 DEF CancelTransfer, Service!Cancel
  <2>2. CASE CancelResult(x) # "SUCCESS"
        BY <1>2, <2>2 DEF CancelTransfer
  <2> QED BY <2>1, <2>2
<1>3. ASSUME NEW a \in Actor, NEW x \in Transfer, Cancel(a, x)
      PROVE  Service!Next \/ UNCHANGED <<owed, cancelledBy, Outcome>>
  <2>1. CancelTransfer(x, "user") /\ UNCHANGED <<owed, status>>
        BY <1>3 DEF Cancel
  <2>2. Service!Cancel(x, "user") \/ UNCHANGED <<owed, cancelledBy, Outcome>>
        BY <1>2, <2>1
  <2> QED BY <2>2 DEF Service!Next
<1>4. ASSUME NEW a \in Actor, TimeoutCancel(a)
      PROVE  Service!Next \/ UNCHANGED <<owed, cancelledBy, Outcome>>
  <2>0. PICK x \in Transfer : x = cur[a]
        BY <1>4 DEF TimeoutCancel
  <2>1. CancelTransfer(x, "timeout") /\ UNCHANGED <<owed, status>>
        BY <1>4, <2>0 DEF TimeoutCancel
  <2>2. Service!Cancel(x, "timeout") \/ UNCHANGED <<owed, cancelledBy, Outcome>>
        BY <1>2, <2>1
  <2> QED BY <2>2 DEF Service!Next
<1>5. CASE CallCallback
  <2>0. PICK x \in Transfer : x = cur[Handler]
        BY <1>5 DEF CallCallback
  <2>1. x \in owed /\ status[x] \in Service!Reasons(x)
        BY <1>5, <2>0 DEF CallCallback
  <2>2. owed' = owed \ {x} /\ UNCHANGED <<cancelledBy, status>>
        BY <1>5, <2>0 DEF CallCallback
  <2>3. Outcome' = [Outcome EXCEPT ![x] = status[x]]
        BY <2>1, <2>2
  <2>4. Service!Callback(x)
        BY <2>1, <2>2, <2>3 DEF Service!Callback
  <2> QED BY <2>4 DEF Service!Next
<1>6. ASSUME UNCHANGED <<owed, cancelledBy>>,
             \A x \in Transfer \ owed : status'[x] = status[x]
      PROVE  UNCHANGED <<owed, cancelledBy, Outcome>>
      BY <1>6
<1>7. ASSUME NEW x \in owed, NEW s, UNCHANGED <<owed, cancelledBy>>,
             status' = [status EXCEPT ![x] = s]
      PROVE  UNCHANGED <<owed, cancelledBy, Outcome>>
  <2>1. \A y \in Transfer \ owed : status'[y] = status[y]
        BY <1>7
  <2> QED BY <1>6, <1>7, <2>1
<1>8. ASSUME NEW x \in Transfer, Reap(x) PROVE UNCHANGED <<owed, cancelledBy, Outcome>>
  <2>1. x \in owed
        BY <1>8 DEF Reap
  <2>2. CASE x \in reapCancelled
        BY <1>6, <1>8, <2>2 DEF Reap
  <2>3. CASE x \notin reapCancelled
    <3>1. PICK s : status' = [status EXCEPT ![x] = s]
          BY <1>8, <2>3 DEF Reap
    <3> QED BY <1>7, <1>8, <2>1, <3>1 DEF Reap
  <2> QED BY <2>2, <2>3
<1>9. CASE Cancellation \/ ClearPriv
  <2>1. cur[Handler] \in owed
        BY <1>9 DEF Cancellation, ClearPriv
  <2> QED BY <1>7, <1>9, <2>1 DEF Cancellation, ClearPriv
<1>10. ASSUME NEW a \in Actor,
              \/ SubmitFlying(a) \/ SubmitLock(a) \/ SubmitUrbFails(a) \/ SubmitFailed(a)
              \/ TimeoutsLock(a) \/ TimeoutScan(a) \/ TimeoutFlag(a) \/ TimeoutsDone(a)
              \/ Timeouts(a)
              \/ \E x \in Transfer : Submit(a, x)
       PROVE  UNCHANGED <<owed, cancelledBy, status>>
       BY <1>10 DEF SubmitFlying, SubmitLock, SubmitUrbFails, SubmitFailed, TimeoutsLock,
          TimeoutScan, TimeoutFlag, TimeoutsDone, Timeouts, Submit, LockFlying
<1>11. CASE Completion \/ Landed \/ CallbackReturns \/ UnrefDevice \/ Disconnect
            \/ ScanFlying \/ Examine \/ ExaminedAll
  <2>1. UNCHANGED <<owed, cancelledBy, status>>
        BY <1>11 DEF Completion, Landed, CallbackReturns, UnrefDevice, Disconnect,
           ScanFlying, LockFlying, Examine, ExaminedAll
  <2> QED BY <1>6, <2>1
<1>12. CASE Unplug \/ UNCHANGED vars
            \/ \E x \in Transfer : FreeTransfer(x) \/ UrbCompletes(x) \/ TimeoutExpires(x)
  <2>1. UNCHANGED <<owed, cancelledBy, status>>
        BY <1>12 DEF Unplug, vars, FreeTransfer, UrbCompletes, TimeoutExpires
  <2> QED BY <1>6, <2>1
<1> QED BY <1>1, <1>3, <1>4, <1>5, <1>6, <1>8, <1>9, <1>10, <1>11, <1>12
        DEF Next, ActorStep, HandlerStep

\* Every transfer is answered once per submit, and the status it is answered
\* with is what ended it, although the answer, the cancellation, the timeout
\* and the unplugging race.
THEOREM AsyncTransferImplemented == ~Racing => (Spec => ImplementsAsyncTransfer)
<1> SUFFICES ASSUME ~Racing PROVE Spec => ImplementsAsyncTransfer
    OBVIOUS
<1>1. Init => CauseInv
      BY ConstantsAssumption DEF Init, CauseInv, Flagging
<1>2. Init => Service!Init
      BY DEF Init, Service!Init
<1>3. IInv /\ CauseInv /\ [Next]_vars => CauseInv'
      BY CausePreserved, ConstantsAssumption
<1>4. IInv /\ CauseInv /\ [Next]_vars => [Service!Next]_(Service!vars)
      BY StepImplements, ConstantsAssumption DEF Outcome, Service!vars
<1>5. Spec => []IInv
      BY Invariance
<1> QED BY <1>1, <1>2, <1>3, <1>4, <1>5, PTL
        DEF Spec, ImplementsAsyncTransfer, Service!Spec

----------------------------------------------------------------------------
(* Timeouts: the operators on the list.                                    *)

Least(S, x) == x \in S /\ \A y \in S : x <= y

\* A set of natural numbers has a least one, which Min chooses.
LEMMA MinIsLeast ==
    ASSUME NEW S, S \subseteq Nat, S # {}
    PROVE  Least(S, Min(S))
<1> DEFINE R == {ss \in Nat \X Nat : ss[1] < ss[2]}
<1>1. IsWellFoundedOn(R, Nat)
  BY NatLessThanWellFounded DEF OpToRel
<1>2. \E x \in S : \A y \in S : <<y, x>> \notin R
  <2> HIDE DEF R
  <2> QED BY <1>1, WFMin
<1>3. PICK x \in S : \A y \in S : <<y, x>> \notin R
  BY <1>2
<1>4. ASSUME NEW y \in S PROVE x <= y
  <2>1. x \in Nat /\ y \in Nat /\ <<y, x>> \notin R
    BY <1>3
  <2> QED BY <2>1
<1>5. \E z \in S : \A y \in S : z <= y
  BY <1>4
<1> QED BY <1>5 DEF Min, Least

\* The loops over the list stop at the first place that makes them, or go through.
LEMMA SmallestIsLeast ==
    ASSUME NEW S, S \subseteq Nat, NEW none
    PROVE  /\ S = {} => Smallest(S, none) = none
           /\ S # {} => Least(S, Smallest(S, none))
BY MinIsLeast DEF Smallest

\* What b adds to a stands behind it.
LEMMA Concatenated ==
    ASSUME NEW T, NEW a \in Seq(T), NEW b \in Seq(T)
    PROVE  /\ a \o b \in Seq(T) /\ Len(a \o b) = Len(a) + Len(b)
           /\ \A k \in 1 .. Len(a) + Len(b) :
                (a \o b)[k] = IF k <= Len(a) THEN a[k] ELSE b[k - Len(a)]
OBVIOUS

\* InsertAt moves what was at i and behind it.
LEMMA Inserted ==
    ASSUME NEW T, NEW s \in Seq(T), NEW i \in 1 .. Len(s) + 1, NEW e \in T
    PROVE  /\ InsertAt(s, i, e) \in Seq(T)
           /\ Len(InsertAt(s, i, e)) = Len(s) + 1
           /\ \A k \in 1 .. Len(s) + 1 :
                InsertAt(s, i, e)[k] = IF k < i THEN s[k] ELSE IF k = i THEN e ELSE s[k - 1]
<1> DEFINE a == SubSeq(s, 1, i - 1)
           b == SubSeq(s, i, Len(s))
           c == a \o <<e>>
<1>1. a \in Seq(T) /\ Len(a) = i - 1 /\ \A k \in 1 .. i - 1 : a[k] = s[k]
  OBVIOUS
<1>2. /\ b \in Seq(T) /\ Len(b) = Len(s) - i + 1
      /\ \A k \in 1 .. Len(s) - i + 1 : b[k] = s[i + k - 1]
  OBVIOUS
<1>3. InsertAt(s, i, e) = c \o b
  BY DEF InsertAt
<1> HIDE DEF a, b
<1>4. c \in Seq(T) /\ Len(c) = i /\ \A k \in 1 .. i : c[k] = IF k < i THEN s[k] ELSE e
  BY <1>1
<1>5. Len(s) \in Nat /\ i \in Nat /\ 1 <= i /\ i <= Len(s) + 1
  OBVIOUS
<1> HIDE DEF c
<1>6. c \o b \in Seq(T) /\ Len(c \o b) = i + (Len(s) - i + 1)
      /\ \A k \in 1 .. i + (Len(s) - i + 1) : (c \o b)[k] = IF k <= i THEN c[k] ELSE b[k - i]
  BY <1>2, <1>4, Concatenated, SMTT(30)
<1>7. i + (Len(s) - i + 1) = Len(s) + 1
  BY <1>5
<1>8. ASSUME NEW k \in 1 .. Len(s) + 1
      PROVE (c \o b)[k] = IF k < i THEN s[k] ELSE IF k = i THEN e ELSE s[k - 1]
  <2>1. CASE k <= i
    BY <2>1, <1>4, <1>5, <1>6, <1>7
  <2>2. CASE ~(k <= i)
    <3>1. (c \o b)[k] = b[k - i] /\ k - i \in 1 .. Len(s) - i + 1
      BY <2>2, <1>5, <1>6, <1>7
    <3>2. b[k - i] = s[i + (k - i) - 1] /\ i + (k - i) - 1 = k - 1
      BY <3>1, <1>2, <1>5
    <3>3. k # i /\ ~(k < i)
      BY <2>2, <1>5
    <3> QED BY <3>1, <3>2, <3>3
  <2> QED BY <2>1, <2>2
<1> QED BY <1>3, <1>6, <1>7, <1>8

\* RemoveAt moves what was behind i.
LEMMA Removed ==
    ASSUME NEW T, NEW s \in Seq(T), NEW i \in 1 .. Len(s)
    PROVE  /\ RemoveAt(s, i) \in Seq(T)
           /\ Len(RemoveAt(s, i)) = Len(s) - 1
           /\ \A k \in 1 .. Len(s) - 1 : RemoveAt(s, i)[k] = IF k < i THEN s[k] ELSE s[k + 1]
<1> DEFINE a == SubSeq(s, 1, i - 1)
           b == SubSeq(s, i + 1, Len(s))
<1>1. a \in Seq(T) /\ Len(a) = i - 1 /\ \A k \in 1 .. i - 1 : a[k] = s[k]
  OBVIOUS
<1>2. b \in Seq(T) /\ Len(b) = Len(s) - i /\ \A k \in 1 .. Len(s) - i : b[k] = s[i + k]
  OBVIOUS
<1>3. RemoveAt(s, i) = a \o b
  BY DEF RemoveAt
<1> HIDE DEF a, b
<1>4. /\ a \o b \in Seq(T) /\ Len(a \o b) = i - 1 + (Len(s) - i)
      /\ \A k \in 1 .. i - 1 + (Len(s) - i) :
           (a \o b)[k] = IF k <= i - 1 THEN a[k] ELSE b[k - (i - 1)]
  <2>1. /\ a \o b \in Seq(T) /\ Len(a \o b) = Len(a) + Len(b)
        /\ \A k \in 1 .. Len(a) + Len(b) :
             (a \o b)[k] = IF k <= Len(a) THEN a[k] ELSE b[k - Len(a)]
    BY <1>1, <1>2, Concatenated
  <2>2. Len(a) = i - 1 /\ Len(b) = Len(s) - i
    BY <1>1, <1>2
  <2> QED BY <2>1, <2>2
<1>5. Len(s) \in Nat /\ i \in Nat /\ 1 <= i /\ i - 1 + (Len(s) - i) = Len(s) - 1
  OBVIOUS
<1>6. ASSUME NEW k \in 1 .. Len(s) - 1
      PROVE (a \o b)[k] = IF k < i THEN s[k] ELSE s[k + 1]
  <2>1. CASE k < i
    BY <1>1, <1>4, <1>5, <2>1
  <2>2. CASE ~(k < i)
    <3>1. (a \o b)[k] = b[k - (i - 1)] /\ k - (i - 1) \in 1 .. Len(s) - i
      BY <1>4, <1>5, <2>2
    <3>2. b[k - (i - 1)] = s[i + (k - (i - 1))] /\ i + (k - (i - 1)) = k + 1
      BY <1>2, <1>5, <3>1
    <3> QED BY <2>2, <3>1, <3>2
  <2> QED BY <2>1, <2>2
<1> QED BY <1>3, <1>4, <1>5, <1>6

----------------------------------------------------------------------------
(* The inductive invariant.                                                *)

\* Each transfer of S is on the list l once.
Holds(l, S) ==
    /\ l \in Seq(UsbTransfer)
    /\ \A i, j \in 1 .. Len(l) : l[i] = l[j] => i = j
    /\ \A t \in UsbTransfer : t \in S <=> \E i \in 1 .. Len(l) : l[i] = t

\* The list l is in the order of what is left.
InOrder(l, rest) == \A i, j \in 1 .. Len(l) : i < j => rest[l[i]] <= rest[l[j]]

\* No transfer of the list l that is not in H is timed before the timer, but behind
\* a first one in H.
Covers(time, l, rest, H) ==
    \A i \in 1 .. Len(l) :
        l[i] \notin H /\ rest[l[i]] # Never => time <= rest[l[i]] \/ l[1] \in H

Listed == {t \in UsbTransfer : phase[t] # "idle"}

\* macOS has no timerfd.
OsInv == UsingTimerfd => osHandled = {}

TimerInv == UsingTimerfd => Covers(timer, list, left, handled)

TimeoutsInv == TimeoutsTypeOK /\ OsInv /\ Sorted /\ OnlyExpiredHandled /\ TimerInv

LEMMA ListHolds == ASSUME TimeoutsTypeOK PROVE Holds(list, Listed)
BY DEF TimeoutsTypeOK, Holds, Listed, IsInjective, Range

LEMMA HoldsType ==
    ASSUME Holds(list, Listed)
    PROVE  /\ list \in Seq(UsbTransfer) /\ IsInjective(list)
           /\ Range(list) = {t \in UsbTransfer : phase[t] # "idle"}
BY DEF Holds, Listed, IsInjective, Range

\* The parts of the invariant, of the list's places.
LEMMA Parts ==
    /\ TimeoutsTypeOK => (Sorted <=> InOrder(list, left))
    /\ TimeoutsInv => TimerCovers
<1>1. TimeoutsTypeOK => (Sorted <=> InOrder(list, left))
  BY DEF TimeoutsTypeOK, Sorted, InOrder
<1>2. ASSUME TimeoutsInv PROVE TimerCovers
  <2>1. TimeoutsTypeOK /\ Holds(list, Listed)
    BY <1>2, ListHolds DEF TimeoutsInv
  <2>2. ASSUME UsingTimerfd, NEW t \in UsbTransfer, Waiting(t), Timed(t)
        PROVE timer <= left[t] \/ Head(list) \in handled
    <3>1. PICK i \in 1 .. Len(list) : list[i] = t
      BY <2>1, <2>2 DEF Holds, Listed, Waiting
    <3>2. list[i] \notin handled /\ left[list[i]] # Never
      BY <2>2, <3>1 DEF Waiting, Timed
    <3>3. Head(list) = list[1]
      BY <2>1, <3>1 DEF Holds
    <3> QED BY <1>2, <2>2, <3>1, <3>2, <3>3 DEF TimeoutsInv, TimerInv, Covers
  <2> QED BY <1>2, <2>2 DEF TimeoutsInv, TimerCovers
<1> QED BY <1>1, <1>2

----------------------------------------------------------------------------
(* What the loops find.                                                    *)

\* The invariant at the start.
LEMMA InitInv == TimeoutsInit => TimeoutsInv
<1> SUFFICES ASSUME TimeoutsInit PROVE TimeoutsInv
  OBVIOUS
<1>1. list \in Seq(UsbTransfer) /\ IsInjective(list) /\ Range(list) = {}
  BY DEF TimeoutsInit, IsInjective, Range
<1>2. Never \in Nat
  BY TimeoutsAssumption
<1>3. TimeoutsTypeOK
  BY <1>1, <1>2 DEF TimeoutsInit, TimeoutsTypeOK, Time
<1>4. OsInv /\ Sorted /\ OnlyExpiredHandled /\ TimerInv
  BY DEF TimeoutsInit, OsInv, Sorted, OnlyExpiredHandled, TimerInv, Covers
<1> QED BY <1>3, <1>4 DEF TimeoutsInv

\* A timer armed for the next timeout covers a list that is in order.
LEMMA ArmedCovers ==
    ASSUME NEW s \in Seq(UsbTransfer), NEW H, InOrder(s, left),
           left \in [UsbTransfer -> Time], osHandled = {}
    PROVE  ArmedFor(s, H) \in Time /\ Covers(ArmedFor(s, H), s, left, H)
<1> DEFINE S == {i \in DOMAIN s : ~Timed(s[i]) \/ s[i] \notin H \cup osHandled}
           stop == Smallest(S, 0)
<1>1. /\ S \subseteq 1 .. Len(s) /\ S \subseteq Nat
      /\ \A i \in 1 .. Len(s) : s[i] \in UsbTransfer /\ left[s[i]] \in Time
  OBVIOUS
<1>2. Never \in Nat
  BY TimeoutsAssumption
<1>3. CASE S = {}
  <2>1. stop = 0 /\ ArmedFor(s, H) = Never
    BY <1>1, <1>3, SmallestIsLeast DEF ArmedFor
  <2> QED BY <2>1, <1>2, <1>3 DEF Covers, Time
<1>4. CASE S # {}
  <2>1. stop \in S /\ \A i \in S : stop <= i
    BY <1>1, <1>4, SmallestIsLeast DEF Least
  <2>2. stop # 0 /\ ArmedFor(s, H) = left[s[stop]]
    BY <1>1, <2>1 DEF ArmedFor
  <2>3. ASSUME NEW i \in 1 .. Len(s), s[i] \notin H PROVE left[s[stop]] <= left[s[i]]
    <3>1. i \in S /\ stop \in 1 .. Len(s)
      BY <2>1, <2>3
    <3>2. stop <= i
      BY <2>1, <3>1
    <3>3. left[s[i]] \in Nat /\ left[s[stop]] \in Nat
      BY <1>1, <1>2, <3>1 DEF Time
    <3> HIDE DEF stop, S
    <3>4. stop = i \/ stop < i
      BY <3>1, <3>2
    <3> QED BY <3>1, <3>3, <3>4 DEF InOrder
  <2> HIDE DEF stop, S
  <2> QED BY <1>1, <2>1, <2>2, <2>3 DEF Covers
<1> QED BY <1>3, <1>4

\* What handle_timeouts_locked finds has expired.
LEMMA DueExpired ==
    ASSUME TimeoutsTypeOK, NEW t \in Due
    PROVE  left[t] = 0 /\ Waiting(t) /\ t \in UsbTransfer
<1> DEFINE S == {i \in DOMAIN list :
                    \/ ~Timed(list[i])
                    \/ /\ list[i] \notin handled \cup osHandled
                       /\ left[list[i]] > 0}
           stop == Smallest(S, Len(list) + 1)
<1>1. S \subseteq 1 .. Len(list) /\ S \subseteq Nat /\ Len(list) \in Nat
  BY DEF TimeoutsTypeOK
<1>2. PICK i \in 1 .. stop - 1 : t = list[i] /\ t \notin handled \cup osHandled
  BY DEF Due
<1>3. i \in 1 .. Len(list) /\ i \notin S
  <2>1. S = {} => stop = Len(list) + 1
    BY <1>1, SmallestIsLeast
  <2>2. S # {} => stop \in S /\ \A j \in S : stop <= j
    BY <1>1, SmallestIsLeast DEF Least
  <2> HIDE DEF S, stop
  <2>3. CASE S = {}
    BY <1>1, <1>2, <2>1, <2>3
  <2>4. CASE S # {}
    <3>1. stop \in 1 .. Len(list) /\ i \in 1 .. stop - 1
      BY <1>1, <1>2, <2>2, <2>4
    <3> QED BY <1>1, <2>2, <2>4, <3>1
  <2> QED BY <2>3, <2>4
<1>4. list[i] \in UsbTransfer /\ left[list[i]] \in Time /\ Never \in Nat
  BY <1>3, TimeoutsAssumption DEF TimeoutsTypeOK
<1>5. ~(left[t] > 0) /\ left[t] \in Nat
  BY <1>2, <1>3, <1>4 DEF Time
<1>6. t \in Listed
  BY <1>2, <1>3, ListHolds DEF Holds
<1> QED BY <1>2, <1>4, <1>5, <1>6 DEF Waiting, Listed

\* All that has expired is found, for the list is in order.
LEMMA ExpiredDue ==
    ASSUME TimeoutsInv, NEW t \in UsbTransfer, Waiting(t), left[t] = 0
    PROVE  t \in Due
<1> DEFINE S == {i \in DOMAIN list :
                    \/ ~Timed(list[i])
                    \/ /\ list[i] \notin handled \cup osHandled
                       /\ left[list[i]] > 0}
           stop == Smallest(S, Len(list) + 1)
<1>1. TimeoutsTypeOK /\ InOrder(list, left) /\ Holds(list, Listed)
  BY Parts, ListHolds DEF TimeoutsInv
<1>2. S \subseteq 1 .. Len(list) /\ S \subseteq Nat /\ Len(list) \in Nat
  BY <1>1 DEF TimeoutsTypeOK
<1>3. PICK i \in 1 .. Len(list) : list[i] = t
  BY <1>1 DEF Holds, Listed, Waiting
<1>4. Never \in Nat /\ Never # 0
  BY TimeoutsAssumption, SMTT(30)
<1>5. ASSUME NEW j \in S PROVE i < j
  <2>1. j \in 1 .. Len(list) /\ left[list[j]] \in Nat /\ left[list[j]] > 0
    BY <1>1, <1>4 DEF TimeoutsTypeOK, Timed, Time
  <2>2. ~(j < i)
    BY <1>1, <1>3, <2>1 DEF InOrder
  <2>3. j # i
    BY <1>3, <2>1
  <2> QED BY <2>1, <2>2, <2>3
<1>6. i \in 1 .. stop - 1
  <2>1. S = {} => stop = Len(list) + 1
    BY <1>2, SmallestIsLeast
  <2>2. S # {} => stop \in S
    BY <1>2, SmallestIsLeast DEF Least
  <2> HIDE DEF S, stop
  <2>3. CASE S = {}
    BY <1>2, <2>1, <2>3
  <2>4. CASE S # {}
    <3>1. stop \in 1 .. Len(list) /\ i < stop
      BY <1>2, <1>5, <2>2, <2>4
    <3> QED BY <3>1
  <2> QED BY <2>3, <2>4
<1> QED BY <1>3, <1>6 DEF Due, Waiting

\* libusb_get_next_timeout finds no more than what is left of any that waits.
LEMMA NextIsLeast ==
    ASSUME TimeoutsInv
    PROVE  /\ NextTimeout \in Time
           /\ ~UsingTimerfd => \A t \in UsbTransfer : Waiting(t) => NextTimeout <= left[t]
<1> DEFINE S == {i \in DOMAIN list : list[i] \notin handled \cup osHandled}
           stop == Smallest(S, 0)
<1>1. TimeoutsTypeOK /\ InOrder(list, left) /\ Holds(list, Listed)
  BY Parts, ListHolds DEF TimeoutsInv
<1>2. S \subseteq 1 .. Len(list) /\ S \subseteq Nat
  BY <1>1 DEF TimeoutsTypeOK
<1>3. Never \in Nat /\ \A i \in 1 .. Len(list) : list[i] \in UsbTransfer /\ left[list[i]] \in Time
  BY <1>1, TimeoutsAssumption DEF TimeoutsTypeOK
<1>4. S = {} => stop = 0
  BY <1>2, SmallestIsLeast
<1>5. S # {} => stop \in S /\ \A j \in S : stop <= j
  BY <1>2, SmallestIsLeast DEF Least
<1>6. NextTimeout = IF UsingTimerfd \/ stop = 0 THEN Never ELSE left[list[stop]]
  BY DEF NextTimeout
<1>7. ASSUME NEW t \in UsbTransfer, Waiting(t)
      PROVE stop # 0 /\ left[list[stop]] <= left[t]
  <2>1. PICK i \in 1 .. Len(list) : list[i] = t
    BY <1>1, <1>7 DEF Holds, Listed, Waiting
  <2>2. i \in S
    BY <1>7, <2>1 DEF Waiting
  <2> HIDE DEF stop, S
  <2>3. stop \in 1 .. Len(list) /\ stop <= i
    BY <1>2, <1>5, <2>2
  <2>4. left[t] \in Nat /\ left[list[stop]] \in Nat
    BY <1>3, <2>1, <2>3 DEF Time
  <2>5. stop = i \/ stop < i
    BY <2>1, <2>3
  <2> QED BY <1>1, <2>1, <2>3, <2>4, <2>5 DEF InOrder
<1> HIDE DEF stop, S
<1>8. NextTimeout \in Time
  <2>1. Never \in Time
    BY <1>3 DEF Time
  <2>2. stop = 0 \/ stop \in 1 .. Len(list)
    BY <1>2, <1>4, <1>5
  <2>3. stop # 0 => left[list[stop]] \in Time
    BY <1>3, <2>2
  <2> QED BY <1>6, <2>1, <2>3
<1> QED BY <1>6, <1>7, <1>8

----------------------------------------------------------------------------
(* The steps that change the list.                                         *)

\* What InsertAt and RemoveAt make of a list of some transfers, each once.
LEMMA AddHolds ==
    ASSUME NEW l, NEW S \in SUBSET UsbTransfer, Holds(l, S), NEW t \in UsbTransfer \ S,
           NEW i \in 1 .. Len(l) + 1
    PROVE  Holds(InsertAt(l, i, t), S \cup {t})
<1> DEFINE m == InsertAt(l, i, t)
<1>1. /\ m \in Seq(UsbTransfer) /\ Len(m) = Len(l) + 1 /\ Len(l) \in Nat
      /\ \A k \in 1 .. Len(l) + 1 :
           m[k] = IF k < i THEN l[k] ELSE IF k = i THEN t ELSE l[k - 1]
  <2>1. l \in Seq(UsbTransfer) /\ t \in UsbTransfer /\ Len(l) \in Nat
    BY DEF Holds
  <2>2. /\ m \in Seq(UsbTransfer) /\ Len(m) = Len(l) + 1
        /\ \A k \in 1 .. Len(l) + 1 :
             m[k] = IF k < i THEN l[k] ELSE IF k = i THEN t ELSE l[k - 1]
    BY <2>1, Inserted
  <2> HIDE DEF m
  <2> QED BY <2>1, <2>2
<1> HIDE DEF m
<1>2. \A k \in 1 .. Len(l) : l[k] # t
  BY DEF Holds
<1>3. ASSUME NEW j \in 1 .. Len(m), NEW k \in 1 .. Len(m), m[j] = m[k] PROVE j = k
  <2> DEFINE Old(x) == IF x < i THEN x ELSE x - 1
  <2>1. ASSUME NEW x \in 1 .. Len(m), x # i
        PROVE Old(x) \in 1 .. Len(l) /\ m[x] = l[Old(x)]
    BY <1>1, <2>1
  <2>2. m[i] = t
    BY <1>1
  <2>3. j = i <=> k = i
    BY <1>2, <1>3, <2>1, <2>2
  <2>4. ASSUME j # i PROVE Old(j) = Old(k)
    <3>1. Old(j) \in 1 .. Len(l) /\ Old(k) \in 1 .. Len(l) /\ l[Old(j)] = l[Old(k)]
      BY <1>3, <2>1, <2>3, <2>4
    <3> HIDE DEF Old
    <3> QED BY <3>1 DEF Holds
  <2> QED BY <1>1, <2>3, <2>4
<1>4. ASSUME NEW u \in UsbTransfer PROVE u \in S \cup {t} <=> \E k \in 1 .. Len(m) : m[k] = u
  <2>1. ASSUME NEW k \in 1 .. Len(l), l[k] = u PROVE \E j \in 1 .. Len(m) : m[j] = u
    <3>1. CASE k < i
      BY <1>1, <2>1, <3>1
    <3>2. CASE ~(k < i)
      <4>1. k + 1 \in 1 .. Len(m) /\ m[k + 1] = l[k + 1 - 1] /\ k + 1 - 1 = k
        BY <1>1, <2>1, <3>2
      <4> QED BY <2>1, <4>1
    <3> QED BY <3>1, <3>2
  <2>2. m[i] = t /\ i \in 1 .. Len(m)
    BY <1>1
  <2>3. ASSUME NEW k \in 1 .. Len(m), m[k] = u, u # t PROVE u \in S
    <3>1. \E j \in 1 .. Len(l) : l[j] = u
      BY <1>1, <2>3
    <3> QED BY <3>1 DEF Holds
  <2> QED BY <2>1, <2>2, <2>3 DEF Holds
<1> QED BY <1>1, <1>3, <1>4 DEF Holds, m

LEMMA RemoveHolds ==
    ASSUME NEW l, NEW S \in SUBSET UsbTransfer, Holds(l, S), NEW i \in 1 .. Len(l)
    PROVE  Holds(RemoveAt(l, i), S \ {l[i]})
<1> DEFINE m == RemoveAt(l, i)
           New(k) == IF k < i THEN k ELSE k + 1
<1>1. /\ m \in Seq(UsbTransfer) /\ Len(m) = Len(l) - 1 /\ Len(l) \in Nat
      /\ \A k \in 1 .. Len(l) - 1 : m[k] = IF k < i THEN l[k] ELSE l[k + 1]
  BY Removed DEF Holds
<1> HIDE DEF m
<1>2. ASSUME NEW k \in 1 .. Len(m)
      PROVE New(k) \in 1 .. Len(l) /\ New(k) # i /\ m[k] = l[New(k)]
  BY <1>1
<1>3. ASSUME NEW j \in 1 .. Len(m), NEW k \in 1 .. Len(m), m[j] = m[k] PROVE j = k
  <2>1. New(j) = New(k)
    <3>1. New(j) \in 1 .. Len(l) /\ New(k) \in 1 .. Len(l) /\ l[New(j)] = l[New(k)]
      BY <1>2, <1>3
    <3> HIDE DEF New
    <3> QED BY <3>1 DEF Holds
  <2> QED BY <2>1
<1>4. ASSUME NEW u \in UsbTransfer PROVE u \in S \ {l[i]} <=> \E k \in 1 .. Len(m) : m[k] = u
  <2>1. ASSUME NEW k \in 1 .. Len(l), l[k] = u, u # l[i] PROVE \E j \in 1 .. Len(m) : m[j] = u
    <3>1. CASE k < i
      BY <1>1, <2>1, <3>1
    <3>2. CASE ~(k < i)
      <4>1. k # i
        BY <2>1
      <4>2. k - 1 \in 1 .. Len(l) - 1 /\ ~(k - 1 < i) /\ k - 1 + 1 = k
        BY <1>1, <3>2, <4>1
      <4>3. m[k - 1] = l[k - 1 + 1]
        BY <1>1, <4>2
      <4> QED BY <1>1, <2>1, <4>2, <4>3
    <3> QED BY <3>1, <3>2
  <2>2. ASSUME NEW k \in 1 .. Len(m), m[k] = u PROVE u \in S /\ u # l[i]
    <3>1. New(k) \in 1 .. Len(l) /\ New(k) # i /\ l[New(k)] = u
      BY <1>2, <2>2
    <3> HIDE DEF New
    <3> QED BY <3>1 DEF Holds
  <2> QED BY <2>1, <2>2 DEF Holds
<1> QED BY <1>1, <1>3, <1>4 DEF Holds, m

\* Where a transfer with a timeout goes: behind those that are due no later.
LEMMA PlaceIsRight ==
    ASSUME TimeoutsTypeOK, InOrder(list, left), NEW time \in 0 .. Never - 1
    PROVE  /\ Place(time) \in 1 .. Len(list) + 1
           /\ \A i \in 1 .. Len(list) :
                /\ i < Place(time) => left[list[i]] <= time
                /\ i >= Place(time) => time <= left[list[i]]
<1> DEFINE S == {i \in DOMAIN list : ~Timed(list[i]) \/ left[list[i]] > time}
           place == Smallest(S, Len(list) + 1)
<1>1. S \subseteq 1 .. Len(list) /\ S \subseteq Nat /\ Len(list) \in Nat
  BY DEF TimeoutsTypeOK
<1>2. Never \in Nat /\ time \in Nat /\ time < Never
  BY TimeoutsAssumption
<1>3. \A i \in 1 .. Len(list) : left[list[i]] \in Nat
  BY <1>2 DEF TimeoutsTypeOK, Time
<1>4. \A i \in 1 .. Len(list) : i \in S <=> ~(left[list[i]] <= time)
  BY <1>2, <1>3 DEF Timed, TimeoutsTypeOK
<1>5. Place(time) = place
  BY DEF Place
<1>6. S = {} => place = Len(list) + 1
  BY <1>1, SmallestIsLeast
<1>7. S # {} => place \in S /\ \A j \in S : place <= j
  BY <1>1, SmallestIsLeast DEF Least
<1> HIDE DEF S, place
<1>8. CASE S = {}
  BY <1>1, <1>3, <1>4, <1>5, <1>6, <1>8
<1>9. CASE S # {}
  <2>1. place \in 1 .. Len(list) /\ ~(left[list[place]] <= time)
    BY <1>1, <1>4, <1>7, <1>9
  <2>2. ASSUME NEW i \in 1 .. Len(list), i < place PROVE left[list[i]] <= time
    BY <1>4, <1>7, <1>9, <2>1, <2>2
  <2>3. ASSUME NEW i \in 1 .. Len(list), i >= place PROVE time <= left[list[i]]
    <3>1. i = place \/ place < i
      BY <2>1, <2>3
    <3>2. left[list[place]] <= left[list[i]]
      BY <1>3, <2>1, <3>1 DEF InOrder
    <3> QED BY <1>2, <1>3, <2>1, <3>2
  <2> QED BY <1>1, <1>5, <2>1, <2>2, <2>3
<1> QED BY <1>8, <1>9

\* libusb_submit_transfer keeps the order, and arms the timer if it must.
LEMMA SubmitStep ==
    ASSUME TimeoutsInv, NEW t \in UsbTransfer, NEW d \in Duration, SubmitTransfer(t, d)
    PROVE  TimeoutsInv'
<1> DEFINE time == IF d = 0 THEN Never ELSE d
           place == IF time = Never THEN Len(list) + 1 ELSE Place(time)
<1>1. TimeoutsTypeOK /\ OsInv /\ InOrder(list, left) /\ OnlyExpiredHandled /\ TimerInv
  BY Parts DEF TimeoutsInv
<1>2. Holds(list, Listed) /\ t \in UsbTransfer \ Listed /\ Listed \in SUBSET UsbTransfer
  BY <1>1, ListHolds DEF SubmitTransfer, Listed
<1>3. Never \in Nat /\ time \in Time /\ (time # Never => time \in 0 .. Never - 1)
  BY TimeoutsAssumption DEF Time
<1>4. Len(list) \in Nat
  BY <1>1 DEF TimeoutsTypeOK
<1>5. /\ list' = InsertAt(list, place, t)
      /\ left' = [left EXCEPT ![t] = time]
      /\ timer' = IF First(place) /\ UsingTimerfd /\ time # Never THEN time ELSE timer
      /\ phase' = [phase EXCEPT ![t] = "submitting"]
      /\ handled' = handled \ {t} /\ hasTimedOut' = hasTimedOut \ {t}
      /\ osHandled' = osHandled \ {t} /\ beingCancelled' = beingCancelled \ {t}
      /\ UNCHANGED <<platform, at, wait, events>>
  BY DEF SubmitTransfer, ClearFlags, AddToFlyingList, threadVars
<1>6. /\ place \in 1 .. Len(list) + 1
      /\ \A i \in 1 .. Len(list) :
           /\ i < place => left[list[i]] <= time
           /\ i >= place => time <= left[list[i]]
  <2>1. CASE time = Never
    <3>1. place = Len(list) + 1
      BY <2>1
    <3>2. \A i \in 1 .. Len(list) : left[list[i]] <= Never
      BY <1>1, <1>3 DEF TimeoutsTypeOK, Time
    <3> HIDE DEF place, time
    <3> QED BY <1>4, <2>1, <3>1, <3>2
  <2>2. CASE time # Never
    <3>1. place = Place(time) /\ time \in 0 .. Never - 1
      BY <1>3, <2>2
    <3> HIDE DEF place, time
    <3> QED BY <1>1, <3>1, PlaceIsRight
  <2> QED BY <2>1, <2>2
<1> HIDE DEF place, time
<1>7. /\ Len(list') = Len(list) + 1
      /\ \A k \in 1 .. Len(list) + 1 :
           list'[k] = IF k < place THEN list[k] ELSE IF k = place THEN t ELSE list[k - 1]
  BY <1>1, <1>5, <1>6, Inserted, SMTT(30) DEF TimeoutsTypeOK
<1>8. Holds(list', Listed')
  <2>1. Listed' = Listed \cup {t}
    BY <1>1, <1>5 DEF Listed, TimeoutsTypeOK
  <2> QED BY <1>2, <1>5, <1>6, <2>1, AddHolds
<1>9. \A k \in 1 .. Len(list) : /\ list[k] \in UsbTransfer /\ list[k] # t
                                /\ left'[list[k]] = left[list[k]]
                                /\ left[list[k]] \in Nat
  BY <1>1, <1>2, <1>3, <1>5 DEF TimeoutsTypeOK, Holds, Time
<1>10. left'[t] = time /\ time \in Nat
  BY <1>1, <1>3, <1>5 DEF TimeoutsTypeOK, Time
<1>11. InOrder(list', left')
  <2> SUFFICES ASSUME NEW i \in 1 .. Len(list'), NEW j \in 1 .. Len(list'), i < j
               PROVE left'[list'[i]] <= left'[list'[j]]
    BY DEF InOrder
  <2>1. CASE j < place
    BY <1>1, <1>4, <1>6, <1>7, <1>9, <2>1 DEF InOrder
  <2>2. CASE j = place
    BY <1>4, <1>6, <1>7, <1>9, <1>10, <2>2, SMTT(30)
  <2>3. CASE place < j
    <3>1. list'[j] = list[j - 1] /\ j - 1 \in 1 .. Len(list) /\ j - 1 >= place
      BY <1>4, <1>6, <1>7, <2>3
    <3>2. CASE i = place
      BY <1>6, <1>7, <1>9, <1>10, <3>1, <3>2
    <3>3. CASE i < place
      BY <1>1, <1>4, <1>6, <1>7, <1>9, <3>1, <3>3 DEF InOrder
    <3>4. CASE place < i
      <4>1. list'[i] = list[i - 1] /\ i - 1 \in 1 .. Len(list) /\ i - 1 < j - 1
        BY <1>4, <1>6, <1>7, <3>1, <3>4
      <4> QED BY <1>1, <1>9, <3>1, <4>1 DEF InOrder
    <3> QED BY <1>6, <1>7, <3>2, <3>3, <3>4
  <2> QED BY <1>6, <1>7, <2>1, <2>2, <2>3
<1>12. TimeoutsTypeOK'
  <2>1. /\ list' \in Seq(UsbTransfer) /\ IsInjective(list')
        /\ Range(list') = {u \in UsbTransfer : phase'[u] # "idle"}
    BY <1>8 DEF Holds, Listed, IsInjective, Range
  <2>2. left' \in [UsbTransfer -> Time] /\ timer' \in Time
    BY <1>1, <1>3, <1>5 DEF TimeoutsTypeOK
  <2>3. phase' \in [UsbTransfer -> {"idle", "submitting", "refused", "flying", "done"}]
    BY <1>1, <1>5 DEF TimeoutsTypeOK
  <2>4. handled' \subseteq UsbTransfer /\ hasTimedOut' \subseteq handled'
        /\ osHandled' \subseteq OsTimed /\ beingCancelled' \subseteq UsbTransfer
    BY <1>1, <1>5 DEF TimeoutsTypeOK
  <2> QED BY <1>1, <1>5, <2>1, <2>2, <2>3, <2>4 DEF TimeoutsTypeOK
<1>13. OnlyExpiredHandled'
  BY <1>1, <1>5 DEF OnlyExpiredHandled, TimeoutsTypeOK
<1>14. OsInv'
  BY <1>1, <1>5 DEF OsInv, UsingTimerfd
<1>15. TimerInv'
  <2> SUFFICES ASSUME UsingTimerfd, NEW i \in 1 .. Len(list'),
                      list'[i] \notin handled', left'[list'[i]] # Never
               PROVE timer' <= left'[list'[i]] \/ list'[1] \in handled'
    BY <1>5 DEF TimerInv, Covers, UsingTimerfd
  <2>1. timer \in Nat /\ Covers(timer, list, left, handled)
    BY <1>1, <1>3 DEF TimerInv, TimeoutsTypeOK, Time
  <2>2. CASE place = 1
    <3>1. time # Never
      <4>1. ASSUME NEW k \in 1 .. Len(list)
            PROVE  time <= left[list[k]] /\ left[list[k]] <= Never
        BY <1>1, <1>3, <1>6, <2>2, <4>1 DEF TimeoutsTypeOK, Time
      <4>2. CASE i = 1
        BY <1>7, <1>10, <2>2, <4>2
      <4>3. CASE i # 1
        <5>1. list'[i] = list[i - 1] /\ i - 1 \in 1 .. Len(list)
          BY <1>4, <1>7, <2>2, <4>3
        <5> QED BY <1>3, <1>9, <1>10, <4>1, <5>1
      <4> QED BY <4>2, <4>3
    <3>2. timer' = time
      BY <1>5, <2>2, <3>1 DEF First
    <3>3. list'[1] = t
      BY <1>4, <1>7, <2>2
    <3>4. CASE i = 1
      BY <1>10, <3>2, <3>3, <3>4
    <3>5. CASE i # 1
      <4>1. 1 < i /\ 1 \in 1 .. Len(list')
        BY <1>4, <1>7, <3>5
      <4> QED BY <1>10, <1>11, <3>2, <3>3, <4>1 DEF InOrder
    <3> QED BY <3>4, <3>5
  <2>3. CASE place # 1
    <3>1. 1 \in 1 .. Len(list) /\ list'[1] = list[1] /\ 1 < place /\ list # <<>>
      BY <1>1, <1>4, <1>6, <1>7, <2>3 DEF TimeoutsTypeOK
    <3>2. timer' = timer
      BY <1>5, <2>3, <3>1 DEF First
    <3>3. list[1] # t /\ (list[1] \in handled => list'[1] \in handled')
      BY <1>5, <1>9, <3>1
    <3>4. ASSUME list[1] \notin handled, left[list[1]] # Never PROVE timer <= left[list[1]]
      BY <2>1, <3>1, <3>4 DEF Covers
    <3>5. left'[list'[1]] <= left'[list'[i]] /\ left'[list'[1]] = left[list[1]]
      <4>1. i = 1 \/ 1 < i
        OBVIOUS
      <4>2. 1 \in 1 .. Len(list')
        BY <1>4, <1>7
      <4>3. left'[list'[1]] = left[list[1]] /\ left[list[1]] \in Nat
        BY <1>9, <3>1
      <4> QED BY <1>11, <4>1, <4>2, <4>3 DEF InOrder
    <3>6. left'[list'[i]] \in 0 .. Never /\ left[list[1]] \in Nat
      <4>1. list'[i] \in UsbTransfer
        BY <1>8 DEF Holds
      <4> QED BY <1>9, <1>12, <3>1, <4>1 DEF TimeoutsTypeOK, Time
    <3>7. left[list[1]] # Never
      BY <1>3, <3>5, <3>6
    <3> QED BY <2>1, <3>2, <3>3, <3>4, <3>5, <3>6, <3>7
  <2> QED BY <2>2, <2>3
<1> QED BY <1>11, <1>12, <1>13, <1>14, <1>15 DEF TimeoutsInv, Sorted, InOrder, TimeoutsTypeOK

\* A removal keeps the order, and arms the timer for the next if the first leaves.
LEMMA RemoveStep ==
    ASSUME TimeoutsInv, NEW t \in Listed, RemoveFromFlyingList(t),
           UNCHANGED <<platform, threadVars>>
    PROVE  TimeoutsInv'
<1> DEFINE i == CHOOSE j \in DOMAIN list : list[j] = t
           rest == RemoveAt(list, i)
<1>1. TimeoutsTypeOK /\ OsInv /\ InOrder(list, left) /\ OnlyExpiredHandled /\ TimerInv
  BY Parts DEF TimeoutsInv
<1>2. Holds(list, Listed) /\ Listed \in SUBSET UsbTransfer /\ t \in UsbTransfer
  BY <1>1, ListHolds DEF Listed
<1>3. Never \in Nat /\ Never \in Time /\ Len(list) \in Nat
  BY <1>1, TimeoutsAssumption DEF Time, TimeoutsTypeOK
<1>4. i \in 1 .. Len(list) /\ list[i] = t
  <2>1. \E j \in DOMAIN list : list[j] = t
    BY <1>2 DEF Holds
  <2> QED BY <1>2, <2>1 DEF Holds
<1>5. /\ list' = rest
      /\ timer' = IF Rearms(t) THEN ArmedFor(rest, handled) ELSE timer
      /\ phase' = [phase EXCEPT ![t] = "idle"]
      /\ left' = [left EXCEPT ![t] = Never]
      /\ UNCHANGED <<platform, handled, hasTimedOut, osHandled, beingCancelled, at, wait,
                     events>>
  BY DEF RemoveFromFlyingList, threadVars
<1> HIDE DEF i
<1>6. /\ rest \in Seq(UsbTransfer) /\ Len(rest) = Len(list) - 1
      /\ \A k \in 1 .. Len(list) - 1 : rest[k] = IF k < i THEN list[k] ELSE list[k + 1]
  BY <1>2, <1>4, Removed DEF Holds
<1>7. Holds(rest, Listed \ {t})
  BY <1>2, <1>4, RemoveHolds
<1> HIDE DEF rest
<1>8. Holds(list', Listed')
  <2>1. Listed' = Listed \ {t}
    BY <1>1, <1>5 DEF Listed, TimeoutsTypeOK
  <2> QED BY <1>5, <1>7, <2>1
<1>9. \A k \in 1 .. Len(rest) : /\ rest[k] \in UsbTransfer /\ rest[k] # t
                                /\ left'[rest[k]] = left[rest[k]]
                                /\ left[rest[k]] \in Nat
  BY <1>1, <1>3, <1>5, <1>7 DEF TimeoutsTypeOK, Holds, Time
<1>10. InOrder(rest, left)
  <2> SUFFICES ASSUME NEW j \in 1 .. Len(rest), NEW k \in 1 .. Len(rest), j < k
               PROVE left[rest[j]] <= left[rest[k]]
    BY DEF InOrder
  <2> DEFINE New(x) == IF x < i THEN x ELSE x + 1
  <2>1. rest[j] = list[New(j)] /\ rest[k] = list[New(k)]
    BY <1>3, <1>6
  <2>2. New(j) \in 1 .. Len(list) /\ New(k) \in 1 .. Len(list) /\ New(j) < New(k)
    BY <1>3, <1>4, <1>6
  <2> HIDE DEF New
  <2> QED BY <1>1, <2>1, <2>2 DEF InOrder
<1>11. InOrder(list', left')
  BY <1>5, <1>9, <1>10 DEF InOrder
<1>12. UsingTimerfd => /\ ArmedFor(rest, handled) \in Time
                       /\ Covers(ArmedFor(rest, handled), rest, left, handled)
  BY <1>1, <1>6, <1>10, ArmedCovers DEF OsInv, TimeoutsTypeOK
<1>13. TimeoutsTypeOK'
  <2>1. /\ list' \in Seq(UsbTransfer) /\ IsInjective(list')
        /\ Range(list') = {u \in UsbTransfer : phase'[u] # "idle"}
    BY <1>8 DEF Holds, Listed, IsInjective, Range
  <2>2. left' \in [UsbTransfer -> Time] /\ timer' \in Time
    BY <1>1, <1>3, <1>5, <1>12 DEF TimeoutsTypeOK, Rearms
  <2>3. phase' \in [UsbTransfer -> {"idle", "submitting", "refused", "flying", "done"}]
    BY <1>1, <1>5 DEF TimeoutsTypeOK
  <2> QED BY <1>1, <1>5, <2>1, <2>2, <2>3 DEF TimeoutsTypeOK
<1>14. OnlyExpiredHandled'
  BY <1>1, <1>5 DEF OnlyExpiredHandled, TimeoutsTypeOK
<1>15. OsInv'
  BY <1>1, <1>5 DEF OsInv, UsingTimerfd
<1>16. TimerInv'
  <2> SUFFICES ASSUME UsingTimerfd PROVE Covers(timer', rest, left, handled)
    BY <1>5, <1>9 DEF TimerInv, Covers, UsingTimerfd
  <2>1. CASE Rearms(t)
    BY <1>5, <1>12, <2>1
  <2>2. CASE ~Rearms(t)
    <3> SUFFICES ASSUME NEW k \in 1 .. Len(rest), rest[k] \notin handled, left[rest[k]] # Never
                 PROVE timer <= left[rest[k]] \/ rest[1] \in handled
      BY <1>5, <2>2 DEF Covers
    <3>1. PICK j \in 1 .. Len(list) : list[j] = rest[k] /\ j # i
      BY <1>3, <1>4, <1>6, SMTT(30)
    <3>2. timer <= left[rest[k]] \/ list[1] \in handled
      BY <1>1, <3>1 DEF TimerInv, Covers
    <3>3. Head(list) = list[1]
      BY <1>1, <1>4 DEF TimeoutsTypeOK
    <3>4. i # 1
      <4> SUFFICES ASSUME i = 1 PROVE FALSE
        OBVIOUS
      <4>1. left[t] = Never
        BY <1>4, <2>2, <3>3 DEF Rearms, Timed
      <4>2. Never <= left[rest[k]] /\ left[rest[k]] \in 0 .. Never
        BY <1>1, <1>4, <1>9, <3>1, <4>1 DEF InOrder, TimeoutsTypeOK, Time
      <4> QED BY <1>3, <4>2
    <3>5. rest[1] = list[1]
      BY <1>3, <1>4, <1>6, <3>4, SMTT(30)
    <3> QED BY <3>2, <3>5
  <2> QED BY <2>1, <2>2
<1>17. Sorted'
  <2>1. DOMAIN list' = 1 .. Len(list')
    BY <1>5, <1>6
  <2> QED BY <1>11, <2>1 DEF Sorted, InOrder
<1> QED BY <1>13, <1>14, <1>15, <1>16, <1>17 DEF TimeoutsInv

----------------------------------------------------------------------------
(* The other steps.                                                        *)

\* Handling what has expired keeps the invariant if the timer does not go off later.
LEMMA CancelDueStep ==
    ASSUME TimeoutsInv, CancelDue, UNCHANGED <<platform, wait, events>>,
           at' \in [Thread -> {"idle", "looked", "late", "poll", "sleep", "reap", "end"}],
           timer' = timer \/ timer' = ArmedFor(list, handled')
    PROVE  TimeoutsInv'
<1>1. TimeoutsTypeOK /\ OsInv /\ InOrder(list, left) /\ OnlyExpiredHandled /\ TimerInv
  BY Parts DEF TimeoutsInv
<1>2. \A t \in Due : left[t] = 0 /\ t \in UsbTransfer
  BY <1>1, DueExpired
<1>3. /\ handled' = handled \cup Due
      /\ hasTimedOut' = hasTimedOut \cup
           {t \in Due : phase[t] \in {"flying", "done"} /\ t \notin beingCancelled}
      /\ beingCancelled' = beingCancelled \cup {t \in Due : phase[t] \in {"flying", "done"}}
      /\ UNCHANGED <<phase, list, left, osHandled>>
  BY DEF CancelDue
<1>4. Covers(timer, list, left, handled) => Covers(timer, list, left, handled')
  BY <1>3 DEF Covers
<1>5. UsingTimerfd => /\ timer' \in Time
                      /\ Covers(timer', list, left, handled')
  BY <1>1, <1>4, ArmedCovers DEF OsInv, TimerInv, TimeoutsTypeOK
<1>6. timer' \in Time
  <2>1. list \in Seq(UsbTransfer) /\ left \in [UsbTransfer -> Time] /\ timer \in Time
    BY <1>1 DEF TimeoutsTypeOK
  <2>2. ArmedFor(list, handled') \in Time
    <3> DEFINE S == {j \in DOMAIN list : ~Timed(list[j]) \/ list[j] \notin handled' \cup osHandled}
    <3>1. S \subseteq 1 .. Len(list) /\ S \subseteq Nat
      BY <2>1
    <3>2. Smallest(S, 0) = 0 \/ Smallest(S, 0) \in 1 .. Len(list)
      BY <3>1, SmallestIsLeast DEF Least
    <3>3. Never \in Time
      BY TimeoutsAssumption DEF Time
    <3>4. ArmedFor(list, handled') = IF Smallest(S, 0) = 0 THEN Never ELSE left[list[Smallest(S, 0)]]
      BY DEF ArmedFor
    <3> HIDE DEF S
    <3> QED BY <2>1, <3>2, <3>3, <3>4
  <2> QED BY <2>1, <2>2
<1>7. TimeoutsTypeOK'
  <2>1. /\ handled' \subseteq UsbTransfer /\ hasTimedOut' \subseteq handled'
        /\ beingCancelled' \subseteq UsbTransfer
    BY <1>1, <1>2, <1>3 DEF TimeoutsTypeOK
  <2> QED BY <1>1, <1>3, <1>6, <2>1 DEF TimeoutsTypeOK
<1>8. OnlyExpiredHandled'
  BY <1>1, <1>2, <1>3 DEF OnlyExpiredHandled
<1>9. OsInv' /\ TimerInv'
  BY <1>1, <1>3, <1>5 DEF OsInv, TimerInv, UsingTimerfd
<1> QED BY <1>1, <1>3, <1>7, <1>8, <1>9 DEF TimeoutsInv, Sorted, InOrder, TimeoutsTypeOK

\* Time passes alike for all.
LEMMA TickStep == ASSUME TimeoutsInv, Tick PROVE TimeoutsInv'
<1>1. TimeoutsTypeOK /\ OsInv /\ InOrder(list, left) /\ OnlyExpiredHandled /\ TimerInv
  BY Parts DEF TimeoutsInv
<1>2. Never \in Nat /\ Never # 0
  BY TimeoutsAssumption
<1>3. ASSUME NEW x \in Time
      PROVE /\ Pass(x) \in Time /\ (Pass(x) = Never <=> x = Never) /\ (x = 0 => Pass(x) = 0)
            /\ \A y \in Time : x <= y => Pass(x) <= Pass(y)
  <2>1. x \in Nat /\ x <= Never
    BY <1>2 DEF Time
  <2>2. CASE x = 0 \/ x = Never
    BY <1>2, <2>1, <2>2 DEF Pass, Time
  <2>3. CASE x # 0 /\ x # Never
    BY <1>2, <2>1, <2>3 DEF Pass, Time
  <2> QED BY <2>2, <2>3
<1>4. /\ left' = [t \in UsbTransfer |-> Pass(left[t])]
      /\ timer' = Pass(timer)
      /\ wait' = [h \in Thread |-> IF at[h] \in {"poll", "sleep"} THEN Pass(wait[h]) ELSE wait[h]]
      /\ UNCHANGED <<platform, phase, list, handled, hasTimedOut, osHandled,
                     beingCancelled, at, events>>
  BY DEF Tick
<1> HIDE DEF Tick
<1>5. \A i \in 1 .. Len(list) : list[i] \in UsbTransfer /\ left[list[i]] \in Time
  BY <1>1 DEF TimeoutsTypeOK
<1>6. TimeoutsTypeOK'
  <2>1. left' \in [UsbTransfer -> Time] /\ timer' \in Time /\ wait' \in [Thread -> Time]
    BY <1>1, <1>3, <1>4 DEF TimeoutsTypeOK
  <2> QED BY <1>1, <1>4, <2>1 DEF TimeoutsTypeOK
<1>7. InOrder(list', left')
  BY <1>1, <1>3, <1>4, <1>5 DEF InOrder
<1>8. OnlyExpiredHandled'
  BY <1>1, <1>3, <1>4 DEF OnlyExpiredHandled, TimeoutsTypeOK
<1>9. TimerInv'
  BY <1>1, <1>3, <1>4, <1>5 DEF TimerInv, Covers, UsingTimerfd, TimeoutsTypeOK
<1>10. OsInv'
  BY <1>1, <1>4 DEF OsInv, UsingTimerfd
<1> QED BY <1>4, <1>6, <1>7, <1>8, <1>9, <1>10 DEF TimeoutsInv, Sorted, InOrder, TimeoutsTypeOK

\* Steps that leave the list and the timer alone.
LEMMA FrameStep ==
    ASSUME TimeoutsInv, UNCHANGED <<platform, list, left, handled, hasTimedOut, timer>>,
                                    TimeoutsTypeOK', OsInv'
    PROVE  TimeoutsInv'
BY DEF TimeoutsInv, TimerInv, Covers, OsInv, UsingTimerfd, Sorted, OnlyExpiredHandled,
       TimeoutsTypeOK

\* The steps of a thread keep the invariant.
LEMMA ThreadStep == ASSUME TimeoutsInv, NEW h \in Thread, HandleEvents(h) PROVE TimeoutsInv'
<1>1. TimeoutsTypeOK /\ OsInv
  BY DEF TimeoutsInv
<1>2. NextTimeout \in Time /\ UserWait \in Time /\ 0 \in Time
  BY NextIsLeast, TimeoutsAssumption DEF Time
<1>3. CASE Look(h)
  <2>1. UNCHANGED <<platform, phase, list, left, handled, hasTimedOut, osHandled,
                    beingCancelled, timer, events>>
    BY <1>3 DEF Look, transferVars
  <2>2. TimeoutsTypeOK'
    BY <1>1, <1>2, <1>3, <2>1 DEF Look, MoveTo, TimeoutsTypeOK
  <2>3. OsInv'
    BY <1>1, <2>1 DEF OsInv, UsingTimerfd
  <2> QED BY <2>1, <2>2, <2>3, FrameStep
<1>4. CASE TryLockEvents(h)
  <2>1. UNCHANGED <<platform, phase, list, left, handled, hasTimedOut, osHandled,
                    beingCancelled, timer, wait>>
    BY <1>4 DEF TryLockEvents, transferVars
  <2>2. TimeoutsTypeOK'
    BY <1>1, <1>4, <2>1 DEF TryLockEvents, MoveTo, TimeoutsTypeOK
  <2>3. OsInv'
    BY <1>1, <2>1 DEF OsInv, UsingTimerfd
  <2> QED BY <2>1, <2>2, <2>3, FrameStep
<1>5. CASE HandleTimeouts(h)
  <2>1. CancelDue /\ UNCHANGED <<platform, timer, wait, events>>
    BY <1>5 DEF HandleTimeouts
  <2>2. at' \in [Thread -> {"idle", "looked", "late", "poll", "sleep", "reap", "end"}]
    BY <1>1, <1>5 DEF HandleTimeouts, MoveTo, TimeoutsTypeOK
  <2> QED BY <2>1, <2>2, CancelDueStep
<1>6. CASE TimerFires(h)
  <2>1. CancelDue /\ UNCHANGED <<platform, wait, events>> /\ timer' = ArmedFor(list, handled')
    BY <1>6 DEF TimerFires
  <2>2. at' \in [Thread -> {"idle", "looked", "late", "poll", "sleep", "reap", "end"}]
    BY <1>1, <1>6 DEF TimerFires, MoveTo, TimeoutsTypeOK
  <2> QED BY <2>1, <2>2, CancelDueStep
<1>7. CASE SleepEnds(h) \/ PollWakes(h) \/ ReapEnds(h) \/ UnlockEvents(h)
  <2>1. UNCHANGED <<platform, phase, list, left, handled, hasTimedOut, osHandled,
                    beingCancelled, timer, wait>>
    BY <1>7 DEF SleepEnds, PollWakes, ReapEnds, UnlockEvents, transferVars
  <2>2. events' \in Thread \cup {NoThread}
    BY <1>1, <1>7 DEF SleepEnds, PollWakes, ReapEnds, UnlockEvents, TimeoutsTypeOK
  <2>3. at' \in [Thread -> {"idle", "looked", "late", "poll", "sleep", "reap", "end"}]
    BY <1>1, <1>7 DEF SleepEnds, PollWakes, ReapEnds, UnlockEvents, MoveTo, TimeoutsTypeOK
  <2>4. TimeoutsTypeOK' /\ OsInv'
    BY <1>1, <2>1, <2>2, <2>3 DEF TimeoutsTypeOK, OsInv, UsingTimerfd
  <2> QED BY <2>1, <2>4, FrameStep
<1>8. ASSUME NEW t \in UsbTransfer, ReapTransfer(h, t) PROVE TimeoutsInv'
  <2>1. t \in Listed /\ RemoveFromFlyingList(t) /\ UNCHANGED <<platform, threadVars>>
    BY <1>8 DEF ReapTransfer, Done, Listed
  <2> QED BY <2>1, RemoveStep
<1> QED BY <1>3, <1>4, <1>5, <1>6, <1>7, <1>8 DEF HandleEvents

\* The steps of a transfer keep the invariant.
LEMMA TransferStep ==
    ASSUME TimeoutsInv, NEW t \in UsbTransfer,
           \/ \E d \in Duration : SubmitTransfer(t, d)
           \/ \E ok \in BOOLEAN : Submitted(t, ok)
           \/ SubmitFails(t) \/ CancelFlying(t) \/ Finish(t)
    PROVE  TimeoutsInv'
<1>1. TimeoutsTypeOK /\ OsInv
  BY DEF TimeoutsInv
<1>2. ASSUME NEW d \in Duration, SubmitTransfer(t, d) PROVE TimeoutsInv'
  BY <1>2, SubmitStep
<1>3. CASE SubmitFails(t)
  <2>1. t \in Listed /\ RemoveFromFlyingList(t) /\ UNCHANGED <<platform, threadVars>>
    BY <1>3 DEF SubmitFails, Listed
  <2> QED BY <2>1, RemoveStep
<1>4. CASE CancelFlying(t) \/ Finish(t) \/ \E ok \in BOOLEAN : Submitted(t, ok)
  <2>1. UNCHANGED <<platform, list, left, handled, hasTimedOut, timer, at, wait, events>>
    BY <1>4 DEF CancelFlying, Finish, Submitted, threadVars
  <2>2. /\ phase' \in [UsbTransfer -> {"idle", "submitting", "refused", "flying", "done"}]
        /\ \A u \in UsbTransfer : phase'[u] # "idle" <=> phase[u] # "idle"
    BY <1>1, <1>4 DEF CancelFlying, Finish, Submitted, TimeoutsTypeOK
  <2>3. beingCancelled' \subseteq UsbTransfer /\ osHandled' \subseteq OsTimed
    BY <1>1, <1>4 DEF CancelFlying, Finish, Submitted, TimeoutsTypeOK
  <2>4. {u \in UsbTransfer : phase'[u] # "idle"} = {u \in UsbTransfer : phase[u] # "idle"}
    BY <2>2
  <2>5. TimeoutsTypeOK'
    BY <1>1, <2>1, <2>2, <2>3, <2>4 DEF TimeoutsTypeOK
  <2>6. OsInv'
    BY <1>1, <1>4 DEF OsInv, UsingTimerfd, CancelFlying, Finish, Submitted
  <2> QED BY <2>1, <2>5, <2>6, FrameStep
<1> QED BY <1>2, <1>3, <1>4

\* Nothing happens.
LEMMA Stutters == ASSUME TimeoutsInv, UNCHANGED timeoutsVars PROVE TimeoutsInv'
<1>1. UNCHANGED <<platform, phase, list, left, handled, hasTimedOut, osHandled,
                  beingCancelled, timer, at, wait, events>>
  BY DEF timeoutsVars, transferVars, threadVars
<1>2. TimeoutsTypeOK' /\ OsInv'
  BY <1>1 DEF TimeoutsInv, TimeoutsTypeOK, OsInv, UsingTimerfd
<1> QED BY <1>1, <1>2, FrameStep

(***************************************************************************)
(* The inductive invariant: the list is in order, what is handled has      *)
(* expired, and the timer covers the rest (io.c:1409-1448, 1516-1518).     *)
(***************************************************************************)
THEOREM TimeoutsInvariance == TimeoutsSpec => []TimeoutsInv
<1>1. TimeoutsInit => TimeoutsInv
  BY InitInv
<1>2. TimeoutsInv /\ [TimeoutsNext]_timeoutsVars => TimeoutsInv'
  <2> SUFFICES ASSUME TimeoutsInv, [TimeoutsNext]_timeoutsVars PROVE TimeoutsInv'
    OBVIOUS
  <2>1. ASSUME NEW h \in Thread, HandleEvents(h) PROVE TimeoutsInv'
    BY <2>1, ThreadStep
  <2>2. ASSUME NEW t \in UsbTransfer,
               \/ \E d \in Duration : SubmitTransfer(t, d)
               \/ \E ok \in BOOLEAN : Submitted(t, ok)
               \/ SubmitFails(t) \/ CancelFlying(t) \/ Finish(t)
        PROVE  TimeoutsInv'
    BY <2>2, TransferStep
  <2>3. CASE Tick
    BY <2>3, TickStep
  <2>4. CASE UNCHANGED timeoutsVars
    BY <2>4, Stutters
  <2> QED BY <2>1, <2>2, <2>3, <2>4 DEF TimeoutsNext
<1> QED BY <1>1, <1>2, PTL DEF TimeoutsSpec

----------------------------------------------------------------------------
(***************************************************************************)
(* However many transfers are added, removed and handled in whatever       *)
(* order, the list stays sorted and no timeout is later than what the      *)
(* timerfd is armed for, unless one that timed out stands first.           *)
(***************************************************************************)
THEOREM TheTimerCovers == TimeoutsSpec => []TimerCovers
<1>1. TimeoutsInv => TimerCovers
  BY Parts
<1> QED BY <1>1, TimeoutsInvariance, PTL

(***************************************************************************)
(* Whoever handles timeouts handles all that have expired.                 *)
(***************************************************************************)
THEOREM NoExpiredIsLeft == TimeoutsSpec => AllExpiredHandled
<1>1. ASSUME TimeoutsInv, [TimeoutsNext]_timeoutsVars
      PROVE  [\A h \in Thread : HandleTimeouts(h) \/ TimerFires(h) =>
                \A t \in UsbTransfer : Waiting(t) /\ left[t] = 0 => t \in handled']_timeoutsVars
  <2> SUFFICES ASSUME NEW h \in Thread, HandleTimeouts(h) \/ TimerFires(h),
                      NEW t \in UsbTransfer, Waiting(t), left[t] = 0
               PROVE  t \in handled'
    OBVIOUS
  <2>1. CancelDue
    BY DEF HandleTimeouts, TimerFires
  <2>2. t \in Due
    BY <1>1, ExpiredDue
  <2> QED BY <2>1, <2>2 DEF CancelDue
<1> QED BY <1>1, TimeoutsInvariance, PTL DEF TimeoutsSpec, AllExpiredHandled

(***************************************************************************)
(* A thread that goes to sleep without a timerfd sleeps no longer than any *)
(* transfer then on the list still has.                                    *)
(***************************************************************************)
THEOREM NoOneOversleeps == TimeoutsSpec => SleepsShortEnough
<1>1. ASSUME TimeoutsInv, [TimeoutsNext]_timeoutsVars
      PROVE  [\A h \in Thread : Look(h) /\ ~UsingTimerfd =>
                \A t \in UsbTransfer : Waiting(t) => wait'[h] <= left[t]]_timeoutsVars
  <2> SUFFICES ASSUME NEW h \in Thread, Look(h), ~UsingTimerfd,
                      NEW t \in UsbTransfer, Waiting(t)
               PROVE  wait'[h] <= left[t]
    OBVIOUS
  <2>1. NextTimeout <= left[t] /\ NextTimeout \in Nat
    BY <1>1, NextIsLeast, TimeoutsAssumption DEF Time
  <2>2. wait'[h] = IF NextTimeout < UserWait THEN NextTimeout ELSE UserWait
    BY <1>1 DEF Look, TimeoutsInv, TimeoutsTypeOK
  <2>3. UserWait \in Nat /\ left[t] \in Nat
    BY <1>1, TimeoutsAssumption DEF TimeoutsInv, TimeoutsTypeOK, Time
  <2> QED BY <2>1, <2>2, <2>3
<1> QED BY <1>1, TimeoutsInvariance, PTL DEF TimeoutsSpec, SleepsShortEnough
=============================================================================
