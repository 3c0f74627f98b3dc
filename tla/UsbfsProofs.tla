---------------------------- MODULE UsbfsProofs ----------------------------
(***************************************************************************)
(* Proofs about usbfs. Of the interfaces and the configuration of a device *)
(* (UsbfsDevice): where a call may be, that a claimed interface is the     *)
(* handle's, and that the configuration that is cached is the active one.  *)
(* Of a transfer of several URBs (UsbfsUrbs): that it is reported when all *)
(* its URBs are back, with all bytes that came in.                         *)
(***************************************************************************)
EXTENDS UsbfsDevice, UsbfsUrbs, FiniteSetTheorems, SequenceTheorems,
        WellFoundedInduction, TLAPS

ClaimOps == {"claim", "disconnectClaim"}
DriverOps == {"getDriver", "disconnect"}

\* What a thread may be doing about interface i, and what it is to do then.
Fits(what, i, then) ==
    \/ what \in ClaimOps /\ i \in Interface /\ then \in {"claim", "reclaim"}
    \/ what \in DriverOps /\ i \in Interface /\ then \in {"claim", "reclaim", "detach"}
    \/ what = "connect" /\ i \in Interface /\ then \in {"release", "attach"}
    \/ what = "use" /\ i \in Interface /\ then = "return"
    \/ what \in {"yield", "reset", "reclaim"} /\ i \in 0..LastInterface + 1 /\ then = "return"

\* The records that say where a thread is.
Op ==
    {Idle} \cup {Caching(c, h) : c \in DOMAIN Interfaces \cup {Unconfigured}, h \in Handle}
    \cup {Doing(what, h, i, then) :
            what \in ClaimOps \cup DriverOps
                     \cup {"connect", "use", "yield", "reset", "reclaim"},
            h \in Handle, i \in 0..LastInterface + 1,
            then \in {"claim", "reclaim", "detach", "release", "attach", "return"}}

\* A call on an interface is one of those that the code makes.
OpInv ==
    /\ op \in [Thread -> Op]
    /\ \A t \in Thread :
          op[t].do \notin {"none", "cache"} => Fits(op[t].do, op[t].i, op[t].then)

\* A call that runs is one on an open handle, and a closed handle has nothing.
OpenInv ==
    /\ \A t \in Thread : op[t] # Idle => op[t].h \in open
    /\ \A h \in Handle \ open : claimed[h] = {}
    /\ \A i \in Interface : driver[i] \in Handle => driver[i] \in open

\* Thread t is giving up the interfaces of h to reset the device, ...
Resets(t, h) == op[t].do \in {"yield", "reset"} /\ op[t].h = h

\* ... is claiming them again, ...
Reclaims(t, h) ==
    /\ op[t].do \in {"reclaim"} \cup ClaimOps \cup DriverOps /\ op[t].h = h
    /\ op[t].do = "reclaim" \/ op[t].then = "reclaim"

\* ... is giving one of them back to its kernel driver, ...
GivesBack(t, h) == op[t].do = "connect" /\ op[t].then = "release" /\ op[t].h = h

\* ... or is claiming one of them.
Claims(t, h) ==
    op[t].do \in ClaimOps \cup DriverOps /\ op[t].then = "claim" /\ op[t].h = h

\* These hold the handle's lock.
LockInv ==
    \A t \in Thread, h \in Handle :
        Claims(t, h) \/ Reclaims(t, h) \/ GivesBack(t, h) => lock[h] = t

\* Interface i is the handle's, or a thread is on its way to claim it again or to
\* clear its bit.
Held(h, i) ==
    \/ driver[i] = h
    \/ \E t \in Thread : Resets(t, h)
    \/ \E t \in Thread : Reclaims(t, h) /\ op[t].i <= i
    \/ \E t \in Thread : GivesBack(t, h) /\ op[t].i = i

\* What a handle has claimed is held for it.
OwnInv == ~gone => \A h \in Handle : \A i \in claimed[h] : Held(h, i)

\* The driver that a thread is about to disconnect is not usbfs.
DisconnectInv ==
    \A t \in Thread : op[t].do = "disconnect" => driver[op[t].i] \notin Handle

\* A device that is unplugged has no drivers.
GoneInv == gone => \A i \in Interface : driver[i] = "none"

\* The configuration that is cached, or is about to be.
CacheInv ==
    /\ \A t, u \in Thread : op[t].do = "cache" /\ op[u].do = "cache" => t = u
    /\ \A t \in Thread : op[t].do = "cache" => op[t].c \in {config, Unconfigured}
    /\ NoSetter => activeConfig \in {config, Unconfigured}

\* The inductive invariant, where the kernel and other processes do not interfere.
IInv == TypeOK /\ OpInv /\ OpenInv /\ LockInv /\ OwnInv /\ DisconnectInv /\ GoneInv

----------------------------------------------------------------------------
(* Records and steps of a thread.                                          *)

USE DEF Nobody, Idle, Doing, Caching

\* The assumptions on the constants, in the words of the proofs.
LEMMA Constants ==
    /\ LastInterface \in Nat /\ Drivers \subseteq Interface
    /\ Unconfigured \notin DOMAIN Interfaces
    /\ \A c \in DOMAIN Interfaces : Interfaces[c] \subseteq Interface
    /\ "none" \notin Handle /\ "kernel" \notin Handle /\ Nobody \notin Thread
<1>1. DOMAIN Interfaces \subseteq Nat
  BY ConstantsAssumption
<1>2. -1 \notin Nat
  OBVIOUS
<1> QED BY <1>1, <1>2, ConstantsAssumption DEF Interface, Unconfigured

\* What a thread that is not idle has in its record.
LEMMA OpShape ==
    ASSUME OpInv, NEW t \in Thread, op[t] # Idle
    PROVE  /\ op[t].do # "none" /\ op[t].h \in Handle
           /\ op[t].do = "cache" => /\ op[t] = Caching(op[t].c, op[t].h)
                                    /\ op[t].c \in DOMAIN Interfaces \cup {Unconfigured}
           /\ op[t].do # "cache" => /\ op[t] = Doing(op[t].do, op[t].h, op[t].i, op[t].then)
                                    /\ Fits(op[t].do, op[t].i, op[t].then)
<1>1. op[t] \in Op
  BY DEF OpInv
<1>2. CASE \E c \in DOMAIN Interfaces \cup {Unconfigured}, h \in Handle : op[t] = Caching(c, h)
  BY <1>2
<1>3. CASE \E what \in ClaimOps \cup DriverOps
                          \cup {"connect", "use", "yield", "reset", "reclaim"},
              h \in Handle, i \in 0..LastInterface + 1,
              then \in {"claim", "reclaim", "detach", "release", "attach", "return"} :
              op[t] = Doing(what, h, i, then)
  <2>1. PICK what \in ClaimOps \cup DriverOps
                          \cup {"connect", "use", "yield", "reset", "reclaim"},
              h \in Handle, i \in 0..LastInterface + 1,
              then \in {"claim", "reclaim", "detach", "release", "attach", "return"} :
              op[t] = Doing(what, h, i, then)
    BY <1>3
  <2>2. what \notin {"none", "cache"}
    BY DEF ClaimOps, DriverOps
  <2>3. op[t].do = what /\ op[t].h = h /\ op[t].i = i /\ op[t].then = then
    BY <2>1
  <2> QED BY <2>1, <2>2, <2>3 DEF OpInv
<1> QED BY <1>1, <1>2, <1>3, SMTT(30) DEF Op

\* What a thread that works on an interface has in its record, ...
LEMMA OpOn ==
    ASSUME OpInv, NEW t \in Thread,
           op[t].do \in {"claim", "disconnectClaim", "getDriver", "disconnect", "connect", "use"}
    PROVE  /\ op[t] = Doing(op[t].do, op[t].h, op[t].i, op[t].then)
           /\ Fits(op[t].do, op[t].i, op[t].then)
           /\ op[t].h \in Handle /\ op[t].i \in Interface /\ op[t] # Idle
<1>1. op[t] # Idle /\ op[t].do # "cache"
  OBVIOUS
<1>2. /\ op[t] = Doing(op[t].do, op[t].h, op[t].i, op[t].then)
      /\ Fits(op[t].do, op[t].i, op[t].then) /\ op[t].h \in Handle
  BY <1>1, OpShape
<1>3. op[t].i \in Interface
  BY <1>2 DEF Fits
<1> QED BY <1>1, <1>2, <1>3

\* ... and one that goes through the interfaces.
LEMMA OpThrough ==
    ASSUME OpInv, NEW t \in Thread, op[t].do \in {"yield", "reset", "reclaim"}
    PROVE  /\ op[t] = Doing(op[t].do, op[t].h, op[t].i, "return") /\ op[t] # Idle
           /\ op[t].h \in Handle /\ op[t].i \in 0..LastInterface + 1
<1>1. op[t] # Idle /\ op[t].do # "cache"
  OBVIOUS
<1>2. /\ op[t] = Doing(op[t].do, op[t].h, op[t].i, op[t].then)
      /\ Fits(op[t].do, op[t].i, op[t].then) /\ op[t].h \in Handle
  BY <1>1, OpShape
<1>3. op[t].i \in 0..LastInterface + 1 /\ op[t].then = "return"
  BY <1>2 DEF Fits, ClaimOps, DriverOps
<1> QED BY <1>1, <1>2, <1>3

\* An interface stays held in a step of thread t if what t did for it is done or
\* goes on.
LEMMA HeldStep ==
    ASSUME NEW t \in Thread, NEW h \in Handle, NEW i \in Interface, Held(h, i),
           \A u \in Thread : u # t => op'[u] = op[u],
           driver[i] = h => Held(h, i)',
           Resets(t, h) => Held(h, i)',
           Reclaims(t, h) /\ op[t].i <= i => Held(h, i)',
           GivesBack(t, h) /\ op[t].i = i => Held(h, i)'
    PROVE  Held(h, i)'
<1>1. CASE \E u \in Thread : u # t /\ (Resets(u, h) \/ (Reclaims(u, h) /\ op[u].i <= i)
                                        \/ (GivesBack(u, h) /\ op[u].i = i))
  <2>1. PICK u \in Thread : u # t /\ (Resets(u, h) \/ (Reclaims(u, h) /\ op[u].i <= i)
                                        \/ (GivesBack(u, h) /\ op[u].i = i))
    BY <1>1
  <2>2. op'[u] = op[u]
    BY <2>1
  <2> QED BY <2>1, <2>2 DEF Held, Resets, Reclaims, GivesBack
<1> QED BY <1>1 DEF Held

\* A thread goes on to do something else, or ends its call.
LEMMA OpStep ==
    ASSUME OpInv, NEW t \in Thread, NEW what, NEW h \in Handle, NEW i, NEW then,
           Fits(what, i, then), op' = [op EXCEPT ![t] = Doing(what, h, i, then)]
    PROVE  OpInv'
<1>1. Doing(what, h, i, then) \in Op
  <2>1. what \in ClaimOps \cup DriverOps \cup {"connect", "use", "yield", "reset", "reclaim"}
    BY DEF Fits
  <2>2. then \in {"claim", "reclaim", "detach", "release", "attach", "return"}
    BY DEF Fits
  <2>3. i \in 0..LastInterface + 1
    BY Constants DEF Fits, Interface
  <2> QED BY <2>1, <2>2, <2>3 DEF Op
<1>2. op' \in [Thread -> Op]
  BY <1>1 DEF OpInv
<1>3. ASSUME NEW u \in Thread, op'[u].do \notin {"none", "cache"}
      PROVE  Fits(op'[u].do, op'[u].i, op'[u].then)
  <2>1. CASE u = t
    <3>1. op'[u] = Doing(what, h, i, then)
      BY <2>1 DEF OpInv
    <3> QED BY <3>1
  <2>2. CASE u # t
    BY <1>3, <2>2 DEF OpInv
  <2> QED BY <2>1, <2>2
<1> QED BY <1>2, <1>3 DEF OpInv

\* A thread ends its call.
LEMMA IdleStep ==
    ASSUME OpInv, NEW t \in Thread, op' = [op EXCEPT ![t] = Idle]
    PROVE  OpInv'
<1>1. Idle \in Op /\ Idle.do = "none"
  BY DEF Op
<1> QED BY <1>1 DEF OpInv

----------------------------------------------------------------------------
(* Types, whatever happens.                                                *)

\* A driver that the kernel binds disturbs no call.
LEMMA KernelBindsTypes ==
    ASSUME TypeOK, OpInv, NEW i \in Interface, KernelBinds(i)
    PROVE  TypeOK' /\ OpInv'
<1>1. TypeOK'
  BY DEF KernelBinds, TypeOK, libVars, Present
<1>2. OpInv'
  BY DEF KernelBinds, OpInv
<1> QED BY <1>1, <1>2

\* Nor does the removal of the device, ...
LEMMA UnplugTypes ==
    ASSUME TypeOK, OpInv, Unplug
    PROVE  TypeOK' /\ OpInv'
<1>1. TypeOK'
  BY DEF Unplug, TypeOK, libVars, Present
<1>2. OpInv'
  BY DEF Unplug, OpInv
<1> QED BY <1>1, <1>2

\* ... or what the monitor makes of it.
LEMMA DisconnectedTypes ==
    ASSUME TypeOK, OpInv, Disconnected
    PROVE  TypeOK' /\ OpInv'
<1>1. TypeOK'
  BY DEF Disconnected, TypeOK, kernelVars, Present
<1>2. OpInv'
  BY DEF Disconnected, OpInv
<1> QED BY <1>1, <1>2

\* A handle is opened.
LEMMA OpenTypes ==
    ASSUME TypeOK, OpInv, NEW t \in Thread, NEW h \in Handle, Open(t, h)
    PROVE  TypeOK' /\ OpInv'
<1>1. TypeOK'
  BY DEF Open, TypeOK, kernelVars, Present
<1>2. OpInv'
  BY DEF Open, OpInv
<1> QED BY <1>1, <1>2

\* A handle that no call uses is closed.
LEMMA CloseTypes ==
    ASSUME TypeOK, OpInv, NEW t \in Thread, NEW h \in Handle, Close(t, h)
    PROVE  TypeOK' /\ OpInv'
<1>1. TypeOK'
  BY DEF Close, TypeOK, Present
<1>2. OpInv'
  BY DEF Close, OpInv
<1> QED BY <1>1, <1>2

\* Kernel drivers are to be detached by themselves, or not.
LEMMA SetAutoTypes ==
    ASSUME TypeOK, OpInv, NEW t \in Thread, NEW h \in Handle, SetAuto(t, h)
    PROVE  TypeOK' /\ OpInv'
<1>1. TypeOK'
  BY DEF SetAuto, TypeOK, kernelVars, Present
<1>2. OpInv'
  BY DEF SetAuto, OpInv
<1> QED BY <1>1, <1>2

\* A claim begins with the ioctl for it, or by detaching the driver.
LEMMA ClaimTypes ==
    ASSUME TypeOK, OpInv, NEW t \in Thread, NEW h \in Handle, NEW i \in Interface,
           Claim(t, h, i)
    PROVE  TypeOK' /\ OpInv'
<1>1. TypeOK'
  BY DEF Claim, Calls, Locked, ClaimWith, DetachAndClaim, TypeOK, kernelVars, Present
<1>2. OpInv'
  <2>1. PICK what \in {"claim", "disconnectClaim", "getDriver"} :
           op' = [op EXCEPT ![t] = Doing(what, h, i, "claim")]
    BY DEF Claim, ClaimWith, DetachAndClaim
  <2>2. Fits(what, i, "claim")
    BY DEF Fits, ClaimOps, DriverOps
  <2> QED BY <2>1, <2>2, OpStep
<1> QED BY <1>1, <1>2

\* The ioctl of a claim ends the call, or lets a reset go on with the next interface.
LEMMA ClaimIoctlTypes ==
    ASSUME TypeOK, OpInv, NEW t \in Thread, ClaimIoctl(t) \/ DisconnectClaimIoctl(t)
    PROVE  TypeOK' /\ OpInv'
<1>a. PICK ok \in BOOLEAN :
        /\ Claimed(t, ok)
        /\ driver' = IF ok THEN [driver EXCEPT ![op[t].i] = op[t].h] ELSE driver
        /\ ok => driver[op[t].i] \in {"none", "kernel", op[t].h} /\ ~gone
  <2>1. CASE ClaimIoctl(t)
    BY <2>1 DEF ClaimIoctl, Takes
  <2>2. CASE DisconnectClaimIoctl(t)
    BY <2>2 DEF DisconnectClaimIoctl, Disconnectable
  <2> QED BY <2>1, <2>2
<1>b. /\ op[t].do \in ClaimOps
      /\ op[t] = Doing(op[t].do, op[t].h, op[t].i, op[t].then)
      /\ op[t].h \in Handle /\ op[t].i \in Interface /\ op[t] # Idle
      /\ Fits(op[t].do, op[t].i, op[t].then)
  BY OpOn DEF ClaimIoctl, DisconnectClaimIoctl, ClaimOps
<1>1. TypeOK'
  <2>3. driver' \in [Interface -> {"none", "kernel"} \cup Handle]
    BY <1>a, <1>b DEF TypeOK
  <2>5. claimed' \in [Handle -> SUBSET Interface] /\ lock' \in [Handle -> Thread \cup {Nobody}]
    BY <1>a, <1>b DEF TypeOK, Claimed, AfterReclaim
  <2> QED BY <2>3, <2>5 DEF TypeOK, ClaimIoctl, DisconnectClaimIoctl
<1>2. OpInv'
  <2>3. CASE op' = [op EXCEPT ![t] = Idle]
    BY <2>3, IdleStep
  <2>4. CASE op' = [op EXCEPT ![t] = Doing("reclaim", op[t].h, op[t].i + 1, "return")]
    <3>1. Fits("reclaim", op[t].i + 1, "return")
      BY <1>b, Constants DEF Fits, Interface
    <3> QED BY <1>b, <2>4, <3>1, OpStep
  <2> QED BY <1>a, <2>3, <2>4 DEF Claimed
<1> QED BY <1>1, <1>2

\* A release ends at once, or attaches the driver again.
LEMMA ReleaseTypes ==
    ASSUME TypeOK, OpInv, NEW t \in Thread, NEW h \in Handle, NEW i \in Interface,
           Release(t, h, i)
    PROVE  TypeOK' /\ OpInv'
<1>1. TypeOK'
  BY DEF Release, ReleaseIoctl, AfterRelease, Locked, TypeOK, Present
<1>2. OpInv'
  <2>1. CASE op' = [op EXCEPT ![t] = Doing("connect", h, i, "release")]
    <3>1. Fits("connect", i, "release")
      BY DEF Fits
    <3> QED BY <2>1, <3>1, OpStep
  <2>2. CASE UNCHANGED op
    BY <2>2 DEF OpInv
  <2> QED BY <2>1, <2>2 DEF Release, AfterRelease
<1> QED BY <1>1, <1>2

\* The calls whose first step only records what they are about.
LEMMA StartsTypes ==
    ASSUME TypeOK, OpInv, NEW t \in Thread, NEW h \in Handle, NEW i \in Interface,
           Detach(t, h, i) \/ Attach(t, h, i) \/ SetInterface(t, h, i) \/ ClearHalt(t, h, i)
    PROVE  TypeOK' /\ OpInv'
<1>1. TypeOK'
  BY DEF Detach, Attach, SetInterface, ClearHalt, Calls, TypeOK, kernelVars, libVars,
     Present
<1>2. OpInv'
  <2>1. CASE op' = [op EXCEPT ![t] = Doing("getDriver", h, i, "detach")]
    <3>1. Fits("getDriver", i, "detach")
      BY DEF Fits, DriverOps
    <3> QED BY <2>1, <3>1, OpStep
  <2>2. CASE op' = [op EXCEPT ![t] = Doing("connect", h, i, "attach")]
    <3>1. Fits("connect", i, "attach")
      BY DEF Fits
    <3> QED BY <2>2, <3>1, OpStep
  <2>3. CASE op' = [op EXCEPT ![t] = Doing("use", h, i, "return")]
    <3>1. Fits("use", i, "return")
      BY DEF Fits
    <3> QED BY <2>3, <3>1, OpStep
  <2> QED BY <2>1, <2>2, <2>3 DEF Detach, Attach, SetInterface, ClearHalt
<1> QED BY <1>1, <1>2

\* A detach spares usbfs, or goes on to disconnect the driver.
LEMMA GetDriverTypes ==
    ASSUME TypeOK, OpInv, NEW t \in Thread, GetDriver(t)
    PROVE  TypeOK' /\ OpInv'
<1>a. op[t] = Doing("getDriver", op[t].h, op[t].i, op[t].then) /\ op[t].h \in Handle
        /\ Fits("getDriver", op[t].i, op[t].then) /\ op[t].i \in Interface
  BY OpOn DEF GetDriver
<1>b. \/ op' = [op EXCEPT ![t] = Idle]
      \/ /\ op' = [op EXCEPT ![t] = Doing("claim", op[t].h, op[t].i, op[t].then)]
         /\ op[t].then # "detach"
      \/ /\ op' = [op EXCEPT ![t] = Doing("disconnect", op[t].h, op[t].i, op[t].then)]
         /\ ~SparesUsbfs(op[t].i)
  <2>5. /\ [op[t] EXCEPT !.do = "claim"] = Doing("claim", op[t].h, op[t].i, op[t].then)
        /\ [op[t] EXCEPT !.do = "disconnect"] = Doing("disconnect", op[t].h, op[t].i, op[t].then)
    BY <1>a
  <2> QED BY <2>5 DEF GetDriver, Detached
<1>1. TypeOK'
  BY DEF GetDriver, SparesUsbfs, Detached, TypeOK, kernelVars, libVars, Present
<1>2. OpInv'
  <2>2. CASE op' = [op EXCEPT ![t] = Idle]
    BY <2>2, IdleStep
  <2>3. CASE op' = [op EXCEPT ![t] = Doing("claim", op[t].h, op[t].i, op[t].then)]
             /\ op[t].then # "detach"
    <3>1. Fits("claim", op[t].i, op[t].then)
      BY <1>a, <2>3 DEF Fits, ClaimOps, DriverOps
    <3> QED BY <1>a, <2>3, <3>1, OpStep
  <2>4. CASE op' = [op EXCEPT ![t] = Doing("disconnect", op[t].h, op[t].i, op[t].then)]
    <3>1. Fits("disconnect", op[t].i, op[t].then)
      BY <1>a DEF Fits, ClaimOps, DriverOps
    <3> QED BY <1>a, <2>4, <3>1, OpStep
  <2> QED BY <1>b, <2>2, <2>3, <2>4
<1> QED BY <1>1, <1>2

\* The driver is disconnected, and a claim goes on.
LEMMA DisconnectTypes ==
    ASSUME TypeOK, OpInv, NEW t \in Thread, Disconnect(t)
    PROVE  TypeOK' /\ OpInv'
<1>a. op[t] = Doing("disconnect", op[t].h, op[t].i, op[t].then) /\ op[t].h \in Handle
        /\ Fits("disconnect", op[t].i, op[t].then) /\ op[t].i \in Interface
  BY OpOn DEF Disconnect
<1>1. TypeOK'
  BY DEF Disconnect, Claimed, AfterReclaim, Detached, TypeOK, Present
<1>2. OpInv'
  <2>2. CASE op' = [op EXCEPT ![t] = Idle]
    BY <2>2, IdleStep
  <2>3. CASE op' = [op EXCEPT ![t] = Doing("claim", op[t].h, op[t].i, op[t].then)]
             /\ op[t].then # "detach"
    <3>1. Fits("claim", op[t].i, op[t].then)
      BY <1>a, <2>3 DEF Fits, ClaimOps, DriverOps
    <3> QED BY <1>a, <2>3, <3>1, OpStep
  <2>4. CASE op' = [op EXCEPT ![t] = Doing("reclaim", op[t].h, op[t].i + 1, "return")]
    <3>1. Fits("reclaim", op[t].i + 1, "return")
      BY <1>a, Constants DEF Fits, Interface
    <3> QED BY <1>a, <2>4, <3>1, OpStep
  <2>5. [op[t] EXCEPT !.do = "claim"] = Doing("claim", op[t].h, op[t].i, op[t].then)
    BY <1>a
  <2>6. CASE gone /\ op[t].then # "detach"
    BY <2>2, <2>4, <2>6 DEF Disconnect, Claimed
  <2> QED BY <2>2, <2>3, <2>5, <2>6 DEF Disconnect, Detached
<1> QED BY <1>1, <1>2

\* The driver is attached again.
LEMMA ConnectTypes ==
    ASSUME TypeOK, OpInv, NEW t \in Thread, Connect(t)
    PROVE  TypeOK' /\ OpInv'
<1>1. TypeOK'
  BY Constants DEF Connect, TypeOK, Present
<1>2. OpInv'
  BY DEF Connect, OpInv, Op, ClaimOps
<1> QED BY <1>1, <1>2

\* A reset begins.
LEMMA ResetTypes ==
    ASSUME TypeOK, OpInv, NEW t \in Thread, NEW h \in Handle, Reset(t, h)
    PROVE  TypeOK' /\ OpInv'
<1>1. TypeOK'
  BY DEF Reset, Calls, TypeOK, kernelVars, libVars, Present
<1>2. OpInv'
  BY Constants DEF Reset, Calls, OpInv, Op, ClaimOps, Fits
<1> QED BY <1>1, <1>2

\* A reset releases an interface, or goes on to the ioctl.
LEMMA YieldTypes ==
    ASSUME TypeOK, OpInv, NEW t \in Thread, Yield(t)
    PROVE  TypeOK' /\ OpInv'
<1>a. /\ op[t] = Doing("yield", op[t].h, op[t].i, "return") /\ op[t].h \in Handle
      /\ op[t].i \in 0..LastInterface + 1
  BY OpThrough DEF Yield
<1>b. \/ op' = [op EXCEPT ![t] = Doing("reset", op[t].h, op[t].i, "return")] /\ UNCHANGED driver
      \/ /\ ~(op[t].i > LastInterface)
         /\ op' = [op EXCEPT ![t] = Doing("yield", op[t].h, op[t].i + 1, "return")]
         /\ \/ UNCHANGED driver
            \/ driver[op[t].i] = op[t].h /\ driver' = [driver EXCEPT ![op[t].i] = "none"]
  BY <1>a DEF Yield, OpInv
<1>1. TypeOK'
  BY DEF Yield, TypeOK, libVars, Present
<1>2. OpInv'
  <2>2. CASE op' = [op EXCEPT ![t] = Doing("reset", op[t].h, op[t].i, "return")]
    <3>2. Fits("reset", op[t].i, "return")
      BY <1>a DEF Fits
    <3> QED BY <1>a, <2>2, <3>2, OpStep
  <2>3. CASE op' = [op EXCEPT ![t] = Doing("yield", op[t].h, op[t].i + 1, "return")]
             /\ ~(op[t].i > LastInterface)
    <3>2. Fits("yield", op[t].i + 1, "return")
      BY <1>a, <2>3, Constants DEF Fits
    <3> QED BY <1>a, <2>3, <3>2, OpStep
  <2> QED BY <1>b, <2>2, <2>3
<1> QED BY <1>1, <1>2

\* The ioctl of a reset fails, or takes the lock to claim the interfaces again.
LEMMA ResetIoctlTypes ==
    ASSUME TypeOK, OpInv, NEW t \in Thread, ResetIoctl(t)
    PROVE  TypeOK' /\ OpInv'
<1>a. /\ op[t] = Doing("reset", op[t].h, op[t].i, "return") /\ op[t].h \in Handle
      /\ op[t].i \in 0..LastInterface + 1
  BY OpThrough DEF ResetIoctl
<1>1. TypeOK'
  BY DEF ResetIoctl, Locked, TypeOK, Present
<1>2. OpInv'
  BY Constants DEF ResetIoctl, Locked, OpInv, Op, ClaimOps, Fits
<1> QED BY <1>1, <1>2

\* A reset claims an interface again, leaves one out, or ends.
LEMMA ReclaimTypes ==
    ASSUME TypeOK, OpInv, NEW t \in Thread, Reclaim(t)
    PROVE  TypeOK' /\ OpInv'
<1>a. /\ op[t] = Doing("reclaim", op[t].h, op[t].i, "return") /\ op[t].h \in Handle
      /\ op[t].i \in 0..LastInterface + 1
  BY OpThrough DEF Reclaim
<1>1. TypeOK'
  BY DEF Reclaim, DetachAndClaim, TypeOK, kernelVars, Present
<1>2. OpInv'
  <2>2. CASE op' = [op EXCEPT ![t] = Idle]
    BY <2>2, IdleStep
  <2>3. CASE op' = [op EXCEPT ![t] = Doing("reclaim", op[t].h, op[t].i + 1, "return")]
             /\ ~(op[t].i > LastInterface)
    <3>1. Fits("reclaim", op[t].i + 1, "return")
      BY <1>a, <2>3, Constants DEF Fits
    <3> QED BY <1>a, <2>3, <3>1, OpStep
  <2>4. ASSUME NEW what \in {"disconnectClaim", "getDriver"}, ~(op[t].i > LastInterface),
               op' = [op EXCEPT ![t] = Doing(what, op[t].h, op[t].i, "reclaim")]
        PROVE  OpInv'
    <3>1. Fits(what, op[t].i, "reclaim")
      BY <1>a, <2>4, Constants DEF Fits, ClaimOps, DriverOps, Interface
    <3> QED BY <1>a, <2>4, <3>1, OpStep
  <2> QED BY <2>2, <2>3, <2>4 DEF Reclaim, DetachAndClaim
<1> QED BY <1>1, <1>2

\* A configuration is set or asked for.
LEMMA ConfigsTypes ==
    ASSUME TypeOK, OpInv, NEW t \in Thread, NEW h \in Handle,
           NEW c \in DOMAIN Interfaces \cup {Unconfigured},
           SetConfiguration(t, h, c) \/ GetConfiguration(t, h)
    PROVE  TypeOK' /\ OpInv'
<1>1. TypeOK'
  BY DEF SetConfiguration, GetConfiguration, Reported, TypeOK, kernelVars, libVars, Present
<1>2. OpInv'
  <2>1. PICK d \in DOMAIN Interfaces \cup {Unconfigured} : op' = [op EXCEPT ![t] = Caching(d, h)]
    BY DEF SetConfiguration, GetConfiguration, Reported, TypeOK
  <2>2. Caching(d, h) \in Op
    BY DEF Op
  <2>3. op' \in [Thread -> Op]
    BY <2>1, <2>2 DEF OpInv
  <2>4. op'[t].do = "cache" /\ \A u \in Thread : u # t => op'[u] = op[u]
    BY <2>1 DEF OpInv
  <2> QED BY <2>3, <2>4 DEF OpInv
<1> QED BY <1>1, <1>2

\* It is cached.
LEMMA CacheTypes ==
    ASSUME TypeOK, OpInv, NEW t \in Thread, Cache(t)
    PROVE  TypeOK' /\ OpInv'
<1>1. TypeOK'
  <2>1. op[t].c \in DOMAIN Interfaces \cup {Unconfigured}
    <3>1. op[t] # Idle /\ op[t].do = "cache"
      BY DEF Cache
    <3> QED BY <3>1, OpShape
  <2> QED BY <2>1 DEF Cache, Cached, TypeOK, kernelVars
<1>2. OpInv'
  BY SMTT(30) DEF Cache, Cached, OpInv, Op
<1> QED BY <1>1, <1>2

\* The kernel claims an interface for an ioctl that is about it.
LEMMA UseTypes ==
    ASSUME TypeOK, OpInv, NEW t \in Thread, Use(t)
    PROVE  TypeOK' /\ OpInv'
<1>1. TypeOK'
  <2>1. op[t].h \in Handle /\ op[t].i \in Interface
    BY OpOn DEF Use
  <2>2. driver' \in [Interface -> {"none", "kernel"} \cup Handle]
    BY <2>1 DEF Use, TypeOK
  <2> QED BY <2>2 DEF Use, TypeOK, libVars
<1>2. OpInv'
  <2>1. Idle \in Op /\ Idle.do = "none"
    BY DEF Op, Idle, Doing
  <2>2. op' = [op EXCEPT ![t] = Idle]
    BY DEF Use
  <2> QED BY <2>1, <2>2 DEF OpInv
<1> QED BY <1>1, <1>2

----------------------------------------------------------------------------
(* Each step keeps the invariant.                                          *)

\* A driver is bound only to an interface that has none, so it takes nothing from a handle.
LEMMA KernelBindsStep ==
    ASSUME IInv, Faults \subseteq {"twoSetters"}, NEW i \in Interface, KernelBinds(i)
    PROVE  IInv'
<1> USE DEF IInv
<1>1. TypeOK' /\ OpInv'
  BY KernelBindsTypes
<1>2. OpenInv'
  BY Constants DEF KernelBinds, OpenInv, libVars
<1>3. LockInv'
  BY DEF KernelBinds, LockInv, Claims, Reclaims, GivesBack, libVars
<1>4. OwnInv'
  BY Constants DEF KernelBinds, OwnInv, Held, Claims, Resets, Reclaims, GivesBack, libVars
<1>5. DisconnectInv'
  BY Constants DEF KernelBinds, DisconnectInv
<1>6. GoneInv'
  BY DEF KernelBinds, GoneInv
<1> QED BY <1>1, <1>2, <1>3, <1>4, <1>5, <1>6

\* An unplugged device has no drivers, and OwnInv asks nothing of it.
LEMMA UnplugStep ==
    ASSUME IInv, Faults \subseteq {"twoSetters"}, Unplug
    PROVE  IInv'
<1> USE DEF IInv
<1>1. TypeOK' /\ OpInv'
  BY UnplugTypes
<1>2. OpenInv'
  BY Constants DEF Unplug, OpenInv, libVars
<1>3. LockInv'
  BY DEF Unplug, LockInv, Claims, Reclaims, GivesBack, libVars
<1>4. OwnInv'
  BY DEF Unplug, OwnInv, Held, Claims, Resets, Reclaims, GivesBack
<1>5. DisconnectInv'
  BY Constants DEF Unplug, DisconnectInv, OpInv, Fits
<1>6. GoneInv'
  BY DEF Unplug, GoneInv
<1> QED BY <1>1, <1>2, <1>3, <1>4, <1>5, <1>6

\* What the monitor learns changes no interface.
LEMMA DisconnectedStep ==
    ASSUME IInv, Faults \subseteq {"twoSetters"}, Disconnected
    PROVE  IInv'
<1> USE DEF IInv
<1>1. TypeOK' /\ OpInv'
  BY DisconnectedTypes
<1>2. OpenInv'
  BY DEF Disconnected, OpenInv, kernelVars
<1>3. LockInv'
  BY DEF Disconnected, LockInv, Claims, Reclaims, GivesBack
<1>4. OwnInv'
  BY DEF Disconnected, OwnInv, Held, Claims, Resets, Reclaims, GivesBack, kernelVars
<1>5. DisconnectInv'
  BY DEF Disconnected, DisconnectInv, kernelVars
<1>6. GoneInv'
  BY DEF Disconnected, GoneInv, kernelVars
<1> QED BY <1>1, <1>2, <1>3, <1>4, <1>5, <1>6

\* A handle opens with nothing claimed.
LEMMA OpenStep ==
    ASSUME IInv, Faults \subseteq {"twoSetters"}, NEW t \in Thread, NEW h \in Handle,
           Open(t, h)
    PROVE  IInv'
<1> USE DEF IInv
<1>1. TypeOK' /\ OpInv'
  BY OpenTypes
<1>2. OpenInv'
  BY DEF Open, OpenInv, kernelVars
<1>3. LockInv'
  BY DEF Open, LockInv, Claims, Reclaims, GivesBack
<1>4. OwnInv'
  BY DEF Open, OwnInv, Held, Claims, Resets, Reclaims, GivesBack, kernelVars
<1>5. DisconnectInv'
  BY DEF Open, DisconnectInv, kernelVars
<1>6. GoneInv'
  BY DEF Open, GoneInv, kernelVars
<1> QED BY <1>1, <1>2, <1>3, <1>4, <1>5, <1>6

\* A handle that is closed gives up what it has, and no other handle's.
LEMMA CloseStep ==
    ASSUME IInv, Faults \subseteq {"twoSetters"}, NEW t \in Thread, NEW h \in Handle,
           Close(t, h)
    PROVE  IInv'
<1> USE DEF IInv
<1>1. TypeOK' /\ OpInv'
  BY CloseTypes
<1>2. OpenInv'
  BY Constants DEF Close, OpenInv, TypeOK
<1>3. LockInv'
  BY DEF Close, LockInv, Claims, Reclaims, GivesBack
<1>4. OwnInv'
  BY DEF Close, OwnInv, Held, Claims, Resets, Reclaims, GivesBack, TypeOK
<1>5. DisconnectInv'
  BY DEF Close, DisconnectInv, OpInv, Fits
<1>6. GoneInv'
  BY DEF Close, GoneInv
<1> QED BY <1>1, <1>2, <1>3, <1>4, <1>5, <1>6

\* The flag is read by later steps only.
LEMMA SetAutoStep ==
    ASSUME IInv, Faults \subseteq {"twoSetters"}, NEW t \in Thread, NEW h \in Handle,
           SetAuto(t, h)
    PROVE  IInv'
<1> USE DEF IInv
<1>1. TypeOK' /\ OpInv'
  BY SetAutoTypes
<1>2. OpenInv'
  BY DEF SetAuto, OpenInv, kernelVars
<1>3. LockInv'
  BY DEF SetAuto, LockInv, Claims, Reclaims, GivesBack
<1>4. OwnInv'
  BY DEF SetAuto, OwnInv, Held, Claims, Resets, Reclaims, GivesBack, kernelVars
<1>5. DisconnectInv'
  BY DEF SetAuto, DisconnectInv, kernelVars
<1>6. GoneInv'
  BY DEF SetAuto, GoneInv, kernelVars
<1> QED BY <1>1, <1>2, <1>3, <1>4, <1>5, <1>6

\* The thread that claims has the lock, which nobody had.
LEMMA ClaimStep ==
    ASSUME IInv, Faults \subseteq {"twoSetters"}, NEW t \in Thread, NEW h \in Handle,
           NEW i \in Interface, Claim(t, h, i)
    PROVE  IInv'
<1> USE DEF IInv
<1>1. TypeOK' /\ OpInv'
  BY ClaimTypes
<1>2. OpenInv'
  BY DEF Claim, Calls, Locked, ClaimWith, DetachAndClaim, OpenInv, kernelVars
<1>3. LockInv'
  BY Constants DEF Claim, Calls, Locked, ClaimWith, DetachAndClaim, LockInv, Claims,
     Reclaims, GivesBack, TypeOK
<1>4. OwnInv'
  BY DEF Claim, Calls, Locked, ClaimWith, DetachAndClaim, OwnInv, Held, Claims, Resets,
     Reclaims, GivesBack, kernelVars, ClaimOps, DriverOps
<1>5. DisconnectInv'
  BY DEF Claim, Calls, Locked, ClaimWith, DetachAndClaim, DisconnectInv, kernelVars
<1>6. GoneInv'
  BY DEF Claim, Calls, Locked, ClaimWith, DetachAndClaim, GoneInv, kernelVars
<1> QED BY <1>1, <1>2, <1>3, <1>4, <1>5, <1>6

\* The bit is set only together with the driver, and in a reset it is
\* cleared when the interface could not be claimed again.
LEMMA ClaimIoctlStep ==
    ASSUME IInv, Faults \subseteq {"twoSetters"}, NEW t \in Thread,
           ClaimIoctl(t) \/ DisconnectClaimIoctl(t)
    PROVE  IInv'
<1> USE DEF IInv
<1>1. TypeOK' /\ OpInv'
  BY ClaimIoctlTypes
<1>a. PICK ok \in BOOLEAN :
        /\ Claimed(t, ok)
        /\ driver' = IF ok THEN [driver EXCEPT ![op[t].i] = op[t].h] ELSE driver
        /\ ok => driver[op[t].i] \in {"none", "kernel", op[t].h} /\ ~gone
  <2>1. CASE ClaimIoctl(t)
    BY <2>1 DEF ClaimIoctl, Takes
  <2>2. CASE DisconnectClaimIoctl(t)
    BY <2>2 DEF DisconnectClaimIoctl, Disconnectable
  <2> QED BY <2>1, <2>2
<1>b. /\ op[t].do \in ClaimOps
      /\ op[t] = Doing(op[t].do, op[t].h, op[t].i, op[t].then)
      /\ op[t].h \in Handle /\ op[t].i \in Interface /\ op[t] # Idle
      /\ Fits(op[t].do, op[t].i, op[t].then)
  BY OpOn DEF ClaimIoctl, DisconnectClaimIoctl, ClaimOps
<1>2. OpenInv'
  BY DEF ClaimIoctl, DisconnectClaimIoctl, Disconnectable, Takes, Claimed, AfterReclaim,
     Undisturbed, OpenInv, OpInv, TypeOK
<1>3. LockInv'
  BY DEF ClaimIoctl, DisconnectClaimIoctl, Disconnectable, Takes, Claimed, AfterReclaim,
     Undisturbed, LockInv, Claims, Reclaims, GivesBack, OpInv, TypeOK, ClaimOps, DriverOps,
     Fits
<1>4. OwnInv'
  <2> SUFFICES ASSUME ~gone, NEW g \in Handle, NEW j \in claimed'[g] PROVE Held(g, j)'
    BY DEF OwnInv, ClaimIoctl, DisconnectClaimIoctl
  <2>1. j \in Interface
    BY <1>1 DEF TypeOK
  <2>2. CASE g = op[t].h /\ j = op[t].i /\ ok
    <3>1. driver'[j] = g
      BY <1>a, <1>b, <2>2, <2>1 DEF TypeOK
    <3> QED BY <3>1 DEF Held
  <2>3. CASE ~(g = op[t].h /\ j = op[t].i /\ ok)
    <3>1. j \in claimed[g]
      BY <1>a, <1>b, <2>3 DEF Claimed, AfterReclaim, TypeOK
    <3>2. Held(g, j)
      BY <3>1 DEF OwnInv
    <3>3. \A u \in Thread : u # t => op'[u] = op[u]
      BY <1>a DEF Claimed, OpInv
    <3>4. driver[j] = g => driver'[j] = g
      BY <1>a, <1>b, <2>1, Constants DEF TypeOK
    <3>5. ~Resets(t, g) /\ ~GivesBack(t, g)
      BY <1>b DEF Resets, GivesBack, ClaimOps
    <3>6. ASSUME Reclaims(t, g), op[t].i <= j PROVE Held(g, j)'
      <4>1. g = op[t].h /\ op[t].then = "reclaim"
        BY <1>b, <3>6 DEF Reclaims, ClaimOps
      <4>2. j # op[t].i
        BY <1>a, <1>b, <2>3, <4>1 DEF Claimed, AfterReclaim, TypeOK
      <4>3. op'[t] = Doing("reclaim", g, op[t].i + 1, "return")
        BY <1>a, <1>b, <4>1 DEF Claimed, OpInv
      <4>4. op[t].i + 1 <= j
        BY <1>b, <2>1, <3>6, <4>2, Constants DEF Interface
      <4>5. Reclaims(t, g)' /\ op'[t].i <= j
        BY <4>3, <4>4 DEF Reclaims
      <4> QED BY <4>5 DEF Held
    <3> QED BY <2>1, <3>2, <3>3, <3>4, <3>5, <3>6, HeldStep DEF Held
  <2> QED BY <2>2, <2>3
<1>5. DisconnectInv'
  BY DEF ClaimIoctl, DisconnectClaimIoctl, Disconnectable, Takes, Claimed, AfterReclaim,
     Undisturbed, DisconnectInv, OpInv, TypeOK, Fits
<1>6. GoneInv'
  BY DEF ClaimIoctl, DisconnectClaimIoctl, Disconnectable, Takes, Claimed, AfterReclaim,
     Undisturbed, GoneInv
<1> QED BY <1>1, <1>2, <1>3, <1>4, <1>5, <1>6

\* The interface is given up first; until the bit is cleared, the thread that has
\* the lock gives it back.
LEMMA ReleaseStep ==
    ASSUME IInv, Faults \subseteq {"twoSetters"}, NEW t \in Thread, NEW h \in Handle,
           NEW i \in Interface, Release(t, h, i)
    PROVE  IInv'
<1> USE DEF IInv
<1>1. TypeOK' /\ OpInv'
  BY ReleaseTypes
<1>2. OpenInv'
  BY Constants DEF Release, ReleaseIoctl, AfterRelease, Locked, OpenInv, OpInv, TypeOK
<1>3. LockInv'
  BY Constants DEF Release, ReleaseIoctl, AfterRelease, Locked, LockInv, Claims, Reclaims,
     GivesBack, OpInv, TypeOK
<1>4. OwnInv'
  <2> SUFFICES ASSUME ~gone, NEW g \in Handle, NEW j \in claimed'[g] PROVE Held(g, j)'
    BY DEF OwnInv, Release
  <2>1. j \in Interface /\ j \in claimed[g]
    BY <1>1 DEF TypeOK, Release, AfterRelease
  <2>2. Held(g, j)
    BY <2>1 DEF OwnInv
  <2>3. \A u \in Thread : u # t => op'[u] = op[u]
    BY DEF Release, AfterRelease, OpInv
  <2>4. ~Resets(t, g) /\ ~GivesBack(t, g) /\ ~Reclaims(t, g)
    BY DEF Release, Resets, GivesBack, Reclaims, ClaimOps, DriverOps
  <2>5. ASSUME driver[j] = g PROVE Held(g, j)'
    <3>1. CASE j # i
      <4>1. driver'[j] = g
        BY <2>5, <2>1, <3>1 DEF Release, ReleaseIoctl, TypeOK
      <4> QED BY <4>1 DEF Held
    <3>2. CASE j = i
      <4>1. g = h
        BY <2>5, <3>2 DEF Release, ReleaseIoctl
      <4>2. op'[t] = Doing("connect", h, i, "release")
        BY <2>1, <3>2, <4>1 DEF Release, AfterRelease, OpInv, TypeOK
      <4>3. GivesBack(t, g)' /\ op'[t].i = j
        BY <3>2, <4>1, <4>2 DEF GivesBack
      <4> QED BY <4>3 DEF Held
    <3> QED BY <3>1, <3>2
  <2> QED BY <2>1, <2>2, <2>3, <2>4, <2>5, HeldStep
<1>5. DisconnectInv'
  BY DEF Release, ReleaseIoctl, AfterRelease, Locked, DisconnectInv, OpInv
<1>6. GoneInv'
  BY DEF Release, ReleaseIoctl, AfterRelease, Locked, GoneInv
<1> QED BY <1>1, <1>2, <1>3, <1>4, <1>5, <1>6

\* These calls begin without the lock and hold nothing.
LEMMA StartsStep ==
    ASSUME IInv, Faults \subseteq {"twoSetters"}, NEW t \in Thread, NEW h \in Handle,
           NEW i \in Interface,
           Detach(t, h, i) \/ Attach(t, h, i) \/ SetInterface(t, h, i) \/ ClearHalt(t, h, i)
    PROVE  IInv'
<1> USE DEF IInv
<1>1. TypeOK' /\ OpInv'
  BY StartsTypes
<1>2. OpenInv'
  BY DEF Detach, Attach, SetInterface, ClearHalt, Calls, OpenInv, OpInv, kernelVars, libVars
<1>3. LockInv'
  BY DEF Detach, Attach, SetInterface, ClearHalt, Calls, LockInv, Claims, Reclaims,
     GivesBack, OpInv, libVars
<1>4. OwnInv'
  <2> SUFFICES ASSUME ~gone, NEW g \in Handle, NEW j \in claimed[g] PROVE Held(g, j)'
    BY DEF OwnInv, Detach, Attach, SetInterface, ClearHalt, kernelVars, libVars
  <2>1. j \in Interface
    BY DEF TypeOK
  <2>2. Held(g, j)
    BY DEF OwnInv
  <2>3. op[t] = Idle /\ driver' = driver /\ \A u \in Thread : u # t => op'[u] = op[u]
    BY DEF Detach, Attach, SetInterface, ClearHalt, Calls, kernelVars, OpInv
  <2>4. ~Resets(t, g) /\ ~GivesBack(t, g) /\ ~Reclaims(t, g)
    BY <2>3 DEF Resets, GivesBack, Reclaims, ClaimOps, DriverOps
  <2> QED BY <2>1, <2>2, <2>3, <2>4, HeldStep DEF Held
<1>5. DisconnectInv'
  BY DEF Detach, Attach, SetInterface, ClearHalt, Calls, DisconnectInv, OpInv, kernelVars
<1>6. GoneInv'
  BY DEF Detach, Attach, SetInterface, ClearHalt, Calls, GoneInv, kernelVars
<1> QED BY <1>1, <1>2, <1>3, <1>4, <1>5, <1>6

\* What is to be disconnected next is not usbfs.
LEMMA GetDriverStep ==
    ASSUME IInv, Faults \subseteq {"twoSetters"}, NEW t \in Thread, GetDriver(t)
    PROVE  IInv'
<1> USE DEF IInv
<1>1. TypeOK' /\ OpInv'
  BY GetDriverTypes
<1>a. op[t] = Doing("getDriver", op[t].h, op[t].i, op[t].then) /\ op[t].h \in Handle
        /\ Fits("getDriver", op[t].i, op[t].then) /\ op[t].i \in Interface
  BY OpOn DEF GetDriver
<1>b. \/ op' = [op EXCEPT ![t] = Idle]
      \/ /\ op' = [op EXCEPT ![t] = Doing("claim", op[t].h, op[t].i, op[t].then)]
         /\ op[t].then # "detach"
      \/ /\ op' = [op EXCEPT ![t] = Doing("disconnect", op[t].h, op[t].i, op[t].then)]
         /\ ~SparesUsbfs(op[t].i)
  <2>5. /\ [op[t] EXCEPT !.do = "claim"] = Doing("claim", op[t].h, op[t].i, op[t].then)
        /\ [op[t] EXCEPT !.do = "disconnect"] = Doing("disconnect", op[t].h, op[t].i, op[t].then)
    BY <1>a
  <2> QED BY <2>5 DEF GetDriver, Detached
<1>2. OpenInv'
  BY DEF GetDriver, SparesUsbfs, Detached, OpenInv, kernelVars, libVars
<1>3. LockInv'
  BY DEF GetDriver, SparesUsbfs, Detached, LockInv, Claims, Reclaims, GivesBack, libVars,
     ClaimOps, DriverOps
<1>4. OwnInv'
  BY DEF GetDriver, SparesUsbfs, Detached, OwnInv, Held, Claims, Resets, Reclaims,
     GivesBack, kernelVars, libVars, ClaimOps, DriverOps
<1>5. DisconnectInv'
  <2>1. ASSUME NEW u \in Thread, op'[u].do = "disconnect" PROVE driver'[op'[u].i] \notin Handle
    <3>1. driver' = driver
      BY DEF GetDriver, kernelVars
    <3>2. CASE u # t
      BY <2>1, <3>1, <3>2 DEF DisconnectInv, GetDriver, OpInv
    <3>3. CASE u = t
      <4>1. op'[t] = Doing("disconnect", op[t].h, op[t].i, op[t].then) /\ ~SparesUsbfs(op[t].i)
        BY <1>b, <2>1, <3>3 DEF OpInv
      <4>2. op'[t].i = op[t].i
        BY <4>1
      <4> QED BY <1>a, <3>1, <3>3, <4>1, <4>2, Constants DEF SparesUsbfs, GoneInv
    <3> QED BY <3>2, <3>3
  <2> QED BY <2>1 DEF DisconnectInv
<1>6. GoneInv'
  BY DEF GetDriver, SparesUsbfs, Detached, GoneInv, kernelVars
<1> QED BY <1>1, <1>2, <1>3, <1>4, <1>5, <1>6

\* A driver that is disconnected is no handle, so no claim is lost.
LEMMA DisconnectStep ==
    ASSUME IInv, Faults \subseteq {"twoSetters"}, NEW t \in Thread, Disconnect(t)
    PROVE  IInv'
<1> USE DEF IInv
<1>1. TypeOK' /\ OpInv'
  BY DisconnectTypes
<1>a. op[t] = Doing("disconnect", op[t].h, op[t].i, op[t].then) /\ op[t].h \in Handle
        /\ Fits("disconnect", op[t].i, op[t].then) /\ op[t].i \in Interface
  BY OpOn DEF Disconnect
<1>2. OpenInv'
  BY Constants, OpShape DEF Disconnect, Claimed, AfterReclaim, Detached, OpenInv, OpInv,
     TypeOK
<1>3. LockInv'
  BY OpShape DEF Disconnect, Claimed, AfterReclaim, Detached, LockInv, Claims, Reclaims,
     GivesBack, OpInv, TypeOK, ClaimOps, DriverOps, Fits
<1>4. OwnInv'
  BY Constants, OpShape, SMTT(30)
     DEF Disconnect, Claimed, AfterReclaim, Detached, LockInv, OwnInv, Held, Claims, Resets,
     Reclaims, GivesBack, OpInv, TypeOK, ClaimOps, DriverOps, DisconnectInv
<1>5. DisconnectInv'
  BY Constants, OpShape DEF Disconnect, Claimed, AfterReclaim, Detached, DisconnectInv,
     OpInv, TypeOK, Fits
<1>6. GoneInv'
  BY DEF Disconnect, Claimed, AfterReclaim, Detached, GoneInv, TypeOK
<1> QED BY <1>1, <1>2, <1>3, <1>4, <1>5, <1>6

\* The kernel's driver takes an interface that has none; its bit is cleared.
LEMMA ConnectStep ==
    ASSUME IInv, Faults \subseteq {"twoSetters"}, NEW t \in Thread, Connect(t)
    PROVE  IInv'
<1> USE DEF IInv
<1>1. TypeOK' /\ OpInv'
  BY ConnectTypes
<1>2. OpenInv'
  BY Constants DEF Connect, OpenInv, TypeOK
<1>3. LockInv'
  BY DEF Connect, LockInv, Claims, Reclaims, GivesBack, OpInv, TypeOK, ClaimOps, DriverOps
<1>4. OwnInv'
  BY Constants, OpShape, SMTT(30)
     DEF Connect, OwnInv, Held, Claims, Resets, Reclaims, GivesBack, OpInv, TypeOK, ClaimOps,
     DriverOps, Fits
<1>5. DisconnectInv'
  BY Constants DEF Connect, DisconnectInv
<1>6. GoneInv'
  BY DEF Connect, GoneInv
<1> QED BY <1>1, <1>2, <1>3, <1>4, <1>5, <1>6

\* From now on the handle holds its interfaces by this reset.
LEMMA ResetStep ==
    ASSUME IInv, Faults \subseteq {"twoSetters"}, NEW t \in Thread, NEW h \in Handle,
           Reset(t, h)
    PROVE  IInv'
<1> USE DEF IInv
<1>1. TypeOK' /\ OpInv'
  BY ResetTypes
<1>2. OpenInv'
  BY DEF Reset, Calls, OpenInv, kernelVars, libVars
<1>3. LockInv'
  BY DEF Reset, Calls, LockInv, Claims, Reclaims, GivesBack, libVars
<1>4. OwnInv'
  BY DEF Reset, Calls, OwnInv, Held, Claims, Resets, Reclaims, GivesBack, kernelVars,
     libVars, ClaimOps, DriverOps
<1>5. DisconnectInv'
  BY DEF Reset, Calls, DisconnectInv, kernelVars
<1>6. GoneInv'
  BY DEF Reset, Calls, GoneInv, kernelVars
<1> QED BY <1>1, <1>2, <1>3, <1>4, <1>5, <1>6

\* The reset goes on holding what it has released.
LEMMA YieldStep ==
    ASSUME IInv, Faults \subseteq {"twoSetters"}, NEW t \in Thread, Yield(t)
    PROVE  IInv'
<1> USE DEF IInv
<1>1. TypeOK' /\ OpInv'
  BY YieldTypes
<1>a. /\ op[t] = Doing("yield", op[t].h, op[t].i, "return") /\ op[t].h \in Handle
      /\ op[t].i \in 0..LastInterface + 1
  BY OpThrough DEF Yield
<1>b. \/ op' = [op EXCEPT ![t] = Doing("reset", op[t].h, op[t].i, "return")] /\ UNCHANGED driver
      \/ /\ ~(op[t].i > LastInterface)
         /\ op' = [op EXCEPT ![t] = Doing("yield", op[t].h, op[t].i + 1, "return")]
         /\ \/ UNCHANGED driver
            \/ driver[op[t].i] = op[t].h /\ driver' = [driver EXCEPT ![op[t].i] = "none"]
  BY <1>a DEF Yield, OpInv
<1>2. OpenInv'
  BY Constants, OpShape DEF Yield, OpenInv, OpInv, TypeOK, libVars
<1>3. LockInv'
  BY OpShape DEF Yield, LockInv, Claims, Reclaims, GivesBack, OpInv, libVars, Fits
<1>4. OwnInv'
  <2> SUFFICES ASSUME ~gone, NEW g \in Handle, NEW j \in claimed[g] PROVE Held(g, j)'
    BY DEF OwnInv, Yield, libVars
  <2>1. j \in Interface
    BY DEF TypeOK
  <2>2. Held(g, j)
    BY DEF OwnInv
  <2>3. \A u \in Thread : u # t => op'[u] = op[u]
    BY <1>b DEF OpInv
  <2>5. CASE g = op[t].h
    <3>1. op'[t] = Doing("reset", g, op[t].i, "return")
          \/ op'[t] = Doing("yield", g, op[t].i + 1, "return")
      BY <1>b, <2>5 DEF OpInv
    <3>2. Resets(t, g)'
      BY <3>1 DEF Resets
    <3> QED BY <3>2 DEF Held
  <2>6. CASE g # op[t].h
    <3>1. driver[j] = g => driver'[j] = g
      BY <1>a, <1>b, <2>1, <2>6 DEF TypeOK
    <3>2. ~Resets(t, g) /\ ~GivesBack(t, g) /\ ~Reclaims(t, g)
      BY <2>6 DEF Resets, GivesBack, Reclaims
    <3> QED BY <2>1, <2>2, <2>3, <3>1, <3>2, HeldStep DEF Held
  <2> QED BY <2>5, <2>6
<1>5. DisconnectInv'
  BY OpShape DEF Yield, DisconnectInv, OpInv, TypeOK, Fits
<1>6. GoneInv'
  BY DEF Yield, GoneInv, TypeOK
<1> QED BY <1>1, <1>2, <1>3, <1>4, <1>5, <1>6

\* All interfaces lose usbfs, those of this handle alone, and are to be claimed
\* again from the first on.
LEMMA ResetIoctlStep ==
    ASSUME IInv, Faults \subseteq {"twoSetters"}, NEW t \in Thread, ResetIoctl(t)
    PROVE  IInv'
<1> USE DEF IInv
<1>1. TypeOK' /\ OpInv'
  BY ResetIoctlTypes
<1>a. /\ op[t] = Doing("reset", op[t].h, op[t].i, "return") /\ op[t].h \in Handle
      /\ op[t].i \in 0..LastInterface + 1
  BY OpThrough DEF ResetIoctl
<1>2. OpenInv'
  BY Constants DEF ResetIoctl, Locked, OpenInv, OpInv
<1>3. LockInv'
  BY Constants DEF ResetIoctl, Locked, LockInv, Claims, Reclaims, GivesBack, OpInv, TypeOK,
     ClaimOps, DriverOps
<1>4. OwnInv'
  <2> SUFFICES ASSUME ~gone, NEW g \in Handle, NEW j \in claimed[g] PROVE Held(g, j)'
    BY DEF OwnInv, ResetIoctl, libVars
  <2>1. j \in Interface
    BY DEF TypeOK
  <2>2. Held(g, j)
    BY DEF OwnInv
  <2>3. /\ \A k \in Interface : driver[k] \notin Handle \ {op[t].h}
        /\ op' = [op EXCEPT ![t] = Doing("reclaim", op[t].h, 0, "return")]
    BY DEF ResetIoctl
  <2>4. \A u \in Thread : u # t => op'[u] = op[u]
    BY <2>3 DEF OpInv
  <2>5. CASE g = op[t].h
    <3>1. op'[t] = Doing("reclaim", g, 0, "return")
      BY <2>3, <2>5 DEF OpInv
    <3>2. Reclaims(t, g)' /\ op'[t].i <= j
      BY <2>1, <3>1 DEF Reclaims, Interface
    <3> QED BY <3>2 DEF Held
  <2>6. CASE g # op[t].h
    <3>1. driver[j] # g
      BY <2>1, <2>3, <2>6
    <3>2. ~Resets(t, g) /\ ~GivesBack(t, g) /\ ~Reclaims(t, g)
      BY <2>6 DEF Resets, GivesBack, Reclaims
    <3> QED BY <2>1, <2>2, <2>4, <3>1, <3>2, HeldStep
  <2> QED BY <2>5, <2>6
<1>5. DisconnectInv'
  BY DEF ResetIoctl, Locked, DisconnectInv, OpInv, Fits
<1>6. GoneInv'
  BY DEF ResetIoctl, Locked, GoneInv
<1> QED BY <1>1, <1>2, <1>3, <1>4, <1>5, <1>6

\* The interface that a reset passes by is not claimed; the others are held by its
\* going on.
LEMMA ReclaimStep ==
    ASSUME IInv, Faults \subseteq {"twoSetters"}, NEW t \in Thread, Reclaim(t)
    PROVE  IInv'
<1> USE DEF IInv
<1>1. TypeOK' /\ OpInv'
  BY ReclaimTypes
<1>a. /\ op[t] = Doing("reclaim", op[t].h, op[t].i, "return") /\ op[t].h \in Handle
      /\ op[t].i \in 0..LastInterface + 1
  BY OpThrough DEF Reclaim
<1>2. OpenInv'
  BY DEF Reclaim, DetachAndClaim, OpenInv, OpInv, kernelVars
<1>3. LockInv'
  BY DEF Reclaim, DetachAndClaim, LockInv, Claims, Reclaims, GivesBack, OpInv, TypeOK,
     ClaimOps, DriverOps
<1>4. OwnInv'
  <2> SUFFICES ASSUME ~gone, NEW g \in Handle, NEW j \in claimed[g] PROVE Held(g, j)'
    BY DEF OwnInv, Reclaim, kernelVars
  <2>1. j \in Interface
    BY DEF TypeOK
  <2>2. Held(g, j)
    BY DEF OwnInv
  <2>3. driver' = driver /\ \A u \in Thread : u # t => op'[u] = op[u]
    BY DEF Reclaim, kernelVars, OpInv
  <2>4. ~Resets(t, g) /\ ~GivesBack(t, g)
    BY <1>a DEF Resets, GivesBack
  <2>5. ASSUME Reclaims(t, g), op[t].i <= j PROVE Held(g, j)'
    <3>1. g = op[t].h /\ ~(op[t].i > LastInterface)
      BY <1>a, <2>1, <2>5, Constants DEF Reclaims, Interface
    <3>2. CASE op[t].i \in claimed[g]
      <4>1. PICK what \in {"disconnectClaim", "getDriver"} :
               op' = [op EXCEPT ![t] = Doing(what, g, op[t].i, "reclaim")]
        BY <3>1, <3>2 DEF Reclaim, DetachAndClaim
      <4>2. op'[t] = Doing(what, g, op[t].i, "reclaim")
        BY <4>1 DEF OpInv
      <4>3. Reclaims(t, g)' /\ op'[t].i <= j
        BY <2>5, <4>2 DEF Reclaims, ClaimOps, DriverOps
      <4> QED BY <4>3 DEF Held
    <3>3. CASE op[t].i \notin claimed[g]
      <4>1. op'[t] = Doing("reclaim", g, op[t].i + 1, "return")
        BY <3>1, <3>3 DEF Reclaim, OpInv
      <4>2. op[t].i + 1 <= j
        BY <1>a, <2>1, <2>5, <3>3 DEF Interface
      <4>3. Reclaims(t, g)' /\ op'[t].i <= j
        BY <4>1, <4>2 DEF Reclaims
      <4> QED BY <4>3 DEF Held
    <3> QED BY <3>2, <3>3
  <2> QED BY <2>1, <2>2, <2>3, <2>4, <2>5, HeldStep DEF Held
<1>5. DisconnectInv'
  BY DEF Reclaim, DetachAndClaim, DisconnectInv, OpInv, kernelVars
<1>6. GoneInv'
  BY DEF Reclaim, DetachAndClaim, GoneInv, kernelVars
<1> QED BY <1>1, <1>2, <1>3, <1>4, <1>5, <1>6

\* No interface of the old configuration has a driver.
LEMMA ConfigsStep ==
    ASSUME IInv, Faults \subseteq {"twoSetters"}, NEW t \in Thread, NEW h \in Handle,
           NEW c \in DOMAIN Interfaces \cup {Unconfigured},
           SetConfiguration(t, h, c) \/ GetConfiguration(t, h)
    PROVE  IInv'
<1> USE DEF IInv
<1>1. TypeOK' /\ OpInv'
  BY ConfigsTypes
<1>2. OpenInv'
  BY DEF SetConfiguration, GetConfiguration, Reported, OpenInv, OpInv, kernelVars, libVars
<1>3. LockInv'
  BY DEF SetConfiguration, GetConfiguration, Reported, LockInv, Claims, Reclaims, GivesBack,
     OpInv, libVars, ClaimOps, DriverOps
<1>4. OwnInv'
  <2> SUFFICES ASSUME ~gone, NEW g \in Handle, NEW j \in claimed[g] PROVE Held(g, j)'
    BY DEF OwnInv, SetConfiguration, GetConfiguration, libVars
  <2>1. j \in Interface
    BY DEF TypeOK
  <2>2. Held(g, j)
    BY DEF OwnInv
  <2>3. op[t] = Idle /\ driver' = driver /\ \A u \in Thread : u # t => op'[u] = op[u]
    BY DEF SetConfiguration, GetConfiguration, kernelVars, OpInv
  <2>4. ~Resets(t, g) /\ ~GivesBack(t, g) /\ ~Reclaims(t, g)
    BY <2>3 DEF Resets, GivesBack, Reclaims, ClaimOps, DriverOps
  <2> QED BY <2>1, <2>2, <2>3, <2>4, HeldStep DEF Held
<1>5. DisconnectInv'
  BY DEF SetConfiguration, GetConfiguration, Reported, DisconnectInv, OpInv, kernelVars
<1>6. GoneInv'
  BY DEF SetConfiguration, GetConfiguration, Reported, GoneInv, kernelVars
<1> QED BY <1>1, <1>2, <1>3, <1>4, <1>5, <1>6

\* The cache has nothing to do with interfaces.
LEMMA CacheStep ==
    ASSUME IInv, Faults \subseteq {"twoSetters"}, NEW t \in Thread, Cache(t)
    PROVE  IInv'
<1> USE DEF IInv
<1>1. TypeOK' /\ OpInv'
  BY CacheTypes
<1>2. OpenInv'
  BY DEF Cache, Cached, OpenInv, kernelVars
<1>3. LockInv'
  BY DEF Cache, Cached, LockInv, Claims, Reclaims, GivesBack, ClaimOps, DriverOps
<1>4. OwnInv'
  BY DEF Cache, Cached, OwnInv, Held, Claims, Resets, Reclaims, GivesBack, kernelVars,
     ClaimOps, DriverOps
<1>5. DisconnectInv'
  BY DEF Cache, Cached, DisconnectInv, kernelVars
<1>6. GoneInv'
  BY DEF Cache, Cached, GoneInv, kernelVars
<1> QED BY <1>1, <1>2, <1>3, <1>4, <1>5, <1>6

\* usbfs takes an interface that is free or the handle's already.
LEMMA UseStep ==
    ASSUME IInv, Faults \subseteq {"twoSetters"}, NEW t \in Thread, Use(t)
    PROVE  IInv'
<1> USE DEF IInv
<1>1. TypeOK' /\ OpInv'
  BY UseTypes
<1>2. OpenInv'
  BY DEF Use, Takes, Undisturbed, OpenInv, libVars
<1>3. LockInv'
  BY DEF Use, Takes, Undisturbed, LockInv, Claims, Reclaims, GivesBack, libVars, ClaimOps,
     DriverOps
<1>4. OwnInv'
  BY Constants DEF Use, Takes, Undisturbed, OwnInv, Held, Claims, Resets, Reclaims,
     GivesBack, libVars, ClaimOps, DriverOps
<1>5. DisconnectInv'
  BY DEF Use, Takes, Undisturbed, DisconnectInv
<1>6. GoneInv'
  BY DEF Use, Takes, Undisturbed, GoneInv
<1> QED BY <1>1, <1>2, <1>3, <1>4, <1>5, <1>6

\* There is an interface.
LEMMA AnInterface == 0 \in Interface
BY Constants DEF Interface

\* No step leaves the types.
LEMMA TypesStep == ASSUME TypeOK, OpInv, [Next]_vars PROVE TypeOK' /\ OpInv'
<1>1. CASE UNCHANGED vars
  BY <1>1 DEF vars, libVars, kernelVars, TypeOK, OpInv
<1>2. CASE Kernel
  BY <1>2, KernelBindsTypes, UnplugTypes, DisconnectedTypes DEF Kernel
<1>3. ASSUME NEW t \in Thread, Library(t) PROVE TypeOK' /\ OpInv'
  BY <1>3, ClaimIoctlTypes, GetDriverTypes, DisconnectTypes, ConnectTypes, YieldTypes,
     ResetIoctlTypes, ReclaimTypes, CacheTypes, UseTypes DEF Library
<1>4. ASSUME NEW t \in Thread, NEW h \in Handle, Call(t, h) PROVE TypeOK' /\ OpInv'
  <2>1. CASE Open(t, h) \/ Close(t, h) \/ SetAuto(t, h) \/ Reset(t, h)
    BY <2>1, OpenTypes, CloseTypes, SetAutoTypes, ResetTypes
  <2>2. CASE GetConfiguration(t, h)
    <3>1. Unconfigured \in DOMAIN Interfaces \cup {Unconfigured}
      OBVIOUS
    <3> QED BY <2>2, <3>1, ConfigsTypes
  <2>3. CASE \E c \in DOMAIN Interfaces \cup {Unconfigured} : SetConfiguration(t, h, c)
    BY <2>3, ConfigsTypes
  <2>4. ASSUME NEW i \in Interface,
               \/ Claim(t, h, i) \/ Release(t, h, i) \/ Detach(t, h, i) \/ Attach(t, h, i)
               \/ SetInterface(t, h, i) \/ ClearHalt(t, h, i)
        PROVE  TypeOK' /\ OpInv'
    BY <2>4, ClaimTypes, ReleaseTypes, StartsTypes
  <2> QED BY <1>4, <2>1, <2>2, <2>3, <2>4 DEF Call
<1> QED BY <1>1, <1>2, <1>3, <1>4 DEF Next

\* The invariant holds at first, ...
LEMMA InitStep == Init => IInv
<1> SUFFICES ASSUME Init PROVE IInv
  OBVIOUS
<1>1. TypeOK
  BY Constants DEF Init, TypeOK, Present
<1>2. OpInv
  BY DEF Init, OpInv, Op
<1>3. \A i \in Interface : driver[i] \notin Handle
  BY Constants DEF Init
<1>4. OpenInv
  BY <1>3 DEF Init, OpenInv
<1>5. LockInv
  BY DEF Init, LockInv, Claims, Reclaims, GivesBack, ClaimOps, DriverOps
<1>6. OwnInv /\ DisconnectInv /\ GoneInv
  BY DEF Init, OwnInv, DisconnectInv, GoneInv
<1> QED BY <1>1, <1>2, <1>4, <1>5, <1>6 DEF IInv

\* ... when nothing happens, ...
LEMMA StutterStep == ASSUME IInv, UNCHANGED vars PROVE IInv'
<1>1. UNCHANGED <<system, attached, activeConfig, open, claimed, auto, lock, op, config,
                  driver, probing, gone>>
  BY DEF vars, libVars, kernelVars
<1>2. TypeOK' /\ OpInv'
  BY <1>1 DEF IInv, TypeOK, OpInv
<1>3. OpenInv' /\ LockInv' /\ DisconnectInv' /\ GoneInv'
  BY <1>1 DEF IInv, OpenInv, LockInv, DisconnectInv, GoneInv, Claims, Reclaims, GivesBack
<1>4. OwnInv'
  BY <1>1 DEF IInv, OwnInv, Held, Resets, Reclaims, GivesBack
<1> QED BY <1>2, <1>3, <1>4 DEF IInv

\* ... and after every step, when the kernel and others do not interfere.
LEMMA NextStep ==
    ASSUME IInv, Faults \subseteq {"twoSetters"}, [Next]_vars
    PROVE  IInv'
<1>1. CASE UNCHANGED vars
  BY <1>1, StutterStep
<1>2. CASE Kernel
  BY <1>2, KernelBindsStep, UnplugStep, DisconnectedStep DEF Kernel
<1>3. ASSUME NEW t \in Thread, Library(t) PROVE IInv'
  BY <1>3, ClaimIoctlStep, GetDriverStep, DisconnectStep, ConnectStep, YieldStep,
     ResetIoctlStep, ReclaimStep, CacheStep, UseStep DEF Library
<1>4. ASSUME NEW t \in Thread, NEW h \in Handle, Call(t, h) PROVE IInv'
  <2>1. CASE Open(t, h) \/ Close(t, h) \/ SetAuto(t, h) \/ Reset(t, h)
    BY <2>1, OpenStep, CloseStep, SetAutoStep, ResetStep
  <2>2. CASE GetConfiguration(t, h)
    BY <2>2, ConfigsStep
  <2>3. CASE \E c \in DOMAIN Interfaces \cup {Unconfigured} : SetConfiguration(t, h, c)
    BY <2>3, ConfigsStep
  <2>4. ASSUME NEW i \in Interface,
               \/ Claim(t, h, i) \/ Release(t, h, i) \/ Detach(t, h, i) \/ Attach(t, h, i)
               \/ SetInterface(t, h, i) \/ ClearHalt(t, h, i)
        PROVE  IInv'
    BY <2>4, ClaimStep, ReleaseStep, StartsStep
  <2> QED BY <1>4, <2>1, <2>2, <2>3, <2>4 DEF Call
<1> QED BY <1>1, <1>2, <1>3, <1>4 DEF Next

\* Whatever happens, the library and the kernel keep their types, and a call
\* on an interface is at a step of the function that it entered, with what is to
\* follow it (libusb_claim_interface, libusb_detach_kernel_driver, op_reset_device).
THEOREM Types == Spec => [](TypeOK /\ OpInv)
<1>1. Init => TypeOK /\ OpInv
  BY InitStep DEF IInv
<1>2. TypeOK /\ OpInv /\ [Next]_vars => (TypeOK /\ OpInv)'
  BY TypesStep
<1> QED BY <1>1, <1>2, PTL DEF Spec

\* The inductive invariant, when no reset fails or is shared with another handle
\* and no driver changes under a detach. Two threads may set the configuration.
THEOREM Invariance == Faults \subseteq {"twoSetters"} => (Spec => []IInv)
<1> SUFFICES ASSUME Faults \subseteq {"twoSetters"} PROVE Spec => []IInv
  OBVIOUS
<1>1. IInv /\ [Next]_vars => IInv'
  BY NextStep
<1> QED BY <1>1, InitStep, PTL DEF Spec

\* Nobody is giving up the interface or claiming it again, so it is owned.
LEMMA HeldIsOwned ==
    ASSUME IInv, NEW h \in Handle, NEW i \in claimed[h], ~gone, ~Yielding(h)
    PROVE  driver[i] = h
<1>1. Held(h, i)
  BY DEF IInv, OwnInv
<1>2. ASSUME NEW t \in Thread, Resets(t, h) \/ Reclaims(t, h) \/ GivesBack(t, h)
      PROVE  Yielding(h)
  <2>1. op[t].do # "none" /\ op[t].h = h
    BY <1>2 DEF Resets, Reclaims, GivesBack, ClaimOps, DriverOps
  <2> QED BY <1>2, <2>1 DEF Resets, Reclaims, GivesBack, Yielding, ClaimOps, DriverOps
<1> QED BY <1>1, <1>2 DEF Held

\* The bits of claimed_interfaces that libusb_claim_interface sets and
\* libusb_release_interface clears agree with the kernel: an interface that a
\* handle has claimed is bound to its usbfs, except while the handle is being
\* reset or an interface is given back to its driver.
THEOREM ClaimsOwned == Faults \subseteq {"twoSetters"} => (Spec => []ClaimedIsOwned)
<1> SUFFICES ASSUME Faults \subseteq {"twoSetters"} PROVE Spec => []ClaimedIsOwned
  OBVIOUS
<1>1. IInv => ClaimedIsOwned
  BY HeldIsOwned DEF ClaimedIsOwned, IInv, TypeOK
<1> QED BY <1>1, Invariance, PTL

\* No step takes an interface from the handle that has claimed it, unless the
\* device goes, the bit is cleared, or the handle itself yields it: a detach by
\* another handle spares usbfs (op_detach_kernel_driver), a claim does not succeed.
THEOREM KeepsClaims == Faults \subseteq {"twoSetters"} => (Spec => ClaimsKept)
<1> SUFFICES ASSUME Faults \subseteq {"twoSetters"} PROVE Spec => ClaimsKept
  OBVIOUS
<1> DEFINE Kept == \A h \in Handle, i \in Interface :
                      i \in claimed[h] /\ driver[i] = h /\ driver'[i] # h =>
                          gone' \/ i \notin claimed'[h] \/ Yielding(h)'
<1>1. IInv' => Kept
  <2> SUFFICES ASSUME IInv', NEW h \in Handle, NEW i \in claimed'[h], ~gone', ~Yielding(h)'
               PROVE  driver'[i] = h
    OBVIOUS
  <2>1. Held(h, i)'
    BY DEF IInv, OwnInv
  <2>2. ASSUME NEW t \in Thread, (Resets(t, h) \/ Reclaims(t, h) \/ GivesBack(t, h))'
        PROVE  Yielding(h)'
    <3>1. op'[t].do # "none" /\ op'[t].h = h
      BY <2>2 DEF Resets, Reclaims, GivesBack, ClaimOps, DriverOps
    <3> QED BY <2>2, <3>1 DEF Resets, Reclaims, GivesBack, Yielding, ClaimOps, DriverOps
  <2> QED BY <2>1, <2>2 DEF Held
<1>2. IInv /\ IInv' /\ [Next]_vars => [Kept]_vars
  BY <1>1
<1> QED BY <1>2, Invariance, PTL DEF Spec, ClaimsKept

----------------------------------------------------------------------------
(* The active configuration.                                               *)

\* A step that has no part in setting or reading the configuration.
Apart ==
    /\ UNCHANGED <<config, activeConfig>>
    /\ \A t \in Thread : op[t].do = "cache" \/ op'[t].do = "cache" => op'[t] = op[t]

\* Such a step keeps the cache as it is.
LEMMA ApartStep == ASSUME CacheInv, Apart PROVE CacheInv'
BY DEF CacheInv, Apart, NoSetter

\* A thread goes on to something other than caching.
LEMMA GoesOn ==
    ASSUME OpInv, NEW t \in Thread, NEW x, op' = [op EXCEPT ![t] = x],
           op[t].do # "cache", x.do # "cache", UNCHANGED <<config, activeConfig>>
    PROVE  Apart
BY DEF Apart, OpInv

\* The steps of a call have no part in it but for the one that caches, ...
LEMMA LibraryApart ==
    ASSUME OpInv, NEW t \in Thread, Library(t), ~Cache(t) PROVE Apart
<1>1. CASE ClaimIoctl(t) \/ DisconnectClaimIoctl(t)
  <2>1. op[t].do # "cache" /\ UNCHANGED <<config, activeConfig>>
    BY <1>1 DEF ClaimIoctl, DisconnectClaimIoctl
  <2>2. PICK ok \in BOOLEAN : Claimed(t, ok)
    <3>1. CASE ClaimIoctl(t)
      BY <3>1 DEF ClaimIoctl, Takes
    <3>2. CASE DisconnectClaimIoctl(t)
      BY <3>2 DEF DisconnectClaimIoctl
    <3> QED BY <1>1, <3>1, <3>2
  <2>3. \/ op' = [op EXCEPT ![t] = Idle]
        \/ op' = [op EXCEPT ![t] = Doing("reclaim", op[t].h, op[t].i + 1, "return")]
    BY <2>2 DEF Claimed
  <2> QED BY <2>1, <2>3, GoesOn
<1>2. CASE GetDriver(t) \/ Disconnect(t)
  <2>1. op[t].do \in DriverOps /\ UNCHANGED <<config, activeConfig>>
    BY <1>2 DEF GetDriver, Disconnect, DriverOps, libVars, kernelVars
  <2>2. op[t] = Doing(op[t].do, op[t].h, op[t].i, op[t].then)
    BY <2>1, OpOn DEF DriverOps
  <2>3. /\ [op[t] EXCEPT !.do = "claim"].do = "claim"
        /\ [op[t] EXCEPT !.do = "disconnect"].do = "disconnect"
    BY <2>2
  <2>4. ASSUME NEW x, op' = [op EXCEPT ![t] = x], x.do # "cache" PROVE Apart
    BY <2>1, <2>4, GoesOn DEF DriverOps
  <2>5. Idle.do # "cache" /\ Doing("reclaim", op[t].h, op[t].i + 1, "return").do # "cache"
    OBVIOUS
  <2>6. CASE GetDriver(t)
    <3>1. \/ op' = [op EXCEPT ![t] = Idle]
          \/ op' = [op EXCEPT ![t] = [op[t] EXCEPT !.do = "claim"]]
          \/ op' = [op EXCEPT ![t] = [op[t] EXCEPT !.do = "disconnect"]]
      BY <2>6 DEF GetDriver, Detached
    <3> HIDE DEF Idle, Doing
    <3> QED BY <2>3, <2>4, <2>5, <3>1
  <2>7. CASE Disconnect(t)
    <3>1. \/ op' = [op EXCEPT ![t] = Idle]
          \/ op' = [op EXCEPT ![t] = [op[t] EXCEPT !.do = "claim"]]
          \/ op' = [op EXCEPT ![t] = Doing("reclaim", op[t].h, op[t].i + 1, "return")]
      BY <2>7 DEF Disconnect, Claimed, Detached
    <3> HIDE DEF Idle, Doing
    <3> QED BY <2>3, <2>4, <2>5, <3>1
  <2> QED BY <1>2, <2>6, <2>7
<1>3. CASE Connect(t) \/ Use(t)
  <2>1. /\ op[t].do # "cache" /\ UNCHANGED <<config, activeConfig>>
        /\ op' = [op EXCEPT ![t] = Idle]
    BY <1>3 DEF Connect, Use, libVars
  <2>2. Idle.do # "cache"
    OBVIOUS
  <2> QED BY <2>1, <2>2, GoesOn
<1>4. CASE Yield(t)
  <2>1. op[t] = Doing("yield", op[t].h, op[t].i, "return") /\ UNCHANGED <<config, activeConfig>>
    BY <1>4, OpThrough DEF Yield, libVars
  <2>2. \/ op' = [op EXCEPT ![t] = Doing("reset", op[t].h, op[t].i, "return")]
        \/ op' = [op EXCEPT ![t] = Doing("yield", op[t].h, op[t].i + 1, "return")]
    BY <1>4, <2>1 DEF Yield, OpInv
  <2> QED BY <2>1, <2>2, GoesOn
<1>5. CASE ResetIoctl(t) \/ Reclaim(t)
  <2>1. op[t].do # "cache" /\ UNCHANGED <<config, activeConfig>>
    BY <1>5 DEF ResetIoctl, Reclaim, kernelVars
  <2>2. \E x : op' = [op EXCEPT ![t] = x] /\ x.do # "cache"
    BY <1>5 DEF ResetIoctl, Reclaim, DetachAndClaim
  <2> QED BY <2>1, <2>2, GoesOn
<1> QED BY <1>1, <1>2, <1>3, <1>4, <1>5 DEF Library

\* ... nor have the calls other than those two.
LEMMA CallApart ==
    ASSUME OpInv, NEW t \in Thread, NEW h \in Handle, NEW i \in Interface,
           \/ Open(t, h) \/ Close(t, h) \/ SetAuto(t, h) \/ Reset(t, h)
           \/ Claim(t, h, i) \/ Release(t, h, i) \/ Detach(t, h, i) \/ Attach(t, h, i)
           \/ SetInterface(t, h, i) \/ ClearHalt(t, h, i)
    PROVE  Apart
<1>1. op[t] = Idle /\ UNCHANGED <<config, activeConfig>>
  BY DEF Open, Close, SetAuto, Reset, Claim, Release, Detach, Attach, SetInterface,
     ClearHalt, Calls, libVars, kernelVars
<1>2. CASE UNCHANGED op
  BY <1>1, <1>2 DEF Apart
<1>3. \/ UNCHANGED op
      \/ \E x : op' = [op EXCEPT ![t] = x] /\ x.do # "cache"
  <2>1. CASE Open(t, h) \/ Close(t, h) \/ SetAuto(t, h)
    BY <2>1 DEF Open, Close, SetAuto
  <2>2. CASE Claim(t, h, i)
    <3>1. PICK what \in {"claim", "disconnectClaim", "getDriver"} :
             op' = [op EXCEPT ![t] = Doing(what, h, i, "claim")]
      BY <2>2 DEF Claim, ClaimWith, DetachAndClaim
    <3>2. Doing(what, h, i, "claim").do # "cache"
      OBVIOUS
    <3> QED BY <3>1, <3>2
  <2>3. CASE Release(t, h, i)
    BY <2>3 DEF Release, AfterRelease
  <2>4. CASE Reset(t, h) \/ Detach(t, h, i) \/ Attach(t, h, i) \/ SetInterface(t, h, i)
             \/ ClearHalt(t, h, i)
    <3>1. \/ op' = [op EXCEPT ![t] = Doing("yield", h, 0, "return")]
          \/ op' = [op EXCEPT ![t] = Doing("getDriver", h, i, "detach")]
          \/ op' = [op EXCEPT ![t] = Doing("connect", h, i, "attach")]
          \/ op' = [op EXCEPT ![t] = Doing("use", h, i, "return")]
      BY <2>4 DEF Reset, Detach, Attach, SetInterface, ClearHalt
    <3>2. ASSUME NEW what, NEW n, NEW then, what # "cache",
                 op' = [op EXCEPT ![t] = Doing(what, h, n, then)]
          PROVE  \E x : op' = [op EXCEPT ![t] = x] /\ x.do # "cache"
      <4>1. Doing(what, h, n, then).do # "cache"
        BY <3>2
      <4> QED BY <3>2, <4>1
    <3> HIDE DEF Doing
    <3> QED BY <3>1, <3>2
  <2> QED BY <2>1, <2>2, <2>3, <2>4
<1> QED BY <1>1, <1>2, <1>3, GoesOn

\* The configuration is set, or asked for, by the one thread that is to cache it.
LEMMA SetterStep ==
    ASSUME OpInv, CacheInv, "twoSetters" \notin Faults, NEW t \in Thread, NEW h \in Handle,
           \/ GetConfiguration(t, h)
           \/ \E c \in DOMAIN Interfaces \cup {Unconfigured} : SetConfiguration(t, h, c)
    PROVE  CacheInv'
<1>1. NoSetter
  BY DEF GetConfiguration, SetConfiguration
<1>2. PICK c : op' = [op EXCEPT ![t] = Caching(c, h)] /\ c \in {config', Unconfigured}
  BY DEF GetConfiguration, SetConfiguration, Reported, kernelVars
<1>3. op'[t] = Caching(c, h) /\ \A u \in Thread : u # t => op'[u] = op[u]
  BY <1>2 DEF OpInv
<1>4. \A u \in Thread : op'[u].do = "cache" => u = t
  BY <1>1, <1>3 DEF NoSetter
<1>5. op'[t].do = "cache" /\ op'[t].c = c
  BY <1>3
<1> QED BY <1>2, <1>4, <1>5 DEF CacheInv, NoSetter

\* It caches what it set, or was told.
LEMMA CachesStep ==
    ASSUME OpInv, CacheInv, NEW t \in Thread, Cache(t) PROVE CacheInv'
<1>1. /\ op[t].do = "cache" /\ activeConfig' = op[t].c /\ config' = config
      /\ op' = [op EXCEPT ![t] = Idle]
  BY DEF Cache, Cached, kernelVars
<1>2. op'[t] = Idle /\ \A u \in Thread : u # t => op'[u] = op[u]
  BY <1>1 DEF OpInv
<1>3. \A u \in Thread : op'[u].do # "cache"
  BY <1>1, <1>2 DEF CacheInv
<1> QED BY <1>1, <1>3 DEF CacheInv, NoSetter

\* So a step keeps the cache right.
LEMMA CacheInvStep ==
    ASSUME OpInv, CacheInv, "twoSetters" \notin Faults, [Next]_vars
    PROVE  CacheInv'
<1>1. CASE UNCHANGED vars
  BY <1>1 DEF CacheInv, NoSetter, vars, libVars, kernelVars
<1>2. CASE Kernel
  <2>1. UNCHANGED <<op, config, activeConfig>>
    BY <1>2 DEF Kernel, Unplug, Disconnected, KernelBinds, libVars, kernelVars
  <2> QED BY <2>1 DEF CacheInv, NoSetter
<1>3. ASSUME NEW t \in Thread, Library(t) PROVE CacheInv'
  BY <1>3, LibraryApart, ApartStep, CachesStep
<1>4. ASSUME NEW t \in Thread, NEW h \in Handle, Call(t, h) PROVE CacheInv'
  <2>1. CASE \/ GetConfiguration(t, h)
             \/ \E c \in DOMAIN Interfaces \cup {Unconfigured} : SetConfiguration(t, h, c)
    BY <2>1, SetterStep
  <2>2. CASE Open(t, h) \/ Close(t, h) \/ SetAuto(t, h) \/ Reset(t, h)
    BY <2>2, AnInterface, CallApart, ApartStep
  <2>3. ASSUME NEW i \in Interface,
               \/ Claim(t, h, i) \/ Release(t, h, i) \/ Detach(t, h, i) \/ Attach(t, h, i)
               \/ SetInterface(t, h, i) \/ ClearHalt(t, h, i)
        PROVE  CacheInv'
    BY <2>3, CallApart, ApartStep
  <2> QED BY <1>4, <2>1, <2>2, <2>3 DEF Call
<1> QED BY <1>1, <1>2, <1>3, <1>4 DEF Next

\* Unless two threads set or ask for the configuration at once, the value that is
\* cached is the active configuration, or unconfigured when the device did not
\* answer a question for it (op_set_configuration, op_get_configuration).
THEOREM ConfigurationCached == "twoSetters" \notin Faults => (Spec => []CacheInv)
<1> SUFFICES ASSUME "twoSetters" \notin Faults PROVE Spec => []CacheInv
  OBVIOUS
<1>1. Init => CacheInv
  BY DEF Init, CacheInv
<1>2. OpInv /\ CacheInv /\ [Next]_vars => CacheInv'
  BY CacheInvStep, SMTT(30)
<1> QED BY <1>1, <1>2, Types, PTL DEF Spec

\* Both lookups come to an end in the descriptors file.
WalkEnds ==
    /\ Walk \in Seq([at : Int, len : Int])
    /\ \E k \in 1..Len(Walk) : Walk[k].len < 0

\* A lookup by value finds a configuration of that value, or ends in an error.
LEMMA ByValueFinds ==
    ASSUME WalkEnds, NEW v
    PROVE  /\ ByValue(v) \in [at : Int, len : Int]
           /\ ByValue(v).len < 0 \/ At(ByValue(v).at).value = v
<1> DEFINE I == {k \in 1..Len(Walk) : Walk[k].len < 0 \/ At(Walk[k].at).value = v}
<1>1. I # {} /\ I \subseteq Nat
  <2>1. PICK k \in 1..Len(Walk) : Walk[k].len < 0
    BY DEF WalkEnds
  <2>2. k \in I
    BY <2>1
  <2>3. 1..Len(Walk) \subseteq Nat
    BY DEF WalkEnds
  <2> QED BY <2>2, <2>3
<1>2. Min(I) \in I
  <2> DEFINE R == {ss \in Nat \X Nat : ss[1] < ss[2]}
  <2> HIDE DEF I
  <2>1. IsWellFoundedOn(R, Nat)
    BY NatLessThanWellFounded DEF OpToRel
  <2>2. \E x \in I : \A y \in I : <<y, x>> \notin R
    <3> HIDE DEF R
    <3> QED BY <1>1, <2>1, WFMin
  <2>3. PICK x \in I : \A y \in I : <<y, x>> \notin R
    BY <2>2
  <2>4. ASSUME NEW y \in I PROVE x <= y
    <3>1. x \in Nat /\ y \in Nat /\ <<y, x>> \notin R
      BY <1>1, <2>3
    <3> QED BY <3>1
  <2> QED BY <2>3, <2>4 DEF Min
<1>3. ByValue(v) = Walk[Min(I)]
  BY <1>1 DEF ByValue, SelectInSeq
<1>4. /\ Min(I) \in 1..Len(Walk)
      /\ Walk[Min(I)].len < 0 \/ At(Walk[Min(I)].at).value = v
  BY <1>2
<1>5. Walk[Min(I)] \in [at : Int, len : Int]
  <2>1. \A k \in 1..Len(Walk) : Walk[k] \in [at : Int, len : Int]
    BY ElementOfSeq DEF WalkEnds
  <2> HIDE DEF I
  <2> QED BY <1>4, <2>1
<1> QED BY <1>3, <1>4, <1>5

\* With a cache that is right the lookup finds the active configuration.
LEMMA Found == ASSUME CacheInv, WalkEnds PROVE ActiveIsFound
<1> SUFFICES ASSUME NoSetter, ~gone, GetActive.len >= 0 PROVE At(GetActive.at).value = config
  BY DEF ActiveIsFound
<1> DEFINE c == IF system.sysfs THEN config ELSE activeConfig
<1>1. c \in {config, Unconfigured}
  BY DEF CacheInv
<1>2. c # Unconfigured
  <2> SUFFICES ASSUME c = Unconfigured PROVE FALSE
    OBVIOUS
  <2>2. ActiveConfig = [at |-> 0, len |-> NotFound]
    BY DEF ActiveConfig, SysfsConfig
  <2>3. GetActive.len = -1
    BY <2>2 DEF GetActive, Parsed, NotFound
  <2> QED BY <2>3
<1>3. ActiveConfig = ByValue(config)
  BY <1>1, <1>2 DEF ActiveConfig, SysfsConfig
<1>4. PICK a \in Int, n \in Int : ByValue(config) = [at |-> a, len |-> n]
  BY ByValueFinds
<1>5. n >= Header /\ GetActive.at = a
  BY <1>3, <1>4 DEF GetActive, Parsed, Header, IoError
<1>6. ~(n < 0)
  BY <1>5 DEF Header
<1> QED BY <1>4, <1>5, <1>6, ByValueFinds

\* libusb_get_active_config_descriptor leads to the descriptor of the
\* configuration that the device is in, in sysfs and in usbfs files of any
\* layout in which the walk over the configurations ends.
THEOREM ActiveFound ==
    "twoSetters" \notin Faults => (Spec => [](WalkEnds => ActiveIsFound))
<1> SUFFICES ASSUME "twoSetters" \notin Faults PROVE Spec => [](WalkEnds => ActiveIsFound)
  OBVIOUS
<1>1. CacheInv => (WalkEnds => ActiveIsFound)
  BY Found
<1> QED BY <1>1, ConfigurationCached, PTL

----------------------------------------------------------------------------
(* Transfers of several URBs: the invariant.                               *)

\* The circumstances of the theorems: no URB stalls (reap_action stays NORMAL
\* after a stall, and the last URB completes the transfer before the others), and
\* the device does not go away between two discards.
Plain == "EPIPE" \notin Errors /\ ~UnplugAnytime

InFlight == {i \in Urb : urb[i] # "none"}
Submits == work.do = "submit"
Discards == work.do = "discard"
InData == kind \in {"bulk", "interrupt"} /\ isIn

\* The first byte of an URB's block, less one.
Off(i) == (i - 1) * Block

Entry == [i : Urb, status : UrbErrors \cup {"ok"}, len : 0..Block]

\* What the holder of the lock is doing is about URBs of the transfer.
WorkInv ==
    \/ work = NoOp
    \/ \E i \in 1..priv.num : work = [do |-> "submit", i |-> i]
    \/ \E i \in 0..priv.num, first, last \in 1..priv.num,
          then \in {"reaped", "submitted", "cancelled"},
          r \in {"SUCCESS", "NOT_FOUND", "NO_DEVICE"} :
          work = [do |-> "discard", i |-> i, first |-> first, last |-> last,
                  then |-> then, r |-> r]

\* Nothing of a transfer that is idle or was reported is left.
IdleInv ==
    /\ outcome = "flying" => priv.urbs
    /\ outcome # "flying" => work = NoOp /\ queue = <<>> /\ InFlight = {}

\* The queue has the URBs that are done, each once.
QueueInv ==
    /\ queue \in Seq(Entry)
    /\ \A k \in 1..Len(queue) : urb[queue[k].i] = "done"
    /\ \A k, l \in 1..Len(queue) : queue[k].i = queue[l].i => k = l
    /\ \A i \in Urb : urb[i] = "done" => \E k \in 1..Len(queue) : queue[k].i = i

\* Only the last URB overflows; after an unplugging no data comes.
StatusInv ==
    \A k \in 1..Len(queue) :
        /\ queue[k].status # "EPIPE"
        /\ queue[k].status = "EOVERFLOW" => queue[k].i = priv.num
        /\ queue[k].status = "ESHUTDOWN" =>
              unplugged /\ \A l \in k..Len(queue) : queue[l].len = 0

\* What is pending is consecutive; submissions go up from 1, discards come down.
PendingInv ==
    /\ \A i, j \in Pending, m \in Urb : i <= m /\ m <= j => m \in Pending
    /\ unplugged => Pending = {}
    /\ Discards => \A j \in Pending : j <= work.i
    /\ Submits => \A i \in Urb : i \in InFlight <=> i < work.i
    /\ \A i \in InFlight : i <= priv.num

\* What was retired and what is in flight make up the transfer.
CountInv ==
    /\ outcome = "flying" /\ ~Submits => priv.retired + Cardinality(InFlight) = priv.num
    /\ Submits => /\ priv.retired = 0 /\ priv.offset = 0
                  /\ priv.action = "NORMAL" /\ transferred = 0
    /\ priv.offset <= priv.retired /\ (kind # "iso" => priv.offset = 0)
    /\ kind = "control" => priv.num = 1 /\ priv.retired = 0

\* URBs come back in order, ...
InOrder ==
    /\ \A k, l \in 1..Len(queue) : k < l => queue[k].i < queue[l].i
    /\ \A k \in 1..Len(queue), j \in Pending : queue[k].i < j

\* ... unless a cancellation has discarded some, and is to mark the transfer.
Disturbs ==
    /\ Discards /\ work.then = "cancelled"
    /\ work.r = "SUCCESS" /\ work.i < work.last

\* As long as nothing is wrong, all URBs before those in flight were full.
NormalInv ==
    outcome = "flying" /\ priv.action = "NORMAL" =>
        /\ Disturbs \/ InOrder
        /\ ~Submits => \A i \in 1..priv.num : i \in InFlight <=> i > priv.retired
        /\ \/ kind \in {"bulk", "interrupt"} => transferred = Off(priv.retired + 1)
           \/ unplugged /\ \A k \in 1..Len(queue) : queue[k].len = 0

DiscardInv ==
    Discards =>
        /\ work.then # "cancelled" /\ priv.action = "NORMAL" => unplugged
        /\ work.then = "cancelled" => work.last = priv.num
        /\ work.r = "NOT_FOUND" /\ work.then = "cancelled" /\ priv.action = "NORMAL"
              => Pending = {}
        /\ work.r = "NO_DEVICE" => unplugged
        /\ unplugged /\ work.i < work.last => work.r = "NO_DEVICE"
        /\ work.i = work.last => work.r = "SUCCESS"
        /\ work.i <= work.last

\* s[k] bytes had come in when the k-th URB of the queue was put there, ...
Sums(s) ==
    /\ s \in [0..Len(queue) -> Nat]
    /\ s[Len(queue)] = received
    /\ \A k \in 1..Len(queue) : s[k] = s[k - 1] + queue[k].len
    /\ \A k, l \in 0..Len(queue) : k <= l => s[k] <= s[l]
    /\ kind # "iso" /\ outcome # "NO_DEVICE" => s[0] = transferred

\* ... no more than have room before its block, where its own bytes are.
Placed(s) ==
    \A k \in 1..Len(queue) : queue[k].len > 0 =>
        /\ s[k - 1] <= Off(queue[k].i)
        /\ InData => \A o \in 1..queue[k].len : buffer[Off(queue[k].i) + o] = s[k - 1] + o

DataInv ==
    /\ \E s : Sums(s) /\ Placed(s)
    /\ \A j \in Pending : received <= Off(j)
    /\ Submits => received <= Off(work.i)
    /\ InData => \A b \in 1..transferred : buffer[b] = b

UrbsInv ==
    /\ UrbsTypeOK /\ WorkInv /\ IdleInv /\ QueueInv /\ StatusInv /\ PendingInv
    /\ CountInv /\ NormalInv /\ DiscardInv /\ DataInv

----------------------------------------------------------------------------
(* Least and greatest URBs, blocks, and the queue.                         *)

LEMMA HasLeast ==
    ASSUME NEW S, S \subseteq Nat, S # {}
    PROVE  \E x \in S : \A y \in S : x <= y
<1> DEFINE R == {ss \in Nat \X Nat : ss[1] < ss[2]}
<1>1. IsWellFoundedOn(R, Nat)
  BY NatLessThanWellFounded DEF OpToRel
<1>2. \E x \in S : \A y \in S : <<y, x>> \notin R
  <2> HIDE DEF R
  <2> QED BY <1>1, WFMin
<1>3. PICK x \in S : \A y \in S : <<y, x>> \notin R
  BY <1>2
<1>4. ASSUME NEW y \in S PROVE x <= y
  <2>1. x \in Nat /\ y \in Nat /\ <<y, x>> \notin R
    BY <1>3
  <2> QED BY <2>1
<1> QED BY <1>3, <1>4

LEMMA HasGreatest ==
    ASSUME NEW S, NEW n \in Nat, S \subseteq 0..n, S # {}
    PROVE  \E x \in S : \A y \in S : y <= x
<1> DEFINE T == {n - y : y \in S}
<1>1. T \subseteq Nat /\ T # {}
  <2>1. PICK y \in S : TRUE
    OBVIOUS
  <2>2. n - y \in T
    BY <2>1
  <2>3. \A x \in S : n - x \in Nat
    OBVIOUS
  <2> QED BY <2>2, <2>3
<1>2. PICK z \in T : \A y \in T : z <= y
  <2> HIDE DEF T
  <2> QED BY <1>1, HasLeast
<1>3. PICK x \in S : z = n - x
  OBVIOUS
<1>4. ASSUME NEW y \in S PROVE y <= x
  <2>1. n - y \in T /\ x \in 0..n /\ y \in 0..n
    OBVIOUS
  <2>2. n - x <= n - y
    BY <1>2, <1>3, <2>1
  <2> QED BY <2>1, <2>2
<1> QED BY <1>3, <1>4

LEMMA Oldest_is ==
    ASSUME Pending # {}
    PROVE  Oldest \in Pending /\ \A j \in Pending : Oldest <= j
<1>1. Pending \subseteq Nat
  BY UrbsAssumption DEF Pending, Urb
<1>2. \E i \in Pending : \A j \in Pending : i <= j
  BY <1>1, HasLeast
<1> QED BY <1>2 DEF Oldest

\* The blocks of URBs follow each other in the buffer.
LEMMA Blocks ==
    /\ \A i \in Nat \ {0} : Off(i) \in Nat /\ Off(i + 1) = Off(i) + Block
    /\ \A i, j \in Nat \ {0} : i < j => Off(i) + Block <= Off(j)
    /\ \A i \in Urb : Off(i) + Block <= Bytes
    /\ Off(1) = 0
<1>1. Block \in Nat /\ Block > 0 /\ MaxUrbs \in Nat
  BY UrbsAssumption
<1>2. ASSUME NEW i \in Nat \ {0} PROVE Off(i) \in Nat /\ Off(i + 1) = Off(i) + Block
  BY <1>1 DEF Off
<1>3. ASSUME NEW i \in Nat \ {0}, NEW j \in Nat \ {0}, i < j PROVE Off(i) + Block <= Off(j)
  <2>1. PICK d \in Nat : j = i + 1 + d
    <3>1. j - i - 1 \in Nat /\ j = i + 1 + (j - i - 1)
      BY <1>3
    <3> QED BY <3>1
  <2>2. Off(j) = Off(i) + Block + d * Block
    BY <1>1, <2>1 DEF Off
  <2>3. d * Block \in Nat
    BY <1>1, <2>1
  <2> QED BY <1>1, <1>2, <2>2, <2>3
<1>4. ASSUME NEW i \in Urb PROVE Off(i) + Block <= Bytes
  <2>1. i \in Nat \ {0} /\ MaxUrbs + 1 \in Nat \ {0} /\ i < MaxUrbs + 1
    BY <1>1 DEF Urb
  <2>2. Off(MaxUrbs + 1) = Bytes
    BY <1>1 DEF Off, Bytes
  <2> QED BY <1>3, <2>1, <2>2
<1>5. Off(1) = 0
  BY <1>1 DEF Off
<1> QED BY <1>2, <1>3, <1>4, <1>5

\* GiveBack makes a queue of consecutive URBs, from the first to the last.
LEMMA Given ==
    ASSUME NEW S, S \subseteq Urb, NEW st \in UrbErrors \cup {"ok"},
           \A i, j \in S, m \in Urb : i <= m /\ m <= j => m \in S
    PROVE  /\ GiveBack(S, st) \in Seq(Entry)
           /\ \A k \in 1..Len(GiveBack(S, st)) :
                 /\ GiveBack(S, st)[k].i \in S
                 /\ GiveBack(S, st)[k].len = 0 /\ GiveBack(S, st)[k].status = st
           /\ \A k, l \in 1..Len(GiveBack(S, st)) :
                 k < l => GiveBack(S, st)[k].i < GiveBack(S, st)[l].i
           /\ \A i \in S : \E k \in 1..Len(GiveBack(S, st)) : GiveBack(S, st)[k].i = i
<1> DEFINE lo == CHOOSE i \in S : \A j \in S : i <= j
           hi == CHOOSE i \in S : \A j \in S : j <= i
           n  == IF S = {} THEN 0 ELSE hi - lo + 1
           g  == [k \in 1..n |-> Done(lo + k - 1, st, 0)]
<1>1. g = GiveBack(S, st)
  BY DEF GiveBack
<1>2. CASE S = {}
  <2>1. n = 0 /\ g = <<>>
    BY <1>2
  <2>2. g \in Seq(Entry) /\ Len(g) = 0
    BY <2>1, EmptySeq
  <2> HIDE DEF g, n
  <2> QED BY <1>1, <1>2, <2>2
<1>3. CASE S # {}
  <2>1. MaxUrbs \in Nat /\ Block \in Nat
    BY UrbsAssumption
  <2>2. S \subseteq Nat /\ S \subseteq 0..MaxUrbs
    BY <2>1 DEF Urb
  <2>3. lo \in S /\ \A j \in S : lo <= j
    <3>1. \E i \in S : \A j \in S : i <= j
      BY <1>3, <2>2, HasLeast
    <3> QED BY <3>1
  <2>4. hi \in S /\ \A j \in S : j <= hi
    <3>1. \E i \in S : \A j \in S : j <= i
      BY <1>3, <2>1, <2>2, HasGreatest
    <3> QED BY <3>1
  <2> HIDE DEF lo, hi
  <2>5. lo \in Nat /\ hi \in Nat /\ lo <= hi /\ n = hi - lo + 1 /\ n \in Nat
    BY <1>3, <2>2, <2>3, <2>4
  <2> HIDE DEF n
  <2>6. ASSUME NEW k \in 1..n PROVE lo + k - 1 \in S
    <3>1. lo + k - 1 \in Urb /\ lo <= lo + k - 1 /\ lo + k - 1 <= hi
      BY <2>1, <2>3, <2>4, <2>5 DEF Urb
    <3> QED BY <2>3, <2>4, <3>1
  <2>7. g \in Seq(Entry) /\ Len(g) = n
    <3>1. \A k \in 1..n : Done(lo + k - 1, st, 0) \in Entry
      BY <2>1, <2>6 DEF Done, Entry
    <3> QED BY <2>5, <3>1
  <2>8. \A k \in 1..n : g[k].i = lo + k - 1 /\ g[k].len = 0 /\ g[k].status = st
    BY DEF Done
  <2>9. ASSUME NEW i \in S PROVE \E k \in 1..n : g[k].i = i
    <3>1. i - lo + 1 \in 1..n /\ lo + (i - lo + 1) - 1 = i
      BY <2>2, <2>3, <2>4, <2>5
    <3> QED BY <2>8, <3>1
  <2>10. \A k, l \in 1..n : k < l => g[k].i < g[l].i
    BY <2>5, <2>8
  <2> HIDE DEF g
  <2> QED BY <1>1, <2>6, <2>7, <2>8, <2>9, <2>10
<1> QED BY <1>2, <1>3

\* What the holder of the lock has in its record.
LEMMA WorkShape ==
    ASSUME UrbsTypeOK, WorkInv
    PROVE  /\ priv.num \in Urb /\ Urb \subseteq Nat \ {0} /\ 1..priv.num \subseteq Urb
           /\ work = NoOp => ~Submits /\ ~Discards
           /\ Submits => /\ work.i \in 1..priv.num /\ work = [do |-> "submit", i |-> work.i]
                         /\ ~Discards /\ work # NoOp
           /\ Discards => /\ work.i \in 0..priv.num /\ work.first \in 1..priv.num
                          /\ work.last \in 1..priv.num
                          /\ work.then \in {"reaped", "submitted", "cancelled"}
                          /\ work.r \in {"SUCCESS", "NOT_FOUND", "NO_DEVICE"}
                          /\ work = [do |-> "discard", i |-> work.i, first |-> work.first,
                                     last |-> work.last, then |-> work.then, r |-> work.r]
                          /\ ~Submits /\ work # NoOp
<1>1. priv.num \in Urb /\ Urb \subseteq Nat \ {0} /\ 1..priv.num \subseteq Urb
  BY UrbsAssumption DEF UrbsTypeOK, Urb
<1>2. CASE work = NoOp
  <2>1. ~Submits /\ ~Discards
    BY <1>2 DEF Submits, Discards, NoOp
  <2> QED BY <1>1, <2>1
<1>3. CASE \E i \in 1..priv.num : work = [do |-> "submit", i |-> i]
  <2>1. PICK i \in 1..priv.num : work = [do |-> "submit", i |-> i]
    BY <1>3
  <2>2. work.do = "submit" /\ work.i = i
    BY <2>1
  <2>3. Submits /\ ~Discards
    BY <2>2 DEF Submits, Discards
  <2>4. work # NoOp
    BY <2>2 DEF NoOp
  <2> QED BY <1>1, <2>1, <2>2, <2>3, <2>4
<1>4. CASE \E i \in 0..priv.num, first, last \in 1..priv.num,
              then \in {"reaped", "submitted", "cancelled"},
              r \in {"SUCCESS", "NOT_FOUND", "NO_DEVICE"} :
              work = [do |-> "discard", i |-> i, first |-> first, last |-> last,
                      then |-> then, r |-> r]
  <2>1. PICK i \in 0..priv.num, first \in 1..priv.num, last \in 1..priv.num,
             then \in {"reaped", "submitted", "cancelled"},
             r \in {"SUCCESS", "NOT_FOUND", "NO_DEVICE"} :
             work = [do |-> "discard", i |-> i, first |-> first, last |-> last,
                     then |-> then, r |-> r]
    BY <1>4
  <2>2. /\ work.do = "discard" /\ work.i = i /\ work.first = first /\ work.last = last
        /\ work.then = then /\ work.r = r
    BY <2>1
  <2>3. Discards /\ ~Submits
    BY <2>2 DEF Submits, Discards
  <2>4. work # NoOp
    BY <2>2 DEF NoOp
  <2> QED BY <1>1, <2>1, <2>2, <2>3, <2>4
<1> QED BY <1>2, <1>3, <1>4 DEF WorkInv

----------------------------------------------------------------------------
(* Steps of the kernel: URBs of g, in this order, come back.               *)

Enqueues(g) ==
    /\ g \in Seq(Entry)
    /\ \A k \in 1..Len(g) : g[k].i \in Pending
    /\ \A k, l \in 1..Len(g) : k < l => g[k].i # g[l].i
    /\ queue' = queue \o g
    /\ urb' \in [Urb -> {"none", "pending", "done"}]
    /\ \A i \in Urb : urb'[i] = IF \E k \in 1..Len(g) : g[k].i = i THEN "done" ELSE urb[i]

LEMMA Enqueued ==
    ASSUME QueueInv, NEW g, Enqueues(g)
    PROVE  /\ queue' \in Seq(Entry) /\ Len(queue') = Len(queue) + Len(g)
           /\ Len(queue) \in Nat /\ Len(g) \in Nat
           /\ \A k \in 1..Len(queue) : queue'[k] = queue[k]
           /\ \A k \in 1..Len(g) : queue'[Len(queue) + k] = g[k]
           /\ \A k \in 1..Len(queue') :
                 \/ k \in 1..Len(queue) /\ queue'[k] = queue[k]
                 \/ k - Len(queue) \in 1..Len(g) /\ queue'[k] = g[k - Len(queue)]
<1>1. queue \in Seq(Entry) /\ g \in Seq(Entry) /\ queue' = queue \o g
  BY DEF QueueInv, Enqueues
<1>2. Len(queue) \in Nat /\ Len(g) \in Nat
  BY <1>1, LenProperties
<1>3. /\ queue \o g \in Seq(Entry) /\ Len(queue \o g) = Len(queue) + Len(g)
      /\ \A k \in 1..Len(queue) + Len(g) :
            (queue \o g)[k] = IF k <= Len(queue) THEN queue[k] ELSE g[k - Len(queue)]
  BY <1>1, ConcatProperties
<1> QED BY <1>1, <1>2, <1>3

LEMMA EnqueuedQueue ==
    ASSUME UrbsTypeOK, QueueInv, NEW g, Enqueues(g)
    PROVE  /\ QueueInv' /\ InFlight' = InFlight
           /\ \A i \in Urb : i \in Pending' <=>
                 i \in Pending /\ ~\E k \in 1..Len(g) : g[k].i = i
<1>1. /\ \A k \in 1..Len(queue') :
            \/ k \in 1..Len(queue) /\ queue'[k] = queue[k]
            \/ k - Len(queue) \in 1..Len(g) /\ queue'[k] = g[k - Len(queue)]
      /\ \A k \in 1..Len(queue) : k \in 1..Len(queue') /\ queue'[k] = queue[k]
      /\ \A k \in 1..Len(g) : Len(queue) + k \in 1..Len(queue') /\ queue'[Len(queue) + k] = g[k]
      /\ queue' \in Seq(Entry) /\ Len(queue) \in Nat
  BY Enqueued
<1>2. \A k \in 1..Len(queue) : queue[k] \in Entry
  BY ElementOfSeq DEF QueueInv
<1>3. \A k \in 1..Len(g) : g[k] \in Entry /\ g[k].i \in Pending
  BY ElementOfSeq DEF Enqueues
<1>4. ASSUME NEW k \in 1..Len(queue') PROVE urb'[queue'[k].i] = "done"
  <2>1. CASE k \in 1..Len(queue) /\ queue'[k] = queue[k]
    <3>1. queue[k].i \in Urb /\ urb[queue[k].i] = "done"
      BY <1>2, <2>1 DEF QueueInv, Entry
    <3>2. urb'[queue[k].i] = "done"
      BY <3>1 DEF Enqueues
    <3> QED BY <2>1, <3>2
  <2>2. CASE k - Len(queue) \in 1..Len(g) /\ queue'[k] = g[k - Len(queue)]
    BY <1>3, <2>2 DEF Enqueues, Entry
  <2> QED BY <1>1, <2>1, <2>2
<1>5. ASSUME NEW k \in 1..Len(queue'), NEW l \in 1..Len(queue'), queue'[k].i = queue'[l].i
      PROVE  k = l
  <2>1. \A m \in 1..Len(queue), n \in 1..Len(g) : queue[m].i # g[n].i
    BY <1>3 DEF QueueInv, Pending
  <2>2. CASE k \in 1..Len(queue) /\ l \in 1..Len(queue)
    BY <1>1, <1>5, <2>2 DEF QueueInv
  <2>3. CASE k \notin 1..Len(queue) /\ l \notin 1..Len(queue)
    <3>1. /\ k - Len(queue) \in 1..Len(g) /\ queue'[k] = g[k - Len(queue)]
          /\ l - Len(queue) \in 1..Len(g) /\ queue'[l] = g[l - Len(queue)]
      BY <1>1, <2>3
    <3>2. k - Len(queue) = l - Len(queue)
      <4>1. PICK a \in 1..Len(g), b \in 1..Len(g) :
                a = k - Len(queue) /\ b = l - Len(queue) /\ g[a].i = g[b].i
        BY <1>5, <3>1
      <4>2. ~(a < b) /\ ~(b < a)
        BY <4>1 DEF Enqueues
      <4>3. a \in Nat /\ b \in Nat
        BY <1>1
      <4> QED BY <4>1, <4>2, <4>3
    <3> QED BY <1>1, <3>1, <3>2
  <2>4. ASSUME NEW m \in 1..Len(queue'), NEW n \in 1..Len(queue'), m \in 1..Len(queue),
               n \notin 1..Len(queue)
        PROVE  queue'[m].i # queue'[n].i
    <3>1. queue'[m] = queue[m] /\ n - Len(queue) \in 1..Len(g)
          /\ queue'[n] = g[n - Len(queue)]
      BY <1>1, <2>4
    <3> QED BY <2>1, <2>4, <3>1
  <2> QED BY <1>5, <2>2, <2>3, <2>4
<1>6. ASSUME NEW i \in Urb, urb'[i] = "done" PROVE \E k \in 1..Len(queue') : queue'[k].i = i
  <2>1. CASE \E k \in 1..Len(g) : g[k].i = i
    <3>1. PICK k \in 1..Len(g) : g[k].i = i
      BY <2>1
    <3> QED BY <1>1, <3>1
  <2>2. CASE ~\E k \in 1..Len(g) : g[k].i = i
    <3>1. PICK k \in 1..Len(queue) : queue[k].i = i
      BY <1>6, <2>2 DEF QueueInv, Enqueues
    <3> QED BY <1>1, <3>1
  <2> QED BY <2>1, <2>2
<1>7. QueueInv'
  BY <1>1, <1>4, <1>5, <1>6 DEF QueueInv
<1>8. InFlight' = InFlight
  <2>1. ASSUME NEW i \in Urb PROVE urb'[i] # "none" <=> urb[i] # "none"
    BY <1>3 DEF Enqueues, Pending
  <2> QED BY <2>1 DEF InFlight
<1>9. \A i \in Urb : i \in Pending' <=> i \in Pending /\ ~\E k \in 1..Len(g) : g[k].i = i
  BY DEF Enqueues, Pending
<1> QED BY <1>7, <1>8, <1>9

LEMMA EnqueuedInOrder ==
    ASSUME UrbsTypeOK, QueueInv, NEW g, Enqueues(g), InOrder,
           \A k, l \in 1..Len(g) : k < l => g[k].i < g[l].i,
           \A k \in 1..Len(g), j \in Pending' : g[k].i < j
    PROVE  InOrder'
<1>1. /\ \A k \in 1..Len(queue') :
            \/ k \in 1..Len(queue) /\ queue'[k] = queue[k]
            \/ k - Len(queue) \in 1..Len(g) /\ queue'[k] = g[k - Len(queue)]
      /\ Len(queue) \in Nat /\ Len(g) \in Nat
  BY Enqueued
<1>2. \A k \in 1..Len(g) : g[k].i \in Pending
  BY DEF Enqueues
<1>3. \A j \in Pending' : j \in Pending
  BY EnqueuedQueue DEF Pending
<1>4. ASSUME NEW k \in 1..Len(queue'), NEW l \in 1..Len(queue'), k < l
      PROVE  queue'[k].i < queue'[l].i
  <2>1. CASE k \in 1..Len(queue) /\ l \in 1..Len(queue)
    BY <1>1, <1>4, <2>1 DEF InOrder
  <2>2. CASE k \in 1..Len(queue) /\ l \notin 1..Len(queue)
    <3>1. queue'[k] = queue[k] /\ \E m \in 1..Len(g) : queue'[l] = g[m]
      BY <1>1, <2>2
    <3>2. queue'[l].i \in Pending
      BY <1>2, <3>1
    <3> QED BY <2>2, <3>1, <3>2 DEF InOrder
  <2>3. CASE k \notin 1..Len(queue)
    <3>1. /\ k - Len(queue) \in 1..Len(g) /\ queue'[k] = g[k - Len(queue)]
          /\ l - Len(queue) \in 1..Len(g) /\ queue'[l] = g[l - Len(queue)]
          /\ k - Len(queue) < l - Len(queue)
      BY <1>1, <1>4, <2>3
    <3> QED BY <3>1
  <2> QED BY <2>1, <2>2, <2>3
<1>5. ASSUME NEW k \in 1..Len(queue'), NEW j \in Pending' PROVE queue'[k].i < j
  BY <1>1, <1>3 DEF InOrder
<1> QED BY <1>4, <1>5 DEF InOrder

\* n bytes come in with the first of them, in its block.
Brings(n, g) ==
    /\ n \in 0..Block
    /\ \A k \in 1..Len(g) : g[k].len = IF k = 1 THEN n ELSE 0
    /\ n > 0 => Len(g) > 0 /\ \A j \in Pending : g[1].i <= j
    /\ received' = received + n
    /\ buffer' \in [1..Bytes -> 0..Bytes]
    /\ \A b \in 1..Bytes :
          buffer'[b] = IF isIn /\ n > 0 /\ b - Off(g[1].i) \in 1..n
                       THEN received + (b - Off(g[1].i)) ELSE buffer[b]

LEMMA EnqueuedData ==
    ASSUME UrbsTypeOK, WorkInv, IdleInv, QueueInv, PendingInv, DataInv,
           NEW g, Enqueues(g), NEW n, Brings(n, g),
           kind' = kind, isIn' = isIn, outcome' = outcome, transferred' = transferred,
           Submits' => Submits /\ work' = work
    PROVE  DataInv' /\ received' \in 0..Bytes
<1>1. /\ Block \in Nat /\ Block > 0 /\ n \in 0..Block /\ received \in Nat /\ Bytes \in Nat
      /\ received \in 0..Bytes /\ received' = received + n
  BY UrbsAssumption DEF UrbsTypeOK, Brings, Bytes
<1>2. /\ queue' \in Seq(Entry) /\ Len(queue') = Len(queue) + Len(g)
      /\ Len(queue) \in Nat /\ Len(g) \in Nat /\ Len(queue') \in Nat
      /\ \A k \in 1..Len(queue) : queue'[k] = queue[k]
      /\ \A k \in 1..Len(queue') :
            \/ k \in 1..Len(queue) /\ queue'[k] = queue[k]
            \/ k - Len(queue) \in 1..Len(g) /\ queue'[k] = g[k - Len(queue)]
  BY Enqueued
<1>3. \A k \in 1..Len(queue) : queue[k] \in Entry /\ queue[k].i \in Urb
                               /\ queue[k].len \in 0..Block
  <2>1. \A k \in 1..Len(queue) : queue[k] \in Entry
    BY ElementOfSeq DEF QueueInv
  <2> QED BY <2>1 DEF Entry
<1>4. \A k \in 1..Len(g) : g[k].i \in Urb /\ g[k].i \in Pending
  BY DEF Enqueues, Pending
<1>5. \A i \in Urb : i \in Nat \ {0} /\ Off(i) \in Nat /\ Off(i) + Block <= Bytes
  <2>1. MaxUrbs \in Nat
    BY UrbsAssumption
  <2>2. \A i \in Urb : i \in Nat \ {0}
    BY <2>1 DEF Urb
  <2>3. \A i \in Urb : Off(i) \in Nat
    BY <2>2, Blocks
  <2> QED BY <2>2, <2>3, Blocks
<1>6. \A i, j \in Urb : i < j => Off(i) + Block <= Off(j)
  BY <1>5, Blocks
<1>7. n > 0 => /\ 1 \in 1..Len(g) /\ g[1].i \in Urb /\ g[1].i \in Pending
               /\ received <= Off(g[1].i) /\ outcome = "flying"
  <2> SUFFICES ASSUME n > 0 PROVE /\ 1 \in 1..Len(g) /\ g[1].i \in Urb /\ g[1].i \in Pending
                                  /\ received <= Off(g[1].i) /\ outcome = "flying"
    OBVIOUS
  <2>1. 1 \in 1..Len(g)
    BY <1>2 DEF Brings
  <2>2. g[1].i \in Urb /\ g[1].i \in Pending
    BY <1>4, <2>1
  <2>3. outcome = "flying"
    BY <2>2 DEF IdleInv, InFlight, Pending
  <2> QED BY <2>1, <2>2, <2>3 DEF DataInv
<1>8. received' \in 0..Bytes
  <2>1. CASE n = 0
    BY <1>1, <2>1
  <2>2. CASE n > 0
    BY <1>1, <1>5, <1>7, <2>2, SMTT(30)
  <2> QED BY <1>1, <2>1, <2>2
<1>9. PICK s : Sums(s) /\ Placed(s)
  BY DEF DataInv
<1>10. /\ s \in [0..Len(queue) -> Nat] /\ s[Len(queue)] = received
       /\ \A k \in 0..Len(queue) : s[k] \in Nat /\ s[k] <= received
  <2>1. s \in [0..Len(queue) -> Nat] /\ s[Len(queue)] = received
    BY <1>9 DEF Sums
  <2>2. ASSUME NEW k \in 0..Len(queue) PROVE s[k] \in Nat /\ s[k] <= received
    <3>1. Len(queue) \in 0..Len(queue) /\ k <= Len(queue)
      BY <1>2
    <3> QED BY <1>9, <2>1, <3>1 DEF Sums
  <2> QED BY <2>1, <2>2
<1>11. PICK z : /\ z \in [0..Len(queue') -> Nat]
                /\ \A k \in 0..Len(queue') : k <= Len(queue) => z[k] = s[k]
                /\ \A k \in 0..Len(queue') : k > Len(queue) => z[k] = received + n
  <2> DEFINE w == [k \in 0..Len(queue') |-> IF k <= Len(queue) THEN s[k] ELSE received + n]
  <2>1. /\ w \in [0..Len(queue') -> Nat]
        /\ \A k \in 0..Len(queue') : k <= Len(queue) => w[k] = s[k]
        /\ \A k \in 0..Len(queue') : k > Len(queue) => w[k] = received + n
    BY <1>1, <1>2, <1>10, SMTT(30)
  <2> HIDE DEF w
  <2> QED BY <2>1
<1>12. Sums(z)'
  <2>1. z[Len(queue')] = received'
    <3>1. CASE Len(g) = 0
      <4>1. n = 0 /\ Len(queue') = Len(queue) /\ Len(queue) \in 0..Len(queue')
        BY <1>1, <1>2, <3>1 DEF Brings
      <4> QED BY <1>1, <1>10, <1>11, <4>1
    <3>2. CASE Len(g) > 0
      <4>1. Len(queue') \in 0..Len(queue') /\ Len(queue') > Len(queue)
        BY <1>2, <3>2
      <4> QED BY <1>1, <1>11, <4>1
    <3> QED BY <1>2, <3>1, <3>2
  <2>2. ASSUME NEW k \in 1..Len(queue') PROVE z[k] = z[k - 1] + queue'[k].len
    <3>1. CASE k \in 1..Len(queue)
      <4>1. /\ k \in 0..Len(queue') /\ k - 1 \in 0..Len(queue')
            /\ k <= Len(queue) /\ k - 1 <= Len(queue)
        BY <1>2, <3>1
      <4>2. s[k] = s[k - 1] + queue[k].len
        BY <1>9, <3>1 DEF Sums
      <4> QED BY <1>2, <1>11, <3>1, <4>1, <4>2
    <3>2. CASE k \notin 1..Len(queue)
      <4>1. k - Len(queue) \in 1..Len(g) /\ queue'[k] = g[k - Len(queue)]
        BY <1>2, <3>2
      <4>2. k \in 0..Len(queue') /\ k - 1 \in 0..Len(queue') /\ k > Len(queue)
        BY <1>2, <3>2
      <4>3. CASE k = Len(queue) + 1
        <5>1. k - Len(queue) = 1 /\ k - 1 = Len(queue)
          BY <1>2, <4>3
        <5>2. queue'[k].len = n
          BY <4>1, <5>1 DEF Brings
        <5>3. z[k - 1] = received
          BY <1>2, <1>10, <1>11, <4>2, <5>1
        <5> QED BY <1>11, <4>2, <5>2, <5>3
      <4>4. CASE k # Len(queue) + 1
        <5>1. k - Len(queue) # 1 /\ k - 1 > Len(queue)
          BY <1>2, <4>2, <4>4
        <5>2. queue'[k].len = 0
          BY <4>1, <5>1 DEF Brings
        <5> QED BY <1>1, <1>11, <4>2, <5>1, <5>2
      <4> QED BY <4>3, <4>4
    <3> QED BY <3>1, <3>2
  <2>3. ASSUME NEW k \in 0..Len(queue'), NEW l \in 0..Len(queue'), k <= l PROVE z[k] <= z[l]
    <3>1. CASE l <= Len(queue)
      <4>1. k \in 0..Len(queue) /\ l \in 0..Len(queue) /\ k <= Len(queue)
        BY <1>2, <2>3, <3>1
      <4>2. s[k] <= s[l]
        BY <1>9, <2>3, <4>1 DEF Sums
      <4> QED BY <1>11, <3>1, <4>1, <4>2
    <3>2. CASE l > Len(queue) /\ k <= Len(queue)
      <4>1. z[k] = s[k] /\ z[l] = received + n /\ k \in 0..Len(queue)
        BY <1>2, <1>11, <3>2
      <4> QED BY <1>1, <1>10, <4>1
    <3>3. CASE l > Len(queue) /\ k > Len(queue)
      BY <1>1, <1>11, <3>3
    <3> QED BY <1>2, <3>1, <3>2, <3>3
  <2>4. z[0] = s[0]
    BY <1>2, <1>11
  <2>5. kind' # "iso" /\ outcome' # "NO_DEVICE" => z[0] = transferred'
    BY <1>9, <2>4 DEF Sums
  <2> QED BY <1>11, <2>1, <2>2, <2>3, <2>5 DEF Sums
<1>21. ASSUME NEW b \in 1..Bytes, n > 0 => b - Off(g[1].i) \notin 1..n
       PROVE  buffer'[b] = buffer[b]
  BY <1>21 DEF Brings
<1>22. ASSUME NEW b \in 1..Bytes, n > 0, isIn, b - Off(g[1].i) \in 1..n
       PROVE  buffer'[b] = received + (b - Off(g[1].i))
  BY <1>22 DEF Brings
<1>13. ASSUME n > 0, NEW i \in Urb, i # g[1].i, NEW o \in 1..Block
       PROVE  /\ Off(i) + o \in 1..Bytes
              /\ Off(i) + o - Off(g[1].i) \notin 1..n
  <2>1. i < g[1].i \/ g[1].i < i
    BY <1>5, <1>7, <1>13
  <2>2. Off(i) + Block <= Off(g[1].i) \/ Off(g[1].i) + Block <= Off(i)
    BY <1>6, <1>7, <1>13, <2>1
  <2>3. Off(i) \in Nat /\ Off(i) + Block <= Bytes /\ Off(g[1].i) \in Nat
    BY <1>5, <1>7, <1>13
  <2> QED BY <1>1, <2>2, <2>3
<1>14. Placed(z)'
  <2> SUFFICES ASSUME NEW k \in 1..Len(queue'), queue'[k].len > 0
               PROVE  /\ z[k - 1] <= Off(queue'[k].i)
                      /\ InData' => \A o \in 1..queue'[k].len :
                                        buffer'[Off(queue'[k].i) + o] = z[k - 1] + o
    BY DEF Placed, Off
  <2>1. CASE k \in 1..Len(queue)
    <3>1. queue'[k] = queue[k] /\ queue[k].len \in 1..Block /\ queue[k].i \in Urb
      BY <1>1, <1>2, <1>3, <2>1
    <3>2. z[k - 1] = s[k - 1]
      BY <1>2, <1>11, <2>1
    <3>3. s[k - 1] <= Off(queue[k].i)
      BY <1>9, <2>1, <3>1 DEF Placed
    <3>4. ASSUME InData, NEW o \in 1..queue[k].len
          PROVE  buffer'[Off(queue[k].i) + o] = s[k - 1] + o
      <4>1. buffer[Off(queue[k].i) + o] = s[k - 1] + o
        BY <1>9, <2>1, <3>1, <3>4 DEF Placed
      <4>2. o \in 1..Block
        BY <1>1, <3>1, <3>4
      <4>3. Off(queue[k].i) + o \in 1..Bytes
        BY <1>1, <1>5, <3>1, <4>2, SMTT(30)
      <4>4. n > 0 => Off(queue[k].i) + o - Off(g[1].i) \notin 1..n
        <5> SUFFICES ASSUME n > 0 PROVE Off(queue[k].i) + o - Off(g[1].i) \notin 1..n
          OBVIOUS
        <5>1. queue[k].i # g[1].i
          BY <1>7, <2>1 DEF QueueInv, Pending
        <5> QED BY <1>13, <3>1, <4>2, <5>1
      <4>5. buffer'[Off(queue[k].i) + o] = buffer[Off(queue[k].i) + o]
        <5>1. PICK p \in 1..Bytes : p = Off(queue[k].i) + o
          BY <4>3
        <5>2. n > 0 => p - Off(g[1].i) \notin 1..n
          BY <1>5, <1>7, <3>1, <4>2, <4>4, <5>1, SMTT(30)
        <5>3. buffer'[p] = buffer[p]
          BY <1>21, <5>2
        <5> QED BY <5>1, <5>3
      <4> QED BY <4>1, <4>5
    <3>5. InData' <=> InData
      BY DEF InData
    <3> QED BY <3>1, <3>2, <3>3, <3>4, <3>5
  <2>2. CASE k \notin 1..Len(queue)
    <3>1. k - Len(queue) \in 1..Len(g) /\ queue'[k] = g[k - Len(queue)]
      BY <1>2, <2>2
    <3>2. k - Len(queue) = 1 /\ n > 0 /\ queue'[k] = g[1] /\ g[1].len = n
      BY <1>1, <3>1, SMTT(30) DEF Brings
    <3>3. z[k - 1] = received
      <4>1. k - 1 = Len(queue) /\ k - 1 \in 0..Len(queue') /\ k - 1 <= Len(queue)
        BY <1>2, <3>2
      <4> QED BY <1>10, <1>11, <4>1
    <3>4. ASSUME InData, NEW o \in 1..n PROVE buffer'[Off(g[1].i) + o] = received + o
      <4>1. Off(g[1].i) \in Nat /\ Off(g[1].i) + Block <= Bytes
        BY <1>5, <1>7, <3>2
      <4>2. Off(g[1].i) + o \in 1..Bytes /\ Off(g[1].i) + o - Off(g[1].i) = o
        BY <1>1, <3>4, <4>1, SMTT(30)
      <4>3. PICK p \in 1..Bytes : p = Off(g[1].i) + o
        BY <4>2
      <4>4. p - Off(g[1].i) = o /\ isIn
        BY <1>1, <3>4, <4>1, <4>2, <4>3 DEF InData
      <4>5. buffer'[p] = received + (p - Off(g[1].i))
        BY <1>22, <3>2, <3>4, <4>4
      <4> QED BY <4>3, <4>4, <4>5
    <3>5. InData' <=> InData
      BY DEF InData
    <3> QED BY <1>7, <3>2, <3>3, <3>4, <3>5
  <2> QED BY <2>1, <2>2
<1>15. ASSUME NEW j \in Pending' PROVE received' <= Off(j)
  <2>1. j \in Urb /\ j \in Pending /\ ~\E k \in 1..Len(g) : g[k].i = j
    BY EnqueuedQueue DEF Pending
  <2>2. CASE n = 0
    BY <1>1, <2>1, <2>2 DEF DataInv
  <2>3. CASE n > 0
    <3>1. g[1].i <= j /\ g[1].i # j
      BY <1>7, <2>1, <2>3 DEF Brings
    <3>2. Off(g[1].i) + Block <= Off(j)
      BY <1>5, <1>6, <1>7, <2>1, <2>3, <3>1
    <3>3. Off(g[1].i) \in Nat /\ Off(j) \in Nat
      BY <1>5, <1>7, <2>1, <2>3
    <3> QED BY <1>1, <1>7, <2>3, <3>2, <3>3
  <2> QED BY <1>1, <2>2, <2>3
<1>16. ASSUME Submits' PROVE received' <= Off(work'.i)
  <2>1. Submits /\ work' = work /\ received <= Off(work.i)
    BY <1>16 DEF DataInv
  <2>2. CASE n = 0
    BY <1>1, <2>1, <2>2
  <2>3. CASE n > 0
    <3>1. g[1].i \in Urb /\ g[1].i < work.i
      BY <1>7, <2>1, <2>3 DEF PendingInv, InFlight, Pending
    <3>2. work.i \in Nat \ {0}
      BY <2>1, WorkShape
    <3>3. Off(g[1].i) + Block <= Off(work.i)
      BY <1>5, <3>1, <3>2, Blocks
    <3>4. Off(g[1].i) \in Nat /\ Off(work.i) \in Nat
      BY <1>5, <3>1, <3>2, Blocks
    <3> QED BY <1>1, <1>7, <2>1, <2>3, <3>3, <3>4
  <2> QED BY <1>1, <2>2, <2>3
<1>17. ASSUME InData', NEW b \in 1..transferred' PROVE buffer'[b] = b
  <2>1. InData /\ b \in 1..transferred /\ buffer[b] = b /\ transferred \in 0..Bytes
    BY <1>17 DEF InData, DataInv, UrbsTypeOK
  <2>2. b \in 1..Bytes
    BY <1>1, <2>1
  <2>3. ASSUME n > 0 PROVE b - Off(g[1].i) \notin 1..n
    <3>1. outcome # "NO_DEVICE" /\ kind # "iso"
      BY <1>7, <2>1, <2>3 DEF InData
    <3>2. s[0] = transferred /\ 0 \in 0..Len(queue)
      BY <1>2, <1>9, <3>1 DEF Sums
    <3>3. transferred <= received /\ Off(g[1].i) \in Nat
      BY <1>5, <1>7, <1>10, <2>3, <3>2
    <3> QED BY <1>1, <1>7, <2>1, <2>3, <3>3
  <2>4. buffer'[b] = buffer[b]
    BY <2>2, <2>3 DEF Brings
  <2> QED BY <2>1, <2>4
<1>18. Pending' \subseteq Urb
  BY DEF Pending
<1>19. DataInv'
  <2>1. \E ss : Sums(ss)' /\ Placed(ss)'
    BY <1>12, <1>14
  <2> QED BY <1>15, <1>16, <1>17, <2>1 DEF DataInv, Off
<1> QED BY <1>8, <1>19

----------------------------------------------------------------------------
(* Steps of the handler: the first URB of the queue is reaped.             *)

Reaps ==
    /\ queue # <<>> /\ queue' = Tail(queue)
    /\ urb' = [urb EXCEPT ![Head(queue).i] = "none"]

LEMMA First ==
    ASSUME QueueInv, queue # <<>>
    PROVE  /\ queue \in Seq(Entry) /\ Len(queue) \in Nat /\ 1 \in 1..Len(queue)
           /\ Head(queue) = queue[1] /\ Head(queue) \in Entry
           /\ Head(queue).i \in Urb /\ Head(queue).len \in 0..Block
           /\ urb[Head(queue).i] = "done" /\ Head(queue).i \in InFlight
<1>1. queue \in Seq(Entry)
  BY DEF QueueInv
<1>2. /\ Len(queue) \in Nat /\ 1 \in 1..Len(queue) /\ Head(queue) = queue[1]
      /\ Head(queue) \in Entry
  <2>1. Len(queue) \in Nat /\ Len(queue) # 0
    BY <1>1, EmptySeq, LenProperties
  <2>2. Head(queue) = queue[1] /\ Head(queue) \in Entry
    BY <1>1, HeadTailProperties
  <2> QED BY <2>1, <2>2
<1>3. Head(queue).i \in Urb /\ Head(queue).len \in 0..Block
  BY <1>2 DEF Entry
<1>4. urb[Head(queue).i] = "done"
  BY <1>2 DEF QueueInv
<1> QED BY <1>1, <1>2, <1>3, <1>4 DEF InFlight

LEMMA Dequeued ==
    ASSUME UrbsTypeOK, QueueInv, Reaps
    PROVE  /\ queue' \in Seq(Entry) /\ Len(queue') \in Nat /\ Len(queue') = Len(queue) - 1
           /\ \A k \in 1..Len(queue') : k + 1 \in 1..Len(queue) /\ queue'[k] = queue[k + 1]
           /\ QueueInv' /\ Pending' = Pending /\ InFlight' = InFlight \ {Head(queue).i}
           /\ InOrder => InOrder'
           /\ StatusInv /\ priv'.num = priv.num /\ unplugged' = unplugged => StatusInv'
<1>1. /\ queue \in Seq(Entry) /\ Len(queue) \in Nat /\ 1 \in 1..Len(queue)
      /\ Head(queue) = queue[1] /\ queue[1].i \in Urb /\ urb[queue[1].i] = "done"
  BY First DEF Reaps
<1>2. /\ queue' \in Seq(Entry) /\ Len(queue') = Len(queue) - 1
      /\ \A k \in 1..Len(queue) - 1 : queue'[k] = queue[k + 1]
  BY <1>1, HeadTailProperties DEF Reaps
<1>3. /\ Len(queue') \in Nat
      /\ \A k \in 1..Len(queue') : k + 1 \in 1..Len(queue) /\ queue'[k] = queue[k + 1]
  BY <1>1, <1>2
<1>4. /\ urb' \in [Urb -> {"none", "pending", "done"}]
      /\ \A i \in Urb : urb'[i] = IF i = queue[1].i THEN "none" ELSE urb[i]
  BY <1>1 DEF UrbsTypeOK, Reaps
<1>5. \A k \in 1..Len(queue) : queue[k].i \in Urb
  <2>1. \A k \in 1..Len(queue) : queue[k] \in Entry
    BY <1>1, ElementOfSeq
  <2> QED BY <2>1 DEF Entry
<1>6. QueueInv'
  <2>1. ASSUME NEW k \in 1..Len(queue') PROVE urb'[queue'[k].i] = "done"
    <3>1. k + 1 \in 1..Len(queue) /\ queue'[k] = queue[k + 1] /\ k + 1 # 1
      BY <1>3
    <3>2. queue[k + 1].i # queue[1].i /\ urb[queue[k + 1].i] = "done"
      BY <1>1, <3>1 DEF QueueInv
    <3> QED BY <1>4, <1>5, <3>1, <3>2
  <2>2. ASSUME NEW k \in 1..Len(queue'), NEW l \in 1..Len(queue'), queue'[k].i = queue'[l].i
        PROVE  k = l
    <3>1. /\ k + 1 \in 1..Len(queue) /\ queue'[k] = queue[k + 1]
          /\ l + 1 \in 1..Len(queue) /\ queue'[l] = queue[l + 1]
      BY <1>3
    <3>2. k + 1 = l + 1
      BY <2>2, <3>1 DEF QueueInv
    <3> QED BY <3>2
  <2>3. ASSUME NEW i \in Urb, urb'[i] = "done" PROVE \E k \in 1..Len(queue') : queue'[k].i = i
    <3>1. urb[i] = "done" /\ i # queue[1].i
      BY <1>4, <2>3
    <3>2. PICK k \in 1..Len(queue) : queue[k].i = i
      BY <3>1 DEF QueueInv
    <3>3. k - 1 \in 1..Len(queue') /\ k - 1 + 1 = k
      BY <1>1, <1>2, <3>1, <3>2
    <3>4. queue'[k - 1] = queue[k]
      BY <1>3, <3>3
    <3> QED BY <3>2, <3>3, <3>4
  <2> QED BY <1>2, <2>1, <2>2, <2>3 DEF QueueInv
<1>7. Pending' = Pending
  BY <1>1, <1>4 DEF Pending
<1>8. InFlight' = InFlight \ {Head(queue).i}
  BY <1>1, <1>4 DEF InFlight
<1>9. InOrder => InOrder'
  <2> SUFFICES ASSUME InOrder PROVE InOrder'
    OBVIOUS
  <2>1. ASSUME NEW k \in 1..Len(queue'), NEW l \in 1..Len(queue'), k < l
        PROVE  queue'[k].i < queue'[l].i
    <3>1. /\ k + 1 \in 1..Len(queue) /\ queue'[k] = queue[k + 1]
          /\ l + 1 \in 1..Len(queue) /\ queue'[l] = queue[l + 1] /\ k + 1 < l + 1
      BY <1>3, <2>1
    <3> QED BY <3>1 DEF InOrder
  <2>2. ASSUME NEW k \in 1..Len(queue'), NEW j \in Pending' PROVE queue'[k].i < j
    BY <1>3, <1>7 DEF InOrder
  <2> QED BY <2>1, <2>2 DEF InOrder
<1>10. StatusInv /\ priv'.num = priv.num /\ unplugged' = unplugged => StatusInv'
  <2> SUFFICES ASSUME StatusInv, priv'.num = priv.num, unplugged' = unplugged,
                      NEW k \in 1..Len(queue')
               PROVE  /\ queue'[k].status # "EPIPE"
                      /\ queue'[k].status = "EOVERFLOW" => queue'[k].i = priv'.num
                      /\ queue'[k].status = "ESHUTDOWN" =>
                            unplugged' /\ \A l \in k..Len(queue') : queue'[l].len = 0
    BY DEF StatusInv
  <2>1. k + 1 \in 1..Len(queue) /\ queue'[k] = queue[k + 1]
    BY <1>3
  <2>2. /\ queue[k + 1].status # "EPIPE"
        /\ queue[k + 1].status = "EOVERFLOW" => queue[k + 1].i = priv.num
        /\ queue[k + 1].status = "ESHUTDOWN" =>
              unplugged /\ \A l \in k + 1..Len(queue) : queue[l].len = 0
    BY <2>1 DEF StatusInv
  <2>3. ASSUME queue[k + 1].status = "ESHUTDOWN", NEW l \in k..Len(queue')
        PROVE  queue'[l].len = 0
    <3>1. l \in 1..Len(queue') /\ l + 1 \in k + 1..Len(queue)
      BY <1>1, <1>2, <1>3
    <3> QED BY <1>3, <2>2, <2>3, <3>1
  <2> QED BY <2>1, <2>2, <2>3
<1> QED BY <1>2, <1>3, <1>6, <1>7, <1>8, <1>9, <1>10

\* One URB less is in flight.
LEMMA OneLess ==
    ASSUME UrbsTypeOK, QueueInv, Reaps
    PROVE  /\ Cardinality(InFlight) \in Nat \ {0} /\ Cardinality(InFlight') \in Nat
           /\ Cardinality(InFlight') = Cardinality(InFlight) - 1
           /\ Cardinality(InFlight') = 0 => InFlight' = {}
<1>1. IsFiniteSet(Urb)
  BY UrbsAssumption, FS_Interval DEF Urb
<1>2. IsFiniteSet(InFlight)
  BY <1>1, FS_Subset DEF InFlight
<1>3. Head(queue).i \in InFlight /\ InFlight' = InFlight \ {Head(queue).i}
  BY First, Dequeued DEF Reaps
<1>4. /\ Cardinality(InFlight) \in Nat /\ Cardinality(InFlight) # 0
  BY <1>2, <1>3, FS_CardinalityType, FS_EmptySet
<1>5. /\ IsFiniteSet(InFlight \ {Head(queue).i})
      /\ Cardinality(InFlight \ {Head(queue).i}) = Cardinality(InFlight) - 1
  BY <1>2, <1>3, FS_RemoveElement
<1>6. Cardinality(InFlight \ {Head(queue).i}) = 0 => InFlight \ {Head(queue).i} = {}
  BY <1>5, FS_EmptySet
<1> QED BY <1>3, <1>4, <1>5, <1>6

\* A queue of nothing in flight is empty.
LEMMA NothingLeft ==
    ASSUME QueueInv, InFlight = {}
    PROVE  queue = <<>>
<1> SUFFICES ASSUME queue # <<>> PROVE FALSE
  OBVIOUS
<1> QED BY First

\* The bytes of the first URB are those that come next.
LEMMA FirstBytes ==
    ASSUME UrbsTypeOK, IdleInv, QueueInv, DataInv, queue # <<>>, kind # "iso"
    PROVE  /\ outcome = "flying" /\ transferred \in Nat /\ received \in 0..Bytes
           /\ transferred + Head(queue).len <= received
           /\ Head(queue).len > 0 => transferred <= Off(Head(queue).i)
           /\ InData => \A o \in 1..Head(queue).len :
                           buffer[Off(Head(queue).i) + o] = transferred + o
<1>1. /\ Len(queue) \in Nat /\ 1 \in 1..Len(queue) /\ Head(queue) = queue[1]
      /\ queue[1].len \in 0..Block /\ Block \in Nat
  BY First, UrbsAssumption
<1>2. outcome = "flying" /\ transferred \in Nat /\ received \in 0..Bytes
  BY DEF IdleInv, UrbsTypeOK
<1>3. PICK s : Sums(s) /\ Placed(s)
  BY DEF DataInv
<1>4. s[0] = transferred /\ s[1] = s[1 - 1] + queue[1].len /\ s[1 - 1] = s[0]
  BY <1>1, <1>2, <1>3 DEF Sums
<1>5. s[1] <= received
  <2>1. 1 \in 0..Len(queue) /\ Len(queue) \in 0..Len(queue) /\ 1 <= Len(queue)
    BY <1>1
  <2> QED BY <1>3, <2>1 DEF Sums
<1>6. queue[1].len > 0 =>
         /\ s[1 - 1] <= Off(queue[1].i)
         /\ InData => \A o \in 1..queue[1].len : buffer[Off(queue[1].i) + o] = s[1 - 1] + o
  BY <1>1, <1>3 DEF Placed
<1>7. ASSUME InData, NEW o \in 1..queue[1].len
      PROVE  buffer[Off(queue[1].i) + o] = transferred + o
  <2>1. queue[1].len > 0
    BY <1>1
  <2> QED BY <1>4, <1>6, <1>7, <2>1
<1>8. transferred + queue[1].len <= received
  BY <1>4, <1>5
<1>9. queue[1].len > 0 => transferred <= Off(queue[1].i)
  BY <1>4, <1>6
<1> QED BY <1>1, <1>2, <1>7, <1>8, <1>9

\* They are put there, if they are not there already.
Puts(u) ==
    /\ \A b \in 1..Bytes :
          b <= transferred \/ b > transferred + u.len => buffer'[b] = buffer[b]
    /\ \A o \in 1..u.len : buffer'[transferred + o] = transferred + o

LEMMA DequeuedData ==
    ASSUME UrbsTypeOK, IdleInv, QueueInv, DataInv, Reaps,
           kind' = kind, isIn' = isIn, received' = received, ~Submits',
           kind # "iso" => transferred' = transferred + Head(queue).len,
           InData => Puts(Head(queue))
    PROVE  DataInv' /\ (kind # "iso" => transferred' \in 0..Bytes)
<1>1. /\ Len(queue) \in Nat /\ 1 \in 1..Len(queue) /\ Head(queue) = queue[1] /\ queue # <<>>
      /\ queue[1].len \in 0..Block /\ Block \in Nat /\ received \in 0..Bytes /\ Bytes \in Nat
      /\ queue \in Seq(Entry)
  BY First, UrbsAssumption DEF Reaps, UrbsTypeOK, Bytes
<1>2. /\ Len(queue') \in Nat /\ Len(queue') = Len(queue) - 1
      /\ \A k \in 1..Len(queue') : k + 1 \in 1..Len(queue) /\ queue'[k] = queue[k + 1]
      /\ Pending' = Pending
  BY Dequeued
<1>3. kind # "iso" => /\ outcome = "flying" /\ transferred \in Nat
                      /\ transferred + queue[1].len <= received
  BY <1>1, FirstBytes
<1>4. PICK s : Sums(s) /\ Placed(s)
  BY DEF DataInv
<1>5. \A k \in 0..Len(queue) : s[k] \in Nat
  BY <1>4 DEF Sums
<1>6. PICK z : /\ z \in [0..Len(queue') -> Nat]
               /\ \A k \in 0..Len(queue') : z[k] = s[k + 1]
  <2> DEFINE w == [k \in 0..Len(queue') |-> s[k + 1]]
  <2>1. w \in [0..Len(queue') -> Nat] /\ \A k \in 0..Len(queue') : w[k] = s[k + 1]
    BY <1>1, <1>2, <1>5
  <2> HIDE DEF w
  <2> QED BY <2>1
<1>7. s[1] = s[0] + queue[1].len
  <2>1. s[1] = s[1 - 1] + queue[1].len
    BY <1>1, <1>4 DEF Sums
  <2> QED BY <2>1
<1>8. kind # "iso" => s[0] = transferred
  BY <1>3, <1>4 DEF Sums
<1>9. Sums(z)'
  <2>1. z[Len(queue')] = received'
    <3>1. Len(queue') \in 0..Len(queue') /\ Len(queue') + 1 = Len(queue)
      BY <1>1, <1>2
    <3> QED BY <1>4, <1>6, <3>1 DEF Sums
  <2>2. ASSUME NEW k \in 1..Len(queue') PROVE z[k] = z[k - 1] + queue'[k].len
    <3>1. /\ k \in 0..Len(queue') /\ k - 1 \in 0..Len(queue') /\ k - 1 + 1 = k
          /\ k + 1 \in 1..Len(queue) /\ queue'[k] = queue[k + 1] /\ k + 1 - 1 = k
      BY <1>1, <1>2
    <3>2. s[k + 1] = s[k + 1 - 1] + queue[k + 1].len
      BY <1>4, <3>1 DEF Sums
    <3> QED BY <1>6, <3>1, <3>2
  <2>3. ASSUME NEW k \in 0..Len(queue'), NEW l \in 0..Len(queue'), k <= l PROVE z[k] <= z[l]
    <3>1. k + 1 \in 0..Len(queue) /\ l + 1 \in 0..Len(queue) /\ k + 1 <= l + 1
      BY <1>1, <1>2, <2>3
    <3> QED BY <1>4, <1>6, <3>1 DEF Sums
  <2>4. kind' # "iso" => z[0] = transferred'
    <3>1. z[0] = s[0 + 1]
      BY <1>2, <1>6
    <3> QED BY <1>1, <1>7, <1>8, <3>1
  <2> QED BY <1>6, <2>1, <2>2, <2>3, <2>4 DEF Sums
<1>10. Placed(z)'
  <2> SUFFICES ASSUME NEW k \in 1..Len(queue'), queue'[k].len > 0
               PROVE  /\ z[k - 1] <= Off(queue'[k].i)
                      /\ InData' => \A o \in 1..queue'[k].len :
                                        buffer'[Off(queue'[k].i) + o] = z[k - 1] + o
    BY DEF Placed, Off
  <2>1. /\ k + 1 \in 1..Len(queue) /\ queue'[k] = queue[k + 1] /\ k - 1 \in 0..Len(queue')
        /\ z[k - 1] = s[k] /\ k + 1 - 1 = k /\ k \in 0..Len(queue)
    <3>1. k - 1 \in 0..Len(queue') /\ k - 1 + 1 = k /\ k + 1 - 1 = k /\ k \in 0..Len(queue)
      BY <1>1, <1>2
    <3> QED BY <1>2, <1>6, <3>1
  <2>2. queue[k + 1].i \in Urb /\ queue[k + 1].len \in 0..Block
    <3>1. queue[k + 1] \in Entry
      BY <1>1, <2>1, ElementOfSeq
    <3> QED BY <3>1 DEF Entry
  <2>3. /\ s[k + 1 - 1] <= Off(queue[k + 1].i)
        /\ InData => \A o \in 1..queue[k + 1].len :
                        buffer[Off(queue[k + 1].i) + o] = s[k + 1 - 1] + o
    BY <1>4, <2>1 DEF Placed
  <2>4. ASSUME InData, NEW o \in 1..queue[k + 1].len
        PROVE  buffer'[Off(queue[k + 1].i) + o] = s[k] + o
    <3>1. kind # "iso"
      BY <2>4 DEF InData
    <3>2. s[1] <= s[k] /\ s[k] \in Nat /\ s[1] \in Nat
      <4>1. 1 \in 0..Len(queue) /\ 1 <= k
        BY <1>1, <1>2
      <4> QED BY <1>4, <1>5, <2>1, <4>1 DEF Sums
    <3>3. Off(queue[k + 1].i) \in Nat /\ Off(queue[k + 1].i) + Block <= Bytes
      <4>1. queue[k + 1].i \in Nat \ {0}
        BY <2>2, UrbsAssumption DEF Urb
      <4> QED BY <2>2, <4>1, Blocks
    <3>4. PICK p \in 1..Bytes : p = Off(queue[k + 1].i) + o
      BY <1>1, <2>2, <3>3, SMTT(30)
    <3>5. p > transferred + queue[1].len
      <4>1. s[1] = transferred + queue[1].len
        BY <1>7, <1>8, <3>1
      <4>2. s[k] <= Off(queue[k + 1].i)
        BY <2>1, <2>3
      <4>3. o \in Nat /\ o > 0
        BY <1>1, <2>2
      <4>4. s[k] < p
        BY <3>2, <3>3, <3>4, <4>2, <4>3
      <4> QED BY <3>2, <4>1, <4>4
    <3>6. buffer'[p] = buffer[p]
      BY <1>1, <2>4, <3>5 DEF Puts
    <3> QED BY <2>1, <2>3, <2>4, <3>4, <3>6
  <2>5. InData' <=> InData
    BY DEF InData
  <2> QED BY <2>1, <2>3, <2>4, <2>5
<1>11. ASSUME NEW j \in Pending' PROVE received' <= Off(j)
  BY <1>2 DEF DataInv
<1>12. ASSUME InData', NEW b \in 1..transferred' PROVE buffer'[b] = b
  <2>1. InData /\ kind # "iso" /\ transferred' = transferred + queue[1].len
    BY <1>1, <1>12 DEF InData
  <2>2. transferred \in Nat /\ b \in 1..Bytes
    BY <1>1, <1>3, <2>1
  <2>3. CASE b <= transferred
    <3>1. buffer[b] = b
      BY <2>1, <2>2, <2>3 DEF DataInv
    <3> QED BY <1>1, <2>1, <2>2, <2>3, <3>1 DEF Puts
  <2>4. CASE b > transferred
    <3>1. PICK o \in 1..queue[1].len : b = transferred + o
      <4>1. b - transferred \in 1..queue[1].len /\ b = transferred + (b - transferred)
        BY <1>1, <2>1, <2>2, <2>4
      <4> QED BY <4>1
    <3> QED BY <1>1, <2>1, <3>1 DEF Puts
  <2> QED BY <2>2, <2>3, <2>4
<1>13. kind # "iso" => transferred' \in 0..Bytes
  BY <1>1, <1>3
<1>14. DataInv'
  <2>1. \E ss : Sums(ss)' /\ Placed(ss)'
    BY <1>9, <1>10
  <2> QED BY <1>11, <1>12, <2>1 DEF DataInv, Off
<1> QED BY <1>13, <1>14

\* len bytes are added in the block of URB i.
ReceivedBy(i, len) ==
    /\ buffer' \in [1..Bytes -> 0..Bytes]
    /\ \A b \in 1..Bytes :
          buffer'[b] = IF isIn /\ len > 0 /\ b - Off(i) \in 1..len
                       THEN received + (b - Off(i)) ELSE buffer[b]

LEMMA ReceivedBytes ==
    ASSUME UrbsTypeOK, NEW i \in Urb, NEW len \in 0..Block, Receive(i, len),
           received + len <= Bytes
    PROVE  ReceivedBy(i, len)
<1>1. /\ Block \in Nat /\ Bytes \in Nat /\ received \in Nat
      /\ buffer \in [1..Bytes -> 0..Bytes] /\ isIn \in BOOLEAN
  BY UrbsAssumption DEF UrbsTypeOK, Bytes
<1>2. Off(i) \in Nat
  <2>1. i \in Nat \ {0}
    BY UrbsAssumption DEF Urb
  <2> QED BY <2>1, Blocks
<1>3. CASE isIn
  <2>1. buffer' = [b \in 1..Bytes |-> IF b - Off(i) \in 1..len
                                      THEN received + (b - Off(i)) ELSE buffer[b]]
    BY <1>3 DEF Receive, Off
  <2>2. ASSUME NEW b \in 1..Bytes PROVE buffer'[b] \in 0..Bytes
    <3>1. CASE b - Off(i) \in 1..len
      BY <1>1, <1>2, <2>1, <3>1
    <3>2. CASE b - Off(i) \notin 1..len
      BY <1>1, <2>1, <3>2
    <3> QED BY <3>1, <3>2
  <2>3. buffer' \in [1..Bytes -> 0..Bytes]
    BY <2>1, <2>2
  <2>4. \A b \in 1..Bytes : b - Off(i) \in 1..len => len > 0
    BY <1>1, <1>2
  <2> QED BY <1>3, <2>1, <2>3, <2>4 DEF ReceivedBy
<1>4. CASE ~isIn
  BY <1>1, <1>4 DEF Receive, ReceivedBy
<1> QED BY <1>1, <1>3, <1>4

LEMMA EmptyQueue ==
    ASSUME NEW q \in Seq(Entry), 1 \notin 1..Len(q)
    PROVE  q = <<>>
<1>1. Len(q) \in Nat
  BY LenProperties
<1>2. Len(q) = 0
  BY <1>1
<1> QED BY <1>2, EmptySeq

\* What every step has in common in which URBs come back.
LEMMA EnqueuedStep ==
    ASSUME UrbsInv, NEW g, Enqueues(g), NEW n, Brings(n, g),
           UNCHANGED <<setupVars, priv, cancelling, outcome, transferred, packets, submitsLeft>>,
           unplugged' \in BOOLEAN, refused' \in BOOLEAN,
           work'.do = work.do, Submits => work' = work, work = NoOp => work' = NoOp
    PROVE  UrbsTypeOK' /\ IdleInv' /\ QueueInv' /\ CountInv' /\ DataInv' /\ InFlight' = InFlight
<1>1. UrbsTypeOK /\ WorkInv /\ IdleInv /\ QueueInv /\ PendingInv /\ CountInv /\ DataInv
  BY DEF UrbsInv
<1>2. QueueInv' /\ InFlight' = InFlight /\ queue' \in Seq(Entry) /\ Len(queue') \in Nat
  BY <1>1, EnqueuedQueue, Enqueued
<1>3. DataInv' /\ received' \in 0..Bytes
  BY <1>1, EnqueuedData DEF setupVars, Submits
<1>4. UrbsTypeOK'
  <2>1. ASSUME NEW k \in DOMAIN queue' PROVE queue'[k].i \in Urb /\ queue'[k].len \in 0..Block
    <3>1. k \in 1..Len(queue')
      BY <1>2, LenProperties
    <3>2. queue'[k] \in Entry
      BY <1>2, <3>1, ElementOfSeq
    <3> QED BY <3>2 DEF Entry
  <2>2. /\ urb' \in [Urb -> {"none", "pending", "done"}]
        /\ buffer' \in [1..Bytes -> 0..Bytes]
    BY DEF Enqueues, Brings
  <2>3. work'.do \in {"none", "submit", "discard"}
    BY <1>1 DEF UrbsTypeOK
  <2> QED BY <1>1, <1>3, <2>1, <2>2, <2>3 DEF UrbsTypeOK, setupVars
<1>5. IdleInv'
  <2>1. outcome' = "flying" => priv'.urbs
    BY <1>1 DEF IdleInv
  <2>2. ASSUME outcome' # "flying" PROVE work' = NoOp /\ queue' = <<>> /\ InFlight' = {}
    <3>1. work = NoOp /\ InFlight = {}
      BY <1>1, <2>2 DEF IdleInv
    <3>2. 1 \notin 1..Len(queue')
      <4> SUFFICES ASSUME 1 \in 1..Len(queue') PROVE FALSE
        OBVIOUS
      <4>1. queue'[1] \in Entry
        BY <1>2, ElementOfSeq
      <4>2. queue'[1].i \in Urb /\ urb'[queue'[1].i] = "done"
        BY <1>2, <4>1 DEF QueueInv, Entry
      <4> QED BY <1>2, <3>1, <4>2 DEF InFlight
    <3> QED BY <1>2, <3>1, <3>2, EmptyQueue
  <2> QED BY <2>1, <2>2 DEF IdleInv
<1>6. CountInv'
  BY <1>1, <1>2 DEF CountInv, setupVars, Submits
<1> QED BY <1>2, <1>3, <1>4, <1>5, <1>6

\* What was on the queue keeps its status and order, when nothing is unplugged.
LEMMA EnqueuedStatus ==
    ASSUME QueueInv, StatusInv, NEW g, Enqueues(g), priv'.num = priv.num, ~unplugged,
           \A k \in 1..Len(g) :
              /\ g[k].status # "EPIPE" /\ g[k].status # "ESHUTDOWN"
              /\ g[k].status = "EOVERFLOW" => g[k].i = priv.num
    PROVE  StatusInv'
<1> SUFFICES ASSUME NEW k \in 1..Len(queue')
             PROVE  /\ queue'[k].status # "EPIPE"
                    /\ queue'[k].status = "EOVERFLOW" => queue'[k].i = priv'.num
                    /\ queue'[k].status # "ESHUTDOWN"
  BY DEF StatusInv
<1>1. \/ k \in 1..Len(queue) /\ queue'[k] = queue[k]
      \/ k - Len(queue) \in 1..Len(g) /\ queue'[k] = g[k - Len(queue)]
  BY Enqueued
<1> QED BY <1>1 DEF StatusInv

LEMMA UrbCompletesStep ==
    ASSUME UrbsInv, Plain, NEW len \in 0..Block,
           NEW st \in Errors \cup {"ok", "EREMOTEIO"}, UrbCompletes(len, st)
    PROVE  UrbsInv'
<1> DEFINE rest == IF cont /\ st # "ok" THEN Pending \ {Oldest} ELSE {}
           gb == GiveBack(rest, "ECONNRESET")
           g == <<Done(Oldest, st, len)>> \o gb
<1>1. UrbsTypeOK /\ WorkInv /\ QueueInv /\ StatusInv /\ PendingInv /\ NormalInv /\ DiscardInv
  BY DEF UrbsInv
<1>2. /\ Oldest \in Pending /\ Oldest \in Urb /\ Oldest \in Nat
      /\ \A j \in Pending : Oldest <= j
      /\ Pending \subseteq Urb /\ Pending \subseteq Nat
  <2>1. Pending \subseteq Urb /\ Urb \subseteq Nat
    BY UrbsAssumption DEF Pending, Urb
  <2> QED BY <2>1, Oldest_is DEF UrbCompletes
<1>3. rest \subseteq Pending /\ Oldest \notin rest /\ rest \subseteq Urb
      /\ (rest = {} \/ rest = Pending \ {Oldest})
  BY <1>2
<1>4. \A i, j \in rest, m \in Urb : i <= m /\ m <= j => m \in rest
  <2> SUFFICES ASSUME NEW i \in rest, NEW j \in rest, NEW m \in Urb, i <= m, m <= j
               PROVE  m \in rest
    OBVIOUS
  <2>1. i \in Pending /\ j \in Pending /\ i # Oldest /\ rest = Pending \ {Oldest}
    BY <1>3
  <2>2. m \in Pending
    BY <1>1, <2>1 DEF PendingInv
  <2>3. m # Oldest
    BY <1>2, <2>1
  <2> HIDE DEF rest
  <2> QED BY <2>1, <2>2, <2>3
<1> HIDE DEF rest
<1>5. /\ gb \in Seq(Entry)
      /\ \A k \in 1..Len(gb) : /\ gb[k].i \in rest /\ gb[k].len = 0
                               /\ gb[k].status = "ECONNRESET"
      /\ \A k, l \in 1..Len(gb) : k < l => gb[k].i < gb[l].i
      /\ \A i \in rest : \E k \in 1..Len(gb) : gb[k].i = i
  <2>1. "ECONNRESET" \in UrbErrors \cup {"ok"}
    BY DEF UrbErrors
  <2> QED BY <1>3, <1>4, <2>1, Given
<1> HIDE DEF gb
<1>6. Done(Oldest, st, len) \in Entry
  <2>1. st \in UrbErrors \cup {"ok"}
    BY UrbsAssumption DEF UrbErrors
  <2> QED BY <1>2, <2>1 DEF Done, Entry
<1>7. /\ g \in Seq(Entry) /\ Len(g) = 1 + Len(gb) /\ Len(gb) \in Nat
      /\ g[1] = Done(Oldest, st, len)
      /\ \A k \in 1..Len(g) : k # 1 => k - 1 \in 1..Len(gb) /\ g[k] = gb[k - 1]
  <2>1. /\ <<Done(Oldest, st, len)>> \in Seq(Entry) /\ Len(<<Done(Oldest, st, len)>>) = 1
        /\ <<Done(Oldest, st, len)>>[1] = Done(Oldest, st, len) /\ Len(gb) \in Nat
    BY <1>5, <1>6, LenProperties
  <2>2. /\ g \in Seq(Entry) /\ Len(g) = 1 + Len(gb)
        /\ \A k \in 1..1 + Len(gb) :
              g[k] = IF k <= 1 THEN <<Done(Oldest, st, len)>>[k] ELSE gb[k - 1]
    BY <1>5, <2>1, ConcatProperties
  <2> HIDE DEF g
  <2> QED BY <2>1, <2>2
<1>8. queue' = queue \o g
  <2>1. queue' = Append(queue, Done(Oldest, st, len)) \o gb
    BY DEF UrbCompletes, rest, gb
  <2>2. Append(queue, Done(Oldest, st, len)) = queue \o <<Done(Oldest, st, len)>>
    BY <1>1, <1>6, AppendIsConcat DEF QueueInv
  <2>3. queue \in Seq(Entry) /\ <<Done(Oldest, st, len)>> \in Seq(Entry) /\ gb \in Seq(Entry)
    BY <1>1, <1>5, <1>6 DEF QueueInv
  <2>4. (queue \o <<Done(Oldest, st, len)>>) \o gb = queue \o (<<Done(Oldest, st, len)>> \o gb)
    BY <2>3, ConcatAssociative
  <2> QED BY <2>1, <2>2, <2>4
<1> HIDE DEF g
<1>9. g[1].i = Oldest /\ g[1].len = len /\ g[1].status = st
  BY <1>7 DEF Done
<1>10. \A k \in 1..Len(g) : k # 1 =>
          /\ g[k].i \in rest /\ g[k].len = 0 /\ g[k].status = "ECONNRESET"
  <2> SUFFICES ASSUME NEW k \in 1..Len(g), k # 1
               PROVE  /\ g[k].i \in rest /\ g[k].len = 0 /\ g[k].status = "ECONNRESET"
    OBVIOUS
  <2>1. k - 1 \in 1..Len(gb) /\ g[k] = gb[k - 1]
    BY <1>7
  <2> QED BY <1>5, <2>1
<1>11. \A k, l \in 1..Len(g) : k < l => g[k].i < g[l].i
  <2> SUFFICES ASSUME NEW k \in 1..Len(g), NEW l \in 1..Len(g), k < l PROVE g[k].i < g[l].i
    OBVIOUS
  <2>1. l # 1 /\ g[l].i \in rest
    BY <1>7, <1>10
  <2>2. CASE k = 1
    <3>1. Oldest <= g[l].i /\ g[l].i # Oldest /\ g[l].i \in Nat
      BY <1>2, <1>3, <2>1
    <3> QED BY <1>2, <1>9, <2>2, <3>1
  <2>3. CASE k # 1
    <3>1. /\ k - 1 \in 1..Len(gb) /\ g[k] = gb[k - 1]
          /\ l - 1 \in 1..Len(gb) /\ g[l] = gb[l - 1] /\ k - 1 < l - 1
      BY <1>7, <2>1, <2>3
    <3> QED BY <1>5, <3>1
  <2> QED BY <2>2, <2>3
<1>12. \A i \in Urb : (\E k \in 1..Len(g) : g[k].i = i) <=> i = Oldest \/ i \in rest
  <2> SUFFICES ASSUME NEW i \in Urb
               PROVE  (\E k \in 1..Len(g) : g[k].i = i) <=> i = Oldest \/ i \in rest
    OBVIOUS
  <2>1. 1 \in 1..Len(g)
    BY <1>7
  <2>2. ASSUME NEW k \in 1..Len(g), g[k].i = i PROVE i = Oldest \/ i \in rest
    BY <1>9, <1>10, <2>2
  <2>3. ASSUME i \in rest PROVE \E k \in 1..Len(g) : g[k].i = i
    <3>1. PICK k \in 1..Len(gb) : gb[k].i = i
      BY <1>5, <2>3
    <3>2. k + 1 \in 1..Len(g) /\ k + 1 # 1 /\ k + 1 - 1 = k
      BY <1>7
    <3>3. g[k + 1] = gb[k]
      BY <1>7, <3>2
    <3> QED BY <3>1, <3>2, <3>3
  <2> QED BY <1>9, <2>1, <2>2, <2>3
<1>13. Enqueues(g)
  <2>1. urb' = [i \in Urb |-> IF i = Oldest \/ i \in rest THEN "done" ELSE urb[i]]
    BY DEF UrbCompletes, rest
  <2>2. \A k \in 1..Len(g) : g[k].i \in Pending
    BY <1>2, <1>3, <1>9, <1>10
  <2>3. \A k, l \in 1..Len(g) : k < l => g[k].i # g[l].i
    <3>1. \A k \in 1..Len(g) : g[k].i \in Nat
      BY <1>2, <2>2
    <3> QED BY <1>11, <3>1
  <2>4. urb' \in [Urb -> {"none", "pending", "done"}]
    BY <1>1, <2>1 DEF UrbsTypeOK
  <2>5. \A i \in Urb : urb'[i] = IF \E k \in 1..Len(g) : g[k].i = i THEN "done" ELSE urb[i]
    BY <1>12, <2>1
  <2> QED BY <1>7, <1>8, <2>2, <2>3, <2>4, <2>5 DEF Enqueues
<1>14. Brings(len, g)
  <2>1. Len(g) > 0 /\ \A j \in Pending : g[1].i <= j
    BY <1>2, <1>7, <1>9
  <2>2. \A k \in 1..Len(g) : g[k].len = IF k = 1 THEN len ELSE 0
    BY <1>9, <1>10
  <2>3. Receive(Oldest, len)
    BY DEF UrbCompletes
  <2>4. received' = received + len
    BY <2>3 DEF Receive
  <2>5. received + len <= Bytes
    <3>1. received <= Off(Oldest)
      BY <1>2 DEF UrbsInv, DataInv
    <3>2. Off(Oldest) \in Nat /\ Off(Oldest) + Block <= Bytes
      <4>1. Oldest \in Nat \ {0}
        BY <1>2 DEF Urb
      <4> QED BY <1>2, <4>1, Blocks
    <3>3. received \in Nat /\ Block \in Nat /\ Bytes \in Nat /\ len \in Nat /\ len <= Block
      BY <1>1, UrbsAssumption DEF UrbsTypeOK, Bytes
    <3> QED BY <3>1, <3>2, <3>3
  <2>6. ReceivedBy(Oldest, len)
    BY <1>1, <1>2, <2>3, <2>5, ReceivedBytes
  <2> QED BY <1>9, <2>1, <2>2, <2>4, <2>6 DEF Brings, ReceivedBy
<1>15. ~unplugged /\ unplugged' = unplugged /\ priv' = priv /\ work' = work
       /\ outcome' = outcome /\ kind' = kind /\ transferred' = transferred
  BY DEF UrbCompletes, setupVars
<1>16. UrbsTypeOK' /\ IdleInv' /\ QueueInv' /\ CountInv' /\ DataInv' /\ InFlight' = InFlight
  <2>1. UNCHANGED <<setupVars, priv, cancelling, outcome, transferred, packets, submitsLeft>>
    BY DEF UrbCompletes
  <2>2. unplugged' \in BOOLEAN /\ refused' \in BOOLEAN
    BY <1>1, <1>15 DEF UrbsTypeOK, UrbCompletes
  <2> QED BY <1>13, <1>14, <1>15, <2>1, <2>2, EnqueuedStep
<1>17. StatusInv'
  <2>1. st # "EPIPE" /\ st # "ESHUTDOWN" /\ (st = "EOVERFLOW" => Oldest = priv.num)
    BY UrbsAssumption DEF Plain, UrbCompletes
  <2>2. \A k \in 1..Len(g) :
           /\ g[k].status # "EPIPE" /\ g[k].status # "ESHUTDOWN"
           /\ g[k].status = "EOVERFLOW" => g[k].i = priv.num
    BY <1>9, <1>10, <2>1
  <2> QED BY <1>1, <1>13, <1>15, <2>2, EnqueuedStatus
<1>18. \A i \in Urb : i \in Pending' <=> i \in Pending /\ i # Oldest /\ i \notin rest
  BY <1>1, <1>12, <1>13, EnqueuedQueue
<1>19. Pending' \subseteq Pending /\ Pending' \subseteq Urb
  BY <1>18 DEF Pending
<1>20. PendingInv'
  <2>1. \A i, j \in Pending', m \in Urb : i <= m /\ m <= j => m \in Pending'
    <3> SUFFICES ASSUME NEW i \in Pending', NEW j \in Pending', NEW m \in Urb, i <= m, m <= j
                 PROVE  m \in Pending'
      OBVIOUS
    <3>1. i \in Pending /\ j \in Pending /\ i # Oldest /\ i \notin rest
      BY <1>18, <1>19
    <3>2. rest = {}
      BY <1>3, <3>1
    <3>3. m \in Pending
      BY <1>1, <3>1 DEF PendingInv
    <3>4. m # Oldest
      BY <1>2, <3>1
    <3> QED BY <1>18, <3>2, <3>3, <3>4
  <2> QED BY <1>1, <1>15, <1>16, <1>19, <2>1 DEF PendingInv, Submits, Discards
<1>21. NormalInv'
  <2> SUFFICES ASSUME outcome = "flying", priv.action = "NORMAL"
               PROVE  /\ Disturbs' \/ InOrder'
                      /\ ~Submits' => \A i \in 1..priv.num : i \in InFlight' <=> i > priv.retired
                      /\ kind \in {"bulk", "interrupt"} => transferred = Off(priv.retired + 1)
    BY <1>15 DEF NormalInv, Off
  <2>1. CASE Disturbs
    <3>1. Disturbs'
      BY <1>15, <2>1 DEF Disturbs, Discards
    <3> QED BY <1>1, <1>15, <1>16, <3>1 DEF NormalInv, Submits
  <2>2. CASE InOrder
    <3>1. \A k \in 1..Len(g), j \in Pending' : g[k].i < j
      <4> SUFFICES ASSUME NEW k \in 1..Len(g), NEW j \in Pending' PROVE g[k].i < j
        OBVIOUS
      <4>1. j \in Pending /\ j # Oldest /\ j \notin rest /\ j \in Nat
        BY <1>2, <1>18, <1>19
      <4>2. rest = {}
        BY <1>3, <4>1
      <4>3. k = 1
        BY <1>10, <4>2
      <4> QED BY <1>2, <1>9, <4>1, <4>3
    <3>2. InOrder'
      BY <1>1, <1>11, <1>13, <2>2, <3>1, EnqueuedInOrder
    <3> QED BY <1>1, <1>15, <1>16, <3>2 DEF NormalInv, Submits
  <2> QED BY <1>1, <2>1, <2>2 DEF NormalInv
<1>22. DiscardInv'
  BY <1>1, <1>15, <1>19 DEF DiscardInv, Discards
<1>23. WorkInv'
  BY <1>1, <1>15 DEF WorkInv
<1> QED BY <1>16, <1>17, <1>20, <1>21, <1>22, <1>23 DEF UrbsInv

LEMMA UnplugUrbsStep ==
    ASSUME UrbsInv, Plain, UnplugUrbs
    PROVE  UrbsInv'
<1> DEFINE g == GiveBack(Pending, "ESHUTDOWN")
<1>1. UrbsTypeOK /\ WorkInv /\ QueueInv /\ StatusInv /\ PendingInv /\ NormalInv
  BY DEF UrbsInv
<1>2. Pending \subseteq Urb
  BY DEF Pending
<1>3. /\ g \in Seq(Entry)
      /\ \A k \in 1..Len(g) : /\ g[k].i \in Pending /\ g[k].len = 0
                              /\ g[k].status = "ESHUTDOWN"
      /\ \A k, l \in 1..Len(g) : k < l => g[k].i < g[l].i
      /\ \A i \in Pending : \E k \in 1..Len(g) : g[k].i = i
  <2>1. "ESHUTDOWN" \in UrbErrors \cup {"ok"}
    BY DEF UrbErrors
  <2>2. \A i, j \in Pending, m \in Urb : i <= m /\ m <= j => m \in Pending
    BY <1>1 DEF PendingInv
  <2> QED BY <1>2, <2>1, <2>2, Given
<1>4. queue' = queue \o g
  BY DEF UnplugUrbs
<1> HIDE DEF g
<1>5. /\ ~unplugged /\ unplugged' = TRUE /\ priv' = priv /\ work' = work /\ work.do # "discard"
      /\ outcome' = outcome /\ kind' = kind /\ transferred' = transferred /\ refused' = refused
      /\ buffer' = buffer /\ received' = received
      /\ UNCHANGED <<setupVars, priv, cancelling, outcome, transferred, packets, submitsLeft>>
  BY DEF UnplugUrbs, Plain, setupVars, dataVars
<1>6. Enqueues(g)
  <2>1. urb' = [i \in Urb |-> IF i \in Pending THEN "done" ELSE urb[i]]
    BY DEF UnplugUrbs
  <2>2. \A k, l \in 1..Len(g) : k < l => g[k].i # g[l].i
    <3>1. Urb \subseteq Nat
      BY UrbsAssumption DEF Urb
    <3>2. \A k \in 1..Len(g) : g[k].i \in Nat
      BY <1>2, <1>3, <3>1
    <3> QED BY <1>3, <3>2
  <2>3. urb' \in [Urb -> {"none", "pending", "done"}]
    BY <1>1, <2>1 DEF UrbsTypeOK
  <2>4. \A i \in Urb : urb'[i] = IF \E k \in 1..Len(g) : g[k].i = i THEN "done" ELSE urb[i]
    BY <1>3, <2>1
  <2> QED BY <1>3, <1>4, <2>2, <2>3, <2>4 DEF Enqueues
<1>7. Brings(0, g)
  <2>1. 0 \in 0..Block /\ received \in Nat /\ buffer \in [1..Bytes -> 0..Bytes]
    BY <1>1, UrbsAssumption DEF UrbsTypeOK
  <2> QED BY <1>3, <1>5, <2>1 DEF Brings
<1>8. UrbsTypeOK' /\ IdleInv' /\ QueueInv' /\ CountInv' /\ DataInv' /\ InFlight' = InFlight
  <2>1. unplugged' \in BOOLEAN /\ refused' \in BOOLEAN
    BY <1>1, <1>5 DEF UrbsTypeOK
  <2> QED BY <1>5, <1>6, <1>7, <2>1, EnqueuedStep
<1>9. Pending' = {}
  <2>1. \A i \in Urb : i \notin Pending'
    BY <1>1, <1>3, <1>6, EnqueuedQueue
  <2> QED BY <2>1 DEF Pending
<1>10. StatusInv'
  <2>1. /\ Len(queue') = Len(queue) + Len(g) /\ Len(queue) \in Nat /\ Len(g) \in Nat
        /\ \A k \in 1..Len(queue') :
              \/ k \in 1..Len(queue) /\ queue'[k] = queue[k]
              \/ k - Len(queue) \in 1..Len(g) /\ queue'[k] = g[k - Len(queue)]
    BY <1>1, <1>6, Enqueued
  <2> SUFFICES ASSUME NEW k \in 1..Len(queue')
               PROVE  /\ queue'[k].status # "EPIPE"
                      /\ queue'[k].status = "EOVERFLOW" => queue'[k].i = priv.num
                      /\ queue'[k].status = "ESHUTDOWN" =>
                            \A l \in k..Len(queue') : queue'[l].len = 0
    BY <1>5 DEF StatusInv
  <2>2. CASE k \in 1..Len(queue)
    <3>1. queue'[k] = queue[k]
      BY <2>1, <2>2
    <3> QED BY <1>1, <1>5, <2>2, <3>1 DEF StatusInv
  <2>3. CASE k \notin 1..Len(queue)
    <3>1. k - Len(queue) \in 1..Len(g) /\ queue'[k] = g[k - Len(queue)]
      BY <2>1, <2>3
    <3>2. ASSUME NEW l \in k..Len(queue') PROVE queue'[l].len = 0
      <4>1. l \in 1..Len(queue') /\ l \notin 1..Len(queue)
        BY <2>1, <2>3
      <4>2. l - Len(queue) \in 1..Len(g) /\ queue'[l] = g[l - Len(queue)]
        BY <2>1, <4>1
      <4> QED BY <1>3, <4>2
    <3> QED BY <1>3, <3>1, <3>2
  <2> QED BY <2>2, <2>3
<1>11. PendingInv'
  BY <1>1, <1>5, <1>8, <1>9 DEF PendingInv, Submits, Discards
<1>12. NormalInv'
  <2> SUFFICES ASSUME outcome = "flying", priv.action = "NORMAL"
               PROVE  /\ InOrder'
                      /\ ~Submits' => \A i \in 1..priv.num : i \in InFlight' <=> i > priv.retired
                      /\ kind \in {"bulk", "interrupt"} => transferred = Off(priv.retired + 1)
    BY <1>5 DEF NormalInv, Off
  <2>1. InOrder
    BY <1>1, <1>5 DEF NormalInv, Disturbs, Discards
  <2>2. InOrder'
    BY <1>1, <1>3, <1>6, <1>9, <2>1, EnqueuedInOrder
  <2> QED BY <1>1, <1>5, <1>8, <2>2 DEF NormalInv, Submits
<1>13. DiscardInv' /\ WorkInv'
  BY <1>1, <1>5 DEF DiscardInv, Discards, WorkInv
<1> QED BY <1>8, <1>10, <1>11, <1>12, <1>13 DEF UrbsInv

\* What a discard does to the record of the discards.
LEMMA Discarded ==
    ASSUME UrbsInv, NEW len, DiscardUrb(len)
    PROVE  /\ Discards /\ Discards' /\ ~Submits' /\ outcome = "flying"
           /\ work.i \in 1..priv.num /\ work.last \in 1..priv.num
           /\ work'.i = work.i - 1 /\ work'.last = work.last /\ work'.then = work.then
           /\ work'.r = IF ~unplugged /\ urb[work.i] = "pending" THEN work.r
                        ELSE IF unplugged THEN "NO_DEVICE"
                        ELSE IF work.i = work.last THEN "NOT_FOUND" ELSE work.r
           /\ WorkInv' /\ work'.do = work.do
<1>1. UrbsTypeOK /\ WorkInv /\ IdleInv
  BY DEF UrbsInv
<1>2. Discards /\ work.i >= work.first /\ priv' = priv
  BY DEF DiscardUrb, Discards
<1>3. /\ work.i \in 0..priv.num /\ work.first \in 1..priv.num /\ work.last \in 1..priv.num
      /\ work.then \in {"reaped", "submitted", "cancelled"}
      /\ work.r \in {"SUCCESS", "NOT_FOUND", "NO_DEVICE"}
      /\ work = [do |-> "discard", i |-> work.i, first |-> work.first,
                 last |-> work.last, then |-> work.then, r |-> work.r]
      /\ work # NoOp /\ priv.num \in Nat
  BY <1>1, <1>2, WorkShape
<1>4. work.i \in 1..priv.num /\ work.i - 1 \in 0..priv.num
  BY <1>2, <1>3
<1> DEFINE r == IF ~unplugged /\ urb[work.i] = "pending" THEN work.r
                ELSE IF unplugged THEN "NO_DEVICE"
                ELSE IF work.i = work.last THEN "NOT_FOUND" ELSE work.r
<1>5. work' = [do |-> "discard", i |-> work.i - 1, first |-> work.first,
               last |-> work.last, then |-> work.then, r |-> r]
  <2>1. CASE ~unplugged /\ urb[work.i] = "pending"
    <3>1. work' = [work EXCEPT !.i = @ - 1]
      BY <2>1 DEF DiscardUrb
    <3> QED BY <1>3, <2>1, <3>1
  <2>2. CASE ~(~unplugged /\ urb[work.i] = "pending")
    <3>1. work' = [work EXCEPT !.i = @ - 1, !.r = r]
      BY <2>2 DEF DiscardUrb
    <3> HIDE DEF r
    <3>2. PICK i, first, last, then, rr :
             work = [do |-> "discard", i |-> i, first |-> first, last |-> last,
                     then |-> then, r |-> rr]
      BY <1>3
    <3>3. /\ work.i = i /\ work.first = first /\ work.last = last /\ work.then = then
          /\ work' = [do |-> "discard", i |-> i - 1, first |-> first, last |-> last,
                      then |-> then, r |-> r]
      BY <3>1, <3>2
    <3> QED BY <3>3
  <2> QED BY <2>1, <2>2
<1>6. r \in {"SUCCESS", "NOT_FOUND", "NO_DEVICE"}
  BY <1>3
<1> HIDE DEF r
<1>7. /\ work'.do = "discard" /\ work'.i = work.i - 1 /\ work'.last = work.last
      /\ work'.then = work.then /\ work'.r = r
  BY <1>5
<1>8. WorkInv'
  <2>1. \E i \in 0..priv.num, first, last \in 1..priv.num,
           then \in {"reaped", "submitted", "cancelled"},
           rr \in {"SUCCESS", "NOT_FOUND", "NO_DEVICE"} :
           work' = [do |-> "discard", i |-> i, first |-> first, last |-> last,
                    then |-> then, r |-> rr]
    <3>1. PICK i \in 0..priv.num, first \in 1..priv.num, last \in 1..priv.num :
              i = work.i - 1 /\ first = work.first /\ last = work.last
      BY <1>3, <1>4
    <3>2. PICK then \in {"reaped", "submitted", "cancelled"} : then = work.then
      BY <1>3
    <3>3. PICK rr \in {"SUCCESS", "NOT_FOUND", "NO_DEVICE"} : rr = r
      BY <1>6
    <3>4. work' = [do |-> "discard", i |-> i, first |-> first, last |-> last,
                   then |-> then, r |-> rr]
      BY <1>5, <3>1, <3>2, <3>3
    <3> QED BY <3>4
  <2> QED BY <1>2, <2>1, ZenonT(60) DEF WorkInv
<1>9. outcome = "flying"
  BY <1>1, <1>3 DEF IdleInv
<1> QED BY <1>2, <1>3, <1>4, <1>7, <1>8, <1>9 DEF Discards, Submits, r

\* The URB that is discarded comes back, ...
LEMMA DiscardPending ==
    ASSUME UrbsInv, Plain, NEW len \in 0..(Block - 1), DiscardUrb(len),
           ~unplugged, urb[work.i] = "pending"
    PROVE  UrbsInv'
<1> DEFINE d == Done(work.i, "ENOENT", len)
           g == <<d>>
<1>1. /\ UrbsTypeOK /\ WorkInv /\ QueueInv /\ StatusInv /\ PendingInv /\ NormalInv
      /\ DiscardInv /\ DataInv
  BY DEF UrbsInv
<1>2. /\ Discards /\ Discards' /\ ~Submits' /\ outcome = "flying" /\ WorkInv'
      /\ work.i \in 1..priv.num /\ work.last \in 1..priv.num
      /\ work'.i = work.i - 1 /\ work'.last = work.last /\ work'.then = work.then
      /\ work'.r = work.r /\ work'.do = work.do
  BY Discarded
<1>3. /\ work.i \in Urb /\ work.i \in Pending /\ work.i \in Nat /\ work.last \in Nat
      /\ Pending \subseteq Urb /\ Urb \subseteq Nat \ {0}
  BY <1>1, <1>2, WorkShape DEF Pending
<1>4. d \in Entry /\ d.i = work.i /\ d.len = len /\ d.status = "ENOENT" /\ len \in 0..Block
  <2>1. "ENOENT" \in UrbErrors
    BY DEF UrbErrors
  <2>2. len \in 0..Block
    BY UrbsAssumption
  <2> QED BY <1>3, <2>1, <2>2 DEF Done, Entry
<1>5. /\ queue' = Append(queue, d) /\ urb' = [urb EXCEPT ![work.i] = "done"]
      /\ Receive(work.i, len) /\ (len > 0 => work.i = Oldest)
  BY DEF DiscardUrb
<1>6. /\ priv' = priv /\ outcome' = outcome /\ kind' = kind /\ transferred' = transferred
      /\ unplugged' = unplugged /\ refused' = refused
      /\ UNCHANGED <<setupVars, priv, cancelling, outcome, transferred, packets, submitsLeft>>
  BY DEF DiscardUrb, setupVars
<1> HIDE DEF d
<1>7. g \in Seq(Entry) /\ Len(g) = 1 /\ g[1] = d
  BY <1>4
<1>8. queue' = queue \o g
  <2>1. queue \in Seq(Entry)
    BY <1>1 DEF QueueInv
  <2> QED BY <1>4, <1>5, <2>1, AppendIsConcat
<1> HIDE DEF g
<1>9. \A k \in 1..Len(g) : k = 1 /\ g[k] = d
  BY <1>7
<1>10. Enqueues(g)
  <2>1. urb' \in [Urb -> {"none", "pending", "done"}]
    BY <1>1, <1>3, <1>5 DEF UrbsTypeOK
  <2>2. \A i \in Urb : urb'[i] = IF \E k \in 1..Len(g) : g[k].i = i THEN "done" ELSE urb[i]
    <3>1. \A i \in Urb : (\E k \in 1..Len(g) : g[k].i = i) <=> i = work.i
      BY <1>4, <1>7, <1>9
    <3>2. \A i \in Urb : urb'[i] = IF i = work.i THEN "done" ELSE urb[i]
      BY <1>1, <1>3, <1>5 DEF UrbsTypeOK
    <3> QED BY <3>1, <3>2
  <2>3. \A k \in 1..Len(g) : g[k].i \in Pending
    BY <1>3, <1>4, <1>9
  <2>4. \A k, l \in 1..Len(g) : k < l => g[k].i # g[l].i
    BY <1>7
  <2> QED BY <1>7, <1>8, <2>1, <2>2, <2>3, <2>4 DEF Enqueues
<1>11. Brings(len, g)
  <2>1. len > 0 => Len(g) > 0 /\ \A j \in Pending : g[1].i <= j
    <3>1. Pending # {}
      BY <1>3
    <3> QED BY <1>4, <1>5, <1>7, <3>1, Oldest_is
  <2>2. \A k \in 1..Len(g) : g[k].len = IF k = 1 THEN len ELSE 0
    BY <1>4, <1>9
  <2>3. received' = received + len
    BY <1>5 DEF Receive
  <2>4. received + len <= Bytes
    <3>1. received <= Off(work.i)
      BY <1>1, <1>3 DEF DataInv
    <3>2. Off(work.i) \in Nat /\ Off(work.i) + Block <= Bytes
      BY <1>3, Blocks
    <3>3. received \in Nat /\ Block \in Nat /\ Bytes \in Nat /\ len \in Nat /\ len <= Block
      BY <1>1, <1>4, UrbsAssumption DEF UrbsTypeOK, Bytes
    <3> QED BY <3>1, <3>2, <3>3
  <2>5. ReceivedBy(work.i, len)
    BY <1>1, <1>3, <1>4, <1>5, <2>4, ReceivedBytes
  <2>6. g[1].i = work.i
    BY <1>4, <1>7
  <2> QED BY <1>4, <2>1, <2>2, <2>3, <2>5, <2>6 DEF Brings, ReceivedBy
<1>12. UrbsTypeOK' /\ IdleInv' /\ QueueInv' /\ CountInv' /\ DataInv' /\ InFlight' = InFlight
  <2>1. unplugged' \in BOOLEAN /\ refused' \in BOOLEAN
    BY <1>1, <1>6 DEF UrbsTypeOK
  <2>2. ~Submits /\ work # NoOp
    BY <1>1, <1>2, WorkShape
  <2> QED BY <1>2, <1>6, <1>10, <1>11, <2>1, <2>2, EnqueuedStep
<1>13. StatusInv'
  <2>1. \A k \in 1..Len(g) :
           /\ g[k].status # "EPIPE" /\ g[k].status # "ESHUTDOWN"
           /\ g[k].status = "EOVERFLOW" => g[k].i = priv.num
    BY <1>4, <1>9
  <2> QED BY <1>1, <1>6, <1>10, <2>1, EnqueuedStatus
<1>14. \A i \in Urb : i \in Pending' <=> i \in Pending /\ i # work.i
  <2>1. \A i \in Urb : (\E k \in 1..Len(g) : g[k].i = i) <=> i = work.i
    BY <1>4, <1>7, <1>9
  <2> QED BY <1>1, <1>10, <2>1, EnqueuedQueue
<1>15. Pending' \subseteq Urb
  BY DEF Pending
<1>16. \A j \in Pending : j <= work.i
  BY <1>1, <1>2 DEF PendingInv
<1>17. PendingInv'
  <2>1. \A i, j \in Pending', m \in Urb : i <= m /\ m <= j => m \in Pending'
    <3> SUFFICES ASSUME NEW i \in Pending', NEW j \in Pending', NEW m \in Urb, i <= m, m <= j
                 PROVE  m \in Pending'
      OBVIOUS
    <3>1. i \in Pending /\ j \in Pending /\ j # work.i
      BY <1>14, <1>15
    <3>2. m \in Pending
      BY <1>1, <3>1 DEF PendingInv
    <3>3. m # work.i
      BY <1>3, <1>16, <3>1
    <3> QED BY <1>14, <3>2, <3>3
  <2>2. ASSUME NEW j \in Pending' PROVE j <= work'.i
    <3>1. j \in Pending /\ j # work.i /\ j \in Nat
      BY <1>3, <1>14, <1>15
    <3> QED BY <1>2, <1>3, <1>16, <3>1
  <2>3. ~unplugged'
    BY <1>6
  <2> QED BY <1>1, <1>2, <1>6, <1>12, <2>1, <2>2, <2>3 DEF PendingInv
<1>18. work.i <= work.last
  BY <1>1, <1>2 DEF DiscardInv
<1>19. NormalInv'
  <2> SUFFICES ASSUME priv.action = "NORMAL"
               PROVE  /\ Disturbs'
                      /\ \A i \in 1..priv.num : i \in InFlight' <=> i > priv.retired
                      /\ kind \in {"bulk", "interrupt"} => transferred = Off(priv.retired + 1)
    BY <1>6 DEF NormalInv, Off
  <2>1. work.then = "cancelled"
    BY <1>1, <1>2 DEF DiscardInv
  <2>2. work.r = "SUCCESS"
    <3>1. work.r \in {"SUCCESS", "NOT_FOUND", "NO_DEVICE"}
      BY <1>1, <1>2, WorkShape
    <3>2. work.r # "NO_DEVICE"
      BY <1>1, <1>2 DEF DiscardInv
    <3>3. work.r # "NOT_FOUND"
      BY <1>1, <1>2, <1>3, <2>1 DEF DiscardInv
    <3> QED BY <3>1, <3>2, <3>3
  <2>3. Disturbs'
    BY <1>2, <1>3, <1>18, <2>1, <2>2 DEF Disturbs
  <2>4. ~Submits
    BY <1>1, <1>2, WorkShape
  <2> QED BY <1>1, <1>2, <1>12, <2>3, <2>4 DEF NormalInv
<1>20. DiscardInv'
  <2>1. work'.i < work'.last
    BY <1>2, <1>3, <1>18
  <2>2. ~(work'.r = "NOT_FOUND" /\ work'.then = "cancelled" /\ priv'.action = "NORMAL")
    BY <1>1, <1>2, <1>3, <1>6 DEF DiscardInv
  <2>3. work'.i # work'.last /\ work'.i <= work'.last
    BY <1>2, <1>3, <2>1
  <2> QED BY <1>1, <1>2, <1>6, <2>2, <2>3 DEF DiscardInv
<1> QED BY <1>2, <1>12, <1>13, <1>17, <1>19, <1>20 DEF UrbsInv

\* ... and one that is not pending any more, or not there, stays.
LEMMA DiscardNothing ==
    ASSUME UrbsInv, Plain, NEW len, DiscardUrb(len), unplugged \/ urb[work.i] # "pending"
    PROVE  UrbsInv'
<1>1. /\ UrbsTypeOK /\ WorkInv /\ IdleInv /\ QueueInv /\ StatusInv /\ PendingInv /\ CountInv
      /\ NormalInv /\ DiscardInv /\ DataInv
  BY DEF UrbsInv
<1>2. /\ Discards /\ Discards' /\ ~Submits' /\ outcome = "flying" /\ WorkInv'
      /\ work.i \in 1..priv.num /\ work.last \in 1..priv.num
      /\ work'.i = work.i - 1 /\ work'.last = work.last /\ work'.then = work.then
      /\ work'.r = IF unplugged THEN "NO_DEVICE"
                   ELSE IF work.i = work.last THEN "NOT_FOUND" ELSE work.r
      /\ work'.do = work.do
  BY Discarded
<1>3. ~Submits /\ work.i \in Nat /\ work.last \in Nat /\ work.i \in Urb /\ Urb \subseteq Nat
      /\ 1..priv.num \subseteq Urb /\ priv.num \in Nat /\ priv.num \in Urb
  BY <1>1, <1>2, WorkShape
<1>4. /\ priv' = priv /\ outcome' = outcome /\ kind' = kind /\ transferred' = transferred
      /\ unplugged' = unplugged /\ refused' = refused /\ isIn' = isIn
      /\ buffer' = buffer /\ urb' = urb /\ queue' = queue /\ received' = received
      /\ UNCHANGED <<setupVars, cancelling, packets, submitsLeft>>
  BY DEF DiscardUrb, setupVars
<1>5. Pending' = Pending /\ InFlight' = InFlight /\ (InOrder => InOrder')
  BY <1>4 DEF Pending, InFlight, InOrder
<1>6. UrbsTypeOK'
  BY <1>1, <1>2, <1>4 DEF UrbsTypeOK, setupVars
<1>7. IdleInv' /\ QueueInv' /\ StatusInv' /\ CountInv'
  BY <1>1, <1>2, <1>3, <1>4, <1>5 DEF IdleInv, QueueInv, StatusInv, CountInv
<1>8. DataInv'
  <2>1. PICK s : Sums(s) /\ Placed(s)
    BY <1>1 DEF DataInv
  <2>2. Sums(s)'
    BY <1>4, <2>1 DEF Sums
  <2>3. Placed(s)'
    BY <1>4, <2>1 DEF Placed, Off, InData
  <2>4. \A j \in Pending' : received' <= Off(j)
    BY <1>1, <1>4, <1>5 DEF DataInv
  <2>5. InData' => \A b \in 1..transferred' : buffer'[b] = b
    BY <1>1, <1>4 DEF DataInv, InData
  <2>6. \E ss : Sums(ss)' /\ Placed(ss)'
    BY <2>2, <2>3
  <2> QED BY <1>2, <2>4, <2>5, <2>6 DEF DataInv, Off
<1>9. Pending \subseteq Urb /\ Pending \subseteq InFlight
  BY DEF Pending, InFlight
<1>10. PendingInv'
  <2>1. ASSUME NEW j \in Pending PROVE j <= work'.i
    <3>1. ~unplugged /\ j \in Nat /\ j <= work.i
      BY <1>1, <1>2, <1>3, <1>9, <2>1 DEF PendingInv
    <3>2. j # work.i
      BY <3>1 DEF Pending
    <3> QED BY <1>2, <1>3, <3>1, <3>2
  <2> QED BY <1>1, <1>2, <1>4, <1>5, <2>1 DEF PendingInv
<1>11. work.i <= work.last
  BY <1>1, <1>2 DEF DiscardInv
<1>12. NormalInv'
  <2> SUFFICES ASSUME priv.action = "NORMAL" PROVE Disturbs' \/ InOrder'
    BY <1>1, <1>2, <1>3, <1>4, <1>5 DEF NormalInv, Off
  <2>1. CASE InOrder
    BY <1>5, <2>1
  <2>2. CASE Disturbs
    <3>1. work.then = "cancelled" /\ work.r = "SUCCESS" /\ work.i < work.last
      BY <2>2 DEF Disturbs
    <3>2. ~unplugged
      BY <1>1, <1>2, <3>1 DEF DiscardInv
    <3>3. work'.r = "SUCCESS" /\ work'.i < work'.last
      BY <1>2, <1>3, <3>1, <3>2
    <3> QED BY <1>2, <3>1, <3>3 DEF Disturbs
  <2> QED BY <1>1, <1>2, <2>1, <2>2 DEF NormalInv
<1>13. DiscardInv'
  <2>1. work'.i < work'.last /\ work'.i # work'.last /\ work'.i <= work'.last
    BY <1>2, <1>3, <1>11
  <2>2. ASSUME work'.r = "NOT_FOUND", work'.then = "cancelled", priv'.action = "NORMAL"
        PROVE  Pending' = {}
    <3>1. ~unplugged /\ work.then = "cancelled" /\ priv.action = "NORMAL"
      BY <1>2, <1>4, <2>2
    <3>2. CASE work.r = "NOT_FOUND"
      BY <1>1, <1>2, <1>5, <3>1, <3>2 DEF DiscardInv
    <3>3. CASE work.r # "NOT_FOUND"
      <4>1. work.i = work.last /\ work.last = priv.num
        BY <1>1, <1>2, <2>2, <3>1, <3>3 DEF DiscardInv
      <4>2. InOrder /\ \A i \in 1..priv.num : i \in InFlight <=> i > priv.retired
        <5>1. ~Disturbs
          BY <1>3, <4>1 DEF Disturbs
        <5> QED BY <1>1, <1>2, <1>3, <3>1, <5>1 DEF NormalInv
      <4> SUFFICES ASSUME NEW j \in Pending PROVE FALSE
        BY <1>5
      <4>3. j \in InFlight /\ j <= priv.num /\ j \in Nat \ {0} /\ j \in 1..priv.num
        <5>1. j \in InFlight /\ j <= priv.num /\ j \in Urb
          BY <1>1, <1>9 DEF PendingInv
        <5> QED BY <1>3, <5>1 DEF Urb
      <4>4. priv.num \in InFlight
        <5>1. priv.retired \in Nat
          BY <1>1, UrbsAssumption DEF UrbsTypeOK
        <5>2. priv.num \in 1..priv.num
          BY <4>1, <1>2
        <5> QED BY <1>3, <4>2, <4>3, <5>1, <5>2
      <4>5. urb[priv.num] = "done"
        BY <1>1, <1>3, <3>1, <4>1, <4>4 DEF InFlight, UrbsTypeOK
      <4>6. PICK k \in 1..Len(queue) : queue[k].i = priv.num
        BY <1>1, <1>3, <4>5 DEF QueueInv
      <4>7. priv.num < j
        BY <4>2, <4>6 DEF InOrder
      <4> QED BY <1>3, <4>3, <4>7
    <3> QED BY <3>2, <3>3
  <2>3. work'.r = "NO_DEVICE" => unplugged'
    BY <1>1, <1>2, <1>4 DEF DiscardInv
  <2>4. unplugged' => work'.r = "NO_DEVICE"
    BY <1>2, <1>4
  <2>5. work'.then # "cancelled" /\ priv'.action = "NORMAL" => unplugged'
    BY <1>1, <1>2, <1>4 DEF DiscardInv
  <2>6. work'.then = "cancelled" => work'.last = priv'.num
    BY <1>1, <1>2, <1>4 DEF DiscardInv
  <2> QED BY <2>1, <2>2, <2>3, <2>4, <2>5, <2>6 DEF DiscardInv
<1> QED BY <1>2, <1>6, <1>7, <1>8, <1>10, <1>12, <1>13 DEF UrbsInv

LEMMA DiscardUrbStep ==
    ASSUME UrbsInv, Plain, NEW len \in 0..(Block - 1), DiscardUrb(len)
    PROVE  UrbsInv'
BY DiscardPending, DiscardNothing

----------------------------------------------------------------------------
(* Steps of submissions and cancellations.                                 *)

LEMMA SameData ==
    ASSUME DataInv, kind' = kind, isIn' = isIn, received' = received, buffer' = buffer,
           transferred' = transferred, queue' = queue,
           outcome' = outcome \/ outcome # "NO_DEVICE",
           \A j \in Pending' : received <= Off(j),
           Submits' => received <= Off(work'.i)
    PROVE  DataInv'
<1>1. PICK s : Sums(s) /\ Placed(s)
  BY DEF DataInv
<1>2. Sums(s)'
  BY <1>1 DEF Sums
<1>3. Placed(s)'
  BY <1>1 DEF Placed, Off, InData
<1>4. InData' => \A b \in 1..transferred' : buffer'[b] = b
  BY DEF DataInv, InData
<1>5. \E ss : Sums(ss)' /\ Placed(ss)'
  BY <1>2, <1>3
<1> QED BY <1>4, <1>5 DEF DataInv, Off

LEMMA SameKernel ==
    ASSUME UNCHANGED urbVars, unplugged' = unplugged
    PROVE  /\ Pending' = Pending /\ InFlight' = InFlight
           /\ QueueInv => QueueInv'
           /\ StatusInv /\ priv'.num = priv.num => StatusInv'
           /\ InOrder => InOrder'
<1>1. urb' = urb /\ queue' = queue
  BY DEF urbVars
<1>2. Pending' = Pending /\ InFlight' = InFlight
  BY <1>1 DEF Pending, InFlight
<1>3. QueueInv => QueueInv'
  BY <1>1 DEF QueueInv
<1>4. StatusInv /\ priv'.num = priv.num => StatusInv'
  BY <1>1 DEF StatusInv
<1>5. InOrder => InOrder'
  BY <1>1, <1>2 DEF InOrder
<1> QED BY <1>2, <1>3, <1>4, <1>5

LEMMA PreparedIs ==
    ASSUME UrbsTypeOK, CountInv, NEW n \in Urb, kind = "control" => n = 1
    PROVE  /\ Prepared(n) \in [urbs : BOOLEAN, num : Urb, retired : 0..MaxUrbs,
                               action : Actions, status : Statuses, offset : 0..MaxUrbs]
           /\ Prepared(n).urbs /\ Prepared(n).num = n /\ Prepared(n).action = "NORMAL"
           /\ Prepared(n).retired = 0 /\ Prepared(n).offset = 0
<1>1. /\ priv \in [urbs : BOOLEAN, num : Urb, retired : 0..MaxUrbs,
                   action : Actions, status : Statuses, offset : 0..MaxUrbs]
      /\ MaxUrbs \in Nat /\ 0 \in 0..MaxUrbs /\ 1 \in Urb
      /\ "NORMAL" \in Actions /\ "COMPLETED" \in Statuses
  BY UrbsAssumption DEF UrbsTypeOK, Urb, Actions, Statuses
<1>2. kind # "iso" => priv.offset = 0
  BY DEF CountInv
<1>3. CASE kind = "control"
  <2>1. Prepared(n) = [priv EXCEPT !.urbs = TRUE, !.num = 1, !.action = "NORMAL"]
    BY <1>3 DEF Prepared, PreparedControl
  <2>2. priv.retired = 0
    BY <1>3 DEF CountInv
  <2> QED BY <1>1, <1>2, <1>3, <2>1, <2>2
<1>4. CASE kind = "iso"
  <2>1. Prepared(n) = [priv EXCEPT !.urbs = TRUE, !.num = n, !.retired = 0,
                                   !.action = "NORMAL", !.offset = 0]
    BY <1>4 DEF Prepared, PreparedIso
  <2> QED BY <1>1, <2>1
<1>5. CASE kind # "control" /\ kind # "iso"
  <2>1. Prepared(n) = [priv EXCEPT !.urbs = TRUE, !.num = n, !.retired = 0,
                                   !.action = "NORMAL", !.status = "COMPLETED"]
    BY <1>5 DEF Prepared, PreparedBulk
  <2> QED BY <1>1, <1>2, <1>5, <2>1
<1> QED BY <1>3, <1>4, <1>5

LEMMA SubmitStep ==
    ASSUME UrbsInv, Submit
    PROVE  UrbsInv'
<1>1. UrbsTypeOK /\ IdleInv /\ QueueInv /\ CountInv
  BY DEF UrbsInv
<1>2. PICK n \in (IF kind = "control" THEN {1} ELSE Urb) : priv' = Prepared(n)
  BY DEF Submit
<1>3. n \in Urb /\ (kind = "control" => n = 1) /\ n \in Nat \ {0} /\ n <= MaxUrbs
  BY <1>2, UrbsAssumption DEF Urb
<1>4. /\ priv' \in [urbs : BOOLEAN, num : Urb, retired : 0..MaxUrbs,
                    action : Actions, status : Statuses, offset : 0..MaxUrbs]
      /\ priv'.urbs /\ priv'.num = n /\ priv'.action = "NORMAL"
      /\ priv'.retired = 0 /\ priv'.offset = 0
  BY <1>1, <1>2, <1>3, PreparedIs
<1>5. queue = <<>> /\ InFlight = {} /\ Pending = {}
  BY <1>1 DEF Submit, IdleInv, InFlight, Pending
<1>6. /\ work' = [do |-> "submit", i |-> 1] /\ outcome' = "flying" /\ cancelling' = FALSE
      /\ transferred' = 0 /\ received' = 0 /\ buffer' = [b \in 1..Bytes |-> 0]
      /\ packets' = [j \in Urb |-> 0] /\ refused' = FALSE
      /\ urb' = urb /\ queue' = queue /\ unplugged' = unplugged
      /\ UNCHANGED setupVars /\ submitsLeft > 0 /\ submitsLeft' = submitsLeft - 1
  BY DEF Submit
<1>7. work'.do = "submit" /\ work'.i = 1 /\ Submits' /\ ~Discards'
  BY <1>6 DEF Submits, Discards
<1>8. queue' = <<>> /\ InFlight' = {} /\ Pending' = {} /\ Len(queue') = 0
  BY <1>5, <1>6 DEF InFlight, Pending
<1>9. UrbsTypeOK'
  <2>1. submitsLeft' \in 0..MaxSubmits
    BY <1>1, <1>6, UrbsAssumption DEF UrbsTypeOK
  <2>2. /\ buffer' \in [1..Bytes -> 0..Bytes] /\ transferred' \in 0..Bytes
        /\ received' \in 0..Bytes /\ packets' \in [Urb -> 0..MaxUrbs]
    BY <1>6, UrbsAssumption DEF Bytes
  <2>3. /\ kind' \in Kinds /\ isIn' \in BOOLEAN /\ cont' \in BOOLEAN /\ canReap' \in BOOLEAN
        /\ unplugged' \in BOOLEAN /\ urb' \in [Urb -> {"none", "pending", "done"}]
        /\ \A k \in DOMAIN queue' : queue'[k].i \in Urb /\ queue'[k].len \in 0..Block
    BY <1>1, <1>6 DEF UrbsTypeOK, setupVars
  <2> QED BY <1>4, <1>6, <1>7, <2>1, <2>2, <2>3 DEF UrbsTypeOK
<1>10. WorkInv'
  <2>1. 1 \in 1..priv'.num
    BY <1>3, <1>4
  <2> QED BY <1>6, <2>1 DEF WorkInv
<1>11. IdleInv' /\ QueueInv' /\ StatusInv'
  BY <1>1, <1>4, <1>6, <1>8 DEF IdleInv, QueueInv, StatusInv
<1>12. PendingInv'
  <2>1. \A i \in Urb : ~(i < 1)
    BY UrbsAssumption DEF Urb
  <2> QED BY <1>7, <1>8, <2>1 DEF PendingInv
<1>13. CountInv'
  <2>1. kind' = kind
    BY <1>6 DEF setupVars
  <2> QED BY <1>3, <1>4, <1>6, <1>7, <2>1 DEF CountInv
<1>14. Off(1) = 0
  BY Blocks
<1>15. NormalInv'
  <2>1. InOrder'
    BY <1>8 DEF InOrder
  <2>2. Off(priv'.retired + 1) = 0
    BY <1>4, <1>14
  <2> QED BY <1>6, <1>7, <2>1, <2>2 DEF NormalInv, Off
<1>16. DiscardInv'
  BY <1>7 DEF DiscardInv
<1>17. DataInv'
  <2> DEFINE s == [k \in 0..0 |-> 0]
  <2>1. /\ s \in [0..0 -> Nat] /\ s[0] = 0
        /\ \A k, l \in 0..0 : s[k] <= s[l]
    OBVIOUS
  <2> HIDE DEF s
  <2>2. Sums(s)'
    BY <1>6, <1>8, <2>1 DEF Sums
  <2>3. Placed(s)'
    BY <1>8 DEF Placed
  <2>4. \E ss : Sums(ss)' /\ Placed(ss)'
    BY <2>2, <2>3
  <2> QED BY <1>6, <1>7, <1>8, <1>14, <2>4 DEF DataInv, Off
<1> QED BY <1>9, <1>10, <1>11, <1>12, <1>13, <1>15, <1>16, <1>17 DEF UrbsInv

\* URBs 1 to n in flight are n.
LEMMA CountUpTo ==
    ASSUME NEW n \in Nat, NEW S, \A i \in S : i \in Nat, \A i \in Nat : i \in S <=> 1 <= i /\ i <= n
    PROVE  Cardinality(S) = n
<1>1. S = 1..n
  <2>1. ASSUME NEW x \in S PROVE x \in 1..n
    OBVIOUS
  <2>2. ASSUME NEW x \in 1..n PROVE x \in S
    <3>1. x \in Nat /\ 1 <= x /\ x <= n
      OBVIOUS
    <3> QED BY <3>1
  <2> QED BY <2>1, <2>2
<1>2. Cardinality(1..n) = n
  <2>1. Cardinality(1..n) = IF 1 <= n THEN n - 1 + 1 ELSE 0
    BY FS_Interval
  <2> QED BY <2>1
<1> QED BY <1>1, <1>2

LEMMA SubmitUrbStep ==
    ASSUME UrbsInv, SubmitUrb
    PROVE  UrbsInv'
<1>1. /\ UrbsTypeOK /\ WorkInv /\ IdleInv /\ QueueInv /\ StatusInv /\ PendingInv /\ CountInv
      /\ NormalInv /\ DiscardInv /\ DataInv
  BY DEF UrbsInv
<1>2. Submits /\ ~unplugged
  BY DEF SubmitUrb, Submits
<1>3. /\ work.i \in 1..priv.num /\ work = [do |-> "submit", i |-> work.i]
      /\ ~Discards /\ work # NoOp /\ priv.num \in Urb /\ Urb \subseteq Nat \ {0}
      /\ 1..priv.num \subseteq Urb /\ work.i \in Nat /\ work.i > 0 /\ priv.num \in Nat
  BY <1>1, <1>2, WorkShape
<1>4. /\ urb' = [urb EXCEPT ![work.i] = "pending"] /\ priv' = priv /\ outcome' = outcome
      /\ cancelling' = cancelling /\ unplugged' = unplugged /\ refused' = refused
      /\ queue' = queue /\ received' = received /\ buffer' = buffer
      /\ transferred' = transferred /\ kind' = kind /\ isIn' = isIn
      /\ UNCHANGED <<setupVars, packets, submitsLeft>>
      /\ work' = IF work.i = priv.num THEN NoOp ELSE [work EXCEPT !.i = @ + 1]
  BY DEF SubmitUrb, dataVars, setupVars
<1>5. outcome = "flying"
  BY <1>1, <1>3 DEF IdleInv
<1>6. /\ priv.retired = 0 /\ priv.offset = 0 /\ priv.action = "NORMAL" /\ transferred = 0
      /\ \A i \in Urb : i \in InFlight <=> i < work.i
  BY <1>1, <1>2 DEF CountInv, PendingInv
<1>7. InOrder
  BY <1>1, <1>3, <1>5, <1>6 DEF NormalInv, Disturbs
<1>8. \/ work.i = priv.num /\ work' = NoOp /\ ~Submits' /\ ~Discards' /\ ~Disturbs'
      \/ /\ work.i # priv.num /\ work' = [do |-> "submit", i |-> work.i + 1]
         /\ work'.do = "submit" /\ work'.i = work.i + 1 /\ Submits' /\ ~Discards'
  <2>1. CASE work.i = priv.num
    BY <1>4, <2>1 DEF NoOp, Submits, Discards, Disturbs
  <2>2. CASE work.i # priv.num
    <3>1. work' = [work EXCEPT !.i = @ + 1]
      BY <1>4, <2>2
    <3>2. PICK i : work = [do |-> "submit", i |-> i] /\ i = work.i
      BY <1>3
    <3>3. work' = [do |-> "submit", i |-> i + 1]
      BY <3>1, <3>2
    <3>4. work'.do = "submit" /\ work'.i = i + 1
      BY <3>3
    <3> QED BY <2>2, <3>2, <3>3, <3>4 DEF Submits, Discards
  <2> QED BY <2>1, <2>2
<1>9. work.i \in Urb /\ urb[work.i] = "none"
  <2>1. work.i \in Urb /\ ~(work.i < work.i)
    BY <1>3
  <2> QED BY <1>6, <2>1 DEF InFlight
<1>10. /\ urb' \in [Urb -> {"none", "pending", "done"}]
       /\ \A i \in Urb : urb'[i] = IF i = work.i THEN "pending" ELSE urb[i]
  BY <1>1, <1>4, <1>9 DEF UrbsTypeOK
<1>11. /\ \A i \in Urb : i \in Pending' <=> i \in Pending \/ i = work.i
       /\ \A i \in Urb : i \in InFlight' <=> i <= work.i
       /\ Pending' \subseteq Urb /\ InFlight' \subseteq Urb /\ Pending \subseteq Urb
       /\ Pending' \subseteq InFlight'
  <2>1. \A i \in Urb : i \in Pending' <=> i \in Pending \/ i = work.i
    BY <1>10 DEF Pending
  <2>2. \A i \in Urb : i \in InFlight' <=> i \in InFlight \/ i = work.i
    BY <1>10 DEF InFlight
  <2>3. \A i \in Urb : i \in InFlight' <=> i <= work.i
    BY <1>3, <1>6, <2>2
  <2> QED BY <2>1, <2>3 DEF Pending, InFlight
<1>12. UrbsTypeOK'
  <2>1. work'.do \in {"none", "submit", "discard"}
    BY <1>8 DEF NoOp
  <2> QED BY <1>1, <1>4, <1>10, <2>1 DEF UrbsTypeOK, setupVars
<1>13. WorkInv'
  <2>1. work.i # priv.num => work.i + 1 \in 1..priv.num
    BY <1>3
  <2> QED BY <1>4, <1>8, <2>1 DEF WorkInv
<1>14. IdleInv'
  BY <1>1, <1>4, <1>5 DEF IdleInv
<1>15. \A k \in 1..Len(queue) : queue[k].i \in Urb /\ urb[queue[k].i] = "done"
                                /\ queue[k].i \in InFlight
  <2>1. \A k \in 1..Len(queue) : queue[k] \in Entry
    BY <1>1, ElementOfSeq DEF QueueInv
  <2> QED BY <1>1, <2>1 DEF QueueInv, Entry, InFlight
<1>16. QueueInv' /\ StatusInv'
  <2>1. \A k \in 1..Len(queue') : urb'[queue'[k].i] = "done"
    BY <1>4, <1>9, <1>10, <1>15
  <2>2. \A i \in Urb : urb'[i] = "done" => urb[i] = "done"
    BY <1>10
  <2>3. QueueInv'
    BY <1>1, <1>4, <2>1, <2>2 DEF QueueInv
  <2> QED BY <1>1, <1>4, <2>3 DEF StatusInv
<1>17. PendingInv'
  <2>1. \A i, j \in Pending', m \in Urb : i <= m /\ m <= j => m \in Pending'
    <3> SUFFICES ASSUME NEW i \in Pending', NEW j \in Pending', NEW m \in Urb, i <= m, m <= j
                 PROVE  m \in Pending'
      OBVIOUS
    <3>1. i \in Urb /\ j \in Urb /\ i \in Nat /\ j \in Nat /\ m \in Nat /\ j <= work.i
      BY <1>3, <1>11
    <3>2. CASE m = work.i
      BY <1>11, <3>2
    <3>3. CASE m # work.i
      <4>1. m < work.i /\ i # work.i /\ i \in Pending
        BY <1>3, <1>11, <3>1, <3>3
      <4>2. m \in InFlight
        BY <1>6, <4>1
      <4>3. urb[m] # "done"
        <5> SUFFICES ASSUME urb[m] = "done" PROVE FALSE
          OBVIOUS
        <5>1. PICK k \in 1..Len(queue) : queue[k].i = m
          BY <1>1 DEF QueueInv
        <5>2. m < i
          BY <1>7, <4>1, <5>1 DEF InOrder
        <5> QED BY <3>1, <5>2
      <4>4. m \in Pending
        BY <1>1, <4>2, <4>3 DEF InFlight, Pending, UrbsTypeOK
      <4> QED BY <1>11, <4>4
    <3> QED BY <3>2, <3>3
  <2>2. ASSUME Submits' PROVE \A i \in Urb : i \in InFlight' <=> i < work'.i
    <3>1. work'.i = work.i + 1
      BY <1>8, <2>2
    <3> QED BY <1>3, <1>11, <3>1
  <2>3. \A i \in InFlight' : i <= priv'.num
    BY <1>3, <1>4, <1>11
  <2> QED BY <1>2, <1>4, <1>8, <2>1, <2>2, <2>3 DEF PendingInv
<1>18. CountInv'
  <2>1. ASSUME ~Submits' PROVE priv'.retired + Cardinality(InFlight') = priv'.num
    <3>1. work.i = priv.num
      BY <1>8, <2>1
    <3>2. Cardinality(InFlight') = priv.num
      <4>1. \A i \in InFlight' : i \in Nat
        BY <1>3, <1>11
      <4>2. \A i \in Nat : i \in InFlight' <=> 1 <= i /\ i <= priv.num
        <5>1. \A i \in Nat : 1 <= i /\ i <= priv.num => i \in Urb
          BY <1>3
        <5>2. \A i \in InFlight' : 1 <= i
          BY <1>3, <1>11
        <5> QED BY <1>11, <3>1, <5>1, <5>2
      <4> QED BY <1>3, <4>1, <4>2, CountUpTo
    <3> QED BY <1>3, <1>4, <1>6, <3>2
  <2> QED BY <1>1, <1>4, <1>6, <2>1 DEF CountInv
<1>19. NormalInv'
  <2>1. InOrder'
    <3>1. \A k \in 1..Len(queue) : queue[k].i < work.i
      BY <1>6, <1>15
    <3>2. \A k \in 1..Len(queue'), j \in Pending' : queue'[k].i < j
      BY <1>4, <1>7, <1>11, <3>1 DEF InOrder
    <3> QED BY <1>4, <1>7, <3>2 DEF InOrder
  <2>2. ASSUME ~Submits' PROVE \A i \in 1..priv'.num : i \in InFlight' <=> i > priv'.retired
    <3>1. work.i = priv.num
      BY <1>8, <2>2
    <3>2. ASSUME NEW i \in 1..priv.num PROVE i \in InFlight' /\ i > 0
      <4>1. i \in Urb /\ i <= work.i
        BY <1>3, <3>1
      <4> QED BY <1>3, <1>11, <4>1
    <3> QED BY <1>4, <1>6, <3>2
  <2>3. Off(priv'.retired + 1) = 0
    BY <1>4, <1>6, Blocks
  <2> QED BY <1>4, <1>6, <2>1, <2>2, <2>3 DEF NormalInv, Off
<1>20. DiscardInv'
  BY <1>8 DEF DiscardInv
<1>21. DataInv'
  <2>1. received <= Off(work.i) /\ received \in Nat
    BY <1>1, <1>2 DEF DataInv, UrbsTypeOK
  <2>2. ASSUME NEW j \in Pending' PROVE received <= Off(j)
    BY <1>1, <1>11, <2>1 DEF DataInv
  <2>3. ASSUME Submits' PROVE received <= Off(work'.i)
    <3>1. work'.i = work.i + 1 /\ work.i \in Nat \ {0}
      BY <1>3, <1>8, <2>3
    <3>2. Off(work.i) \in Nat /\ Off(work.i + 1) = Off(work.i) + Block
      BY <3>1, Blocks
    <3>3. Block \in Nat
      BY UrbsAssumption
    <3> QED BY <2>1, <3>1, <3>2, <3>3
  <2> QED BY <1>1, <1>4, <2>2, <2>3, SameData
<1> QED BY <1>12, <1>13, <1>14, <1>16, <1>17, <1>18, <1>19, <1>20, <1>21 DEF UrbsInv

LEMMA FirstUrbFailsStep ==
    ASSUME UrbsInv, FirstUrbFails
    PROVE  UrbsInv'
<1>1. /\ UrbsTypeOK /\ WorkInv /\ IdleInv /\ QueueInv /\ StatusInv /\ PendingInv /\ CountInv
      /\ NormalInv /\ DiscardInv /\ DataInv
  BY DEF UrbsInv
<1>2. /\ Submits /\ work.i = 1 /\ priv' = [priv EXCEPT !.urbs = FALSE]
      /\ work' = NoOp /\ outcome' = "idle" /\ unplugged' = unplugged
      /\ UNCHANGED urbVars /\ UNCHANGED setupVars /\ UNCHANGED dataVars
      /\ cancelling' = cancelling /\ submitsLeft' = submitsLeft
  BY DEF FirstUrbFails, Submits
<1>3. /\ priv' \in [urbs : BOOLEAN, num : Urb, retired : 0..MaxUrbs,
                    action : Actions, status : Statuses, offset : 0..MaxUrbs]
      /\ priv'.num = priv.num /\ priv'.retired = priv.retired /\ priv'.offset = priv.offset
  BY <1>1, <1>2 DEF UrbsTypeOK
<1>4. /\ work \in {work} /\ ~Submits' /\ ~Discards' /\ work # NoOp
  BY <1>1, <1>2, WorkShape DEF NoOp, Submits, Discards
<1>5. InFlight = {} /\ Pending = {}
  <2>1. \A i \in Urb : ~(i < 1)
    BY UrbsAssumption DEF Urb
  <2> QED BY <1>1, <1>2, <2>1 DEF PendingInv, InFlight, Pending
<1>6. /\ Pending' = {} /\ InFlight' = {} /\ QueueInv' /\ StatusInv' /\ queue' = <<>>
  <2>1. queue = <<>>
    BY <1>1, <1>5, NothingLeft
  <2> QED BY <1>1, <1>2, <1>3, <1>5, <2>1, SameKernel DEF urbVars
<1>7. outcome = "flying"
  BY <1>1, <1>4 DEF IdleInv
<1>8. UrbsTypeOK'
  BY <1>1, <1>2, <1>3 DEF UrbsTypeOK, urbVars, setupVars, dataVars, NoOp
<1>9. WorkInv' /\ IdleInv' /\ DiscardInv'
  BY <1>2, <1>4, <1>6 DEF WorkInv, IdleInv, DiscardInv
<1>10. PendingInv' /\ CountInv' /\ NormalInv'
  BY <1>1, <1>2, <1>3, <1>4, <1>6 DEF PendingInv, CountInv, NormalInv, setupVars
<1>11. DataInv'
  BY <1>1, <1>2, <1>4, <1>6, <1>7, SameData DEF setupVars, dataVars, urbVars
<1> QED BY <1>6, <1>8, <1>9, <1>10, <1>11 DEF UrbsInv

\* What the record of new discards says.
LEMMA Discards_is ==
    ASSUME NEW n \in Nat, NEW first \in 1..n, NEW last \in 1..n,
           NEW then \in {"reaped", "submitted", "cancelled"},
           work' = Discarding(first, last, then), priv'.num = n
    PROVE  /\ WorkInv' /\ Discards' /\ ~Submits' /\ work'.do = "discard"
           /\ work'.i = last /\ work'.last = last /\ work'.then = then /\ work'.r = "SUCCESS"
<1>1. work' = [do |-> "discard", i |-> last, first |-> first, last |-> last,
               then |-> then, r |-> "SUCCESS"]
  BY DEF Discarding
<1>2. /\ work'.do = "discard" /\ work'.i = last /\ work'.last = last /\ work'.then = then
      /\ work'.r = "SUCCESS"
  BY <1>1
<1>3. WorkInv'
  <2>1. last \in 0..n
    OBVIOUS
  <2>2. \E i \in 0..priv'.num, f, l \in 1..priv'.num,
           t \in {"reaped", "submitted", "cancelled"},
           r \in {"SUCCESS", "NOT_FOUND", "NO_DEVICE"} :
           work' = [do |-> "discard", i |-> i, first |-> f, last |-> l, then |-> t, r |-> r]
    BY <1>1, <2>1
  <2> QED BY <2>2 DEF WorkInv
<1> QED BY <1>2, <1>3 DEF Discards, Submits

LEMMA LaterUrbFailsStep ==
    ASSUME UrbsInv, LaterUrbFails
    PROVE  UrbsInv'
<1>1. /\ UrbsTypeOK /\ WorkInv /\ IdleInv /\ QueueInv /\ StatusInv /\ PendingInv /\ CountInv
      /\ NormalInv /\ DiscardInv /\ DataInv
  BY DEF UrbsInv
<1> DEFINE early == refused /\ ~unplugged
           n == priv.num
           i == work.i
<1>2. /\ Submits /\ i > 1 /\ outcome' = outcome /\ unplugged' = unplugged
      /\ priv' = [priv EXCEPT !.action = IF early THEN "COMPLETED_EARLY" ELSE "SUBMIT_FAILED",
                              !.retired = n - i + 1]
      /\ work' = IF early THEN NoOp ELSE Discarding(1, i - 1, "submitted")
      /\ UNCHANGED urbVars /\ UNCHANGED setupVars /\ UNCHANGED dataVars
      /\ cancelling' = cancelling /\ submitsLeft' = submitsLeft
  BY DEF LaterUrbFails, Submits, Unsubmitted
<1> HIDE DEF early
<1>3. /\ i \in 1..n /\ work # NoOp /\ n \in Urb /\ Urb \subseteq Nat \ {0} /\ n \in Nat
      /\ i \in Nat /\ n <= MaxUrbs /\ MaxUrbs \in Nat
  BY <1>1, <1>2, WorkShape, UrbsAssumption DEF Urb
<1> HIDE DEF n, i
<1>4. outcome = "flying" /\ priv.urbs
  BY <1>1, <1>3 DEF IdleInv
<1>5. priv.retired = 0 /\ priv.offset = 0 /\ kind # "control"
  BY <1>1, <1>2, <1>3 DEF CountInv, n, i
<1>6. /\ priv' \in [urbs : BOOLEAN, num : Urb, retired : 0..MaxUrbs,
                    action : Actions, status : Statuses, offset : 0..MaxUrbs]
      /\ priv'.num = n /\ priv'.retired = n - i + 1 /\ priv'.offset = 0 /\ priv'.urbs
      /\ priv'.action # "NORMAL"
  <2>1. n - i + 1 \in 0..MaxUrbs
    BY <1>2, <1>3
  <2>2. "COMPLETED_EARLY" \in Actions /\ "SUBMIT_FAILED" \in Actions
    BY DEF Actions
  <2> QED BY <1>1, <1>2, <1>4, <1>5, <2>1, <2>2 DEF UrbsTypeOK, n
<1>7. /\ ~Submits' /\ WorkInv' /\ work'.do \in {"none", "submit", "discard"}
      /\ Discards' => /\ work'.then = "submitted" /\ work'.r = "SUCCESS"
                      /\ work'.i = i - 1 /\ work'.last = i - 1
  <2>1. CASE early
    BY <1>2, <2>1 DEF NoOp, Submits, Discards, WorkInv
  <2>2. CASE ~early
    <3>1. 1 \in 1..n /\ i - 1 \in 1..n
      BY <1>2, <1>3
    <3>2. work' = Discarding(1, i - 1, "submitted")
      BY <1>2, <2>2
    <3> QED BY <1>3, <1>6, <3>1, <3>2, Discards_is
  <2> QED BY <2>1, <2>2
<1>8. Pending' = Pending /\ InFlight' = InFlight /\ QueueInv' /\ StatusInv'
  BY <1>1, <1>2, <1>6, SameKernel DEF n
<1>9. UrbsTypeOK'
  BY <1>1, <1>2, <1>6, <1>7 DEF UrbsTypeOK, urbVars, setupVars, dataVars
<1>10. IdleInv'
  BY <1>2, <1>4, <1>6 DEF IdleInv
<1>11. \A j \in Urb : j \in InFlight <=> j < i
  BY <1>1, <1>2 DEF PendingInv, i
<1>12. Cardinality(InFlight) = i - 1
  <2>1. i - 1 \in Nat
    BY <1>3
  <2>2. \A j \in InFlight : j \in Nat
    BY <1>3 DEF InFlight
  <2>3. \A j \in Nat : j \in InFlight <=> 1 <= j /\ j <= i - 1
    <3> SUFFICES ASSUME NEW j \in Nat PROVE j \in InFlight <=> 1 <= j /\ j <= i - 1
      OBVIOUS
    <3>1. CASE j \in Urb
      <4>1. 1 <= j
        BY <1>3, <3>1
      <4> QED BY <1>3, <1>11, <3>1, <4>1
    <3>2. CASE j \notin Urb
      <4>1. j \notin InFlight
        BY <3>2 DEF InFlight
      <4>2. ~(1 <= j /\ j <= MaxUrbs)
        BY <1>3, <3>2 DEF Urb
      <4> QED BY <1>3, <4>1, <4>2
    <3> QED BY <3>1, <3>2
  <2> QED BY <2>1, <2>2, <2>3, CountUpTo
<1>13. PendingInv'
  <2>1. \A j \in Pending : j <= i - 1
    <3>1. ASSUME NEW j \in Pending PROVE j <= i - 1
      <4>1. j \in Urb /\ j \in InFlight /\ j \in Nat
        BY <1>3 DEF Pending, InFlight
      <4>2. j < i
        BY <1>11, <4>1
      <4> QED BY <1>3, <4>1, <4>2
    <3> QED BY <3>1
  <2> QED BY <1>1, <1>2, <1>6, <1>7, <1>8, <2>1 DEF PendingInv, n
<1>14. CountInv'
  <2>1. kind' = kind
    BY <1>2 DEF setupVars
  <2>2. n - i + 1 + (i - 1) = n /\ 0 <= n - i + 1
    BY <1>3
  <2> QED BY <1>5, <1>6, <1>7, <1>8, <1>12, <2>1, <2>2 DEF CountInv
<1>15. NormalInv'
  BY <1>6 DEF NormalInv
<1>16. DiscardInv'
  <2>1. Discards' => work'.i <= work'.last /\ ~(work'.i < work'.last)
    BY <1>3, <1>7
  <2> QED BY <1>6, <1>7, <2>1 DEF DiscardInv
<1>17. DataInv'
  <2>1. \A j \in Pending' : received <= Off(j)
    BY <1>1, <1>8 DEF DataInv
  <2> QED BY <1>1, <1>2, <1>7, <2>1, SameData DEF setupVars, dataVars, urbVars
<1> QED BY <1>7, <1>8, <1>9, <1>10, <1>13, <1>14, <1>15, <1>16, <1>17 DEF UrbsInv

LEMMA DiscardsDoneStep ==
    ASSUME UrbsInv, DiscardsDone
    PROVE  UrbsInv'
<1>1. /\ UrbsTypeOK /\ WorkInv /\ IdleInv /\ QueueInv /\ StatusInv /\ PendingInv /\ CountInv
      /\ NormalInv /\ DiscardInv /\ DataInv
  BY DEF UrbsInv
<1> DEFINE marks == work.then = "cancelled" /\ work.r = "SUCCESS"
                    /\ ~(kind = "bulk" /\ priv.action = "ERROR")
<1>2. /\ Discards /\ work.i < work.first /\ work' = NoOp /\ unplugged' = unplugged
      /\ priv' = IF marks THEN [priv EXCEPT !.action = "CANCELLED"] ELSE priv
      /\ outcome' = outcome /\ UNCHANGED urbVars /\ UNCHANGED setupVars /\ UNCHANGED dataVars
      /\ cancelling' = cancelling /\ submitsLeft' = submitsLeft
  BY DEF DiscardsDone, Discards
<1>3. work # NoOp /\ ~Submits /\ outcome = "flying" /\ priv.urbs
  BY <1>1, <1>2, WorkShape DEF IdleInv
<1>4. ~Submits' /\ ~Discards' /\ ~Disturbs'
  BY <1>2 DEF NoOp, Submits, Discards, Disturbs
<1> HIDE DEF marks
<1>5. /\ priv' \in [urbs : BOOLEAN, num : Urb, retired : 0..MaxUrbs,
                    action : Actions, status : Statuses, offset : 0..MaxUrbs]
      /\ priv'.num = priv.num /\ priv'.retired = priv.retired /\ priv'.offset = priv.offset
      /\ priv'.urbs
      /\ priv'.action = "NORMAL" => priv' = priv /\ priv.action = "NORMAL" /\ ~marks
  <2>1. "CANCELLED" \in Actions
    BY DEF Actions
  <2>2. CASE marks
    <3>1. priv' = [priv EXCEPT !.action = "CANCELLED"]
      BY <1>2, <2>2
    <3>2. priv'.action = "CANCELLED"
      BY <1>1, <3>1 DEF UrbsTypeOK
    <3> QED BY <1>1, <1>3, <2>1, <3>1, <3>2 DEF UrbsTypeOK
  <2>3. CASE ~marks
    <3>1. priv' = priv
      BY <1>2, <2>3
    <3> QED BY <1>1, <1>3, <2>3, <3>1 DEF UrbsTypeOK
  <2> QED BY <2>2, <2>3
<1>6. /\ Pending' = Pending /\ InFlight' = InFlight /\ QueueInv' /\ StatusInv'
      /\ InOrder => InOrder'
  BY <1>1, <1>2, <1>5, SameKernel
<1>7. UrbsTypeOK'
  BY <1>1, <1>2, <1>5 DEF UrbsTypeOK, urbVars, setupVars, dataVars, NoOp
<1>8. WorkInv' /\ IdleInv' /\ DiscardInv'
  BY <1>2, <1>3, <1>4, <1>5 DEF WorkInv, IdleInv, DiscardInv
<1>9. PendingInv'
  BY <1>1, <1>2, <1>4, <1>5, <1>6 DEF PendingInv
<1>10. CountInv'
  BY <1>1, <1>2, <1>3, <1>4, <1>5, <1>6 DEF CountInv, setupVars
<1>11. NormalInv'
  <2> SUFFICES ASSUME priv'.action = "NORMAL" PROVE NormalInv'
    BY DEF NormalInv
  <2>1. priv' = priv /\ priv.action = "NORMAL" /\ ~marks
    BY <1>5
  <2>2. ~Disturbs
    BY <2>1 DEF marks, Disturbs
  <2>3. InOrder'
    BY <1>1, <1>3, <1>6, <2>1, <2>2 DEF NormalInv
  <2>4. queue' = queue /\ transferred' = transferred /\ kind' = kind
    BY <1>2 DEF urbVars, dataVars, setupVars
  <2> QED BY <1>1, <1>2, <1>3, <1>4, <1>6, <2>1, <2>3, <2>4 DEF NormalInv, Off
<1>12. DataInv'
  <2>1. \A j \in Pending' : received <= Off(j)
    BY <1>1, <1>6 DEF DataInv
  <2> QED BY <1>1, <1>2, <1>4, <2>1, SameData DEF setupVars, dataVars, urbVars
<1> QED BY <1>6, <1>7, <1>8, <1>9, <1>10, <1>11, <1>12 DEF UrbsInv

LEMMA CancelStep ==
    ASSUME UrbsInv, Cancel
    PROVE  UrbsInv'
<1>1. /\ UrbsTypeOK /\ WorkInv /\ IdleInv /\ QueueInv /\ StatusInv /\ PendingInv /\ CountInv
      /\ NormalInv /\ DiscardInv /\ DataInv
  BY DEF UrbsInv
<1>2. /\ work = NoOp /\ outcome = "flying" /\ cancelling' = TRUE
      /\ work' = Discarding(1, priv.num, "cancelled") /\ unplugged' = unplugged
      /\ priv' = priv /\ outcome' = outcome
      /\ UNCHANGED urbVars /\ UNCHANGED setupVars /\ UNCHANGED dataVars
      /\ submitsLeft' = submitsLeft
  BY DEF Cancel
<1>3. ~Submits /\ ~Discards /\ ~Disturbs /\ priv.num \in Nat \ {0}
  BY <1>1, <1>2, WorkShape DEF Disturbs
<1>4. /\ WorkInv' /\ Discards' /\ ~Submits' /\ work'.do = "discard"
      /\ work'.i = priv.num /\ work'.last = priv.num /\ work'.then = "cancelled"
      /\ work'.r = "SUCCESS"
  <2>1. priv.num \in Nat /\ 1 \in 1..priv.num /\ priv.num \in 1..priv.num
    BY <1>3
  <2> QED BY <1>2, <2>1, Discards_is
<1>5. /\ Pending' = Pending /\ InFlight' = InFlight /\ QueueInv' /\ StatusInv'
      /\ InOrder => InOrder'
  BY <1>1, <1>2, SameKernel
<1>6. UrbsTypeOK'
  BY <1>1, <1>2, <1>4 DEF UrbsTypeOK, urbVars, setupVars, dataVars
<1>7. IdleInv' /\ CountInv'
  BY <1>1, <1>2, <1>3, <1>4, <1>5 DEF IdleInv, CountInv, setupVars
<1>8. PendingInv'
  BY <1>1, <1>2, <1>4, <1>5 DEF PendingInv, Pending, InFlight
<1>9. NormalInv'
  <2>1. queue' = queue /\ transferred' = transferred /\ kind' = kind
    BY <1>2 DEF urbVars, dataVars, setupVars
  <2> QED BY <1>1, <1>2, <1>3, <1>5, <2>1 DEF NormalInv, Off
<1>10. DiscardInv'
  <2>1. ~(priv.num < priv.num)
    BY <1>3
  <2> QED BY <1>2, <1>3, <1>4, <2>1 DEF DiscardInv
<1>11. DataInv'
  <2>1. \A j \in Pending' : received <= Off(j)
    BY <1>1, <1>5 DEF DataInv
  <2> QED BY <1>1, <1>2, <1>4, <2>1, SameData DEF setupVars, dataVars, urbVars
<1> QED BY <1>4, <1>5, <1>6, <1>7, <1>8, <1>9, <1>10, <1>11 DEF UrbsInv

LEMMA UrbsStutter ==
    ASSUME UrbsInv, UNCHANGED urbsVars
    PROVE  UrbsInv'
<1>1. /\ UrbsTypeOK /\ WorkInv /\ IdleInv /\ QueueInv /\ StatusInv /\ PendingInv /\ CountInv
      /\ NormalInv /\ DiscardInv /\ DataInv
  BY DEF UrbsInv
<1>2. /\ priv' = priv /\ work' = work /\ outcome' = outcome /\ unplugged' = unplugged
      /\ cancelling' = cancelling /\ submitsLeft' = submitsLeft
      /\ UNCHANGED urbVars /\ UNCHANGED setupVars /\ UNCHANGED dataVars
  BY DEF urbsVars
<1>3. /\ Pending' = Pending /\ InFlight' = InFlight /\ QueueInv' /\ StatusInv'
      /\ InOrder => InOrder'
  BY <1>1, <1>2, SameKernel
<1>4. UrbsTypeOK'
  BY <1>1, <1>2 DEF UrbsTypeOK, urbVars, setupVars, dataVars
<1>5. WorkInv' /\ IdleInv' /\ CountInv'
  BY <1>1, <1>2, <1>3 DEF WorkInv, IdleInv, CountInv, setupVars, dataVars, urbVars, Submits
<1>6. PendingInv' /\ DiscardInv'
  BY <1>1, <1>2, <1>3 DEF PendingInv, DiscardInv, Submits, Discards
<1>7. NormalInv'
  BY <1>1, <1>2, <1>3
     DEF NormalInv, Off, Submits, Disturbs, Discards, setupVars, dataVars, urbVars
<1>8. DataInv'
  <2>1. \A j \in Pending' : received <= Off(j)
    BY <1>1, <1>3 DEF DataInv
  <2>2. Submits' => received <= Off(work'.i)
    BY <1>1, <1>2 DEF DataInv, Submits
  <2> QED BY <1>1, <1>2, <2>1, <2>2, SameData DEF setupVars, dataVars, urbVars
<1> QED BY <1>3, <1>4, <1>5, <1>6, <1>7, <1>8 DEF UrbsInv

----------------------------------------------------------------------------
(* Steps of the completion handlers.                                       *)

PrivType == [urbs : BOOLEAN, num : Urb, retired : 0..MaxUrbs,
             action : Actions, status : Statuses, offset : 0..MaxUrbs]

\* An URB of the transfer is reaped: it is one more.
LEMMA Reaped ==
    ASSUME UrbsInv, ReapUrb
    PROVE  /\ Reaps /\ outcome = "flying" /\ priv.urbs /\ ~Submits /\ ~Discards /\ ~Disturbs
           /\ priv.retired \in Nat /\ priv.num \in Nat /\ priv.retired + 1 <= priv.num
           /\ priv.retired + 1 \in 0..MaxUrbs /\ priv.num <= MaxUrbs
           /\ InFlight' = InFlight \ {Head(queue).i} /\ Head(queue).i <= priv.num
           /\ priv.retired + 1 = priv.num => InFlight' = {}
           /\ priv.retired + 1 + Cardinality(InFlight') = priv.num
           /\ Head(queue) \in Entry /\ Head(queue).i \in Urb /\ Head(queue).len \in 0..Block
<1>1. /\ UrbsTypeOK /\ WorkInv /\ IdleInv /\ QueueInv /\ PendingInv /\ CountInv
  BY DEF UrbsInv
<1>2. Reaps /\ work = NoOp /\ priv.urbs /\ queue # <<>>
  BY DEF ReapUrb, Reaps
<1>3. ~Submits /\ ~Discards /\ ~Disturbs
  BY <1>1, <1>2, WorkShape DEF Disturbs
<1>4. outcome = "flying"
  BY <1>1, <1>2 DEF IdleInv
<1>5. priv.retired + Cardinality(InFlight) = priv.num
  BY <1>1, <1>3, <1>4 DEF CountInv
<1>6. /\ priv.retired \in Nat /\ priv.num \in Nat /\ priv.num <= MaxUrbs /\ MaxUrbs \in Nat
  BY <1>1, UrbsAssumption DEF UrbsTypeOK, Urb
<1>7. /\ Cardinality(InFlight) \in Nat \ {0} /\ Cardinality(InFlight') \in Nat
      /\ Cardinality(InFlight') = Cardinality(InFlight) - 1
      /\ Cardinality(InFlight') = 0 => InFlight' = {}
  BY <1>1, <1>2, OneLess
<1>8. /\ priv.retired + 1 <= priv.num /\ priv.retired + 1 \in 0..MaxUrbs
      /\ priv.retired + 1 = priv.num => Cardinality(InFlight') = 0
      /\ priv.retired + 1 + Cardinality(InFlight') = priv.num
  BY <1>5, <1>6, <1>7
<1>9. /\ Head(queue) \in Entry /\ Head(queue).i \in Urb /\ Head(queue).len \in 0..Block
      /\ Head(queue).i \in InFlight
  BY <1>1, <1>2, First
<1>10. InFlight' = InFlight \ {Head(queue).i} /\ Head(queue).i <= priv.num
  BY <1>1, <1>2, <1>9, Dequeued DEF PendingInv
<1> QED BY <1>2, <1>3, <1>4, <1>6, <1>7, <1>8, <1>9, <1>10

\* As long as nothing is wrong it is the next one.
LEMMA InTurn ==
    ASSUME UrbsInv, ReapUrb, priv.action = "NORMAL"
    PROVE  /\ Head(queue).i = priv.retired + 1 /\ InOrder
           /\ \A i \in 1..priv.num : i \in InFlight' <=> i > priv.retired + 1
           /\ \/ kind \in {"bulk", "interrupt"} => transferred = Off(priv.retired + 1)
              \/ unplugged /\ \A k \in 1..Len(queue) : queue[k].len = 0
<1>1. UrbsTypeOK /\ QueueInv /\ NormalInv
  BY DEF UrbsInv
<1>2. /\ Reaps /\ outcome = "flying" /\ ~Submits /\ ~Disturbs
      /\ priv.retired \in Nat /\ priv.num \in Nat /\ priv.retired + 1 <= priv.num
      /\ priv.num <= MaxUrbs
      /\ InFlight' = InFlight \ {Head(queue).i} /\ Head(queue).i <= priv.num
  BY Reaped
<1>3. /\ InOrder
      /\ \A i \in 1..priv.num : i \in InFlight <=> i > priv.retired
      /\ \/ kind \in {"bulk", "interrupt"} => transferred = Off(priv.retired + 1)
         \/ unplugged /\ \A k \in 1..Len(queue) : queue[k].len = 0
  BY <1>1, <1>2 DEF NormalInv
<1>4. /\ Len(queue) \in Nat /\ 1 \in 1..Len(queue) /\ Head(queue) = queue[1]
      /\ Head(queue).i \in Urb /\ Head(queue).i \in InFlight
  BY <1>1, <1>2, First DEF Reaps
<1>5. Urb \subseteq Nat \ {0} /\ 1..priv.num \subseteq Urb
  BY <1>2, UrbsAssumption DEF Urb
<1>6. Head(queue).i = priv.retired + 1
  <2>1. /\ Head(queue).i \in 1..priv.num /\ Head(queue).i > priv.retired
        /\ Head(queue).i \in Nat
    <3>1. Head(queue).i \in 1..priv.num /\ Head(queue).i \in Nat
      <4>1. Head(queue).i \in Nat \ {0}
        BY <1>4, <1>5
      <4> QED BY <1>2, <4>1
    <3> QED BY <1>3, <1>4, <3>1
  <2>2. priv.retired + 1 \in InFlight /\ priv.retired + 1 \in Urb
    <3>1. priv.retired + 1 \in 1..priv.num /\ priv.retired + 1 > priv.retired
      BY <1>2
    <3> QED BY <1>3, <1>5, <3>1
  <2>3. Head(queue).i <= priv.retired + 1
    <3>1. CASE urb[priv.retired + 1] = "pending"
      <4>1. priv.retired + 1 \in Pending
        BY <2>2, <3>1 DEF Pending
      <4>2. Head(queue).i < priv.retired + 1
        BY <1>3, <1>4, <4>1 DEF InOrder
      <4> QED BY <1>2, <2>1, <4>2
    <3>2. CASE urb[priv.retired + 1] = "done"
      <4>1. PICK k \in 1..Len(queue) : queue[k].i = priv.retired + 1
        BY <1>1, <2>2, <3>2 DEF QueueInv
      <4>2. k = 1 \/ 1 < k
        BY <1>4
      <4>3. k # 1 => queue[1].i < queue[k].i
        BY <1>3, <1>4, <4>2 DEF InOrder
      <4> QED BY <1>2, <1>4, <2>1, <4>1, <4>3
    <3> QED BY <1>1, <2>2, <3>1, <3>2 DEF UrbsTypeOK, InFlight
  <2> QED BY <1>2, <2>1, <2>3
<1>7. \A i \in 1..priv.num : i \in InFlight' <=> i > priv.retired + 1
  BY <1>2, <1>3, <1>6
<1> QED BY <1>3, <1>6, <1>7

\* What all handlers have in common.
LEMMA ReapedStep ==
    ASSUME UrbsInv, ReapUrb,
           IF kind = "iso" THEN transferred' = transferred
           ELSE transferred' = transferred + Head(queue).len,
           InData => Puts(Head(queue)),
           buffer' \in [1..Bytes -> 0..Bytes], packets' \in [Urb -> 0..MaxUrbs],
           priv' \in PrivType, priv'.num = priv.num, priv'.offset <= priv'.retired,
           kind # "iso" => priv'.offset = 0, kind = "control" => priv'.retired = 0,
           outcome' \in {"flying"} \cup Statuses,
           outcome' = "flying" => priv'.urbs /\ priv'.retired = priv.retired + 1,
           outcome' # "flying" => work' = NoOp /\ InFlight' = {},
           \/ work' = NoOp
           \/ \E i \in 1..priv.num : work' = Discarding(i, priv.num, "reaped"),
           Discards' /\ priv'.action = "NORMAL" => unplugged,
           outcome' = "flying" /\ priv'.action = "NORMAL" =>
              /\ priv.action = "NORMAL"
              /\ \/ kind \in {"bulk", "interrupt"} => transferred' = Off(priv'.retired + 1)
                 \/ unplugged /\ \A k \in 1..Len(queue) : queue[k].len = 0
    PROVE  UrbsInv'
<1>1. /\ UrbsTypeOK /\ WorkInv /\ IdleInv /\ QueueInv /\ StatusInv /\ PendingInv /\ CountInv
      /\ DataInv
  BY DEF UrbsInv
<1>2. /\ Reaps /\ outcome = "flying" /\ ~Submits /\ priv.num \in Nat \ {0}
      /\ InFlight' = InFlight \ {Head(queue).i}
      /\ priv.retired + 1 + Cardinality(InFlight') = priv.num
  <2>1. priv.num \in Nat \ {0}
    BY <1>1, WorkShape
  <2> QED BY <2>1, Reaped
<1>3. /\ received' = received /\ unplugged' = unplugged /\ cancelling' = cancelling
      /\ submitsLeft' = submitsLeft /\ refused' = refused /\ kind' = kind /\ isIn' = isIn
      /\ UNCHANGED setupVars
  BY DEF ReapUrb, setupVars
<1>4. /\ WorkInv' /\ ~Submits' /\ work'.do \in {"none", "submit", "discard"} /\ ~Disturbs'
      /\ Discards' => /\ work'.i = priv.num /\ work'.last = priv.num
                      /\ work'.then = "reaped" /\ work'.r = "SUCCESS"
  <2>1. CASE work' = NoOp
    BY <2>1 DEF NoOp, Submits, Discards, Disturbs, WorkInv
  <2>2. ASSUME NEW i \in 1..priv.num, work' = Discarding(i, priv.num, "reaped")
        PROVE  /\ WorkInv' /\ ~Submits' /\ work'.do = "discard" /\ ~Disturbs'
               /\ Discards' => /\ work'.i = priv.num /\ work'.last = priv.num
                               /\ work'.then = "reaped" /\ work'.r = "SUCCESS"
    <3>1. priv.num \in 1..priv.num /\ priv.num \in Nat
      BY <1>2
    <3>2. /\ WorkInv' /\ Discards' /\ ~Submits' /\ work'.do = "discard"
          /\ work'.i = priv.num /\ work'.last = priv.num /\ work'.then = "reaped"
          /\ work'.r = "SUCCESS"
      BY <2>2, <3>1, Discards_is
    <3> QED BY <3>2 DEF Disturbs
  <2> QED BY <2>1, <2>2
<1>5. /\ queue' \in Seq(Entry) /\ Len(queue') \in Nat
      /\ \A k \in 1..Len(queue') : k + 1 \in 1..Len(queue) /\ queue'[k] = queue[k + 1]
      /\ QueueInv' /\ Pending' = Pending /\ StatusInv'
      /\ InOrder => InOrder'
  BY <1>1, <1>2, <1>3, Dequeued
<1>6. DataInv' /\ (kind # "iso" => transferred' \in 0..Bytes)
  BY <1>1, <1>2, <1>3, <1>4, DequeuedData
<1>7. UrbsTypeOK'
  <2>1. ASSUME NEW k \in DOMAIN queue' PROVE queue'[k].i \in Urb /\ queue'[k].len \in 0..Block
    <3>1. k \in 1..Len(queue')
      BY <1>5, LenProperties
    <3>2. queue'[k] \in Entry
      BY <1>5, <3>1, ElementOfSeq
    <3> QED BY <3>2 DEF Entry
  <2>2. urb' \in [Urb -> {"none", "pending", "done"}]
    BY <1>1, <1>2 DEF UrbsTypeOK, Reaps
  <2>3. transferred' \in 0..Bytes
    BY <1>1, <1>6 DEF UrbsTypeOK
  <2>4. outcome' \in {"idle", "flying"} \cup Statuses
    OBVIOUS
  <2> QED BY <1>1, <1>3, <1>4, <2>1, <2>2, <2>3, <2>4 DEF UrbsTypeOK, PrivType, setupVars
<1>8. IdleInv'
  <2>1. ASSUME InFlight' = {} PROVE queue' = <<>>
    <3>1. 1 \notin 1..Len(queue')
      <4> SUFFICES ASSUME 1 \in 1..Len(queue') PROVE FALSE
        OBVIOUS
      <4>1. queue'[1] \in Entry
        BY <1>5, ElementOfSeq
      <4>2. queue'[1].i \in Urb /\ urb'[queue'[1].i] = "done"
        BY <1>5, <4>1 DEF QueueInv, Entry
      <4> QED BY <2>1, <4>2 DEF InFlight
    <3> QED BY <1>5, <3>1, EmptyQueue
  <2> QED BY <2>1 DEF IdleInv
<1>9. PendingInv'
  <2>1. \A j \in Pending : j <= priv.num
    BY <1>1 DEF PendingInv, Pending, InFlight
  <2>2. \A i \in InFlight' : i <= priv.num
    BY <1>1, <1>2 DEF PendingInv
  <2> QED BY <1>1, <1>3, <1>4, <1>5, <2>1, <2>2 DEF PendingInv
<1>10. CountInv'
  <2>1. outcome' = "flying" => priv'.retired + Cardinality(InFlight') = priv'.num
    BY <1>2
  <2>2. kind' = "control" => priv'.num = 1 /\ priv'.retired = 0
    BY <1>1, <1>3 DEF CountInv
  <2> QED BY <1>3, <1>4, <2>1, <2>2 DEF CountInv
<1>11. NormalInv'
  <2> SUFFICES ASSUME outcome' = "flying", priv'.action = "NORMAL" PROVE NormalInv'
    BY DEF NormalInv
  <2>1. /\ InOrder
        /\ \A i \in 1..priv.num : i \in InFlight' <=> i > priv.retired + 1
    BY InTurn
  <2>2. unplugged /\ (\A k \in 1..Len(queue) : queue[k].len = 0)
           => unplugged' /\ \A k \in 1..Len(queue') : queue'[k].len = 0
    BY <1>3, <1>5
  <2>3. \A i \in 1..priv'.num : i \in InFlight' <=> i > priv'.retired
    BY <2>1
  <2> QED BY <1>3, <1>5, <2>1, <2>2, <2>3 DEF NormalInv, Off
<1>12. DiscardInv'
  <2>1. ~(priv.num < priv.num) /\ priv.num <= priv.num
    BY <1>2
  <2> QED BY <1>3, <1>4, <2>1 DEF DiscardInv
<1> QED BY <1>4, <1>5, <1>6, <1>7, <1>8, <1>9, <1>10, <1>11, <1>12 DEF UrbsInv

LEMMA HandleControlStep ==
    ASSUME UrbsInv, HandleControl
    PROVE  UrbsInv'
<1>1. UrbsTypeOK /\ CountInv /\ ReapUrb /\ kind = "control"
  BY DEF UrbsInv, HandleControl
<1>2. /\ transferred' = transferred + Head(queue).len /\ work' = NoOp
      /\ priv' = [priv EXCEPT !.urbs = FALSE]
      /\ outcome' = IF priv.action = "CANCELLED" THEN "CANCELLED"
                    ELSE StatusOf(Head(queue).status)
      /\ buffer' = buffer /\ packets' = packets
  BY DEF HandleControl, Report
<1>3. outcome' \in Statuses
  BY <1>2 DEF StatusOf, Statuses
<1>4. /\ priv' \in PrivType /\ priv'.num = priv.num /\ priv'.retired = priv.retired
      /\ priv'.offset = priv.offset
  BY <1>1, <1>2 DEF UrbsTypeOK, PrivType
<1>5. priv.num = 1 /\ priv.retired = 0 /\ priv.offset <= priv.retired /\ priv.offset = 0
  BY <1>1 DEF CountInv
<1>6. InFlight' = {}
  BY <1>1, <1>5, Reaped
<1>7. outcome' # "flying" /\ ~InData /\ ~Discards'
  BY <1>1, <1>2, <1>3 DEF Statuses, InData, Discards, NoOp
<1>8. buffer' \in [1..Bytes -> 0..Bytes] /\ packets' \in [Urb -> 0..MaxUrbs]
  BY <1>1, <1>2 DEF UrbsTypeOK
<1>9. outcome' \in {"flying"} \cup Statuses /\ kind # "iso"
  BY <1>1, <1>3
<1> QED BY <1>1, <1>2, <1>4, <1>5, <1>6, <1>7, <1>8, <1>9, ReapedStep

\* The bytes of URB u are moved to where they belong, or nothing is.
LEMMA Moved ==
    ASSUME UrbsInv, queue # <<>>, InData, MoveSurplus(Head(queue))
    PROVE  Puts(Head(queue)) /\ buffer' \in [1..Bytes -> 0..Bytes]
<1> DEFINE u == Head(queue)
<1>1. UrbsTypeOK /\ IdleInv /\ QueueInv /\ DataInv
  BY DEF UrbsInv
<1>2. u.i \in Urb /\ u.len \in 0..Block /\ Block \in Nat /\ Bytes \in Nat
  BY <1>1, First, UrbsAssumption DEF Bytes
<1>3. /\ transferred \in Nat /\ received \in 0..Bytes /\ transferred + u.len <= received
      /\ u.len > 0 => transferred <= Off(u.i)
      /\ \A o \in 1..u.len : buffer[Off(u.i) + o] = transferred + o
  BY <1>1, FirstBytes DEF InData
<1>4. Off(u.i) \in Nat /\ Off(u.i) + Block <= Bytes
  <2>1. u.i \in Nat \ {0}
    BY <1>2, UrbsAssumption DEF Urb
  <2> QED BY <1>2, <2>1, Blocks
<1>5. buffer \in [1..Bytes -> 0..Bytes]
  BY <1>1 DEF UrbsTypeOK
<1> HIDE DEF u
<1>6. buffer' = [b \in 1..Bytes |-> IF b - transferred \in 1..u.len
                                    THEN buffer[Off(u.i) + b - transferred]
                                    ELSE buffer[b]]
  BY DEF MoveSurplus, InData, Off, u
<1>7. ASSUME NEW b \in 1..Bytes, b <= transferred \/ b > transferred + u.len
      PROVE  buffer'[b] = buffer[b]
  <2>1. b - transferred \notin 1..u.len
    BY <1>2, <1>3, <1>7
  <2> QED BY <1>6, <2>1
<1>8. ASSUME NEW o \in 1..u.len
      PROVE  transferred + o \in 1..Bytes /\ buffer'[transferred + o] = transferred + o
  <2>1. PICK b \in 1..Bytes : b = transferred + o
    BY <1>2, <1>3
  <2>2. b - transferred = o /\ Off(u.i) + b - transferred = Off(u.i) + o
    BY <1>2, <1>3, <1>4, <2>1
  <2>3. buffer'[b] = buffer[Off(u.i) + o]
    BY <1>6, <2>2
  <2> QED BY <1>3, <2>1, <2>3
<1>9. ASSUME NEW b \in 1..Bytes PROVE buffer'[b] \in 0..Bytes
  <2>1. CASE b <= transferred \/ b > transferred + u.len
    BY <1>5, <1>7, <2>1
  <2>2. CASE b > transferred /\ b <= transferred + u.len
    <3>1. PICK o \in 1..u.len : b = transferred + o
      <4>1. b - transferred \in 1..u.len /\ b = transferred + (b - transferred)
        BY <1>2, <1>3, <2>2
      <4> QED BY <4>1
    <3>2. buffer'[b] = b
      BY <1>8, <3>1
    <3> QED BY <1>2, <3>2
  <2> QED BY <1>2, <1>3, <2>1, <2>2
<1>10. buffer' \in [1..Bytes -> 0..Bytes]
  BY <1>6, <1>9
<1> QED BY <1>7, <1>8, <1>10 DEF Puts, u

LEMMA HandleBulkAbnormalStep ==
    ASSUME UrbsInv, HandleBulkAbnormal
    PROVE  UrbsInv'
<1> DEFINE u == Head(queue)
           p == [priv EXCEPT !.retired = @ + 1]
           q == [p EXCEPT !.status = IF p.action # "COMPLETED_EARLY"
                                        /\ p.status = "COMPLETED"
                                     THEN "ERROR" ELSE @]
<1>1. /\ UrbsTypeOK /\ CountInv /\ ReapUrb /\ kind \in {"bulk", "interrupt"}
      /\ priv.action # "NORMAL" /\ MoveSurplus(u) /\ transferred' = transferred + u.len
      /\ packets' = packets /\ kind # "iso" /\ kind # "control"
  BY DEF UrbsInv, HandleBulkAbnormal
<1>2. IF p.retired = p.num THEN BulkReport(q) ELSE Wait(p)
  BY DEF HandleBulkAbnormal
<1>3. /\ priv.retired + 1 \in 0..MaxUrbs /\ priv.urbs /\ outcome = "flying"
      /\ priv.retired + 1 = priv.num => InFlight' = {}
      /\ priv.retired \in Nat /\ queue # <<>>
  BY <1>1, Reaped DEF Reaps
<1>4. /\ p \in PrivType /\ p.num = priv.num /\ p.retired = priv.retired + 1 /\ p.urbs
      /\ p.offset = priv.offset /\ p.action = priv.action /\ p.status \in Statuses
  BY <1>1, <1>3 DEF UrbsTypeOK, PrivType
<1> HIDE DEF p
<1>5. /\ q \in PrivType /\ q.num = priv.num /\ q.retired = priv.retired + 1
      /\ q.offset = priv.offset /\ q.action = priv.action /\ q.status \in Statuses
  <2>1. "ERROR" \in Statuses
    BY DEF Statuses
  <2> QED BY <1>4, <2>1 DEF PrivType
<1> HIDE DEF q
<1>6. priv.offset = 0 /\ priv.offset <= priv.retired + 1
  BY <1>1, <1>3 DEF CountInv
<1>7. /\ priv' \in PrivType /\ priv'.num = priv.num /\ priv'.retired = priv.retired + 1
      /\ priv'.offset = 0 /\ priv'.action # "NORMAL" /\ work' = NoOp
      /\ outcome' \in {"flying"} \cup Statuses
      /\ outcome' = "flying" => priv'.urbs
      /\ outcome' # "flying" => InFlight' = {}
  <2>1. CASE p.retired = p.num
    <3>1. BulkReport(q)
      BY <1>2, <2>1
    <3>2. /\ priv' = [q EXCEPT !.urbs = FALSE] /\ work' = NoOp
          /\ outcome' = IF q.action = "CANCELLED" THEN "CANCELLED" ELSE q.status
      BY <3>1 DEF BulkReport, Report
    <3>3. outcome' \in Statuses /\ outcome' # "flying"
      BY <1>5, <3>2 DEF Statuses
    <3>4. InFlight' = {}
      BY <1>3, <1>4, <2>1
    <3>5. /\ priv' \in PrivType /\ priv'.num = priv.num /\ priv'.retired = priv.retired + 1
          /\ priv'.offset = 0 /\ priv'.action # "NORMAL"
      BY <1>1, <1>5, <1>6, <3>2 DEF PrivType
    <3> QED BY <3>2, <3>3, <3>4, <3>5
  <2>2. CASE p.retired # p.num
    BY <1>1, <1>2, <1>3, <1>4, <1>6, <2>2 DEF Wait
  <2> QED BY <2>1, <2>2
<1>8. InData => Puts(Head(queue))
  BY <1>1, <1>3, Moved
<1>9. buffer' \in [1..Bytes -> 0..Bytes]
  <2>1. CASE InData
    BY <1>1, <1>3, <2>1, Moved
  <2>2. CASE ~InData
    BY <1>1, <2>2 DEF MoveSurplus, InData, UrbsTypeOK
  <2> QED BY <2>1, <2>2
<1>10. packets' \in [Urb -> 0..MaxUrbs]
  BY <1>1 DEF UrbsTypeOK
<1> QED BY <1>1, <1>3, <1>6, <1>7, <1>8, <1>9, <1>10, ReapedStep

Good == {"ok", "EREMOTEIO", "ENOENT", "ECONNRESET"}

\* The URB's status may end the transfer's being normal.
LEMMA Judged ==
    ASSUME NEW p \in PrivType, p.action = "NORMAL", NEW u \in Entry, u.status # "EPIPE"
    PROVE  /\ Judge(p, u) \in PrivType /\ Judge(p, u).num = p.num
           /\ Judge(p, u).retired = p.retired /\ Judge(p, u).offset = p.offset
           /\ Judge(p, u).urbs = p.urbs /\ Judge(p, u).status \in Statuses
           /\ Judge(p, u).action = "NORMAL" =>
                 \/ u.status \in Good /\ ~(u.len < Block /\ u.i < p.num)
                 \/ u.status = "ESHUTDOWN" \/ u.status = "EOVERFLOW"
<1>1. /\ "COMPLETED_EARLY" \in Actions /\ "ERROR" \in Actions
      /\ "NO_DEVICE" \in Statuses /\ "OVERFLOW" \in Statuses /\ "ERROR" \in Statuses
  BY DEF Actions, Statuses
<1>2. CASE u.status \in Good
  <2>1. Judge(p, u) = IF u.len < Block /\ u.i < p.num
                      THEN [p EXCEPT !.action = "COMPLETED_EARLY"] ELSE p
    BY <1>2 DEF Judge, Good
  <2> QED BY <1>1, <1>2, <2>1 DEF PrivType
<1>3. CASE u.status = "ESHUTDOWN"
  <2>1. Judge(p, u) = [p EXCEPT !.status = "NO_DEVICE"]
    BY <1>3 DEF Judge
  <2> QED BY <1>1, <1>3, <2>1 DEF PrivType
<1>4. CASE u.status = "EOVERFLOW"
  <2>1. Judge(p, u) = [p EXCEPT !.status = IF @ = "COMPLETED" THEN "OVERFLOW" ELSE @]
    BY <1>4 DEF Judge
  <2> QED BY <1>1, <1>4, <2>1 DEF PrivType
<1>5. CASE u.status = "EPROTO"
  <2>1. Judge(p, u) = [[p EXCEPT !.status = IF @ = "COMPLETED" THEN "ERROR" ELSE @]
                          EXCEPT !.action = "ERROR"]
    BY <1>5 DEF Judge
  <2> QED BY <1>1, <1>5, <2>1 DEF PrivType
<1> QED BY <1>2, <1>3, <1>4, <1>5 DEF Entry, UrbErrors, Good

LEMMA HandleBulkNormalStep ==
    ASSUME UrbsInv, HandleBulkNormal
    PROVE  UrbsInv'
<1> DEFINE u == Head(queue)
           o == [priv EXCEPT !.retired = @ + 1]
           p == Judge(o, u)
           good == u.status \in {"ok", "EREMOTEIO", "ENOENT", "ECONNRESET"}
<1>1. /\ UrbsTypeOK /\ IdleInv /\ QueueInv /\ StatusInv /\ CountInv /\ DataInv /\ ReapUrb
      /\ kind \in {"bulk", "interrupt"} /\ priv.action = "NORMAL"
      /\ transferred' = transferred + u.len /\ packets' = packets /\ buffer' = buffer
      /\ kind # "iso" /\ kind # "control"
  BY DEF UrbsInv, HandleBulkNormal
<1>2. IF \/ u.status = "EOVERFLOW"
         \/ good /\ u.i = p.num
      THEN BulkReport(p)
      ELSE IF good /\ u.len = Block THEN Wait(p)
      ELSE IF p.retired = p.num THEN BulkReport(p)
      ELSE /\ priv' = p
           /\ work' = Discarding(u.i + 1, p.num, "reaped")
           /\ UNCHANGED outcome
  BY DEF HandleBulkNormal
<1>3. /\ priv.retired + 1 \in 0..MaxUrbs /\ priv.urbs /\ outcome = "flying"
      /\ priv.retired + 1 = priv.num => InFlight' = {}
      /\ priv.retired \in Nat /\ queue # <<>> /\ priv.num \in Nat
      /\ u \in Entry /\ u.i \in Urb /\ u.len \in 0..Block /\ u.i <= priv.num
      /\ Block \in Nat \ {0}
  BY <1>1, Reaped, UrbsAssumption DEF Reaps
<1>4. /\ u.i = priv.retired + 1
      /\ \/ transferred = Off(priv.retired + 1)
         \/ unplugged /\ \A k \in 1..Len(queue) : queue[k].len = 0
  BY <1>1, InTurn
<1>5. u = queue[1] /\ 1 \in 1..Len(queue)
  BY <1>1, <1>3, First
<1>6. /\ u.status # "EPIPE" /\ (u.status = "EOVERFLOW" => u.i = priv.num)
      /\ u.status = "ESHUTDOWN" => unplugged /\ \A l \in 1..Len(queue) : queue[l].len = 0
  BY <1>1, <1>5 DEF StatusInv
<1>7. /\ o \in PrivType /\ o.num = priv.num /\ o.retired = priv.retired + 1 /\ o.urbs
      /\ o.offset = priv.offset /\ o.action = "NORMAL"
  BY <1>1, <1>3 DEF UrbsTypeOK, PrivType
<1> HIDE DEF o
<1>8. /\ p \in PrivType /\ p.num = priv.num /\ p.retired = priv.retired + 1 /\ p.urbs
      /\ p.offset = priv.offset /\ p.status \in Statuses
      /\ p.action = "NORMAL" =>
            \/ good /\ ~(u.len < Block /\ u.i < p.num)
            \/ u.status = "ESHUTDOWN" \/ u.status = "EOVERFLOW"
  <2>1. Good = {"ok", "EREMOTEIO", "ENOENT", "ECONNRESET"}
    BY DEF Good
  <2> QED BY <1>3, <1>6, <1>7, <2>1, Judged
<1> HIDE DEF p
<1>9. priv.offset = 0 /\ priv.offset <= priv.retired + 1
  BY <1>1, <1>3 DEF CountInv
<1> HIDE DEF u
<1>10. InData => Puts(Head(queue))
  <2> SUFFICES ASSUME InData PROVE Puts(u)
    BY DEF u
  <2>1. /\ transferred \in Nat
        /\ \A n \in 1..u.len : buffer[Off(u.i) + n] = transferred + n
    BY <1>1, <1>3, FirstBytes DEF u
  <2>2. ASSUME NEW n \in 1..u.len PROVE buffer[transferred + n] = transferred + n
    <3>1. u.len # 0
      BY <1>3, <2>2
    <3>2. transferred = Off(u.i)
      BY <1>4, <1>5, <3>1
    <3> QED BY <2>1, <3>2
  <2> QED BY <1>1, <2>2 DEF Puts
<1>11. buffer' \in [1..Bytes -> 0..Bytes] /\ packets' \in [Urb -> 0..MaxUrbs]
  BY <1>1 DEF UrbsTypeOK
<1>12. ASSUME BulkReport(p), priv.retired + 1 = priv.num
       PROVE  UrbsInv'
  <2>1. /\ priv' = [p EXCEPT !.urbs = FALSE] /\ work' = NoOp
        /\ outcome' = IF p.action = "CANCELLED" THEN "CANCELLED" ELSE p.status
    BY <1>12 DEF BulkReport, Report
  <2>2. outcome' \in Statuses /\ outcome' # "flying"
    BY <1>8, <2>1 DEF Statuses
  <2>3. InFlight' = {}
    BY <1>3, <1>12
  <2>4. /\ priv' \in PrivType /\ priv'.num = priv.num /\ priv'.retired = priv.retired + 1
        /\ priv'.offset = 0
    BY <1>8, <1>9, <2>1 DEF PrivType
  <2>5. ~Discards' /\ outcome' \in {"flying"} \cup Statuses
        /\ transferred' = transferred + Head(queue).len
    BY <1>1, <2>1, <2>2 DEF Discards, NoOp, u
  <2> QED BY <1>1, <1>9, <1>10, <1>11, <2>1, <2>2, <2>3, <2>4, <2>5, ReapedStep
<1>13. ASSUME priv' = p, outcome' = outcome,
              \/ work' = NoOp /\ good /\ u.len = Block
              \/ /\ work' = Discarding(u.i + 1, p.num, "reaped") /\ priv.retired + 1 # priv.num
                 /\ u.status # "EOVERFLOW" /\ ~(good /\ u.len = Block)
                 /\ ~(good /\ u.i = p.num)
       PROVE  UrbsInv'
  <2>1. \/ work' = NoOp
        \/ \E i \in 1..priv.num : work' = Discarding(i, priv.num, "reaped")
    <3>1. CASE work' = NoOp
      BY <3>1
    <3>2. CASE work' = Discarding(u.i + 1, p.num, "reaped") /\ priv.retired + 1 # priv.num
      <4>1. u.i + 1 \in 1..priv.num
        BY <1>3, <1>4, <3>2
      <4> QED BY <1>8, <3>2, <4>1
    <3> QED BY <1>13, <3>1, <3>2
  <2>2. ASSUME work' # NoOp, p.action = "NORMAL"
        PROVE  unplugged /\ \A l \in 1..Len(queue) : queue[l].len = 0
    <3>1. /\ u.status # "EOVERFLOW" /\ ~(good /\ u.len = Block) /\ ~(good /\ u.i = p.num)
      BY <1>13, <2>2
    <3>2. ~(good /\ ~(u.len < Block /\ u.i < p.num))
      <4> SUFFICES ASSUME good, ~(u.len < Block /\ u.i < p.num) PROVE FALSE
        OBVIOUS
      <4>1. u.len # Block /\ u.i # p.num
        BY <3>1
      <4>2. u.i \in Nat
        BY <1>3, <1>4
      <4> QED BY <1>3, <1>8, <4>1, <4>2
    <3>3. u.status = "ESHUTDOWN"
      BY <1>8, <2>2, <3>1, <3>2
    <3> QED BY <1>6, <3>3
  <2>3. Discards' => work' # NoOp
    BY DEF Discards, NoOp
  <2>4. Discards' /\ priv'.action = "NORMAL" => unplugged
    BY <1>13, <2>2, <2>3
  <2>5. ASSUME priv'.action = "NORMAL"
        PROVE  \/ transferred' = Off(priv'.retired + 1)
               \/ unplugged /\ \A k \in 1..Len(queue) : queue[k].len = 0
    <3>1. CASE work' # NoOp
      BY <1>13, <2>2, <2>5, <3>1
    <3>2. CASE work' = NoOp
      <4>1. u.len = Block
        BY <1>13, <3>2 DEF Discarding, NoOp
      <4>2. CASE transferred = Off(priv.retired + 1)
        <5>1. /\ Off(priv.retired + 1) \in Nat
              /\ Off(priv.retired + 1 + 1) = Off(priv.retired + 1) + Block
          <6>1. priv.retired + 1 \in Nat \ {0}
            BY <1>3
          <6> QED BY <6>1, Blocks
        <5>2. priv'.retired = priv.retired + 1
          BY <1>8, <1>13
        <5> QED BY <1>1, <4>1, <4>2, <5>1, <5>2
      <4>3. CASE unplugged /\ \A k \in 1..Len(queue) : queue[k].len = 0
        BY <4>3
      <4> QED BY <1>4, <4>2, <4>3
    <3> QED BY <3>1, <3>2
  <2>6. /\ priv' \in PrivType /\ priv'.num = priv.num /\ priv'.retired = priv.retired + 1
        /\ priv'.offset = 0 /\ priv'.urbs /\ outcome' = "flying"
        /\ outcome' \in {"flying"} \cup Statuses
        /\ transferred' = transferred + Head(queue).len
    BY <1>1, <1>3, <1>8, <1>9, <1>13 DEF u
  <2> QED BY <1>1, <1>9, <1>10, <1>11, <2>1, <2>4, <2>5, <2>6, ReapedStep
<1>14. CASE u.status = "EOVERFLOW" \/ (good /\ u.i = p.num)
  <2>1. BulkReport(p)
    BY <1>2, <1>14 DEF u
  <2>2. priv.retired + 1 = priv.num
    BY <1>4, <1>6, <1>8, <1>14 DEF u
  <2> QED BY <1>12, <2>1, <2>2
<1>15. CASE ~(u.status = "EOVERFLOW" \/ (good /\ u.i = p.num)) /\ good /\ u.len = Block
  <2>1. Wait(p)
    BY <1>2, <1>15 DEF u
  <2> QED BY <1>13, <1>15, <2>1 DEF Wait
<1>16. CASE ~(u.status = "EOVERFLOW" \/ (good /\ u.i = p.num)) /\ ~(good /\ u.len = Block)
  <2>1. CASE p.retired = p.num
    <3>1. BulkReport(p)
      BY <1>2, <1>16, <2>1 DEF u
    <3> QED BY <1>8, <1>12, <2>1, <3>1
  <2>2. CASE p.retired # p.num
    <3>1. priv' = p /\ work' = Discarding(u.i + 1, p.num, "reaped") /\ outcome' = outcome
      BY <1>2, <1>16, <2>2 DEF u
    <3> QED BY <1>8, <1>13, <1>16, <2>2, <3>1
  <2> QED BY <2>1, <2>2
<1> QED BY <1>14, <1>15, <1>16

LEMMA HandleIsoStep ==
    ASSUME UrbsInv, HandleIso
    PROVE  UrbsInv'
<1> DEFINE u == Head(queue)
           p == [priv EXCEPT !.retired = @ + 1, !.offset = @ + 1]
           s == CASE u.status \in {"ok", "ENOENT", "ECONNRESET"} -> "COMPLETED"
                  [] u.status = "ESHUTDOWN" -> "NO_DEVICE"
                  [] OTHER -> "ERROR"
           ab == IF p.action = "CANCELLED" THEN "CANCELLED" ELSE "ERROR"
<1>1. /\ UrbsTypeOK /\ CountInv /\ ReapUrb /\ kind = "iso"
      /\ transferred' = transferred /\ buffer' = buffer /\ ~InData
      /\ packets' = [packets EXCEPT ![p.offset] = u.i]
  BY DEF UrbsInv, HandleIso, InData
<1>2. IF p.action # "NORMAL"
      THEN IF p.retired = p.num THEN Report(p, ab) ELSE Wait(p)
      ELSE IF u.i = p.num THEN Report(p, s) ELSE Wait(p)
  BY DEF HandleIso
<1>3. /\ priv.retired + 1 \in 0..MaxUrbs /\ priv.urbs /\ outcome = "flying"
      /\ priv.retired + 1 = priv.num => InFlight' = {}
      /\ priv.retired \in Nat /\ u.i \in Urb /\ MaxUrbs \in Nat
  BY <1>1, Reaped, UrbsAssumption
<1>4. priv.offset \in Nat /\ priv.offset + 1 <= priv.retired + 1 /\ priv.offset + 1 \in 0..MaxUrbs
  BY <1>1, <1>3 DEF CountInv, UrbsTypeOK
<1>5. /\ p \in PrivType /\ p.num = priv.num /\ p.retired = priv.retired + 1 /\ p.urbs
      /\ p.offset <= p.retired /\ p.action = priv.action
  BY <1>1, <1>3, <1>4 DEF UrbsTypeOK, PrivType
<1>6. s \in Statuses /\ ab \in Statuses
  <2>1. s \in {"COMPLETED", "NO_DEVICE", "ERROR"}
    OBVIOUS
  <2>2. ab \in {"CANCELLED", "ERROR"}
    OBVIOUS
  <2> HIDE DEF s, ab
  <2> QED BY <2>1, <2>2 DEF Statuses
<1>7. packets' \in [Urb -> 0..MaxUrbs]
  <2>1. u.i \in 0..MaxUrbs
    BY <1>3 DEF Urb
  <2> HIDE DEF u, p
  <2> QED BY <1>1, <2>1 DEF UrbsTypeOK
<1>8. priv.action = "NORMAL" => u.i = priv.retired + 1
  BY <1>1, InTurn
<1> HIDE DEF u, p, s, ab
<1>9. buffer' \in [1..Bytes -> 0..Bytes]
  BY <1>1 DEF UrbsTypeOK
<1>10. ASSUME NEW st \in Statuses, Report(p, st), priv.retired + 1 = priv.num
       PROVE  UrbsInv'
  <2>1. priv' = [p EXCEPT !.urbs = FALSE] /\ work' = NoOp /\ outcome' = st
    BY <1>10 DEF Report
  <2>2. outcome' \in {"flying"} \cup Statuses /\ outcome' # "flying"
    BY <2>1 DEF Statuses
  <2>3. ~Discards'
    BY <2>1 DEF Discards, NoOp
  <2>4. /\ priv' \in PrivType /\ priv'.num = priv.num /\ priv'.offset <= priv'.retired
    BY <1>5, <2>1 DEF PrivType
  <2>5. InFlight' = {}
    BY <1>3, <1>10
  <2> QED BY <1>1, <1>7, <1>9, <2>1, <2>2, <2>3, <2>4, <2>5, ReapedStep
<1>11. ASSUME Wait(p) PROVE UrbsInv'
  <2>1. priv' = p /\ work' = NoOp /\ outcome' = "flying"
    BY <1>3, <1>11 DEF Wait
  <2>2. ~Discards'
    BY <2>1 DEF Discards, NoOp
  <2>3. /\ priv' \in PrivType /\ priv'.num = priv.num /\ priv'.offset <= priv'.retired
        /\ priv'.urbs /\ priv'.retired = priv.retired + 1 /\ priv'.action = priv.action
    BY <1>5, <2>1
  <2> QED BY <1>1, <1>7, <1>9, <2>1, <2>2, <2>3, ReapedStep
<1>12. CASE p.action # "NORMAL"
  <2>1. CASE p.retired = p.num
    BY <1>2, <1>5, <1>6, <1>10, <1>12, <2>1
  <2>2. CASE p.retired # p.num
    BY <1>2, <1>11, <1>12, <2>2
  <2> QED BY <2>1, <2>2
<1>13. CASE p.action = "NORMAL"
  <2>1. CASE u.i = p.num
    BY <1>2, <1>5, <1>6, <1>8, <1>10, <1>13, <2>1
  <2>2. CASE u.i # p.num
    BY <1>2, <1>11, <1>13, <2>2
  <2> QED BY <2>1, <2>2
<1> QED BY <1>12, <1>13

----------------------------------------------------------------------------
(* The first state, the disconnection, and the whole.                      *)

\* With an empty queue all received bytes are accounted for.
LEMMA NoData ==
    ASSUME queue = <<>>, received \in Nat,
           kind # "iso" /\ outcome # "NO_DEVICE" => received = transferred
    PROVE  \E s : Sums(s) /\ Placed(s)
<1> DEFINE s == [k \in 0..0 |-> received]
<1>1. Len(queue) = 0
  OBVIOUS
<1>2. s \in [0..0 -> Nat] /\ s[0] = received /\ 0..0 = {0} /\ 1..0 = {}
  OBVIOUS
<1> HIDE DEF s
<1>3. Sums(s)
  BY <1>1, <1>2 DEF Sums
<1>4. Placed(s)
  BY <1>1, <1>2 DEF Placed
<1> QED BY <1>3, <1>4

LEMMA HandleDisconnectStep ==
    ASSUME UrbsInv, HandleDisconnect
    PROVE  UrbsInv'
<1>1. /\ UrbsTypeOK /\ PendingInv /\ CountInv /\ DataInv
  BY DEF UrbsInv
<1>2. /\ priv' = [priv EXCEPT !.urbs = FALSE] /\ outcome' = "NO_DEVICE" /\ work' = NoOp
      /\ queue' = <<>> /\ urb' = [i \in Urb |-> "none"] /\ unplugged' = unplugged
      /\ kind' = kind /\ isIn' = isIn /\ cont' = cont /\ canReap' = canReap
      /\ cancelling' = cancelling /\ buffer' = buffer /\ transferred' = transferred
      /\ packets' = packets /\ refused' = refused /\ received' = received
      /\ submitsLeft' = submitsLeft /\ unplugged
  BY DEF HandleDisconnect, Report, setupVars, dataVars
<1>3. ~Submits' /\ ~Discards' /\ work'.do = "none" /\ WorkInv'
  BY <1>2 DEF Submits, Discards, NoOp, WorkInv
<1>4. InFlight' = {} /\ Pending' = {}
  BY <1>2 DEF InFlight, Pending
<1>5. Len(queue') = 0 /\ 1..0 = {} /\ DOMAIN queue' = {} /\ queue' \in Seq(Entry)
  BY <1>2
<1>6. /\ priv' \in PrivType /\ priv'.num = priv.num /\ priv'.retired = priv.retired
      /\ priv'.offset = priv.offset
  BY <1>1, <1>2 DEF UrbsTypeOK, PrivType
<1>7. UrbsTypeOK'
  <2>1. outcome' \in {"idle", "flying"} \cup Statuses
    BY <1>2 DEF Statuses
  <2>2. urb' \in [Urb -> {"none", "pending", "done"}]
    BY <1>2
  <2> QED BY <1>1, <1>2, <1>3, <1>5, <1>6, <2>1, <2>2 DEF UrbsTypeOK, PrivType
<1>8. IdleInv' /\ NormalInv' /\ DiscardInv'
  BY <1>2, <1>3, <1>4 DEF IdleInv, NormalInv, DiscardInv
<1>9. QueueInv' /\ StatusInv'
  BY <1>2, <1>5 DEF QueueInv, StatusInv
<1>10. PendingInv'
  BY <1>3, <1>4 DEF PendingInv
<1>11. CountInv'
  BY <1>1, <1>2, <1>3, <1>6 DEF CountInv
<1>12. DataInv'
  <2>1. received' \in Nat
    BY <1>1, <1>2 DEF UrbsTypeOK
  <2>2. \E s : (Sums(s) /\ Placed(s))'
    <3>1. PICK s : s \in [0..0 -> Nat] /\ s[0] = received' /\ 0..0 = {0}
      <4>1. PICK n \in Nat : n = received'
        BY <2>1
      <4>2. PICK s : s = [k \in 0..0 |-> n]
        OBVIOUS
      <4> QED BY <4>1, <4>2
    <3>2. Sums(s)'
      <4>1. outcome' = "NO_DEVICE" /\ Len(queue') = 0
        BY <1>2, <1>5
      <4>2. /\ s \in [0..Len(queue') -> Nat] /\ s[Len(queue')] = received'
            /\ \A k, l \in 0..Len(queue') : s[k] <= s[l]
        BY <1>5, <2>1, <3>1
      <4>3. \A k \in 1..Len(queue') : s[k] = s[k - 1] + queue'[k].len
        BY <1>5, <4>1
      <4> QED BY <4>1, <4>2, <4>3 DEF Sums
    <3>3. Placed(s)'
      BY <1>5, <3>1 DEF Placed
    <3> QED BY <3>2, <3>3
  <2>3. InData' => InData
    BY <1>2 DEF InData
  <2> QED BY <1>1, <1>2, <1>3, <1>4, <2>2, <2>3 DEF DataInv
<1> QED BY <1>3, <1>7, <1>8, <1>9, <1>10, <1>11, <1>12 DEF UrbsInv

LEMMA UrbsInitStep == UrbsInit => UrbsInv
<1> SUFFICES ASSUME UrbsInit PROVE UrbsInv
  OBVIOUS
<1>1. /\ kind \in Kinds /\ isIn \in BOOLEAN /\ canReap \in BOOLEAN /\ cont \in BOOLEAN
      /\ priv = [urbs |-> FALSE, num |-> 1, retired |-> 0, action |-> "NORMAL",
                 status |-> "COMPLETED", offset |-> 0]
      /\ work = NoOp /\ cancelling = FALSE /\ unplugged = FALSE /\ refused = FALSE
      /\ outcome = "idle" /\ buffer = [b \in 1..Bytes |-> 0]
      /\ transferred = 0 /\ received = 0 /\ packets = [j \in Urb |-> 0]
      /\ urb = [i \in Urb |-> "none"] /\ queue = <<>> /\ submitsLeft = MaxSubmits
  BY DEF UrbsInit
<1>2. /\ MaxUrbs \in Nat /\ Bytes \in Nat /\ 1 \in Urb /\ MaxSubmits \in Nat
  BY UrbsAssumption DEF Bytes, Urb
<1>3. ~Submits /\ ~Discards /\ work.do = "none" /\ WorkInv
  BY <1>1 DEF Submits, Discards, NoOp, WorkInv
<1>4. InFlight = {} /\ Pending = {}
  BY <1>1 DEF InFlight, Pending
<1>5. Len(queue) = 0 /\ 1..0 = {} /\ DOMAIN queue = {} /\ queue \in Seq(Entry)
  BY <1>1
<1>6. UrbsTypeOK
  <2>1. priv \in [urbs : BOOLEAN, num : Urb, retired : 0..MaxUrbs,
                  action : Actions, status : Statuses, offset : 0..MaxUrbs]
    BY <1>1, <1>2 DEF Actions, Statuses
  <2>2. buffer \in [1..Bytes -> 0..Bytes] /\ packets \in [Urb -> 0..MaxUrbs]
        /\ urb \in [Urb -> {"none", "pending", "done"}]
    BY <1>1, <1>2
  <2>3. transferred \in 0..Bytes /\ received \in 0..Bytes /\ submitsLeft \in 0..MaxSubmits
    BY <1>1, <1>2
  <2>4. outcome \in {"idle", "flying"} \cup Statuses
    BY <1>1
  <2> QED BY <1>1, <1>3, <1>5, <2>1, <2>2, <2>3, <2>4 DEF UrbsTypeOK
<1>7. IdleInv /\ NormalInv /\ DiscardInv
  BY <1>1, <1>3, <1>4 DEF IdleInv, NormalInv, DiscardInv
<1>8. QueueInv /\ StatusInv
  BY <1>1, <1>5 DEF QueueInv, StatusInv
<1>9. PendingInv
  BY <1>3, <1>4 DEF PendingInv
<1>10. CountInv
  BY <1>1, <1>3 DEF CountInv
<1>11. DataInv
  <2>1. \E s : Sums(s) /\ Placed(s)
    BY <1>1, NoData
  <2> QED BY <1>1, <1>3, <1>4, <2>1 DEF DataInv
<1> QED BY <1>3, <1>6, <1>7, <1>8, <1>9, <1>10, <1>11 DEF UrbsInv

LEMMA UrbsNextStep == UrbsInv /\ Plain /\ [UrbsNext]_urbsVars => UrbsInv'
<1> SUFFICES ASSUME UrbsInv, Plain, [UrbsNext]_urbsVars PROVE UrbsInv'
  OBVIOUS
<1>1. CASE CallSteps
  <2>1. CASE SubmitUrb
    BY <2>1, SubmitUrbStep
  <2>2. CASE FirstUrbFails
    BY <2>2, FirstUrbFailsStep
  <2>3. CASE LaterUrbFails
    BY <2>3, LaterUrbFailsStep
  <2>4. ASSUME NEW len \in 0..(Block - 1), DiscardUrb(len) PROVE UrbsInv'
    BY <2>4, DiscardUrbStep
  <2>5. CASE DiscardsDone
    BY <2>5, DiscardsDoneStep
  <2> QED BY <1>1, <2>1, <2>2, <2>3, <2>4, <2>5 DEF CallSteps
<1>2. CASE Handler
  <2>1. CASE HandleControl
    BY <2>1, HandleControlStep
  <2>2. CASE HandleBulkAbnormal
    BY <2>2, HandleBulkAbnormalStep
  <2>3. CASE HandleBulkNormal
    BY <2>3, HandleBulkNormalStep
  <2>4. CASE HandleIso
    BY <2>4, HandleIsoStep
  <2>5. CASE HandleDisconnect
    BY <2>5, HandleDisconnectStep
  <2> QED BY <1>2, <2>1, <2>2, <2>3, <2>4, <2>5 DEF Handler
<1>3. ASSUME NEW len \in 0..Block, NEW st \in Errors \cup {"ok", "EREMOTEIO"},
             UrbCompletes(len, st)
      PROVE  UrbsInv'
  BY <1>3, UrbCompletesStep
<1>4. CASE Submit
  BY <1>4, SubmitStep
<1>5. CASE Cancel
  BY <1>5, CancelStep
<1>6. CASE UnplugUrbs
  BY <1>6, UnplugUrbsStep
<1>7. CASE UNCHANGED urbsVars
  BY <1>7, UrbsStutter
<1> QED BY <1>1, <1>2, <1>3, <1>4, <1>5, <1>6, <1>7 DEF UrbsNext

\* The URBs of a transfer, its count of those retired and its bytes belong
\* together in every state: of the submissions, discards and handlers, of the
\* kernel, and of an unplugging.
THEOREM UrbsInvariance == Plain => (UrbsSpec => []UrbsInv)
<1> SUFFICES ASSUME Plain PROVE UrbsSpec => []UrbsInv
  OBVIOUS
<1>1. UrbsInv /\ [UrbsNext]_urbsVars => UrbsInv'
  BY UrbsNextStep
<1> QED BY <1>1, UrbsInitStep, PTL DEF UrbsSpec

\* An IN transfer of usbfs reports all bytes that came in, in order, however its
\* URBs failed, fell short, or were discarded.
THEOREM AllDataReported == Plain => (UrbsSpec => []NoDataLost)
<1> SUFFICES ASSUME Plain PROVE UrbsSpec => []NoDataLost
  OBVIOUS
<1>1. UrbsInv => NoDataLost
  <2> SUFFICES ASSUME UrbsInv, kind \in {"bulk", "interrupt"}, isIn,
                      outcome \in Statuses \ {"NO_DEVICE"}
               PROVE  transferred = received /\ \A b \in 1..transferred : buffer[b] = b
    BY DEF NoDataLost
  <2>1. UrbsTypeOK /\ IdleInv /\ DataInv
    BY DEF UrbsInv
  <2>2. queue = <<>>
    BY <2>1 DEF IdleInv, Statuses
  <2>3. PICK s : Sums(s)
    BY <2>1 DEF DataInv
  <2>4. Len(queue) = 0
    BY <2>2
  <2>5. s[0] = received /\ s[0] = transferred
    BY <2>3, <2>4 DEF Sums
  <2>6. InData
    BY DEF InData
  <2> QED BY <2>1, <2>5, <2>6 DEF DataInv
<1> QED BY <1>1, UrbsInvariance, PTL

\* The completion handlers of usbfs report a transfer when the kernel has none of
\* its URBs left.
THEOREM ReportedAtTheEnd == Plain => (UrbsSpec => []ReportedWhenAllBack)
<1> SUFFICES ASSUME Plain PROVE UrbsSpec => []ReportedWhenAllBack
  OBVIOUS
<1>1. UrbsInv => ReportedWhenAllBack
  BY DEF UrbsInv, IdleInv, InFlight, InKernel, ReportedWhenAllBack
<1> QED BY <1>1, UrbsInvariance, PTL

\* What becomes of the outcome in a step.
LEMMA UrbsOutcome ==
    ASSUME UrbsInv, [UrbsNext]_urbsVars
    PROVE  \/ outcome' = outcome
           \/ outcome # "flying" /\ outcome' = "flying" /\ urb' = urb
           \/ outcome = "flying" /\ outcome' \in Statuses \cup {"idle"}
<1>1. UrbsTypeOK /\ IdleInv
  BY DEF UrbsInv
<1>2. CASE Submit
  BY <1>2 DEF Submit
<1>3. CASE CallSteps
  <2>1. outcome' = outcome \/ FirstUrbFails
    BY <1>3 DEF CallSteps, SubmitUrb, LaterUrbFails, DiscardUrb, DiscardsDone
  <2>2. CASE FirstUrbFails
    <3>1. work # NoOp /\ outcome' = "idle"
      BY <2>2 DEF FirstUrbFails, NoOp
    <3> QED BY <1>1, <3>1 DEF IdleInv
  <2> QED BY <2>1, <2>2
<1>4. CASE Handler
  <2>1. CASE HandleDisconnect
    BY <2>1 DEF HandleDisconnect, Report, Statuses
  <2>2. CASE HandleControl \/ HandleBulkAbnormal \/ HandleBulkNormal \/ HandleIso
    <3>1. outcome = "flying"
      <4>1. ReapUrb
        BY <2>2 DEF HandleControl, HandleBulkAbnormal, HandleBulkNormal, HandleIso
      <4> QED BY <4>1, Reaped
    <3>2. outcome' \in {"idle", "flying"} \cup Statuses
      <4>1. UrbsInv'
        BY <2>2, HandleControlStep, HandleBulkAbnormalStep, HandleBulkNormalStep,
           HandleIsoStep
      <4> QED BY <4>1 DEF UrbsInv, UrbsTypeOK
    <3> QED BY <3>1, <3>2
  <2> QED BY <1>4, <2>1, <2>2 DEF Handler
<1>5. CASE \/ Cancel \/ UnplugUrbs \/ UNCHANGED urbsVars
           \/ \E len \in 0..Block, st \in Errors \cup {"ok", "EREMOTEIO"} :
                 UrbCompletes(len, st)
  BY <1>5 DEF Cancel, UnplugUrbs, UrbCompletes, urbsVars
<1> QED BY <1>2, <1>3, <1>4, <1>5 DEF UrbsNext

\* usbfs implements TransferBackend, what io.c relies on: a transfer is reported
\* once, when the kernel has given back all its URBs.
THEOREM UsbfsIsBackend == Plain => (UrbsSpec => Backend!Spec)
<1> SUFFICES ASSUME Plain PROVE UrbsSpec => Backend!Spec
  OBVIOUS
<1> DEFINE held == IF InKernel THEN {"x"} ELSE {}
           o == [x \in {"x"} |-> outcome]
<1>1. UrbsInit => Backend!Init
  BY DEF UrbsInit, Backend!Init, InKernel
<1>2. UrbsInv /\ UrbsInv' /\ [UrbsNext]_urbsVars => [Backend!Next]_<<o, held>>
  <2> SUFFICES ASSUME UrbsInv, UrbsInv', [UrbsNext]_urbsVars PROVE Backend!Next
    OBVIOUS
  <2>1. (outcome # "flying" => ~InKernel) /\ (outcome' # "flying" => ~InKernel')
    BY DEF UrbsInv, IdleInv, InFlight, InKernel
  <2>2. CASE outcome' = outcome
    <3>1. Backend!Exchange
      BY <2>1, <2>2 DEF Backend!Exchange
    <3> QED BY <3>1 DEF Backend!Next
  <2>3. CASE outcome # "flying" /\ outcome' = "flying" /\ urb' = urb
    <3>1. ~InKernel /\ ~InKernel'
      BY <2>1, <2>3 DEF InKernel
    <3>2. Backend!Submit("x")
      BY <2>3, <3>1 DEF Backend!Submit
    <3> QED BY <3>2 DEF Backend!Next
  <2>4. CASE outcome = "flying" /\ outcome' # "flying" /\ outcome' \in Statuses \cup {"idle"}
    <3>1. ~InKernel'
      BY <2>1, <2>4
    <3>2. Backend!End("x")
      BY <2>4, <3>1 DEF Backend!End
    <3> QED BY <3>2 DEF Backend!Next
  <2>5. "flying" \notin Statuses \cup {"idle"}
    BY DEF Statuses
  <2> QED BY <2>2, <2>3, <2>4, <2>5, UrbsOutcome
<1> QED BY <1>1, <1>2, UrbsInvariance, PTL DEF UrbsSpec, Backend!Spec
=============================================================================
