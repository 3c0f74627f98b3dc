--------------------------- MODULE GoDeviceProofs ---------------------------
(***************************************************************************)
(* Proofs about the Go package (GoDevice.tla), for any number of           *)
(* goroutines, devices, interfaces and contexts, as long as the            *)
(* application does not use a Device that it has closed.                   *)
(***************************************************************************)
EXTENDS GoDevice, TLAPS

----------------------------------------------------------------------------
(* The inductive invariant.                                                *)

\* Where a goroutine works with the device an Open has found, ...
OpenPCs == {"libusb_open", "detach", "claim", "give_up"}

\* ... under the package's lock, ...
LockedPCs == {"find_enumerate", "enumerate", "unlock"} \cup OpenPCs

\* ... and where it works with a Device that the application holds.
DevicePCs == {"io_lock", "io"} \cup ClosePCs

\* Some Open has found a device in context n.
Found(n) == n \in 1..contexts /\ device[n] \in Dev \X Interface

\* Who works on which context.
CallInv ==
    /\ \A g \in Routine : /\ pc[g] \in {"open", "enumerate"}
                                => info[g] \in Dev \X Interface
                          /\ pc[g] \in LockedPCs => lock = g
                          /\ pc[g] \in OpenPCs => Found(at[g]) /\ at[g] \notin known
                          /\ pc[g] \in DevicePCs => at[g] \in known
                          /\ pc[g] \in ClosePCs => at[g] \notin closed
    /\ \A g, r \in Routine : pc[g] \in ClosePCs /\ pc[r] \in ClosePCs /\ at[g] = at[r]
                                => g = r

\* Devices and handles are those of contexts in which a device was found.
FoundInv ==
    /\ \A n \in known \cup handle : Found(n)
    /\ closed \subseteq known

\* Handles are open from libusb_open to libusb_close.
HandleInv ==
    \A g \in Routine : /\ pc[g] = "libusb_open" => at[g] \notin handle
                       /\ pc[g] \in {"detach", "claim", "give_up", "release", "attach",
                                     "libusb_close"} => at[g] \in handle

\* The Close of n has begun to give up its interface.
GivesUp(n) == Using(n, {"attach", "libusb_close", "unref"})

\* An interface is claimed by the handle of a Device that has not begun to
\* give it up.
BoundInv ==
    \A x \in Dev \X Interface : \A n \in Context :
        claim[x] = n => n \in (known \cap handle) \ closed /\ device[n] = x /\ ~GivesUp(n)

\* It is bound to nothing only while a call is about to bind it: an Open that
\* has detached the driver, or a Close that is about to attach it.
UnboundInv ==
    \A x \in Dev \X Interface :
        claim[x] = Unbound => \/ x[1] \notin plugged
                              \/ \E g \in Routine : pc[g] \in {"claim", "attach"}
                                                    /\ device[at[g]] = x

\* The reference held if b.
One(b) == IF b THEN 1 ELSE 0

\* What has been opened in a context has a reference by its handle, and until
\* Close the one that Enumerate leaked.
Held(n, d) == IF Found(n) /\ device[n][1] = d
              THEN One(n \in handle) + One(n \notin closed) ELSE 0

\* Each context references what it lists, too.
RefInv ==
    \A n \in 1..contexts : \A d \in Dev : refs[n][d] >= One(d \in listed[n]) + Held(n, d)

\* No context is used before it is made.
ContextInv ==
    \A n \in Context \ (1..contexts) : device[n] = None /\ listed[n] = {}

IInv == /\ TypeOK /\ CallInv /\ FoundInv /\ HandleInv
        /\ BoundInv /\ UnboundInv /\ ClaimKept
        /\ RefInv /\ ContextInv

USE DEF Context, KernelDriver, Unbound, PCs, At, Goto, Step, Return, Using, ClosePCs,
        OpenPCs, LockedPCs, DevicePCs, Found, GivesUp, One, Held,
        callVars, libusbVars, appVars, usbVars

----------------------------------------------------------------------------
(* Each part of the invariant is kept by every step.                       *)

\* What a goroutine works on inside a call.
LEMMA Works ==
    ASSUME ConstantsAssumption, IInv, NEW g \in Routine, pc[g] \in OpenPCs \cup DevicePCs
    PROVE  /\ at[g] \in Context /\ at[g] \in 1..contexts
           /\ device[at[g]] \in Dev \X Interface
           /\ device[at[g]][1] \in Dev
BY DEF IInv, TypeOK, CallInv, FoundInv, ConstantsAssumption

\* A context is made: its number is new.
LEMMA Fresh ==
    ASSUME ConstantsAssumption, IInv, Enumerate
    PROVE  /\ contexts + 1 \in Context /\ contexts' = contexts + 1
           /\ contexts' \in 0..MaxContexts
           /\ refs' \in [Context -> [Dev -> Nat]] /\ listed' \in [Context -> SUBSET Dev]
           /\ contexts + 1 \notin known \cup handle \cup closed
           /\ refs'[contexts + 1] = [d \in Dev |-> IF d \in plugged THEN 2 ELSE 0]
           /\ listed'[contexts + 1] = plugged
           /\ \A n \in Context : n # contexts + 1 => refs'[n] = refs[n] /\ listed'[n] = listed[n]
<1> USE DEF IInv, TypeOK, FoundInv, Enumerate, ConstantsAssumption
<1> DEFINE taken == [d \in Dev |-> IF d \in plugged THEN 2 ELSE 0]
<1>1. /\ contexts + 1 \in Context /\ contexts' = contexts + 1 /\ contexts' \in 0..MaxContexts
      /\ contexts + 1 \notin known \cup handle \cup closed
      OBVIOUS
<1>2. taken \in [Dev -> Nat] /\ refs' = [refs EXCEPT ![contexts + 1] = taken]
      OBVIOUS
<1>3. refs' \in [Context -> [Dev -> Nat]] /\ refs'[contexts + 1] = taken
      /\ \A n \in Context : n # contexts + 1 => refs'[n] = refs[n]
  <2> HIDE DEF taken
  <2> QED BY <1>1, <1>2
<1>4. /\ listed' \in [Context -> SUBSET Dev] /\ listed'[contexts + 1] = plugged
      /\ \A n \in Context : n # contexts + 1 => listed'[n] = listed[n]
      BY <1>1
<1> QED BY <1>1, <1>2, <1>3, <1>4

\* The reference that a call is about to drop is there.
LEMMA Referenced ==
    ASSUME ConstantsAssumption, IInv, NEW n \in Context, Found(n),
           n \in handle \/ n \notin closed
    PROVE  refs[n][device[n][1]] >= 1
<1> DEFINE d == device[n][1]
<1>1. n \in 1..contexts /\ d \in Dev
      OBVIOUS
<1>2. refs[n][d] >= One(d \in listed[n]) + One(n \in handle) + One(n \notin closed)
      BY <1>1 DEF IInv, RefInv
<1> HIDE DEF d
<1>3. refs[n][d] \in Nat
      BY <1>1 DEF IInv, TypeOK
<1> QED BY <1>2, <1>3 DEF d

LEMMA ListReferenced ==
    ASSUME ConstantsAssumption, IInv, NEW n \in Context, NEW d \in listed[n]
    PROVE  n \in 1..contexts /\ refs[n][d] >= 1
<1>1. n \in 1..contexts /\ d \in Dev
      BY DEF IInv, ContextInv, TypeOK
<1>2. \/ refs[n][d] >= 1 + One(n \in handle) + One(n \notin closed)
      \/ refs[n][d] >= 1
      BY <1>1 DEF IInv, RefInv
<1>3. refs[n][d] \in Nat
      BY <1>1 DEF IInv, TypeOK
<1> QED BY <1>1, <1>2, <1>3

\* An Open goes on with the device it has found in its new context, or gives up.
LEMMA OpenFinds ==
    ASSUME ConstantsAssumption, IInv, NEW g \in Routine, OpenEnumerates(g)
    PROVE  \/ /\ Enumerate
              /\ \E x \in Dev \X Interface :
                    x[1] \in plugged /\ device' = [device EXCEPT ![contexts + 1] = x]
              /\ at' = [at EXCEPT ![g] = contexts + 1] /\ pc' = [pc EXCEPT ![g] = "libusb_open"]
           \/ /\ Enumerate \/ UNCHANGED <<contexts, refs, listed>>
              /\ UNCHANGED <<at, device>> /\ pc' = [pc EXCEPT ![g] = "unlock"]
<1>1. info[g] \in Dev \X Interface
      BY DEF OpenEnumerates, IInv, CallInv
<1>2. CASE \E d \in plugged : /\ device' = [device EXCEPT ![contexts + 1] = <<d, info[g][2]>>]
                              /\ at' = [at EXCEPT ![g] = contexts + 1]
                              /\ pc' = [pc EXCEPT ![g] = "libusb_open"]
                              /\ Enumerate
  <2>1. PICK d \in plugged : /\ device' = [device EXCEPT ![contexts + 1] = <<d, info[g][2]>>]
                             /\ at' = [at EXCEPT ![g] = contexts + 1]
                             /\ pc' = [pc EXCEPT ![g] = "libusb_open"]
                             /\ Enumerate
        BY <1>2
  <2>2. <<d, info[g][2]>> \in Dev \X Interface /\ <<d, info[g][2]>>[1] \in plugged
        BY <1>1 DEF IInv, TypeOK
  <2> QED BY <2>1, <2>2
<1>3. CASE /\ Enumerate \/ UNCHANGED <<contexts, refs, listed>>
           /\ UNCHANGED <<at, device>> /\ pc' = [pc EXCEPT ![g] = "unlock"]
      BY <1>3
<1> QED BY <1>2, <1>3 DEF OpenEnumerates

\* It touches no other goroutine and no context that exists.
LEMMA OpenFrame ==
    ASSUME ConstantsAssumption, IInv, NEW g \in Routine, OpenEnumerates(g)
    PROVE  /\ pc[g] = "enumerate" /\ UNCHANGED <<claim, plugged, known, closed, handle>>
           /\ \A r \in Routine : r # g => pc'[r] = pc[r] /\ at'[r] = at[r]
           /\ \A n \in 1..contexts : device'[n] = device[n]
<1> USE DEF IInv, TypeOK, ConstantsAssumption
<1>1. pc[g] = "enumerate" /\ UNCHANGED <<claim, plugged, known, closed, handle>>
      BY DEF OpenEnumerates
<1>2. CASE UNCHANGED <<at, device>> /\ pc' = [pc EXCEPT ![g] = "unlock"]
      BY <1>1, <1>2
<1>3. ASSUME NEW x, device' = [device EXCEPT ![contexts + 1] = x],
             at' = [at EXCEPT ![g] = contexts + 1], pc' = [pc EXCEPT ![g] = "libusb_open"]
      PROVE  /\ \A r \in Routine : r # g => pc'[r] = pc[r] /\ at'[r] = at[r]
             /\ \A n \in 1..contexts : device'[n] = device[n]
  <2>1. \A n \in 1..contexts : n \in Context /\ n # contexts + 1
        OBVIOUS
  <2>2. \A n \in 1..contexts : device'[n] = device[n]
        BY <1>3, <2>1
  <2> QED BY <1>3, <2>2
<1> QED BY <1>1, <1>2, <1>3, OpenFinds


\* References are counted, never below none.
LEMMA TypePreserved ==
    ASSUME ConstantsAssumption, ~Careless, IInv, [Next]_vars
    PROVE  TypeOK'
<1> USE DEF IInv, TypeOK, ConstantsAssumption
<1>1. ASSUME NEW g \in Routine, Find(g) PROVE TypeOK'
      BY <1>1 DEF Find
<1>2. ASSUME NEW g \in Routine, NEW d \in Dev, NEW i \in Interface, Open(g, d, i)
      PROVE  TypeOK'
      BY <1>2, ZenonT(60) DEF Open
<1>3. ASSUME NEW g \in Routine, NEW n \in Context, ReadOrWrite(g, n) PROVE TypeOK'
  <2>1. PICK t \in Timeouts : timed' = [timed EXCEPT ![g] = t]
        BY <1>3 DEF ReadOrWrite
  <2>2. t \in BOOLEAN
        BY <2>1
  <2>3. timed' \in [Routine -> BOOLEAN]
        BY <2>1, <2>2
  <2> QED BY <1>3, <2>3 DEF ReadOrWrite
<1>4. ASSUME NEW g \in Routine, NEW n \in Context, Close(g, n) PROVE TypeOK'
      BY <1>4 DEF Close
<1>5. ASSUME NEW g \in Routine, Lock(g) PROVE TypeOK'
  <2>1. pc' \in [Routine -> PCs]
        BY <1>5 DEF Lock
  <2> QED BY <1>5, <2>1 DEF Lock
<1>6. ASSUME NEW g \in Routine, FindEnumerates(g) PROVE TypeOK'
  <2>1. CASE Enumerate
        BY <1>6, <2>1, Fresh DEF FindEnumerates
  <2>2. CASE UNCHANGED <<contexts, refs, listed>>
        BY <1>6, <2>2 DEF FindEnumerates
  <2> QED BY <1>6, <2>1, <2>2 DEF FindEnumerates
<1>7. ASSUME NEW g \in Routine, OpenEnumerates(g) PROVE TypeOK'
  <2>1. /\ refs' \in [Context -> [Dev -> Nat]] /\ listed' \in [Context -> SUBSET Dev]
        /\ contexts' \in 0..MaxContexts
        BY <1>7, OpenFinds, Fresh
  <2>2. /\ device' \in [Context -> (Dev \X Interface) \cup {None}]
        /\ at' \in [Routine -> Context \cup {0}] /\ pc' \in [Routine -> PCs]
    <3>1. CASE UNCHANGED <<at, device>> /\ pc' = [pc EXCEPT ![g] = "unlock"]
          BY <3>1
    <3>2. ASSUME Enumerate, NEW x \in Dev \X Interface,
                 device' = [device EXCEPT ![contexts + 1] = x],
                 at' = [at EXCEPT ![g] = contexts + 1], pc' = [pc EXCEPT ![g] = "libusb_open"]
          PROVE  /\ device' \in [Context -> (Dev \X Interface) \cup {None}]
                 /\ at' \in [Routine -> Context \cup {0}] /\ pc' \in [Routine -> PCs]
          BY <3>2, Fresh
    <3> QED BY <1>7, <3>1, <3>2, OpenFinds
  <2> QED BY <1>7, <2>1, <2>2 DEF OpenEnumerates
<1>8. ASSUME NEW g \in Routine, LibusbOpen(g) PROVE TypeOK'
  <2>1. pc[g] \in OpenPCs
        BY <1>8 DEF LibusbOpen
  <2>2. at[g] \in Context /\ device[at[g]][1] \in Dev
        BY <2>1, Works
  <2>3. refs' \in [Context -> [Dev -> Nat]]
    <3>1. CASE AddRef(at[g], device[at[g]][1], 1)
          BY <2>2, <3>1 DEF AddRef
    <3> QED BY <1>8, <3>1 DEF LibusbOpen
  <2>4. handle' \subseteq Context /\ pc' \in [Routine -> PCs]
        BY <1>8, <2>2 DEF LibusbOpen
  <2> QED BY <1>8, <2>3, <2>4 DEF LibusbOpen
<1>9. ASSUME NEW g \in Routine, DetachKernelDriver(g) PROVE TypeOK'
      BY <1>9 DEF DetachKernelDriver
<1>10. ASSUME NEW g \in Routine, Claim(g) PROVE TypeOK'
  <2>1. pc[g] \in OpenPCs
        BY <1>10 DEF Claim
  <2>2. at[g] \in Context /\ device[at[g]] \in Dev \X Interface
        BY <2>1, Works
  <2>3. /\ claim' \in [Dev \X Interface -> {KernelDriver, Unbound} \cup Context]
        /\ known' \subseteq Context /\ pc' \in [Routine -> PCs]
        BY <1>10, <2>2 DEF Claim
  <2> QED BY <1>10, <2>3 DEF Claim
<1>11. ASSUME NEW g \in Routine, GiveUp(g) PROVE TypeOK'
  <2>1. pc[g] \in OpenPCs /\ pc[g] = "give_up"
        BY <1>11 DEF GiveUp
  <2>2. at[g] \in Context /\ device[at[g]][1] \in Dev /\ at[g] \in 1..contexts
        /\ device[at[g]] \in Dev \X Interface
        BY <2>1, Works
  <2>3. refs[at[g]][device[at[g]][1]] >= 1
    <3>1. at[g] \in handle \/ at[g] \notin closed
          BY <2>1 DEF CallInv, HandleInv
    <3> QED BY <2>2, <3>1, Referenced
  <2>4. refs' \in [Context -> [Dev -> Nat]]
        BY <1>11, <2>2, <2>3 DEF GiveUp, AddRef
  <2> QED BY <1>11, <2>2, <2>4 DEF GiveUp
<1>12. ASSUME NEW g \in Routine, Unlock(g) PROVE TypeOK'
      BY <1>12 DEF Unlock
<1>13. ASSUME NEW g \in Routine, IoLock(g) PROVE TypeOK'
      BY <1>13 DEF IoLock
<1>14. ASSUME NEW g \in Routine, IoReturns(g) PROVE TypeOK'
      BY <1>14 DEF IoReturns
<1>15. ASSUME NEW g \in Routine, CloseLock(g) PROVE TypeOK'
      BY <1>15 DEF CloseLock
<1>16. ASSUME NEW g \in Routine, Release(g) PROVE TypeOK'
  <2>1. pc[g] \in ClosePCs
        BY <1>16 DEF Release
  <2>2. at[g] \in Context /\ device[at[g]] \in Dev \X Interface
        BY <2>1, Works
  <2>3. /\ claim' \in [Dev \X Interface -> {KernelDriver, Unbound} \cup Context]
        /\ pc' \in [Routine -> PCs]
        BY <1>16, <2>2, ZenonT(60) DEF Release
  <2> QED BY <1>16, <2>3 DEF Release
<1>17. ASSUME NEW g \in Routine, Attach(g) PROVE TypeOK'
      BY <1>17 DEF Attach
<1>18. ASSUME NEW g \in Routine, LibusbClose(g) PROVE TypeOK'
  <2>1. pc[g] \in ClosePCs /\ pc[g] = "libusb_close"
        BY <1>18 DEF LibusbClose
  <2>2. at[g] \in Context /\ device[at[g]][1] \in Dev /\ at[g] \in 1..contexts
        /\ device[at[g]] \in Dev \X Interface
        BY <2>1, Works
  <2>3. refs[at[g]][device[at[g]][1]] >= 1
    <3>1. at[g] \in handle \/ at[g] \notin closed
          BY <2>1 DEF CallInv, HandleInv
    <3> QED BY <2>2, <3>1, Referenced
  <2>4. refs' \in [Context -> [Dev -> Nat]]
        BY <1>18, <2>2, <2>3 DEF LibusbClose, AddRef
  <2> QED BY <1>18, <2>2, <2>4 DEF LibusbClose
<1>19. ASSUME NEW g \in Routine, Unref(g) PROVE TypeOK'
  <2>1. pc[g] \in ClosePCs
        BY <1>19 DEF Unref
  <2>2. at[g] \in Context /\ device[at[g]][1] \in Dev /\ at[g] \in 1..contexts
        /\ device[at[g]] \in Dev \X Interface
        BY <2>1, Works
  <2>3. refs[at[g]][device[at[g]][1]] >= 1
    <3>1. at[g] \in handle \/ at[g] \notin closed
          BY <2>1 DEF CallInv, HandleInv
    <3> QED BY <2>2, <3>1, Referenced
  <2>4. refs' \in [Context -> [Dev -> Nat]]
        BY <1>19, <2>2, <2>3 DEF Unref, AddRef
  <2> QED BY <1>19, <2>2, <2>4 DEF Unref
<1>20. ASSUME NEW d \in Dev, Unplug(d) PROVE TypeOK'
      BY <1>20 DEF Unplug
<1>21. ASSUME NEW d \in Dev, NEW n \in Context, Forget(n, d) PROVE TypeOK'
  <2>1. d \in listed[n]
        BY <1>21 DEF Forget
  <2>2. refs[n][d] >= 1
        BY <2>1, ListReferenced
  <2>3. refs' \in [Context -> [Dev -> Nat]]
        BY <1>21, <2>2, SMTT(30) DEF Forget, AddRef
  <2> QED BY <1>21, <2>3 DEF Forget
<1>22. CASE UNCHANGED vars
      BY <1>22 DEF vars
<1> QED BY <1>1, <1>2, <1>3, <1>4, <1>5, <1>6, <1>7, <1>8, <1>9, <1>10, <1>11,
           <1>12, <1>13, <1>14, <1>15, <1>16, <1>17, <1>18, <1>19, <1>20, <1>21,
           <1>22
        DEF Next, CallStep

\* Contexts are worked on by the calls that own them.
LEMMA CallPreserved ==
    ASSUME ConstantsAssumption, ~Careless, IInv, [Next]_vars
    PROVE  CallInv'
<1> USE DEF IInv, TypeOK, ConstantsAssumption, CallInv, FoundInv
<1>1. ASSUME NEW g \in Routine, Find(g) PROVE CallInv'
      BY <1>1 DEF Find
<1>2. ASSUME NEW g \in Routine, NEW d \in Dev, NEW i \in Interface, Open(g, d, i)
      PROVE  CallInv'
      BY <1>2 DEF Open
<1>3. ASSUME NEW g \in Routine, NEW n \in Context, ReadOrWrite(g, n) PROVE CallInv'
      BY <1>3 DEF ReadOrWrite
<1>4. ASSUME NEW g \in Routine, NEW n \in Context, Close(g, n) PROVE CallInv'
      BY <1>4 DEF Close
<1>5. ASSUME NEW g \in Routine, Lock(g) PROVE CallInv'
  <2>1. CASE pc' = [pc EXCEPT ![g] = "find_enumerate"]
        BY <1>5, <2>1 DEF Lock
  <2>2. CASE pc' = [pc EXCEPT ![g] = "enumerate"]
        BY <1>5, <2>2 DEF Lock
  <2> QED BY <1>5, <2>1, <2>2 DEF Lock
<1>6. ASSUME NEW g \in Routine, FindEnumerates(g) PROVE CallInv'
      BY <1>6 DEF FindEnumerates, Enumerate
<1>7. ASSUME NEW g \in Routine, OpenEnumerates(g) PROVE CallInv'
  <2>1. CASE UNCHANGED <<at, device>> /\ pc' = [pc EXCEPT ![g] = "unlock"]
    <3>1. contexts' \in {contexts, contexts + 1}
          BY <1>7 DEF OpenEnumerates, Enumerate
    <3> QED BY <1>7, <2>1, <3>1 DEF OpenEnumerates
  <2>2. ASSUME Enumerate, NEW x \in Dev \X Interface,
               device' = [device EXCEPT ![contexts + 1] = x],
               at' = [at EXCEPT ![g] = contexts + 1], pc' = [pc EXCEPT ![g] = "libusb_open"]
        PROVE  CallInv'
    <3>1. /\ contexts + 1 \in Context /\ contexts' = contexts + 1
          /\ contexts + 1 \notin known \cup handle \cup closed
          BY <2>2, Fresh
    <3>2. device'[contexts + 1] = x /\ \A n \in Context : n # contexts + 1 => device'[n] = device[n]
          BY <2>2, <3>1
    <3> QED BY <1>7, <2>2, <3>1, <3>2 DEF OpenEnumerates
  <2> QED BY <1>7, <2>1, <2>2, OpenFinds
<1>8. ASSUME NEW g \in Routine, LibusbOpen(g) PROVE CallInv'
  <2>1. CASE pc' = [pc EXCEPT ![g] = "detach"]
        BY <1>8, <2>1 DEF LibusbOpen
  <2>2. CASE pc' = [pc EXCEPT ![g] = "unlock"]
        BY <1>8, <2>2 DEF LibusbOpen
  <2> QED BY <1>8, <2>1, <2>2 DEF LibusbOpen
<1>9. ASSUME NEW g \in Routine, DetachKernelDriver(g) PROVE CallInv'
      BY <1>9, SMTT(30) DEF DetachKernelDriver
<1>10. ASSUME NEW g \in Routine, Claim(g) PROVE CallInv'
  <2>1. CASE pc' = [pc EXCEPT ![g] = "unlock"]
        BY <1>10, <2>1 DEF Claim
  <2>2. CASE pc' = [pc EXCEPT ![g] = "give_up"]
        BY <1>10, <2>2 DEF Claim
  <2> QED BY <1>10, <2>1, <2>2 DEF Claim
<1>11. ASSUME NEW g \in Routine, GiveUp(g) PROVE CallInv'
      BY <1>11 DEF GiveUp, AddRef
<1>12. ASSUME NEW g \in Routine, Unlock(g) PROVE CallInv'
      BY <1>12 DEF Unlock
<1>13. ASSUME NEW g \in Routine, IoLock(g) PROVE CallInv'
      BY <1>13 DEF IoLock
<1>14. ASSUME NEW g \in Routine, IoReturns(g) PROVE CallInv'
      BY <1>14 DEF IoReturns
<1>15. ASSUME NEW g \in Routine, CloseLock(g) PROVE CallInv'
      BY <1>15 DEF CloseLock
<1>16. ASSUME NEW g \in Routine, Release(g) PROVE CallInv'
  <2>1. CASE pc' = [pc EXCEPT ![g] = "attach"]
        BY <1>16, <2>1 DEF Release
  <2>2. CASE pc' = [pc EXCEPT ![g] = "libusb_close"]
        BY <1>16, <2>2 DEF Release
  <2> QED BY <1>16, <2>1, <2>2 DEF Release
<1>17. ASSUME NEW g \in Routine, Attach(g) PROVE CallInv'
      BY <1>17 DEF Attach
<1>18. ASSUME NEW g \in Routine, LibusbClose(g) PROVE CallInv'
      BY <1>18 DEF LibusbClose, AddRef
<1>19. ASSUME NEW g \in Routine, Unref(g) PROVE CallInv'
      BY <1>19 DEF Unref, AddRef
<1>20. ASSUME NEW d \in Dev, Unplug(d) PROVE CallInv'
      BY <1>20 DEF Unplug
<1>21. ASSUME NEW d \in Dev, NEW n \in Context, Forget(n, d) PROVE CallInv'
      BY <1>21 DEF Forget, AddRef
<1>22. CASE UNCHANGED vars
      BY <1>22 DEF vars
<1> QED BY <1>1, <1>2, <1>3, <1>4, <1>5, <1>6, <1>7, <1>8, <1>9, <1>10, <1>11,
           <1>12, <1>13, <1>14, <1>15, <1>16, <1>17, <1>18, <1>19, <1>20, <1>21,
           <1>22
        DEF Next, CallStep

\* Devices and handles have a device.
LEMMA FoundPreserved ==
    ASSUME ConstantsAssumption, ~Careless, IInv, [Next]_vars
    PROVE  FoundInv'
<1> USE DEF IInv, TypeOK, ConstantsAssumption, CallInv, FoundInv
<1>1. ASSUME NEW g \in Routine, Find(g) PROVE FoundInv'
      BY <1>1 DEF Find
<1>2. ASSUME NEW g \in Routine, NEW d \in Dev, NEW i \in Interface, Open(g, d, i)
      PROVE  FoundInv'
      BY <1>2 DEF Open
<1>3. ASSUME NEW g \in Routine, NEW n \in Context, ReadOrWrite(g, n) PROVE FoundInv'
      BY <1>3 DEF ReadOrWrite
<1>4. ASSUME NEW g \in Routine, NEW n \in Context, Close(g, n) PROVE FoundInv'
      BY <1>4 DEF Close
<1>5. ASSUME NEW g \in Routine, Lock(g) PROVE FoundInv'
      BY <1>5 DEF Lock
<1>6. ASSUME NEW g \in Routine, FindEnumerates(g) PROVE FoundInv'
      BY <1>6 DEF FindEnumerates, Enumerate
<1>7. ASSUME NEW g \in Routine, OpenEnumerates(g) PROVE FoundInv'
  <2>1. CASE UNCHANGED <<at, device>> /\ pc' = [pc EXCEPT ![g] = "unlock"]
    <3>1. contexts' \in {contexts, contexts + 1}
          BY <1>7 DEF OpenEnumerates, Enumerate
    <3> QED BY <1>7, <2>1, <3>1 DEF OpenEnumerates
  <2>2. ASSUME Enumerate, NEW x \in Dev \X Interface,
               device' = [device EXCEPT ![contexts + 1] = x],
               at' = [at EXCEPT ![g] = contexts + 1], pc' = [pc EXCEPT ![g] = "libusb_open"]
        PROVE  FoundInv'
    <3>1. /\ contexts + 1 \in Context /\ contexts' = contexts + 1
          /\ contexts + 1 \notin known \cup handle \cup closed
          BY <2>2, Fresh
    <3>2. device'[contexts + 1] = x /\ \A n \in Context : n # contexts + 1 => device'[n] = device[n]
          BY <2>2, <3>1
    <3> QED BY <1>7, <2>2, <3>1, <3>2 DEF OpenEnumerates
  <2> QED BY <1>7, <2>1, <2>2, OpenFinds
<1>8. ASSUME NEW g \in Routine, LibusbOpen(g) PROVE FoundInv'
      BY <1>8 DEF LibusbOpen, AddRef
<1>9. ASSUME NEW g \in Routine, DetachKernelDriver(g) PROVE FoundInv'
      BY <1>9 DEF DetachKernelDriver
<1>10. ASSUME NEW g \in Routine, Claim(g) PROVE FoundInv'
  <2>1. Found(at[g])
        BY <1>10, Works DEF Claim
  <2>2. known' \subseteq known \cup {at[g]} /\ UNCHANGED <<contexts, device, handle, closed>>
        /\ known \subseteq known'
        BY <1>10 DEF Claim
  <2> QED BY <2>1, <2>2
<1>11. ASSUME NEW g \in Routine, GiveUp(g) PROVE FoundInv'
      BY <1>11 DEF GiveUp, AddRef
<1>12. ASSUME NEW g \in Routine, Unlock(g) PROVE FoundInv'
      BY <1>12 DEF Unlock
<1>13. ASSUME NEW g \in Routine, IoLock(g) PROVE FoundInv'
      BY <1>13 DEF IoLock
<1>14. ASSUME NEW g \in Routine, IoReturns(g) PROVE FoundInv'
      BY <1>14 DEF IoReturns
<1>15. ASSUME NEW g \in Routine, CloseLock(g) PROVE FoundInv'
      BY <1>15 DEF CloseLock
<1>16. ASSUME NEW g \in Routine, Release(g) PROVE FoundInv'
      BY <1>16 DEF Release
<1>17. ASSUME NEW g \in Routine, Attach(g) PROVE FoundInv'
      BY <1>17 DEF Attach
<1>18. ASSUME NEW g \in Routine, LibusbClose(g) PROVE FoundInv'
      BY <1>18 DEF LibusbClose, AddRef
<1>19. ASSUME NEW g \in Routine, Unref(g) PROVE FoundInv'
  <2>1. at[g] \in known
        BY <1>19 DEF Unref
  <2>2. closed' = closed \cup {at[g]} /\ UNCHANGED <<contexts, device, handle, known>>
        BY <1>19 DEF Unref
  <2> QED BY <2>1, <2>2
<1>20. ASSUME NEW d \in Dev, Unplug(d) PROVE FoundInv'
      BY <1>20 DEF Unplug
<1>21. ASSUME NEW d \in Dev, NEW n \in Context, Forget(n, d) PROVE FoundInv'
      BY <1>21 DEF Forget, AddRef
<1>22. CASE UNCHANGED vars
      BY <1>22 DEF vars
<1> QED BY <1>1, <1>2, <1>3, <1>4, <1>5, <1>6, <1>7, <1>8, <1>9, <1>10, <1>11,
           <1>12, <1>13, <1>14, <1>15, <1>16, <1>17, <1>18, <1>19, <1>20, <1>21,
           <1>22
        DEF Next, CallStep

\* Handles close with their Devices.
LEMMA HandlePreserved ==
    ASSUME ConstantsAssumption, ~Careless, IInv, [Next]_vars
    PROVE  HandleInv'
<1> USE DEF IInv, TypeOK, ConstantsAssumption, HandleInv
<1>0. \A g, r \in Routine :
         /\ pc[g] \in OpenPCs => at[g] \notin known
         /\ pc[g] \in OpenPCs /\ pc[r] \in OpenPCs => g = r
         /\ pc[g] \in DevicePCs => at[g] \in known
         /\ pc[g] \in ClosePCs /\ pc[r] \in ClosePCs /\ at[g] = at[r] => g = r
      BY DEF CallInv
<1> USE <1>0
<1>1. ASSUME NEW g \in Routine, Find(g) PROVE HandleInv'
      BY <1>1 DEF Find
<1>2. ASSUME NEW g \in Routine, NEW d \in Dev, NEW i \in Interface, Open(g, d, i)
      PROVE  HandleInv'
      BY <1>2 DEF Open
<1>3. ASSUME NEW g \in Routine, NEW n \in Context, ReadOrWrite(g, n) PROVE HandleInv'
      BY <1>3 DEF ReadOrWrite
<1>4. ASSUME NEW g \in Routine, NEW n \in Context, Close(g, n) PROVE HandleInv'
      BY <1>4 DEF Close
<1>5. ASSUME NEW g \in Routine, Lock(g) PROVE HandleInv'
      BY <1>5 DEF Lock
<1>6. ASSUME NEW g \in Routine, FindEnumerates(g) PROVE HandleInv'
      BY <1>6 DEF FindEnumerates, Enumerate
<1>7. ASSUME NEW g \in Routine, OpenEnumerates(g) PROVE HandleInv'
  <2>1. CASE UNCHANGED <<at, device>> /\ pc' = [pc EXCEPT ![g] = "unlock"]
    <3>1. contexts' \in {contexts, contexts + 1}
          BY <1>7 DEF OpenEnumerates, Enumerate
    <3> QED BY <1>7, <2>1, <3>1 DEF OpenEnumerates
  <2>2. ASSUME Enumerate, NEW x \in Dev \X Interface,
               device' = [device EXCEPT ![contexts + 1] = x],
               at' = [at EXCEPT ![g] = contexts + 1], pc' = [pc EXCEPT ![g] = "libusb_open"]
        PROVE  HandleInv'
    <3>1. /\ contexts + 1 \in Context /\ contexts' = contexts + 1
          /\ contexts + 1 \notin known \cup handle \cup closed
          BY <2>2, Fresh
    <3>2. device'[contexts + 1] = x /\ \A n \in Context : n # contexts + 1 => device'[n] = device[n]
          BY <2>2, <3>1
    <3> QED BY <1>7, <2>2, <3>1, <3>2 DEF OpenEnumerates
  <2> QED BY <1>7, <2>1, <2>2, OpenFinds
<1>8. ASSUME NEW g \in Routine, LibusbOpen(g) PROVE HandleInv'
  <2>1. CASE pc' = [pc EXCEPT ![g] = "detach"]
        BY <1>8, <2>1 DEF LibusbOpen
  <2>2. CASE pc' = [pc EXCEPT ![g] = "unlock"]
        BY <1>8, <2>2 DEF LibusbOpen
  <2> QED BY <1>8, <2>1, <2>2 DEF LibusbOpen
<1>9. ASSUME NEW g \in Routine, DetachKernelDriver(g) PROVE HandleInv'
      BY <1>9 DEF DetachKernelDriver
<1>10. ASSUME NEW g \in Routine, Claim(g) PROVE HandleInv'
  <2>1. CASE pc' = [pc EXCEPT ![g] = "unlock"]
        BY <1>10, <2>1 DEF Claim
  <2>2. CASE pc' = [pc EXCEPT ![g] = "give_up"]
        BY <1>10, <2>2 DEF Claim
  <2> QED BY <1>10, <2>1, <2>2 DEF Claim
<1>11. ASSUME NEW g \in Routine, GiveUp(g) PROVE HandleInv'
      BY <1>11 DEF GiveUp, AddRef
<1>12. ASSUME NEW g \in Routine, Unlock(g) PROVE HandleInv'
      BY <1>12 DEF Unlock
<1>13. ASSUME NEW g \in Routine, IoLock(g) PROVE HandleInv'
      BY <1>13 DEF IoLock
<1>14. ASSUME NEW g \in Routine, IoReturns(g) PROVE HandleInv'
      BY <1>14 DEF IoReturns
<1>15. ASSUME NEW g \in Routine, CloseLock(g) PROVE HandleInv'
      BY <1>15 DEF CloseLock
<1>16. ASSUME NEW g \in Routine, Release(g) PROVE HandleInv'
      BY <1>16 DEF Release
<1>17. ASSUME NEW g \in Routine, Attach(g) PROVE HandleInv'
      BY <1>17 DEF Attach
<1>18. ASSUME NEW g \in Routine, LibusbClose(g) PROVE HandleInv'
      BY <1>18 DEF LibusbClose, AddRef
<1>19. ASSUME NEW g \in Routine, Unref(g) PROVE HandleInv'
      BY <1>19 DEF Unref, AddRef
<1>20. ASSUME NEW d \in Dev, Unplug(d) PROVE HandleInv'
      BY <1>20 DEF Unplug
<1>21. ASSUME NEW d \in Dev, NEW n \in Context, Forget(n, d) PROVE HandleInv'
      BY <1>21 DEF Forget, AddRef
<1>22. CASE UNCHANGED vars
      BY <1>22 DEF vars
<1> QED BY <1>1, <1>2, <1>3, <1>4, <1>5, <1>6, <1>7, <1>8, <1>9, <1>10, <1>11,
           <1>12, <1>13, <1>14, <1>15, <1>16, <1>17, <1>18, <1>19, <1>20, <1>21,
           <1>22
        DEF Next, CallStep

\* A context is made before it is used.
LEMMA ContextPreserved ==
    ASSUME ConstantsAssumption, ~Careless, IInv, [Next]_vars
    PROVE  ContextInv'
<1> USE DEF IInv, TypeOK, ConstantsAssumption, CallInv, FoundInv, ContextInv
<1>1. ASSUME NEW g \in Routine, Find(g) PROVE ContextInv'
      BY <1>1 DEF Find
<1>2. ASSUME NEW g \in Routine, NEW d \in Dev, NEW i \in Interface, Open(g, d, i)
      PROVE  ContextInv'
      BY <1>2 DEF Open
<1>3. ASSUME NEW g \in Routine, NEW n \in Context, ReadOrWrite(g, n) PROVE ContextInv'
      BY <1>3 DEF ReadOrWrite
<1>4. ASSUME NEW g \in Routine, NEW n \in Context, Close(g, n) PROVE ContextInv'
      BY <1>4 DEF Close
<1>5. ASSUME NEW g \in Routine, Lock(g) PROVE ContextInv'
      BY <1>5 DEF Lock
<1>6. ASSUME NEW g \in Routine, FindEnumerates(g) PROVE ContextInv'
  <2>1. CASE Enumerate
        BY <1>6, <2>1, Fresh DEF FindEnumerates
  <2>2. CASE UNCHANGED <<contexts, refs, listed>>
        BY <1>6, <2>2 DEF FindEnumerates
  <2> QED BY <1>6, <2>1, <2>2 DEF FindEnumerates
<1>7. ASSUME NEW g \in Routine, OpenEnumerates(g) PROVE ContextInv'
  <2>1. CASE UNCHANGED <<contexts, refs, listed, device>>
        BY <1>7, <2>1 DEF OpenEnumerates
  <2>2. ASSUME Enumerate, UNCHANGED device \/ \E x : device' = [device EXCEPT ![contexts + 1] = x]
        PROVE  ContextInv'
    <3>0. contexts \in Nat /\ contexts' = contexts + 1
          BY <2>2 DEF Enumerate
    <3>1. \A n \in Context \ (1..contexts') : n # contexts + 1 /\ n \in Context \ (1..contexts)
          BY <3>0
    <3>2. \A n \in Context : n # contexts + 1 => listed'[n] = listed[n]
          BY <2>2, Fresh
    <3>3. ASSUME NEW x, device' = [device EXCEPT ![contexts + 1] = x]
          PROVE  \A n \in Context : n # contexts + 1 => device'[n] = device[n]
          BY <3>3
    <3> QED BY <2>2, <3>1, <3>2, <3>3
  <2> QED BY <1>7, <2>1, <2>2, OpenFinds
<1>8. ASSUME NEW g \in Routine, LibusbOpen(g) PROVE ContextInv'
      BY <1>8 DEF LibusbOpen, AddRef
<1>9. ASSUME NEW g \in Routine, DetachKernelDriver(g) PROVE ContextInv'
      BY <1>9 DEF DetachKernelDriver
<1>10. ASSUME NEW g \in Routine, Claim(g) PROVE ContextInv'
      BY <1>10 DEF Claim
<1>11. ASSUME NEW g \in Routine, GiveUp(g) PROVE ContextInv'
      BY <1>11 DEF GiveUp, AddRef
<1>12. ASSUME NEW g \in Routine, Unlock(g) PROVE ContextInv'
      BY <1>12 DEF Unlock
<1>13. ASSUME NEW g \in Routine, IoLock(g) PROVE ContextInv'
      BY <1>13 DEF IoLock
<1>14. ASSUME NEW g \in Routine, IoReturns(g) PROVE ContextInv'
      BY <1>14 DEF IoReturns
<1>15. ASSUME NEW g \in Routine, CloseLock(g) PROVE ContextInv'
      BY <1>15 DEF CloseLock
<1>16. ASSUME NEW g \in Routine, Release(g) PROVE ContextInv'
      BY <1>16 DEF Release
<1>17. ASSUME NEW g \in Routine, Attach(g) PROVE ContextInv'
      BY <1>17 DEF Attach
<1>18. ASSUME NEW g \in Routine, LibusbClose(g) PROVE ContextInv'
      BY <1>18 DEF LibusbClose, AddRef
<1>19. ASSUME NEW g \in Routine, Unref(g) PROVE ContextInv'
      BY <1>19 DEF Unref, AddRef
<1>20. ASSUME NEW d \in Dev, Unplug(d) PROVE ContextInv'
      BY <1>20 DEF Unplug
<1>21. ASSUME NEW d \in Dev, NEW n \in Context, Forget(n, d) PROVE ContextInv'
      BY <1>21 DEF Forget, AddRef
<1>22. CASE UNCHANGED vars
      BY <1>22 DEF vars
<1> QED BY <1>1, <1>2, <1>3, <1>4, <1>5, <1>6, <1>7, <1>8, <1>9, <1>10, <1>11,
           <1>12, <1>13, <1>14, <1>15, <1>16, <1>17, <1>18, <1>19, <1>20, <1>21,
           <1>22
        DEF Next, CallStep

\* An interface is claimed by one Device.
LEMMA BoundPreserved ==
    ASSUME ConstantsAssumption, ~Careless, IInv, [Next]_vars
    PROVE  BoundInv'
<1> USE DEF IInv, TypeOK, ConstantsAssumption, FoundInv, HandleInv, BoundInv
<1>0. \A g, r \in Routine :
         /\ pc[g] \in OpenPCs => at[g] \notin known
         /\ pc[g] \in OpenPCs /\ pc[r] \in OpenPCs => g = r
         /\ pc[g] \in DevicePCs => at[g] \in known
         /\ pc[g] \in ClosePCs => at[g] \notin closed
         /\ pc[g] \in ClosePCs /\ pc[r] \in ClosePCs /\ at[g] = at[r] => g = r
      BY DEF CallInv
<1> USE <1>0
<1>1. ASSUME NEW g \in Routine, Find(g) PROVE BoundInv'
      BY <1>1 DEF Find
<1>2. ASSUME NEW g \in Routine, NEW d \in Dev, NEW i \in Interface, Open(g, d, i)
      PROVE  BoundInv'
      BY <1>2 DEF Open
<1>3. ASSUME NEW g \in Routine, NEW n \in Context, ReadOrWrite(g, n) PROVE BoundInv'
      BY <1>3 DEF ReadOrWrite
<1>4. ASSUME NEW g \in Routine, NEW n \in Context, Close(g, n) PROVE BoundInv'
      BY <1>4 DEF Close
<1>5. ASSUME NEW g \in Routine, Lock(g) PROVE BoundInv'
  <2>1. CASE pc' = [pc EXCEPT ![g] = "find_enumerate"]
        BY <1>5, <2>1 DEF Lock
  <2>2. CASE pc' = [pc EXCEPT ![g] = "enumerate"]
        BY <1>5, <2>2 DEF Lock
  <2> QED BY <1>5, <2>1, <2>2 DEF Lock
<1>6. ASSUME NEW g \in Routine, FindEnumerates(g) PROVE BoundInv'
      BY <1>6 DEF FindEnumerates, Enumerate
<1>7. ASSUME NEW g \in Routine, OpenEnumerates(g) PROVE BoundInv'
  <2>1. CASE UNCHANGED <<at, device>> /\ pc' = [pc EXCEPT ![g] = "unlock"]
    <3>1. contexts' \in {contexts, contexts + 1}
          BY <1>7 DEF OpenEnumerates, Enumerate
    <3> QED BY <1>7, <2>1, <3>1 DEF OpenEnumerates
  <2>2. ASSUME Enumerate, NEW x \in Dev \X Interface,
               device' = [device EXCEPT ![contexts + 1] = x],
               at' = [at EXCEPT ![g] = contexts + 1], pc' = [pc EXCEPT ![g] = "libusb_open"]
        PROVE  BoundInv'
    <3>1. /\ contexts + 1 \in Context /\ contexts' = contexts + 1
          /\ contexts + 1 \notin known \cup handle \cup closed
          BY <2>2, Fresh
    <3>2. device'[contexts + 1] = x /\ \A n \in Context : n # contexts + 1 => device'[n] = device[n]
          BY <2>2, <3>1
    <3> QED BY <1>7, <2>2, <3>1, <3>2 DEF OpenEnumerates
  <2> QED BY <1>7, <2>1, <2>2, OpenFinds
<1>8. ASSUME NEW g \in Routine, LibusbOpen(g) PROVE BoundInv'
  <2>1. CASE pc' = [pc EXCEPT ![g] = "detach"]
        BY <1>8, <2>1 DEF LibusbOpen
  <2>2. CASE pc' = [pc EXCEPT ![g] = "unlock"]
        BY <1>8, <2>2 DEF LibusbOpen
  <2> QED BY <1>8, <2>1, <2>2 DEF LibusbOpen
<1>9. ASSUME NEW g \in Routine, DetachKernelDriver(g) PROVE BoundInv'
      BY <1>9 DEF DetachKernelDriver
<1>10. ASSUME NEW g \in Routine, Claim(g) PROVE BoundInv'
  <2> DEFINE y == device[at[g]]
  <2>1. /\ y \in Dev \X Interface /\ at[g] \in Context /\ at[g] \in handle
        /\ at[g] \notin known /\ at[g] \notin closed
        BY <1>10, Works DEF Claim
  <2>2. \A n : GivesUp(n)' => GivesUp(n)
        BY <1>10 DEF Claim
  <2>3. ~GivesUp(at[g])
        BY <2>1
  <2>4. /\ UNCHANGED <<device, handle, closed>>
        /\ \/ UNCHANGED <<claim, known>>
           \/ claim' = [claim EXCEPT ![y] = at[g]] /\ known' = known \cup {at[g]}
        BY <1>10 DEF Claim
  <2> HIDE DEF GivesUp
  <2>5. CASE UNCHANGED <<claim, known>>
        BY <2>2, <2>4, <2>5
  <2>6. ASSUME claim' = [claim EXCEPT ![y] = at[g]], known' = known \cup {at[g]},
               NEW x \in Dev \X Interface, NEW n \in Context, claim'[x] = n
        PROVE  n \in (known' \cap handle') \ closed' /\ device'[n] = x /\ ~GivesUp(n)'
    <3>1. CASE x = y
      <4>1. n = at[g]
            BY <2>1, <2>6, <3>1
      <4> QED BY <2>1, <2>2, <2>3, <2>4, <2>6, <3>1, <4>1
    <3>2. CASE x # y
      <4>1. claim[x] = n
            BY <2>1, <2>6, <3>2
      <4> QED BY <2>2, <2>4, <2>6, <4>1
    <3> QED BY <3>1, <3>2
  <2> QED BY <2>4, <2>5, <2>6
<1>11. ASSUME NEW g \in Routine, GiveUp(g) PROVE BoundInv'
  <2>1. at[g] \notin known
        BY <1>11 DEF GiveUp
  <2>2. UNCHANGED <<claim, known, closed, device>> /\ handle' = handle \ {at[g]}
        BY <1>11 DEF GiveUp
  <2>3. \A n : GivesUp(n)' => GivesUp(n)
        BY <1>11 DEF GiveUp
  <2> HIDE DEF GivesUp
  <2> QED BY <2>1, <2>2, <2>3
<1>12. ASSUME NEW g \in Routine, Unlock(g) PROVE BoundInv'
      BY <1>12 DEF Unlock
<1>13. ASSUME NEW g \in Routine, IoLock(g) PROVE BoundInv'
      BY <1>13 DEF IoLock
<1>14. ASSUME NEW g \in Routine, IoReturns(g) PROVE BoundInv'
      BY <1>14 DEF IoReturns
<1>15. ASSUME NEW g \in Routine, CloseLock(g) PROVE BoundInv'
      BY <1>15 DEF CloseLock
<1>16. ASSUME NEW g \in Routine, Release(g) PROVE BoundInv'
  <2>1. CASE pc' = [pc EXCEPT ![g] = "attach"]
        BY <1>16, <2>1, SMTT(30) DEF Release
  <2>2. CASE pc' = [pc EXCEPT ![g] = "libusb_close"]
        BY <1>16, <2>2 DEF Release
  <2> QED BY <1>16, <2>1, <2>2 DEF Release
<1>17. ASSUME NEW g \in Routine, Attach(g) PROVE BoundInv'
      BY <1>17 DEF Attach
<1>18. ASSUME NEW g \in Routine, LibusbClose(g) PROVE BoundInv'
      BY <1>18 DEF LibusbClose, AddRef
<1>19. ASSUME NEW g \in Routine, Unref(g) PROVE BoundInv'
      BY <1>19 DEF Unref, AddRef
<1>20. ASSUME NEW d \in Dev, Unplug(d) PROVE BoundInv'
      BY <1>20 DEF Unplug
<1>21. ASSUME NEW d \in Dev, NEW n \in Context, Forget(n, d) PROVE BoundInv'
      BY <1>21 DEF Forget, AddRef
<1>22. CASE UNCHANGED vars
      BY <1>22 DEF vars
<1> QED BY <1>1, <1>2, <1>3, <1>4, <1>5, <1>6, <1>7, <1>8, <1>9, <1>10, <1>11,
           <1>12, <1>13, <1>14, <1>15, <1>16, <1>17, <1>18, <1>19, <1>20, <1>21,
           <1>22
        DEF Next, CallStep

\* A goroutine that is about to bind no interface does something else.
LEMMA UnboundFrame ==
    ASSUME UnboundInv, claim' = claim, plugged' = plugged,
           NEW g \in Routine, pc[g] \notin {"claim", "attach"},
           \A r \in Routine : r # g => pc'[r] = pc[r] /\ device'[at'[r]] = device[at[r]]
    PROVE  UnboundInv'
<1> SUFFICES ASSUME NEW x \in Dev \X Interface, claim'[x] = Unbound, x[1] \in plugged
             PROVE  \E r \in Routine : pc'[r] \in {"claim", "attach"} /\ device'[at'[r]] = x
    BY DEF UnboundInv
<1>1. PICK r \in Routine : pc[r] \in {"claim", "attach"} /\ device[at[r]] = x
      BY DEF UnboundInv
<1>2. r # g
      BY <1>1
<1> QED BY <1>1, <1>2

\* An interface is bound again.
LEMMA UnboundPreserved ==
    ASSUME ConstantsAssumption, ~Careless, IInv, [Next]_vars
    PROVE  UnboundInv'
<1> USE DEF IInv, TypeOK, ConstantsAssumption, FoundInv, UnboundInv
<1>0. \A g, r \in Routine :
         /\ pc[g] \in OpenPCs => at[g] \notin known
         /\ pc[g] \in OpenPCs /\ pc[r] \in OpenPCs => g = r
         /\ pc[g] \in DevicePCs => at[g] \in known
         /\ pc[g] \in ClosePCs => at[g] \notin closed
         /\ pc[g] \in ClosePCs /\ pc[r] \in ClosePCs /\ at[g] = at[r] => g = r
      BY DEF CallInv
<1> USE <1>0
<1>1. ASSUME NEW g \in Routine, Find(g) PROVE UnboundInv'
  <2>1. /\ claim' = claim /\ plugged' = plugged /\ pc[g] \notin {"claim", "attach"}
        /\ \A r \in Routine : r # g => pc'[r] = pc[r] /\ device'[at'[r]] = device[at[r]]
        BY <1>1 DEF Find
  <2>2. UnboundInv
        OBVIOUS
  <2> HIDE DEF UnboundInv, IInv, TypeOK, FoundInv
  <2> QED BY <2>1, <2>2, UnboundFrame
<1>2. ASSUME NEW g \in Routine, NEW d \in Dev, NEW i \in Interface, Open(g, d, i)
      PROVE  UnboundInv'
  <2>1. /\ claim' = claim /\ plugged' = plugged /\ pc[g] \notin {"claim", "attach"}
        /\ \A r \in Routine : r # g => pc'[r] = pc[r] /\ device'[at'[r]] = device[at[r]]
        BY <1>2 DEF Open
  <2>2. UnboundInv
        OBVIOUS
  <2> HIDE DEF UnboundInv, IInv, TypeOK, FoundInv
  <2> QED BY <2>1, <2>2, UnboundFrame
<1>3. ASSUME NEW g \in Routine, NEW n \in Context, ReadOrWrite(g, n) PROVE UnboundInv'
  <2>1. /\ claim' = claim /\ plugged' = plugged /\ pc[g] \notin {"claim", "attach"}
        /\ \A r \in Routine : r # g => pc'[r] = pc[r] /\ device'[at'[r]] = device[at[r]]
        BY <1>3 DEF ReadOrWrite
  <2>2. UnboundInv
        OBVIOUS
  <2> HIDE DEF UnboundInv, IInv, TypeOK, FoundInv
  <2> QED BY <2>1, <2>2, UnboundFrame
<1>4. ASSUME NEW g \in Routine, NEW n \in Context, Close(g, n) PROVE UnboundInv'
  <2>1. /\ claim' = claim /\ plugged' = plugged /\ pc[g] \notin {"claim", "attach"}
        /\ \A r \in Routine : r # g => pc'[r] = pc[r] /\ device'[at'[r]] = device[at[r]]
        BY <1>4 DEF Close
  <2>2. UnboundInv
        OBVIOUS
  <2> HIDE DEF UnboundInv, IInv, TypeOK, FoundInv
  <2> QED BY <2>1, <2>2, UnboundFrame
<1>5. ASSUME NEW g \in Routine, Lock(g) PROVE UnboundInv'
  <2>1. /\ claim' = claim /\ plugged' = plugged /\ pc[g] \notin {"claim", "attach"}
        /\ \A r \in Routine : r # g => pc'[r] = pc[r] /\ device'[at'[r]] = device[at[r]]
        BY <1>5 DEF Lock
  <2>2. UnboundInv
        OBVIOUS
  <2> HIDE DEF UnboundInv, IInv, TypeOK, FoundInv
  <2> QED BY <2>1, <2>2, UnboundFrame
<1>6. ASSUME NEW g \in Routine, FindEnumerates(g) PROVE UnboundInv'
  <2>1. /\ claim' = claim /\ plugged' = plugged /\ pc[g] \notin {"claim", "attach"}
        /\ \A r \in Routine : r # g => pc'[r] = pc[r] /\ device'[at'[r]] = device[at[r]]
        BY <1>6 DEF FindEnumerates
  <2>2. UnboundInv
        OBVIOUS
  <2> HIDE DEF UnboundInv, IInv, TypeOK, FoundInv
  <2> QED BY <2>1, <2>2, UnboundFrame
<1>7. ASSUME NEW g \in Routine, OpenEnumerates(g) PROVE UnboundInv'
  <2>1. \A r \in Routine : pc[r] \in {"claim", "attach"}
              => pc'[r] = pc[r] /\ device'[at'[r]] = device[at[r]]
    <3>1. \A r \in Routine : pc[r] \in {"claim", "attach"} => at[r] \in 1..contexts
          BY Works
    <3> HIDE DEF IInv, TypeOK, FoundInv
    <3> QED BY <1>7, <3>1, OpenFrame
  <2>2. UNCHANGED <<claim, plugged>>
        BY <1>7, OpenFrame
  <2>3. UnboundInv
        OBVIOUS
  <2> HIDE DEF IInv, TypeOK, FoundInv
  <2> QED BY <2>1, <2>2, <2>3
<1>8. ASSUME NEW g \in Routine, LibusbOpen(g) PROVE UnboundInv'
  <2>1. /\ claim' = claim /\ plugged' = plugged /\ pc[g] \notin {"claim", "attach"}
        /\ \A r \in Routine : r # g => pc'[r] = pc[r] /\ device'[at'[r]] = device[at[r]]
        BY <1>8 DEF LibusbOpen
  <2>2. UnboundInv
        OBVIOUS
  <2> HIDE DEF UnboundInv, IInv, TypeOK, FoundInv
  <2> QED BY <2>1, <2>2, UnboundFrame
<1>9. ASSUME NEW g \in Routine, DetachKernelDriver(g) PROVE UnboundInv'
  <2> DEFINE y == device[at[g]]
  <2>1. y \in Dev \X Interface /\ at[g] \in Context
        BY <1>9, Works DEF DetachKernelDriver
  <2>2. UNCHANGED <<at, device, plugged>>
        BY <1>9 DEF DetachKernelDriver
  <2> SUFFICES ASSUME NEW x \in Dev \X Interface, claim'[x] = 0, x[1] \in plugged
               PROVE  \E r \in Routine : pc'[r] \in {"claim", "attach"} /\ device[at[r]] = x
        BY <2>2, ZenonT(60) DEF UnboundInv
  <2>3. CASE claim[x] = 0
    <3>1. PICK r \in Routine : pc[r] \in {"claim", "attach"} /\ device[at[r]] = x
          BY <2>3
    <3> QED BY <1>9, <3>1 DEF DetachKernelDriver
  <2>4. CASE claim[x] # 0
    <3>1. x = y /\ pc'[g] = "claim"
          BY <1>9, <2>1, <2>4 DEF DetachKernelDriver
    <3> QED BY <3>1
  <2> QED BY <2>3, <2>4
<1>10. ASSUME NEW g \in Routine, Claim(g) PROVE UnboundInv'
  <2> DEFINE y == device[at[g]]
  <2>1. y \in Dev \X Interface /\ at[g] \in Context
        BY <1>10, Works DEF Claim
  <2>2. UNCHANGED <<at, device, plugged>>
        BY <1>10 DEF Claim
  <2> SUFFICES ASSUME NEW x \in Dev \X Interface, claim'[x] = 0, x[1] \in plugged
               PROVE  \E r \in Routine : pc'[r] \in {"claim", "attach"} /\ device[at[r]] = x
        BY <2>2 DEF UnboundInv
  <2>3. claim[x] = 0 /\ x # y
    <3>1. CASE claim' = [claim EXCEPT ![y] = at[g]]
          BY <2>1, <3>1
    <3>2. CASE claim' = claim /\ ~(y[1] \in plugged /\ claim[y] \in {KernelDriver, Unbound})
          BY <3>2
    <3> QED BY <1>10, <3>1, <3>2 DEF Claim
  <2>4. PICK r \in Routine : pc[r] \in {"claim", "attach"} /\ device[at[r]] = x
        BY <2>3
  <2>5. r # g
        BY <2>3, <2>4
  <2>6. pc'[r] = pc[r]
        BY <1>10, <2>5 DEF Claim
  <2> QED BY <2>4, <2>6
<1>11. ASSUME NEW g \in Routine, GiveUp(g) PROVE UnboundInv'
  <2>1. /\ claim' = claim /\ plugged' = plugged /\ pc[g] \notin {"claim", "attach"}
        /\ \A r \in Routine : r # g => pc'[r] = pc[r] /\ device'[at'[r]] = device[at[r]]
        BY <1>11 DEF GiveUp
  <2>2. UnboundInv
        OBVIOUS
  <2> HIDE DEF UnboundInv, IInv, TypeOK, FoundInv
  <2> QED BY <2>1, <2>2, UnboundFrame
<1>12. ASSUME NEW g \in Routine, Unlock(g) PROVE UnboundInv'
  <2>1. /\ claim' = claim /\ plugged' = plugged /\ pc[g] \notin {"claim", "attach"}
        /\ \A r \in Routine : r # g => pc'[r] = pc[r] /\ device'[at'[r]] = device[at[r]]
        BY <1>12 DEF Unlock
  <2>2. UnboundInv
        OBVIOUS
  <2> HIDE DEF UnboundInv, IInv, TypeOK, FoundInv
  <2> QED BY <2>1, <2>2, UnboundFrame
<1>13. ASSUME NEW g \in Routine, IoLock(g) PROVE UnboundInv'
  <2>1. /\ claim' = claim /\ plugged' = plugged /\ pc[g] \notin {"claim", "attach"}
        /\ \A r \in Routine : r # g => pc'[r] = pc[r] /\ device'[at'[r]] = device[at[r]]
        BY <1>13 DEF IoLock
  <2>2. UnboundInv
        OBVIOUS
  <2> HIDE DEF UnboundInv, IInv, TypeOK, FoundInv
  <2> QED BY <2>1, <2>2, UnboundFrame
<1>14. ASSUME NEW g \in Routine, IoReturns(g) PROVE UnboundInv'
  <2>1. /\ claim' = claim /\ plugged' = plugged /\ pc[g] \notin {"claim", "attach"}
        /\ \A r \in Routine : r # g => pc'[r] = pc[r] /\ device'[at'[r]] = device[at[r]]
        BY <1>14 DEF IoReturns
  <2>2. UnboundInv
        OBVIOUS
  <2> HIDE DEF UnboundInv, IInv, TypeOK, FoundInv
  <2> QED BY <2>1, <2>2, UnboundFrame
<1>15. ASSUME NEW g \in Routine, CloseLock(g) PROVE UnboundInv'
  <2>1. /\ claim' = claim /\ plugged' = plugged /\ pc[g] \notin {"claim", "attach"}
        /\ \A r \in Routine : r # g => pc'[r] = pc[r] /\ device'[at'[r]] = device[at[r]]
        BY <1>15 DEF CloseLock
  <2>2. UnboundInv
        OBVIOUS
  <2> HIDE DEF UnboundInv, IInv, TypeOK, FoundInv
  <2> QED BY <2>1, <2>2, UnboundFrame
<1>16. ASSUME NEW g \in Routine, Release(g) PROVE UnboundInv'
  <2> DEFINE y == device[at[g]]
  <2>1. y \in Dev \X Interface /\ at[g] \in Context
        BY <1>16, Works DEF Release
  <2>2. UNCHANGED <<at, device, plugged>>
        BY <1>16 DEF Release
  <2> SUFFICES ASSUME NEW x \in Dev \X Interface, claim'[x] = 0, x[1] \in plugged
               PROVE  \E r \in Routine : pc'[r] \in {"claim", "attach"} /\ device[at[r]] = x
        BY <2>2 DEF UnboundInv
  <2>3. CASE claim[x] = 0
    <3>1. PICK r \in Routine : pc[r] \in {"claim", "attach"} /\ device[at[r]] = x
          BY <2>3
    <3>2. r # g
          BY <1>16, <3>1 DEF Release
    <3>3. pc'[r] = pc[r]
          BY <1>16, <3>2 DEF Release
    <3> QED BY <3>1, <3>3
  <2>4. CASE claim[x] # 0
    <3>1. x = y /\ pc'[g] = "attach"
          BY <1>16, <2>1, <2>4 DEF Release
    <3> QED BY <3>1
  <2> QED BY <2>3, <2>4
<1>17. ASSUME NEW g \in Routine, Attach(g) PROVE UnboundInv'
  <2> DEFINE y == device[at[g]]
  <2>1. y \in Dev \X Interface /\ at[g] \in Context
        BY <1>17, Works DEF Attach
  <2>2. UNCHANGED <<at, device, plugged>>
        BY <1>17 DEF Attach
  <2> SUFFICES ASSUME NEW x \in Dev \X Interface, claim'[x] = 0, x[1] \in plugged
               PROVE  \E r \in Routine : pc'[r] \in {"claim", "attach"} /\ device[at[r]] = x
        BY <2>2 DEF UnboundInv
  <2>3. claim[x] = 0 /\ x # y
    <3>1. CASE claim' = [claim EXCEPT ![y] = KernelDriver]
          BY <2>1, <3>1
    <3>2. CASE claim' = claim /\ ~(claim[y] = Unbound /\ y[1] \in plugged)
          BY <3>2
    <3> QED BY <1>17, <3>1, <3>2 DEF Attach
  <2>4. PICK r \in Routine : pc[r] \in {"claim", "attach"} /\ device[at[r]] = x
        BY <2>3
  <2>5. r # g
        BY <2>3, <2>4
  <2>6. pc'[r] = pc[r]
        BY <1>17, <2>5 DEF Attach
  <2> QED BY <2>4, <2>6
<1>18. ASSUME NEW g \in Routine, LibusbClose(g) PROVE UnboundInv'
  <2>1. /\ claim' = claim /\ plugged' = plugged /\ pc[g] \notin {"claim", "attach"}
        /\ \A r \in Routine : r # g => pc'[r] = pc[r] /\ device'[at'[r]] = device[at[r]]
        BY <1>18 DEF LibusbClose
  <2>2. UnboundInv
        OBVIOUS
  <2> HIDE DEF UnboundInv, IInv, TypeOK, FoundInv
  <2> QED BY <2>1, <2>2, UnboundFrame
<1>19. ASSUME NEW g \in Routine, Unref(g) PROVE UnboundInv'
  <2>1. /\ claim' = claim /\ plugged' = plugged /\ pc[g] \notin {"claim", "attach"}
        /\ \A r \in Routine : r # g => pc'[r] = pc[r] /\ device'[at'[r]] = device[at[r]]
        BY <1>19 DEF Unref
  <2>2. UnboundInv
        OBVIOUS
  <2> HIDE DEF UnboundInv, IInv, TypeOK, FoundInv
  <2> QED BY <2>1, <2>2, UnboundFrame
<1>20. ASSUME NEW d \in Dev, Unplug(d) PROVE UnboundInv'
      BY <1>20 DEF Unplug
<1>21. ASSUME NEW d \in Dev, NEW n \in Context, Forget(n, d) PROVE UnboundInv'
  <2>1. UNCHANGED <<claim, plugged, pc, at, device>>
        BY <1>21 DEF Forget
  <2>2. UnboundInv
        OBVIOUS
  <2> HIDE DEF IInv, TypeOK, FoundInv
  <2> QED BY <2>1, <2>2
<1>22. CASE UNCHANGED vars
  <2>1. UNCHANGED <<claim, plugged, pc, at, device>>
        BY <1>22 DEF vars
  <2>2. UnboundInv
        OBVIOUS
  <2> HIDE DEF IInv, TypeOK, FoundInv
  <2> QED BY <2>1, <2>2
<1> QED BY <1>1, <1>2, <1>3, <1>4, <1>5, <1>6, <1>7, <1>8, <1>9, <1>10, <1>11,
           <1>12, <1>13, <1>14, <1>15, <1>16, <1>17, <1>18, <1>19, <1>20, <1>21,
           <1>22
        DEF Next, CallStep

\* Nobody takes an interface that another handle has claimed.
LEMMA KeptPreserved ==
    ASSUME ConstantsAssumption, ~Careless, IInv, [Next]_vars
    PROVE  ClaimKept'
<1> USE DEF IInv, TypeOK, ConstantsAssumption, FoundInv, HandleInv, ClaimKept
<1>0. \A g, r \in Routine :
         /\ pc[g] \in OpenPCs => at[g] \notin known
         /\ pc[g] \in OpenPCs /\ pc[r] \in OpenPCs => g = r
         /\ pc[g] \in DevicePCs => at[g] \in known
         /\ pc[g] \in ClosePCs => at[g] \notin closed
         /\ pc[g] \in ClosePCs /\ pc[r] \in ClosePCs /\ at[g] = at[r] => g = r
      BY DEF CallInv
<1> USE <1>0
<1>1. ASSUME NEW g \in Routine, Find(g) PROVE ClaimKept'
      BY <1>1 DEF Find
<1>2. ASSUME NEW g \in Routine, NEW d \in Dev, NEW i \in Interface, Open(g, d, i)
      PROVE  ClaimKept'
      BY <1>2 DEF Open
<1>3. ASSUME NEW g \in Routine, NEW n \in Context, ReadOrWrite(g, n) PROVE ClaimKept'
      BY <1>3 DEF ReadOrWrite
<1>4. ASSUME NEW g \in Routine, NEW n \in Context, Close(g, n) PROVE ClaimKept'
      BY <1>4 DEF Close
<1>5. ASSUME NEW g \in Routine, Lock(g) PROVE ClaimKept'
  <2>1. CASE pc' = [pc EXCEPT ![g] = "find_enumerate"]
        BY <1>5, <2>1 DEF Lock
  <2>2. CASE pc' = [pc EXCEPT ![g] = "enumerate"]
        BY <1>5, <2>2 DEF Lock
  <2> QED BY <1>5, <2>1, <2>2 DEF Lock
<1>6. ASSUME NEW g \in Routine, FindEnumerates(g) PROVE ClaimKept'
      BY <1>6 DEF FindEnumerates, Enumerate
<1>7. ASSUME NEW g \in Routine, OpenEnumerates(g) PROVE ClaimKept'
  <2>1. \A n \in known : device'[n] = device[n]
        BY <1>7, OpenFrame
  <2>2. \A n \in known : Using(n, {"attach", "libusb_close", "unref"})
                            => Using(n, {"attach", "libusb_close", "unref"})'
        BY <1>7, OpenFrame, ZenonT(60)
  <2>3. UNCHANGED <<claim, plugged, known, closed>>
        BY <1>7, OpenFrame
  <2>4. ClaimKept
        OBVIOUS
  <2> HIDE DEF IInv, TypeOK, FoundInv, HandleInv
  <2> QED BY <2>1, <2>2, <2>3, <2>4
<1>8. ASSUME NEW g \in Routine, LibusbOpen(g) PROVE ClaimKept'
  <2>1. CASE pc' = [pc EXCEPT ![g] = "detach"]
        BY <1>8, <2>1 DEF LibusbOpen
  <2>2. CASE pc' = [pc EXCEPT ![g] = "unlock"]
        BY <1>8, <2>2 DEF LibusbOpen
  <2> QED BY <1>8, <2>1, <2>2 DEF LibusbOpen
<1>9. ASSUME NEW g \in Routine, DetachKernelDriver(g) PROVE ClaimKept'
  <2>1. device[at[g]] \in Dev \X Interface
        BY <1>9, Works DEF DetachKernelDriver
  <2>2. \A x \in Dev \X Interface : claim[x] # KernelDriver => claim'[x] = claim[x]
        BY <1>9, <2>1 DEF DetachKernelDriver
  <2>3. \A n \in Context : Using(n, {"attach", "libusb_close", "unref"})
                              => Using(n, {"attach", "libusb_close", "unref"})'
        BY <1>9 DEF DetachKernelDriver
  <2>4. UNCHANGED <<device, plugged, known, closed>>
        BY <1>9 DEF DetachKernelDriver
  <2>5. \A n \in known : n \in Context /\ n # KernelDriver /\ device[n] \in Dev \X Interface
        OBVIOUS
  <2>6. ClaimKept
        OBVIOUS
  <2> HIDE DEF IInv, TypeOK, FoundInv, HandleInv
  <2> QED BY <2>2, <2>3, <2>4, <2>5, <2>6
<1>10. ASSUME NEW g \in Routine, Claim(g) PROVE ClaimKept'
  <2> DEFINE y == device[at[g]]
  <2>1. y \in Dev \X Interface /\ at[g] \in Context
        BY <1>10, Works DEF Claim
  <2>2. UNCHANGED <<at, device, plugged, closed>> /\ \A r \in Routine : r # g => pc'[r] = pc[r]
        BY <1>10 DEF Claim
  <2>3. \A n \in Context : Using(n, {"attach", "libusb_close", "unref"})
                              => Using(n, {"attach", "libusb_close", "unref"})'
        BY <1>10, <2>2 DEF Claim
  <2>4. CASE claim' = claim /\ known' = known
        BY <2>2, <2>3, <2>4
  <2>5. CASE /\ claim' = [claim EXCEPT ![y] = at[g]] /\ known' = known \cup {at[g]}
             /\ y[1] \in plugged /\ claim[y] \in {KernelDriver, Unbound}
    <3> SUFFICES ASSUME NEW n \in known' \ closed'
                 PROVE  (\/ claim[device[n]] = n
                         \/ device[n][1] \notin plugged
                         \/ Using(n, {"attach", "libusb_close", "unref"}))'
          OBVIOUS
    <3>1. CASE n = at[g]
          BY <2>1, <2>2, <2>5, <3>1
    <3>2. CASE n # at[g]
      <4>1. n \in known \ closed /\ n \in Context /\ device[n] \in Dev \X Interface
            BY <2>2, <2>5, <3>2
      <4>2. CASE device[n] = y
        <5>1. claim[y] \in {KernelDriver, Unbound} /\ n >= 1
              BY <2>5, <4>1
        <5>2. claim[device[n]] # n
              BY <4>2, <5>1
        <5>3. device[n][1] \notin plugged \/ Using(n, {"attach", "libusb_close", "unref"})
              BY <4>1, <5>2
        <5> QED BY <2>2, <2>3, <4>1, <5>3
      <4>3. CASE device[n] # y
            BY <2>1, <2>2, <2>3, <2>5, <4>1, <4>3
      <4> QED BY <4>2, <4>3
    <3> QED BY <3>1, <3>2
  <2> QED BY <1>10, <2>4, <2>5 DEF Claim
<1>11. ASSUME NEW g \in Routine, GiveUp(g) PROVE ClaimKept'
      BY <1>11 DEF GiveUp, AddRef
<1>12. ASSUME NEW g \in Routine, Unlock(g) PROVE ClaimKept'
      BY <1>12 DEF Unlock
<1>13. ASSUME NEW g \in Routine, IoLock(g) PROVE ClaimKept'
      BY <1>13 DEF IoLock
<1>14. ASSUME NEW g \in Routine, IoReturns(g) PROVE ClaimKept'
      BY <1>14 DEF IoReturns
<1>15. ASSUME NEW g \in Routine, CloseLock(g) PROVE ClaimKept'
      BY <1>15 DEF CloseLock
<1>16. ASSUME NEW g \in Routine, Release(g) PROVE ClaimKept'
  <2> DEFINE y == device[at[g]]
  <2>1. y \in Dev \X Interface /\ at[g] \in Context
        BY <1>16, Works DEF Release
  <2>2. UNCHANGED <<at, device, plugged, closed, known>>
        BY <1>16 DEF Release
  <2>3. \A n \in Context : Using(n, {"attach", "libusb_close", "unref"})
                              => Using(n, {"attach", "libusb_close", "unref"})'
        BY <1>16, <2>2 DEF Release
  <2>4. CASE claim' = claim
        BY <2>2, <2>3, <2>4
  <2>5. CASE claim' = [claim EXCEPT ![y] = Unbound] /\ claim[y] = at[g] /\ pc'[g] = "attach"
    <3> SUFFICES ASSUME NEW n \in known \ closed
                 PROVE  (\/ claim[device[n]] = n
                         \/ device[n][1] \notin plugged
                         \/ Using(n, {"attach", "libusb_close", "unref"}))'
          BY <2>2
    <3>1. CASE n = at[g]
          BY <2>2, <2>5, <3>1
    <3>2. CASE n # at[g]
      <4>1. n \in Context /\ device[n] \in Dev \X Interface
            OBVIOUS
      <4>2. CASE device[n] = y
        <5>1. claim[device[n]] # n
              BY <2>5, <3>2, <4>2
        <5>2. device[n][1] \notin plugged \/ Using(n, {"attach", "libusb_close", "unref"})
              BY <4>1, <5>1
        <5> QED BY <2>2, <2>3, <4>1, <5>2
      <4>3. CASE device[n] # y
            BY <2>1, <2>2, <2>3, <2>5, <4>1, <4>3
      <4> QED BY <4>2, <4>3
    <3> QED BY <3>1, <3>2
  <2>6. claim' = claim \/ (claim' = [claim EXCEPT ![y] = Unbound] /\ claim[y] = at[g]
                             /\ pc' = [pc EXCEPT ![g] = "attach"])
        BY <1>16 DEF Release
  <2> HIDE DEF y
  <2> QED BY <2>4, <2>5, <2>6
<1>17. ASSUME NEW g \in Routine, Attach(g) PROVE ClaimKept'
  <2>1. device[at[g]] \in Dev \X Interface
        BY <1>17, Works DEF Attach
  <2>2. \A x \in Dev \X Interface : claim[x] # Unbound => claim'[x] = claim[x]
        BY <1>17, <2>1 DEF Attach
  <2>3. \A n \in Context : Using(n, {"attach", "libusb_close", "unref"})
                              => Using(n, {"attach", "libusb_close", "unref"})'
        BY <1>17 DEF Attach
  <2>4. UNCHANGED <<device, plugged, known, closed>>
        BY <1>17 DEF Attach
  <2>5. \A n \in known : n \in Context /\ n # Unbound /\ device[n] \in Dev \X Interface
        OBVIOUS
  <2>6. ClaimKept
        OBVIOUS
  <2> HIDE DEF IInv, TypeOK, FoundInv, HandleInv
  <2> QED BY <2>2, <2>3, <2>4, <2>5, <2>6
<1>18. ASSUME NEW g \in Routine, LibusbClose(g) PROVE ClaimKept'
      BY <1>18 DEF LibusbClose, AddRef
<1>19. ASSUME NEW g \in Routine, Unref(g) PROVE ClaimKept'
      BY <1>19 DEF Unref, AddRef
<1>20. ASSUME NEW d \in Dev, Unplug(d) PROVE ClaimKept'
      BY <1>20 DEF Unplug
<1>21. ASSUME NEW d \in Dev, NEW n \in Context, Forget(n, d) PROVE ClaimKept'
      BY <1>21 DEF Forget, AddRef
<1>22. CASE UNCHANGED vars
      BY <1>22 DEF vars
<1> QED BY <1>1, <1>2, <1>3, <1>4, <1>5, <1>6, <1>7, <1>8, <1>9, <1>10, <1>11,
           <1>12, <1>13, <1>14, <1>15, <1>16, <1>17, <1>18, <1>19, <1>20, <1>21,
           <1>22
        DEF Next, CallStep

\* One reference is taken or dropped, and the handle or the Device with it.
LEMMA HeldStep ==
    ASSUME NEW n, NEW d, NEW k \in {-1, 1}, Found(n), device[n][1] = d,
           contexts' = contexts, device' = device,
           \A m : m # n => (m \in handle' <=> m \in handle) /\ (m \in closed' <=> m \in closed),
           One(n \in handle') + One(n \notin closed')
              = One(n \in handle) + One(n \notin closed) + k
    PROVE  \A m, e : Held(m, e)' = Held(m, e) + IF m = n /\ e = d THEN k ELSE 0
<1> SUFFICES ASSUME NEW m, NEW e
             PROVE  Held(m, e)' = Held(m, e) + IF m = n /\ e = d THEN k ELSE 0
    OBVIOUS
<1>1. CASE m = n /\ e = d
      BY <1>1
<1>2. CASE m = n /\ e # d
      BY <1>2
<1>3. CASE m # n
      BY <1>3
<1> QED BY <1>1, <1>2, <1>3

LEMMA RefStep ==
    ASSUME ConstantsAssumption, IInv, NEW n \in 1..contexts, NEW d \in Dev, NEW k \in {-1, 1},
           refs' = [refs EXCEPT ![n][d] = @ + k], contexts' = contexts, listed' = listed,
           \A m, e : Held(m, e)' = Held(m, e) + IF m = n /\ e = d THEN k ELSE 0
    PROVE  RefInv'
<1> USE DEF IInv, TypeOK, ConstantsAssumption
<1>1. \A m \in 1..contexts, e \in Dev :
          refs[m][e] \in Nat /\ refs'[m][e] = refs[m][e] + IF m = n /\ e = d THEN k ELSE 0
  <2>1. refs \in [Context -> [Dev -> Nat]] /\ \A m \in 1..contexts : m \in Context
        BY SMTT(30)
  <2> HIDE DEF IInv, TypeOK
  <2> QED BY <2>1, SMTT(30)
<1>2. \A m, e : One(e \in listed[m]) \in {0, 1} /\ Held(m, e) \in {0, 1, 2}
  <2> HIDE DEF IInv, TypeOK
  <2> QED OBVIOUS
<1>3. \A m \in 1..contexts, e \in Dev : refs[m][e] >= One(e \in listed[m]) + Held(m, e)
      BY DEF RefInv
<1>4. ASSUME NEW m \in 1..contexts, NEW e \in Dev
      PROVE  refs'[m][e] >= One(e \in listed'[m]) + Held(m, e)'
  <2>1. One(e \in listed'[m]) = One(e \in listed[m])
        OBVIOUS
  <2> HIDE DEF Held, One, IInv, TypeOK
  <2> QED BY <1>1, <1>2, <1>3, <2>1
<1>5. contexts' = contexts
      OBVIOUS
<1> QED BY <1>4, <1>5 DEF RefInv

\* A context is made, perhaps with the device that an Open has found in it.
LEMMA RefNew ==
    ASSUME ConstantsAssumption, IInv, Enumerate, UNCHANGED <<handle, closed>>,
           \A n \in 1..contexts : device'[n] = device[n],
           device'[contexts + 1] \in Dev \X Interface => device'[contexts + 1][1] \in plugged
    PROVE  RefInv'
<1> USE DEF IInv, TypeOK, ConstantsAssumption
<1>0. PICK new \in Context : new = contexts + 1
      BY Fresh
<1>00. contexts \in Nat /\ contexts' = new
      BY <1>0, Fresh
<1>1. \A n \in 1..contexts' : n \in 1..contexts \/ n = new
      BY <1>0, <1>00
<1>2. ASSUME NEW n \in 1..contexts, NEW d \in Dev
      PROVE  refs'[n][d] >= One(d \in listed'[n]) + Held(n, d)'
  <2>1. n \in Context /\ n # new /\ n \in 1..contexts'
        BY <1>0, <1>00, SMTT(30)
  <2>2. refs'[n] = refs[n] /\ listed'[n] = listed[n]
        BY <2>1, Fresh, SMTT(30)
  <2>3. Held(n, d)' = Held(n, d)
        BY <2>1
  <2>4. refs[n][d] >= One(d \in listed[n]) + Held(n, d)
        BY DEF RefInv
  <2> HIDE DEF Held
  <2> QED BY <2>2, <2>3, <2>4
<1>3. ASSUME NEW d \in Dev
      PROVE  refs'[new][d] >= One(d \in listed'[new]) + Held(new, d)'
  <2>1. listed'[new] = plugged /\ refs'[new][d] = IF d \in plugged THEN 2 ELSE 0
        BY <1>0, Fresh
  <2>2. new \notin handle'
        BY <1>0, Fresh
  <2>3. Held(new, d)' \in {0, 1}
        BY <1>0, <2>2
  <2>4. CASE d \notin plugged
    <3>1. ~(Found(new)' /\ device'[new][1] = d)
          BY <1>0, <2>4
    <3>2. Held(new, d)' = 0
          BY <3>1
    <3> HIDE DEF Held
    <3> QED BY <2>1, <2>4, <3>2
  <2>5. CASE d \in plugged
    <3> HIDE DEF Held
    <3> QED BY <2>1, <2>3, <2>5
  <2> QED BY <2>4, <2>5
<1>4. ASSUME NEW n \in 1..contexts', NEW d \in Dev
      PROVE  refs'[n][d] >= One(d \in listed'[n]) + Held(n, d)'
  <2> HIDE DEF Held, One, IInv, TypeOK
  <2> QED BY <1>1, <1>2, <1>3
<1> QED BY <1>4 DEF RefInv

\* Every reference dropped is one that was taken, or leaked.
LEMMA RefPreserved ==
    ASSUME ConstantsAssumption, ~Careless, IInv, [Next]_vars
    PROVE  RefInv'
<1> USE DEF IInv, TypeOK, ConstantsAssumption, FoundInv, HandleInv, ContextInv, RefInv
<1>0. \A g, r \in Routine :
         /\ pc[g] \in OpenPCs => at[g] \notin known
         /\ pc[g] \in OpenPCs /\ pc[r] \in OpenPCs => g = r
         /\ pc[g] \in DevicePCs => at[g] \in known
         /\ pc[g] \in ClosePCs => at[g] \notin closed
         /\ pc[g] \in ClosePCs /\ pc[r] \in ClosePCs /\ at[g] = at[r] => g = r
      BY DEF CallInv
<1> USE <1>0
<1>1. ASSUME NEW g \in Routine, Find(g) PROVE RefInv'
      BY <1>1 DEF Find
<1>2. ASSUME NEW g \in Routine, NEW d \in Dev, NEW i \in Interface, Open(g, d, i)
      PROVE  RefInv'
      BY <1>2 DEF Open
<1>3. ASSUME NEW g \in Routine, NEW n \in Context, ReadOrWrite(g, n) PROVE RefInv'
      BY <1>3 DEF ReadOrWrite
<1>4. ASSUME NEW g \in Routine, NEW n \in Context, Close(g, n) PROVE RefInv'
      BY <1>4 DEF Close
<1>5. ASSUME NEW g \in Routine, Lock(g) PROVE RefInv'
      BY <1>5 DEF Lock
<1>6. ASSUME NEW g \in Routine, FindEnumerates(g) PROVE RefInv'
  <2>1. CASE Enumerate
    <3>1. contexts + 1 \in Context \ (1..contexts)
          BY <2>1, Fresh
    <3>2. UNCHANGED <<device, handle, closed>>
          BY <1>6 DEF FindEnumerates
    <3>3. /\ \A n \in 1..contexts : device'[n] = device[n]
          /\ device'[contexts + 1] \notin Dev \X Interface
          BY <3>1, <3>2
    <3> HIDE DEF IInv, TypeOK, FoundInv, HandleInv, ContextInv, RefInv
    <3> QED BY <2>1, <3>2, <3>3, RefNew
  <2>2. CASE UNCHANGED <<contexts, refs, listed>>
        BY <1>6, <2>2 DEF FindEnumerates
  <2> QED BY <1>6, <2>1, <2>2 DEF FindEnumerates
<1>7. ASSUME NEW g \in Routine, OpenEnumerates(g) PROVE RefInv'
  <2>1. CASE UNCHANGED <<contexts, refs, listed>> /\ UNCHANGED <<at, device>>
        BY <1>7, <2>1 DEF OpenEnumerates
  <2>2. ASSUME Enumerate, \/ UNCHANGED device
                          \/ \E x \in Dev \X Interface :
                                /\ x[1] \in plugged
                                /\ device' = [device EXCEPT ![contexts + 1] = x]
        PROVE  RefInv'
    <3>1. contexts + 1 \in Context \ (1..contexts)
          BY <2>2, Fresh
    <3>2. device'[contexts + 1] \in Dev \X Interface => device'[contexts + 1][1] \in plugged
          BY <2>2, <3>1
    <3>3. /\ UNCHANGED <<handle, closed>>
          /\ \A n \in 1..contexts : device'[n] = device[n]
          BY <1>7, OpenFrame
    <3> HIDE DEF IInv, TypeOK, FoundInv, HandleInv, ContextInv, RefInv
    <3> QED BY <2>2, <3>2, <3>3, RefNew
  <2> QED BY <1>7, <2>1, <2>2, OpenFinds
<1>8. ASSUME NEW g \in Routine, LibusbOpen(g) PROVE RefInv'
  <2>1. CASE UNCHANGED <<handle, refs>>
        BY <1>8, <2>1 DEF LibusbOpen
  <2>2. CASE handle' = handle \cup {at[g]} /\ AddRef(at[g], device[at[g]][1], 1)
    <3>1. PICK n \in Context : n = at[g]
          BY <1>8, Works DEF LibusbOpen
    <3>2. /\ n \in 1..contexts /\ device[n] \in Dev \X Interface /\ device[n][1] \in Dev
          /\ n \notin handle
      <4>1. pc[g] \in OpenPCs \cup ClosePCs
            BY <1>8 DEF LibusbOpen
      <4>2. n \notin handle
            BY <1>8, <3>1 DEF LibusbOpen
      <4> HIDE DEF IInv, TypeOK, FoundInv, HandleInv, ContextInv, RefInv
      <4> QED BY <3>1, <4>1, <4>2, Works
    <3>3. PICK d \in Dev : d = device[n][1]
          BY <3>2
    <3>4. /\ refs' = [refs EXCEPT ![n][d] = @ + 1]
          /\ contexts' = contexts /\ device' = device /\ listed' = listed
          /\ handle' = handle \cup {n} /\ UNCHANGED closed
          BY <1>8, <2>2, <3>1, <3>3 DEF LibusbOpen, AddRef
    <3>5. \A m : m # n => (m \in handle' <=> m \in handle) /\ (m \in closed' <=> m \in closed)
          BY <3>4
    <3>6. One(n \in handle') + One(n \notin closed')
             = One(n \in handle) + One(n \notin closed) + 1
          BY <3>2, <3>4
    <3> HIDE DEF One, IInv, TypeOK, FoundInv, HandleInv, ContextInv, RefInv
    <3>7. \A m, e : Held(m, e)' = Held(m, e) + IF m = n /\ e = d THEN 1 ELSE 0
      <4> HIDE DEF Held
      <4> QED BY <3>2, <3>3, <3>4, <3>5, <3>6, HeldStep
    <3> HIDE DEF Held
    <3> QED BY <3>2, <3>3, <3>4, <3>7, RefStep
  <2> QED BY <1>8, <2>1, <2>2 DEF LibusbOpen
<1>9. ASSUME NEW g \in Routine, DetachKernelDriver(g) PROVE RefInv'
      BY <1>9 DEF DetachKernelDriver
<1>10. ASSUME NEW g \in Routine, Claim(g) PROVE RefInv'
      BY <1>10 DEF Claim
<1>11. ASSUME NEW g \in Routine, GiveUp(g) PROVE RefInv'
  <2>1. PICK n \in Context : n = at[g]
        BY <1>11, Works DEF GiveUp
  <2>2. /\ n \in 1..contexts /\ device[n] \in Dev \X Interface /\ device[n][1] \in Dev
        /\ n \in handle
    <3>1. pc[g] \in OpenPCs \cup ClosePCs
          BY <1>11 DEF GiveUp
    <3>2. n \in handle
          BY <1>11, <2>1 DEF GiveUp
    <3> HIDE DEF IInv, TypeOK, FoundInv, HandleInv, ContextInv, RefInv
    <3> QED BY <2>1, <3>1, <3>2, Works
  <2>3. PICK d \in Dev : d = device[n][1]
        BY <2>2
  <2>4. /\ refs' = [refs EXCEPT ![n][d] = @ + -1]
        /\ contexts' = contexts /\ device' = device /\ listed' = listed
        /\ handle' = handle \ {n} /\ UNCHANGED closed
        BY <1>11, <2>1, <2>3 DEF GiveUp, AddRef
  <2>5. \A m : m # n => (m \in handle' <=> m \in handle) /\ (m \in closed' <=> m \in closed)
        BY <2>4
  <2>6. One(n \in handle') + One(n \notin closed')
           = One(n \in handle) + One(n \notin closed) + -1
        BY <2>2, <2>4
  <2> HIDE DEF One, IInv, TypeOK, FoundInv, HandleInv, ContextInv, RefInv
  <2>7. \A m, e : Held(m, e)' = Held(m, e) + IF m = n /\ e = d THEN -1 ELSE 0
    <3> HIDE DEF Held
    <3> QED BY <2>2, <2>3, <2>4, <2>5, <2>6, HeldStep, SMTT(30)
  <2> HIDE DEF Held
  <2> QED BY <2>2, <2>3, <2>4, <2>7, RefStep
<1>12. ASSUME NEW g \in Routine, Unlock(g) PROVE RefInv'
      BY <1>12 DEF Unlock
<1>13. ASSUME NEW g \in Routine, IoLock(g) PROVE RefInv'
      BY <1>13 DEF IoLock
<1>14. ASSUME NEW g \in Routine, IoReturns(g) PROVE RefInv'
      BY <1>14 DEF IoReturns
<1>15. ASSUME NEW g \in Routine, CloseLock(g) PROVE RefInv'
      BY <1>15 DEF CloseLock
<1>16. ASSUME NEW g \in Routine, Release(g) PROVE RefInv'
      BY <1>16 DEF Release
<1>17. ASSUME NEW g \in Routine, Attach(g) PROVE RefInv'
      BY <1>17 DEF Attach
<1>18. ASSUME NEW g \in Routine, LibusbClose(g) PROVE RefInv'
  <2>1. PICK n \in Context : n = at[g]
        BY <1>18, Works DEF LibusbClose
  <2>2. /\ n \in 1..contexts /\ device[n] \in Dev \X Interface /\ device[n][1] \in Dev
        /\ n \in handle
    <3>1. pc[g] \in OpenPCs \cup ClosePCs
          BY <1>18 DEF LibusbClose
    <3>2. n \in handle
          BY <1>18, <2>1 DEF LibusbClose
    <3> HIDE DEF IInv, TypeOK, FoundInv, HandleInv, ContextInv, RefInv
    <3> QED BY <2>1, <3>1, <3>2, Works
  <2>3. PICK d \in Dev : d = device[n][1]
        BY <2>2
  <2>4. /\ refs' = [refs EXCEPT ![n][d] = @ + -1]
        /\ contexts' = contexts /\ device' = device /\ listed' = listed
        /\ handle' = handle \ {n} /\ UNCHANGED closed
        BY <1>18, <2>1, <2>3 DEF LibusbClose, AddRef
  <2>5. \A m : m # n => (m \in handle' <=> m \in handle) /\ (m \in closed' <=> m \in closed)
        BY <2>4
  <2>6. One(n \in handle') + One(n \notin closed')
           = One(n \in handle) + One(n \notin closed) + -1
        BY <2>2, <2>4
  <2> HIDE DEF One, IInv, TypeOK, FoundInv, HandleInv, ContextInv, RefInv
  <2>7. \A m, e : Held(m, e)' = Held(m, e) + IF m = n /\ e = d THEN -1 ELSE 0
    <3> HIDE DEF Held
    <3> QED BY <2>2, <2>3, <2>4, <2>5, <2>6, HeldStep
  <2> HIDE DEF Held
  <2> QED BY <2>2, <2>3, <2>4, <2>7, RefStep
<1>19. ASSUME NEW g \in Routine, Unref(g) PROVE RefInv'
  <2>1. PICK n \in Context : n = at[g]
        BY <1>19, Works DEF Unref
  <2>2. /\ n \in 1..contexts /\ device[n] \in Dev \X Interface /\ device[n][1] \in Dev
        /\ n \notin closed
    <3>1. pc[g] \in OpenPCs \cup ClosePCs
          BY <1>19 DEF Unref
    <3>2. n \notin closed
          BY <1>19, <2>1 DEF Unref
    <3> HIDE DEF IInv, TypeOK, FoundInv, HandleInv, ContextInv, RefInv
    <3> QED BY <2>1, <3>1, <3>2, Works
  <2>3. PICK d \in Dev : d = device[n][1]
        BY <2>2
  <2>4. /\ refs' = [refs EXCEPT ![n][d] = @ + -1]
        /\ contexts' = contexts /\ device' = device /\ listed' = listed
        /\ closed' = closed \cup {n} /\ UNCHANGED handle
        BY <1>19, <2>1, <2>3 DEF Unref, AddRef
  <2>5. \A m : m # n => (m \in handle' <=> m \in handle) /\ (m \in closed' <=> m \in closed)
        BY <2>4
  <2>6. One(n \in handle') + One(n \notin closed')
           = One(n \in handle) + One(n \notin closed) + -1
        BY <2>2, <2>4
  <2> HIDE DEF One, IInv, TypeOK, FoundInv, HandleInv, ContextInv, RefInv
  <2>7. \A m, e : Held(m, e)' = Held(m, e) + IF m = n /\ e = d THEN -1 ELSE 0
    <3> HIDE DEF Held
    <3> QED BY <2>2, <2>3, <2>4, <2>5, <2>6, HeldStep
  <2> HIDE DEF Held
  <2> QED BY <2>2, <2>3, <2>4, <2>7, RefStep
<1>20. ASSUME NEW d \in Dev, Unplug(d) PROVE RefInv'
      BY <1>20 DEF Unplug
<1>21. ASSUME NEW d \in Dev, NEW n \in Context, Forget(n, d) PROVE RefInv'
  <2>1. n \in 1..contexts
        BY <1>21, ListReferenced DEF Forget
  <2>2. d \notin listed'[n] /\ refs'[n][d] = refs[n][d] - 1
        BY <1>21 DEF Forget, AddRef
  <2>3. \A m \in 1..contexts, e \in Dev : Held(m, e)' = Held(m, e)
        BY <1>21 DEF Forget
  <2>4. /\ \A m \in 1..contexts, e \in Dev : m # n \/ e # d => refs'[m][e] = refs[m][e]
        /\ \A m \in 1..contexts, e \in Dev :
               m # n \/ e # d => (e \in listed'[m] <=> e \in listed[m])
    <3>1. refs' = [refs EXCEPT ![n][d] = @ - 1] /\ listed' = [listed EXCEPT ![n] = @ \ {d}]
          BY <1>21 DEF Forget, AddRef
    <3>2. \A m \in 1..contexts, e \in Dev : m # n \/ e # d => refs'[m][e] = refs[m][e]
          BY <3>1
    <3> HIDE DEF IInv
    <3> QED BY <3>1, <3>2
  <2>5. \A m \in 1..contexts, e \in Dev : Held(m, e) \in {0, 1, 2}
    <3> HIDE DEF IInv, TypeOK, FoundInv, HandleInv, ContextInv, RefInv
    <3> QED OBVIOUS
  <2>6. contexts' = contexts /\ d \in listed[n]
        BY <1>21 DEF Forget
  <2>7. \A m \in 1..contexts, e \in Dev :
            refs[m][e] \in Nat /\ refs[m][e] >= One(e \in listed[m]) + Held(m, e)
        OBVIOUS
  <2> HIDE DEF Held, IInv, TypeOK, FoundInv, HandleInv, ContextInv
  <2> QED BY <2>1, <2>2, <2>3, <2>4, <2>5, <2>6, <2>7 DEF RefInv
<1>22. CASE UNCHANGED vars
      BY <1>22 DEF vars
<1> QED BY <1>1, <1>2, <1>3, <1>4, <1>5, <1>6, <1>7, <1>8, <1>9, <1>10, <1>11,
           <1>12, <1>13, <1>14, <1>15, <1>16, <1>17, <1>18, <1>19, <1>20, <1>21,
           <1>22
        DEF Next, CallStep

LEMMA InitIInv == ASSUME ConstantsAssumption, Init PROVE IInv
<1> USE DEF Init, ConstantsAssumption
<1>1. TypeOK
  <2>1. /\ refs \in [Context -> [Dev -> Nat]] /\ listed \in [Context -> SUBSET Dev]
        /\ device \in [Context -> (Dev \X Interface) \cup {None}]
        /\ claim \in [Dev \X Interface -> {KernelDriver, Unbound} \cup Context]
        OBVIOUS
  <2>2. /\ pc \in [Routine -> PCs] /\ at \in [Routine -> Context \cup {0}]
        /\ info \in [Routine -> (Dev \X Interface) \cup {None}]
        /\ timed \in [Routine -> BOOLEAN] /\ contexts \in 0..MaxContexts
        OBVIOUS
  <2> QED BY <2>1, <2>2 DEF TypeOK
<1>2. CallInv /\ FoundInv /\ HandleInv
      BY DEF CallInv, FoundInv, HandleInv
<1>3. BoundInv /\ UnboundInv /\ ClaimKept
      BY DEF BoundInv, UnboundInv, ClaimKept
<1>4. RefInv /\ ContextInv
      BY DEF RefInv, ContextInv
<1> QED BY <1>1, <1>2, <1>3, <1>4 DEF IInv

LEMMA NextIInv ==
    ASSUME ConstantsAssumption, ~Careless, IInv, [Next]_vars PROVE IInv'
BY TypePreserved, CallPreserved, FoundPreserved, HandlePreserved, ContextPreserved,
   BoundPreserved, UnboundPreserved, KeptPreserved, RefPreserved DEF IInv

----------------------------------------------------------------------------
(* The theorems.                                                           *)

\* The inductive invariant holds in every behaviour.
THEOREM Invariance == ~Careless => (Spec => []IInv)
<1> SUFFICES ASSUME ~Careless PROVE Spec => []IInv
    OBVIOUS
<1>1. Init => IInv
      BY InitIInv, ConstantsAssumption
<1>2. IInv /\ [Next]_vars => IInv'
      BY NextIInv, ConstantsAssumption
<1> QED BY <1>1, <1>2, PTL DEF Spec

\* No Open takes an interface from the Device that has claimed it.
THEOREM ClaimsAreKept == ~Careless => (Spec => []ClaimKept)
<1>1. IInv => ClaimKept
      BY DEF IInv
<1> QED BY <1>1, Invariance, PTL

\* The leaked reference of the list is the one that Close drops: no device
\* dies while somebody works with it.
THEOREM DevicesLive == ~Careless => (Spec => []DeviceAlive)
<1>1. ASSUME ConstantsAssumption, IInv PROVE DeviceAlive
  <2> SUFFICES ASSUME NEW n \in Context, NEW d \in Dev,
                      \/ d \in listed[n]
                      \/ n \in handle /\ device[n][1] = d
                      \/ /\ Using(n, {"libusb_open", "release", "attach", "libusb_close",
                                      "unref"})
                         /\ device[n][1] = d
               PROVE  refs[n][d] > 0
        BY DEF DeviceAlive
  <2>0. refs[n][d] \in Nat
        BY <1>1 DEF IInv, TypeOK
  <2>1. CASE d \in listed[n]
    <3>1. refs[n][d] >= 1
          BY <1>1, <2>1, ListReferenced
    <3> QED BY <2>0, <3>1
  <2>2. ASSUME Found(n), n \in handle \/ n \notin closed, device[n][1] = d
        PROVE  refs[n][d] > 0
    <3>1. refs[n][d] >= 1
          BY <1>1, <2>2, Referenced
    <3> QED BY <2>0, <3>1
  <2>3. CASE n \in handle /\ device[n][1] = d
        BY <1>1, <2>2, <2>3 DEF IInv, FoundInv
  <2>4. ASSUME NEW g \in Routine, at[g] = n, device[n][1] = d,
               pc[g] \in {"libusb_open", "release", "attach", "libusb_close", "unref"}
        PROVE  refs[n][d] > 0
    <3>1. Found(n) /\ n \notin closed
          BY <1>1, <2>4 DEF IInv, CallInv, FoundInv
    <3> QED BY <2>2, <2>4, <3>1
  <2> QED BY <2>1, <2>3, <2>4
<1> QED BY <1>1, Invariance, ConstantsAssumption, PTL

\* An interface that no open handle is for has the kernel's driver again.
THEOREM DriversComeBack == ~Careless => (Spec => []DriverComesBack)
<1>1. ASSUME ConstantsAssumption, IInv PROVE DriverComesBack
  <2> USE <1>1 DEF IInv, TypeOK, ConstantsAssumption
  <2> SUFFICES ASSUME NEW x \in Dev \X Interface, x[1] \in plugged, claim[x] # KernelDriver
               PROVE  \E n \in handle : device[n] = x
        BY DEF DriverComesBack
  <2>1. CASE claim[x] \in Context
        BY <2>1 DEF BoundInv
  <2>2. CASE claim[x] = Unbound
    <3>1. PICK g \in Routine : pc[g] \in {"claim", "attach"} /\ device[at[g]] = x
          BY <2>2 DEF UnboundInv
    <3> QED BY <3>1 DEF HandleInv
  <2> QED BY <2>1, <2>2
<1> QED BY <1>1, Invariance, ConstantsAssumption, PTL
=============================================================================
