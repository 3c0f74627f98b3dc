------------------------ MODULE DeviceMonitorProofs ------------------------
(***************************************************************************)
(* Proofs about the device lists of the contexts (DeviceMonitor.tla), for  *)
(* any number of contexts, ports, devices and uevents. The invariant has   *)
(* three layers, each inductive on top of the ones before: the contexts    *)
(* and the monitor, the references of the devices, and the lists. The last *)
(* two hold while no uevent reaches a context too early (~DuringInit).     *)
(***************************************************************************)
EXTENDS DeviceMonitor, FiniteSetTheorems, TLAPS

----------------------------------------------------------------------------
(* The contexts and the monitor.                                           *)

InBackend == {c \in Ctx : phase[c] \in {"io", "lists", "ready", "exiting", "closing"}}

ControlOK ==
    /\ uevents \in Seq(Uevents)
    /\ monitor \in BOOLEAN /\ initCount \in Nat
    /\ lock \in Locks
    /\ phase \in [Ctx -> Phases] /\ users \in [Ctx -> Nat]
    /\ default \in Ctx \cup {None} /\ defaultUsers \in Nat

\* One context is initialised at a time, and only a ready one is used: the default
\* one as often as is counted, another once.
UsersInv ==
    /\ \A c, d \in Initing : c = d
    /\ \A c \in Ctx : phase[c] # "ready" => users[c] = 0
    /\ \A c \in Ctx : phase[c] = "ready" => users[c] = IF c = default THEN defaultUsers ELSE 1
    /\ default = None => defaultUsers = 0
    /\ default # None =>
        /\ defaultUsers > 0 /\ default \in Active
        /\ default \in Initing => defaultUsers = 1

\* The backend is told apart from the contexts that are in it, or about to be.
MonitorInv ==
    /\ initCount = Cardinality(InBackend)
    /\ monitor <=> InBackend # {} \/ \E c \in Ctx : phase[c] = "scan"
    /\ lock.for = "scan" <=> \E c \in Ctx : phase[c] = "scan"
    /\ lock.for = "poll" => phase[lock.ctx] = "ready"

ContextInv == ControlOK /\ UsersInv /\ MonitorInv

----------------------------------------------------------------------------
(* The references of a device.                                             *)

\* The children of s, and the messages among M that it left
Children(ds, s) == {k \in Slot : ds[k].refs > 0 /\ ds[k].parent = s}
Left(M, s) == {k \in DOMAIN M : M[k].left /\ M[k].d = s}

\* Of the devices of one context, a child is one of a port whose parent is a hub.
Tree(ds) ==
    /\ ds \in [Slot -> Devices]
    /\ \A s \in Slot : ds[s].refs = 0 => ds[s] = NoDev
    /\ \A s \in Slot : ds[s].refs > 0 =>
        /\ ds[s].at \in Addr
        /\ ds[s].parent # 0 => ds[s].at \in Port /\ ds[ds[s].parent].at = Hub

\* Each has a reference per child, and those that others hold
Balanced(ds, held) ==
    Tree(ds) /\ \A s \in Slot : ds[s].refs = held[s] + Cardinality(Children(ds, s))

Held(K, M, L) ==
    [s \in Slot |-> (IF s \in K THEN 1 ELSE 0) + (IF Left(M, s) = {} THEN 0 ELSE 1)
                      + (IF s \in L THEN 1 ELSE 0)]

\* What a context's list K, messages M, and the application's list L refer to
Refs(ds, K, M, L) ==
    /\ K \subseteq Slot /\ M \in Seq(Messages) /\ L \subseteq Slot
    /\ Balanced(ds, Held(K, M, L))
    /\ \A s \in Slot : \A j, k \in Left(M, s) : j = k
    /\ \A s \in K : Left(M, s) = {}
    /\ \A s, k \in K : ds[s].at = ds[k].at => s = k

\* A context in phase p, by its devices, list, messages, pipe and what is held of it
ContextOK(p, ds, K, M, sig, L) ==
    /\ Refs(ds, K, M, L)
    /\ p # "ready" => L = {}
    /\ p \in {"none", "active", "closing"} =>
          K = {} /\ M = <<>> /\ ds = [s \in Slot |-> NoDev]
    /\ M # <<>> => sig /\ p \in {"ready", "exiting"}

DeviceTypes ==
    /\ dev \in [Ctx -> [Slot -> Devices]] /\ known \in [Ctx -> SUBSET Slot]
    /\ msgs \in [Ctx -> Seq(Messages)] /\ list \in [Ctx -> SUBSET Slot]
    /\ signalled \in [Ctx -> BOOLEAN]
    /\ bus \in [Addr -> Nat] /\ events \in Nat

\* The list is taken by one call at a time.
PollInv == lock.for = "poll" => list[lock.ctx] = {}

DeviceInv ==
    /\ DeviceTypes
    /\ \A c \in Ctx : ContextOK(phase[c], dev[c], known[c], msgs[c], signalled[c], list[c])

----------------------------------------------------------------------------
(* The lists and the messages that are still to be read.                   *)

\* The k-th of the messages M tells that, one of them does
Told(M, k, act, a) == k \in DOMAIN M /\ M[k] = [act |-> act, at |-> a]
Pending(M, act, a) == \E k \in Nat : Told(M, k, act, a)

\* The kernel tells of what happens in order: after the last departure of a device
\* that is there comes its arrival, and that of what is behind it.
UeventsOK(M, b) ==
    /\ \A p \in Port : b[p] # 0 => b[Hub] # 0
    /\ \A a \in Addr, k \in Nat : Told(M, k, "remove", a) /\ b[a] # 0 =>
          \E j \in Nat : j > k /\ Told(M, j, "add", a)
    /\ \A p \in Port, k \in Nat : Told(M, k, "remove", Hub) /\ b[p] # 0 =>
          \E j \in Nat : j > k /\ Told(M, j, "add", p)
    /\ \A a \in Addr, k \in Nat : Told(M, k, "add", a) /\ b[a] = 0 =>
          \E j \in Nat : j > k /\ Told(M, j, "remove", a)
    /\ \A a \in Addr, i, k \in Nat : Told(M, i, "add", a) /\ Told(M, k, "add", a) /\ i < k =>
          \E j \in Nat : i < j /\ j < k /\ Told(M, j, "remove", a)

\* A listed device is the one that is there, behind the hub that is there.
Fresh(ds, s, b) ==
    /\ b[ds[s].at] # 0 /\ ds[s].gen = b[ds[s].at]
    /\ ds[s].at \in Port => ds[s].parent # 0 /\ ds[ds[s].parent].gen = b[Hub]

\* A list is right but for what is still to be read, or scanned.
Current(ds, K, b, M) == \A s \in K : Fresh(ds, s, b) \/ Pending(M, "remove", ds[s].at)

Complete(ds, K, b, M, left) ==
    \A a \in Addr : b[a] # 0 =>
        (\E s \in K : ds[s].at = a) \/ Pending(M, "add", a) \/ a \in left

\* What is still to be scanned is there, behind the hub that is listed, or it will
\* be told to be gone.
Scanned(ds, K, b, M, left) ==
    /\ \A a \in left : b[a] # 0 \/ Pending(M, "remove", a)
    /\ \A p \in left \cap Port : \A s \in K :
          ds[s].at = Hub => Fresh(ds, s, b) \/ Pending(M, "remove", p)

ListOK(ds, K, b, M, left) ==
    Current(ds, K, b, M) /\ Complete(ds, K, b, M, left) /\ Scanned(ds, K, b, M, left)

LeftToScan(c) == IF phase[c] = "scan" THEN lock.left ELSE {}

\* The contexts whose list the monitor keeps
Listing == {c \in Ctx : phase[c] \in {"scan", "io", "lists", "ready"}}

ListInv ==
    /\ ~monitor => uevents = <<>>
    /\ UeventsOK(uevents, bus)
    /\ \A c \in Listing : ListOK(dev[c], known[c], bus, uevents, LeftToScan(c))

IInv == ContextInv /\ DeviceInv /\ PollInv /\ ListInv

----------------------------------------------------------------------------
(* The contexts and the monitor, for any uevents.                          *)

LEMMA Constants ==
    /\ IsFiniteSet(Ctx) /\ None \notin Ctx /\ None \notin Addr
    /\ Hub \in Addr /\ Port \subseteq Addr /\ Hub \notin Port
    /\ \A a \in Addr : a = Hub \/ a \in Port
    /\ MaxSlots \in Nat \ {0} /\ Slot \subseteq Nat \ {0} /\ IsFiniteSet(Slot)
    /\ 0 \notin Slot /\ Slot \subseteq 0..MaxSlots
<1>1. IsFiniteSet(1..MaxSlots)
  BY ConstantsAssumption, FS_Interval DEF ConstantsAssumption
<1> QED BY <1>1, ConstantsAssumption DEF ConstantsAssumption, Addr, Slot

\* What is known of a context by its phase
LEMMA PhaseIs ==
    ASSUME ControlOK, NEW c \in Ctx
    PROVE  /\ phase[c] \in Phases
           /\ c \in Initing <=> phase[c] \in {"active", "scan", "io", "lists"}
           /\ c \in Active <=> c \in Initing \/ phase[c] = "ready"
           /\ c \in InBackend <=> phase[c] \in {"io", "lists", "ready", "exiting", "closing"}
BY DEF ControlOK, Phases, Initing, Active, InBackend

\* A context that moves from one phase to another
LEMMA SetPhase ==
    ASSUME ControlOK, NEW c \in Ctx, NEW p \in Phases, phase' = [phase EXCEPT ![c] = p]
    PROVE  /\ phase' \in [Ctx -> Phases] /\ phase'[c] = p
           /\ \A d \in Ctx \ {c} : phase'[d] = phase[d]
           /\ InBackend' = IF p \in {"io", "lists", "ready", "exiting", "closing"}
                           THEN InBackend \cup {c} ELSE InBackend \ {c}
<1>1. /\ phase' \in [Ctx -> Phases] /\ phase'[c] = p
      /\ \A d \in Ctx \ {c} : phase'[d] = phase[d]
  BY DEF ControlOK
<1> QED BY <1>1 DEF InBackend

\* The number of contexts in the backend
LEMMA InBackendCount ==
    ASSUME NEW c \in Ctx
    PROVE  /\ IsFiniteSet(InBackend) /\ Cardinality(InBackend) \in Nat
           /\ Cardinality(InBackend) = 0 <=> InBackend = {}
           /\ c \notin InBackend => Cardinality(InBackend \cup {c}) = Cardinality(InBackend) + 1
           /\ c \in InBackend => Cardinality(InBackend \ {c}) = Cardinality(InBackend) - 1
           /\ Cardinality(InBackend \ {c}) \in Nat
           /\ Cardinality(InBackend \ {c}) = 0 <=> InBackend \ {c} = {}
<1>1. IsFiniteSet(InBackend)
  BY Constants, FS_Subset DEF InBackend
<1>2. IsFiniteSet(InBackend \ {c})
  BY <1>1, FS_RemoveElement
<1> QED BY <1>1, <1>2, FS_CardinalityType, FS_EmptySet, FS_AddElement, FS_RemoveElement

\* The locks that are taken
LEMMA LockIs ==
    ASSUME ControlOK
    PROVE  /\ lock.for \in {"nothing", "scan", "poll"}
           /\ Unlocked \in Locks /\ Unlocked.for = "nothing"
           /\ lock = Unlocked <=> lock.for = "nothing"
           /\ lock.for = "scan" => /\ lock.left \subseteq Addr /\ lock.found \in Nat /\ lock.listed \in Nat
           /\ lock.for = "poll" => lock.ctx \in Ctx /\ lock.due \in Nat /\ lock.more \in BOOLEAN
<1>1. CASE lock \in [for : {"nothing"}]
  BY <1>1 DEF Unlocked, Locks
<1>2. CASE lock \in [for : {"scan"}, left : SUBSET Addr, found : Nat, listed : Nat]
  BY <1>2 DEF Unlocked, Locks
<1>3. CASE lock \in [for : {"poll"}, ctx : Ctx, due : Nat, more : BOOLEAN]
  BY <1>3 DEF Unlocked, Locks
<1> QED BY <1>1, <1>2, <1>3 DEF ControlOK, Locks

LEMMA ContextFrame ==
    ASSUME ContextInv, UNCHANGED <<monitor, initCount, ctxVars>>, uevents' \in Seq(Uevents),
           lock' \in Locks, lock'.for = "scan" <=> lock.for = "scan",
           lock'.for = "poll" => phase[lock'.ctx] = "ready"
    PROVE  ContextInv'
BY DEF ContextInv, ControlOK, UsersInv, MonitorInv, ctxVars, Initing, Active, InBackend

\* A message more or less
LEMMA UeventTypes ==
    ASSUME uevents \in Seq(Uevents)
    PROVE  /\ uevents # <<>> => Tail(uevents) \in Seq(Uevents) /\ Head(uevents) \in Uevents
           /\ \A a \in Addr, act \in {"add", "remove", "other"} :
                 Append(uevents, [act |-> act, at |-> a]) \in Seq(Uevents)
           /\ Len(uevents) \in Nat
<1>1. uevents # <<>> => Tail(uevents) \in Seq(Uevents) /\ Head(uevents) \in Uevents
  OBVIOUS
<1>2. ASSUME NEW a \in Addr, NEW act \in {"add", "remove", "other"}
      PROVE  Append(uevents, [act |-> act, at |-> a]) \in Seq(Uevents)
  <2>1. [act |-> act, at |-> a] \in Uevents
    BY DEF Uevents
  <2> QED BY <2>1
<1> QED BY <1>1, <1>2

LEMMA KernelContext ==
    ASSUME ContextInv, NEW a \in Addr, Plug(a) \/ Unplug(a) \/ OtherUevent
    PROVE  ContextInv'
<1>1. /\ UNCHANGED <<monitor, initCount, lock, ctxVars>>
      /\ uevents' = uevents \/ \E act \in {"add", "remove", "other"}, b \in Addr :
                                  uevents' = Append(uevents, [act |-> act, at |-> b])
  BY Constants DEF Plug, Unplug, OtherUevent, Uevent
<1>2. uevents' \in Seq(Uevents)
  BY <1>1, UeventTypes DEF ContextInv, ControlOK
<1> QED BY <1>1, <1>2, ContextFrame DEF ContextInv, ControlOK, MonitorInv

LEMMA DevicesContext ==
    ASSUME ContextInv, NEW c \in Ctx,
           MonitorReads \/ FreeDeviceList(c) \/ OpenGone(c) \/ HandleMessage(c)
    PROVE  ContextInv'
<1>1. /\ UNCHANGED <<monitor, initCount, lock, ctxVars>>
      /\ uevents' = uevents \/ (uevents # <<>> /\ uevents' = Tail(uevents))
  BY DEF MonitorReads, ReadMessage, FreeDeviceList, OpenGone, HandleMessage
<1>2. uevents' \in Seq(Uevents)
  BY <1>1, UeventTypes DEF ContextInv, ControlOK
<1> QED BY <1>1, <1>2, ContextFrame DEF ContextInv, ControlOK, MonitorInv

LEMMA PollContext ==
    ASSUME ContextInv, PollReads \/ GetDeviceList
    PROVE  ContextInv'
<1>1. UNCHANGED <<monitor, initCount, ctxVars>> /\ lock.for = "poll"
  BY DEF PollReads, GetDeviceList
<1>2. phase[lock.ctx] = "ready" /\ lock.ctx \in Ctx /\ lock.due \in Nat
  BY <1>1, LockIs DEF ContextInv, MonitorInv
<1>3. CASE GetDeviceList
  BY <1>1, <1>3, LockIs, ContextFrame DEF GetDeviceList, ContextInv, ControlOK
<1>4. CASE PollReads
  <2>1. lock' = [lock EXCEPT !.due = IF @ > 0 THEN @ - 1 ELSE 0, !.more = AboutDevice(Head(uevents))]
        /\ uevents # <<>> /\ uevents' = Tail(uevents)
    BY <1>4 DEF PollReads, ReadMessage
  <2>2. lock \in [for : {"poll"}, ctx : Ctx, due : Nat, more : BOOLEAN]
    BY <1>1 DEF ContextInv, ControlOK, Locks
  <2>3. (IF lock.due > 0 THEN lock.due - 1 ELSE 0) \in Nat /\ AboutDevice(Head(uevents)) \in BOOLEAN
    BY <1>2 DEF AboutDevice
  <2>4. lock' \in [for : {"poll"}, ctx : Ctx, due : Nat, more : BOOLEAN] /\ lock'.ctx = lock.ctx
    BY <2>1, <2>2, <2>3
  <2>5. lock' \in Locks /\ lock'.for = "poll"
    BY <2>4 DEF Locks
  <2>6. uevents' \in Seq(Uevents)
    BY <2>1, UeventTypes DEF ContextInv, ControlOK
  <2> QED BY <1>1, <1>2, <2>4, <2>5, <2>6, ContextFrame
<1> QED BY <1>3, <1>4

LEMMA PollBeginContext ==
    ASSUME ContextInv, NEW c \in Ctx, PollBegin(c)
    PROVE  ContextInv'
<1>1. UNCHANGED <<uevents, monitor, initCount, ctxVars>> /\ lock = Unlocked /\ phase[c] = "ready"
      /\ lock' = [for |-> "poll", ctx |-> c, due |-> Len(uevents), more |-> TRUE]
  BY DEF PollBegin
<1>2. Len(uevents) \in Nat
  BY UeventTypes DEF ContextInv, ControlOK
<1>3. lock' \in Locks /\ lock'.for = "poll" /\ lock'.ctx = c
  BY <1>1, <1>2 DEF Locks
<1> QED BY <1>1, <1>3, LockIs, ContextFrame DEF ContextInv, ControlOK

LEMMA InitContext ==
    ASSUME ContextInv, NEW c \in Ctx, InitAgain \/ InitBegin(c)
    PROVE  ContextInv'
<1> USE DEF ContextInv
<1>1. UNCHANGED <<uevents, monitor, initCount, lock>> /\ Initing = {}
  BY DEF InitAgain, InitBegin
<1>2. CASE InitAgain
  <2>1. /\ default # None /\ defaultUsers' = defaultUsers + 1 /\ UNCHANGED <<phase, default>>
        /\ users' = [users EXCEPT ![default] = @ + 1]
    BY <1>2 DEF InitAgain
  <2>2. default \in Ctx /\ phase[default] = "ready"
    BY <1>1, <2>1, PhaseIs DEF ControlOK, UsersInv
  <2>3. /\ users' \in [Ctx -> Nat] /\ users'[default] = users[default] + 1 /\ defaultUsers' \in Nat
        /\ \A d \in Ctx \ {default} : users'[d] = users[d]
    BY <2>1, <2>2 DEF ControlOK
  <2>4. UsersInv'
    BY <1>1, <2>1, <2>2, <2>3 DEF UsersInv, ControlOK, Initing, Active
  <2> QED BY <1>1, <2>1, <2>3, <2>4 DEF ControlOK, MonitorInv, InBackend
<1>3. CASE InitBegin(c)
  <2>1. /\ phase[c] = "none" /\ phase' = [phase EXCEPT ![c] = "active"] /\ users' = users
        /\ \/ default = None /\ default' = c /\ defaultUsers' = 1
           \/ default # None /\ UNCHANGED <<default, defaultUsers>>
    BY <1>3 DEF InitBegin
  <2>2. /\ phase' \in [Ctx -> Phases] /\ phase'[c] = "active" /\ InBackend' = InBackend \ {c}
        /\ \A d \in Ctx \ {c} : phase'[d] = phase[d]
    BY <2>1, SetPhase DEF Phases
  <2>3. ControlOK'
    BY <1>1, <2>1, <2>2 DEF ControlOK
  <2>4. Initing' = {c} /\ Active' = Active \cup {c}
    BY <1>1, <2>2 DEF Initing, Active
  <2>5. default # None => default # c
    BY <2>1 DEF UsersInv, Active
  <2>6. UsersInv'
    BY <2>1, <2>2, <2>4, <2>5, Constants DEF UsersInv
  <2>7. InBackend' = InBackend
    BY <2>1, <2>2 DEF InBackend
  <2>8. MonitorInv'
    <3>1. lock.for = "poll" => lock.ctx # c /\ lock.ctx \in Ctx
      BY <2>1, LockIs DEF MonitorInv
    <3>2. (\E d \in Ctx : phase'[d] = "scan") <=> (\E d \in Ctx : phase[d] = "scan")
      BY <2>1, <2>2
    <3> QED BY <1>1, <2>2, <2>7, <3>1, <3>2 DEF MonitorInv
  <2> QED BY <2>3, <2>6, <2>8
<1> QED BY <1>2, <1>3

LEMMA ScanContext ==
    ASSUME ContextInv, NEW c \in Ctx, ScanBegin(c) \/ ScanEntry(c) \/ ScanEnds(c)
    PROVE  ContextInv'
<1> USE DEF ContextInv
<1>1. UNCHANGED <<uevents, users, default, defaultUsers>>
  BY DEF ScanBegin, ScanEntry, ScanEnds, ctxVars
<1>2. CASE ScanBegin(c)
  <2>1. /\ phase[c] = "active" /\ phase' = [phase EXCEPT ![c] = "scan"] /\ monitor' = TRUE
        /\ lock = Unlocked /\ initCount' = initCount
        /\ lock' = [for |-> "scan", left |-> Entries, found |-> 0, listed |-> Cardinality(Entries)]
    BY <1>2 DEF ScanBegin, StartMonitor
  <2>2. /\ phase' \in [Ctx -> Phases] /\ phase'[c] = "scan" /\ InBackend' = InBackend \ {c}
        /\ \A d \in Ctx \ {c} : phase'[d] = phase[d]
    BY <2>1, SetPhase DEF Phases
  <2>3. Entries \subseteq Addr /\ Cardinality(Entries) \in Nat
    <3>1. IsFiniteSet(Port \cup {Hub})
      BY ConstantsAssumption, FS_AddElement DEF ConstantsAssumption
    <3>2. Entries \subseteq Port \cup {Hub}
      BY DEF Entries, Addr
    <3>3. IsFiniteSet(Entries)
      BY <3>1, <3>2, FS_Subset
    <3> QED BY <3>3, FS_CardinalityType DEF Entries
  <2>4. lock' \in Locks /\ lock'.for = "scan"
    BY <2>1, <2>3 DEF Locks
  <2>5. ControlOK'
    BY <1>1, <2>1, <2>2, <2>4 DEF ControlOK
  <2>6. Initing' = Initing /\ Active' = Active /\ InBackend' = InBackend
    BY <2>1, <2>2 DEF Initing, Active, InBackend
  <2>7. UsersInv'
    BY <1>1, <2>1, <2>2, <2>6 DEF UsersInv
  <2>8. MonitorInv'
    BY <1>1, <2>1, <2>2, <2>4, <2>6 DEF MonitorInv
  <2> QED BY <2>5, <2>7, <2>8
<1>3. CASE ScanEntry(c)
  <2>1. PICK a \in lock.left :
          lock' = [lock EXCEPT !.left = @ \ {a}, !.found = IF Readable(a) THEN @ + 1 ELSE @]
    BY <1>3 DEF ScanEntry
  <2>2. phase[c] = "scan" /\ UNCHANGED <<monitor, initCount, ctxVars>>
    BY <1>3 DEF ScanEntry
  <2>3. lock.for = "scan"
    BY <2>2 DEF MonitorInv
  <2>4. lock \in [for : {"scan"}, left : SUBSET Addr, found : Nat, listed : Nat]
    BY <2>3 DEF ControlOK, Locks
  <2>5. lock' \in [for : {"scan"}, left : SUBSET Addr, found : Nat, listed : Nat]
    <3>1. (lock.left \ {a}) \in SUBSET Addr /\ (IF Readable(a) THEN lock.found + 1 ELSE lock.found) \in Nat
      BY <2>4
    <3> QED BY <2>1, <2>4, <3>1
  <2>6. lock' \in Locks /\ lock'.for = "scan"
    BY <2>5 DEF Locks
  <2> QED BY <1>1, <2>2, <2>3, <2>6, ContextFrame DEF ControlOK
<1>4. CASE ScanEnds(c)
  <2>1. /\ phase[c] = "scan" /\ phase' = [phase EXCEPT ![c] = "io"]
        /\ lock' = Unlocked /\ monitor' = monitor /\ initCount' = initCount + 1
    BY <1>4 DEF ScanEnds
  <2>2. /\ phase' \in [Ctx -> Phases] /\ phase'[c] = "io" /\ InBackend' = InBackend \cup {c}
        /\ \A d \in Ctx \ {c} : phase'[d] = phase[d]
    BY <2>1, SetPhase DEF Phases
  <2>3. ControlOK'
    BY <1>1, <2>1, <2>2, LockIs DEF ControlOK
  <2>4. Initing' = Initing /\ Active' = Active /\ c \notin InBackend
    BY <2>1, <2>2 DEF Initing, Active, InBackend
  <2>5. UsersInv'
    BY <1>1, <2>1, <2>2, <2>4 DEF UsersInv
  <2>6. Cardinality(InBackend') = initCount'
    BY <2>1, <2>2, <2>4, InBackendCount DEF MonitorInv
  <2>7. \A d \in Ctx : phase'[d] # "scan"
    BY <2>1, <2>2 DEF UsersInv, Initing
  <2>8. MonitorInv'
    BY <2>1, <2>2, <2>6, <2>7, LockIs DEF MonitorInv
  <2> QED BY <2>3, <2>5, <2>8
<1> QED BY <1>2, <1>3, <1>4

LEMMA IoContext ==
    ASSUME ContextInv, NEW c \in Ctx, IoLists(c) \/ IoPipe(c)
    PROVE  ContextInv'
<1> USE DEF ContextInv
<1>1. UNCHANGED <<uevents, default, defaultUsers, monitor, initCount, lock>>
  BY DEF IoLists, IoPipe
<1>2. CASE IoLists(c)
  <2>1. phase[c] = "io" /\ phase' = [phase EXCEPT ![c] = "lists"] /\ users' = users
    BY <1>2 DEF IoLists
  <2>2. /\ phase' \in [Ctx -> Phases] /\ phase'[c] = "lists" /\ InBackend' = InBackend \cup {c}
        /\ \A d \in Ctx \ {c} : phase'[d] = phase[d]
    BY <2>1, SetPhase DEF Phases
  <2>3. Initing' = Initing /\ Active' = Active /\ InBackend' = InBackend
        /\ ((\E d \in Ctx : phase'[d] = "scan") <=> (\E d \in Ctx : phase[d] = "scan"))
    BY <2>1, <2>2 DEF Initing, Active, InBackend
  <2>4. ControlOK' /\ UsersInv'
    BY <1>1, <2>1, <2>2, <2>3 DEF ControlOK, UsersInv
  <2>5. MonitorInv'
    <3>1. lock.for = "poll" => lock.ctx # c /\ lock.ctx \in Ctx
      BY <2>1, LockIs DEF MonitorInv
    <3> QED BY <1>1, <2>2, <2>3, <3>1 DEF MonitorInv
  <2> QED BY <2>4, <2>5
<1>3. CASE IoPipe(c)
  <2>1. phase[c] = "lists" /\ phase' = [phase EXCEPT ![c] = "ready"] /\ users' = [users EXCEPT ![c] = 1]
    BY <1>3 DEF IoPipe
  <2>2. /\ phase' \in [Ctx -> Phases] /\ phase'[c] = "ready" /\ InBackend' = InBackend \cup {c}
        /\ \A d \in Ctx \ {c} : phase'[d] = phase[d]
    BY <2>1, SetPhase DEF Phases
  <2>3. Initing' = Initing \ {c} /\ c \in Initing /\ Active' = Active /\ InBackend' = InBackend
        /\ ((\E d \in Ctx : phase'[d] = "scan") <=> (\E d \in Ctx : phase[d] = "scan"))
    BY <2>1, <2>2 DEF Initing, Active, InBackend
  <2>4. users' \in [Ctx -> Nat] /\ users'[c] = 1 /\ \A d \in Ctx \ {c} : users'[d] = users[d]
    BY <2>1 DEF ControlOK
  <2>5. ControlOK'
    BY <1>1, <2>2, <2>4 DEF ControlOK
  <2>6. UsersInv'
    BY <1>1, <2>1, <2>2, <2>3, <2>4, Constants DEF UsersInv
  <2>7. MonitorInv'
    <3>1. lock.for = "poll" => lock.ctx # c /\ lock.ctx \in Ctx
      BY <2>1, LockIs DEF MonitorInv
    <3> QED BY <1>1, <2>2, <2>3, <3>1 DEF MonitorInv
  <2> QED BY <2>5, <2>6, <2>7
<1> QED BY <1>2, <1>3

\* The last context to leave stops the monitor, and what it had not read is lost.
LEMMA StopMonitorUevents ==
    ASSUME ContextInv, NEW last \in BOOLEAN, StopMonitor(last)
    PROVE  /\ uevents' \in Seq(Uevents) /\ monitor' \in BOOLEAN
           /\ last => ~monitor' /\ uevents' = <<>>
           /\ ~last => monitor' = monitor /\ uevents' = uevents
<1>1. <<>> \in Seq(Uevents) /\ uevents \in Seq(Uevents) /\ monitor \in BOOLEAN
  BY DEF ContextInv, ControlOK
<1>2. CASE last
  BY <1>1, <1>2 DEF StopMonitor
<1>3. CASE ~last
  <2>1. monitor' = monitor /\ uevents' = uevents
    BY <1>1, <1>3 DEF StopMonitor
  <2> QED BY <1>1, <1>3, <2>1
<1> QED BY <1>2, <1>3

LEMMA InitFailsContext ==
    ASSUME ContextInv, NEW c \in Ctx, InitFails(c)
    PROVE  ContextInv'
<1> USE DEF ContextInv
<1> DEFINE n == IF Entered(c) THEN initCount - 1 ELSE initCount
<1>1. /\ c \in Initing /\ initCount' = n /\ StopMonitor(n = 0) /\ users' = users
      /\ lock' = IF phase[c] = "scan" THEN Unlocked ELSE lock
      /\ phase' = [phase EXCEPT ![c] = "none"]
      /\ \/ default = c /\ default' = None /\ defaultUsers' = defaultUsers - 1
         \/ default # c /\ UNCHANGED <<default, defaultUsers>>
  BY DEF InitFails
<1>2. /\ phase' \in [Ctx -> Phases] /\ phase'[c] = "none" /\ InBackend' = InBackend \ {c}
      /\ \A d \in Ctx \ {c} : phase'[d] = phase[d]
  BY <1>1, SetPhase DEF Phases
<1>3. Initing = {c} /\ Initing' = {} /\ Active' = Active \ {c}
  BY <1>1, <1>2 DEF UsersInv, Initing, Active
<1>4. n = Cardinality(InBackend') /\ n \in Nat /\ (n = 0 <=> InBackend' = {})
  <2>1. Entered(c) <=> c \in InBackend
    BY <1>1, PhaseIs DEF Entered
  <2>2. CASE c \in InBackend
    <3>1. n = Cardinality(InBackend) - 1
      BY <2>1, <2>2 DEF MonitorInv
    <3> HIDE DEF n
    <3> QED BY <1>2, <2>2, <3>1, InBackendCount
  <2>3. CASE c \notin InBackend
    <3>1. InBackend \ {c} = InBackend
      BY <2>3
    <3>2. n = Cardinality(InBackend)
      BY <2>1, <2>3 DEF MonitorInv
    <3> HIDE DEF n
    <3> QED BY <1>2, <3>1, <3>2, InBackendCount
  <2> QED BY <2>2, <2>3
<1>5. /\ uevents' \in Seq(Uevents) /\ monitor' \in BOOLEAN
      /\ n = 0 => ~monitor'
      /\ n # 0 => monitor' = monitor
  BY <1>1, StopMonitorUevents
<1>6. default = c => defaultUsers = 1
  BY <1>3, Constants DEF UsersInv
<1> HIDE DEF n
<1>7. ControlOK'
  BY <1>1, <1>2, <1>4, <1>5, <1>6, LockIs DEF ControlOK
<1>8. UsersInv'
  BY <1>1, <1>2, <1>3, <1>6, PhaseIs, Constants DEF UsersInv
<1>9. \A d \in Ctx : phase'[d] # "scan"
  BY <1>3 DEF Initing
<1>10. lock'.for # "scan" /\ (lock'.for = "poll" => lock' = lock /\ lock.for = "poll")
  <2>1. lock.for = "scan" => phase[c] = "scan"
    BY <1>3 DEF MonitorInv, Initing
  <2> QED BY <1>1, <2>1, LockIs
<1>11. lock.for = "poll" => lock.ctx \in Ctx \ {c}
  <2>1. phase[c] # "ready"
    BY <1>1 DEF Initing
  <2> QED BY <2>1, LockIs DEF MonitorInv
<1>12. monitor' <=> InBackend' # {}
  BY <1>2, <1>4, <1>5 DEF MonitorInv
<1>13. MonitorInv'
  BY <1>1, <1>2, <1>4, <1>9, <1>10, <1>11, <1>12 DEF MonitorInv
<1> QED BY <1>7, <1>8, <1>13

LEMMA ExitContext ==
    ASSUME ContextInv, NEW c \in Ctx, ExitAgain(c) \/ ExitBegin(c) \/ ExitDevices(c)
    PROVE  ContextInv'
<1> USE DEF ContextInv
<1>1. UNCHANGED <<uevents, monitor, initCount, lock>>
  BY DEF ExitAgain, ExitBegin, ExitDevices
<1>2. CASE ExitAgain(c)
  <2>1. /\ phase[c] = "ready" /\ c = default /\ defaultUsers > 1 /\ defaultUsers' = defaultUsers - 1
        /\ users' = [users EXCEPT ![c] = @ - 1] /\ UNCHANGED <<phase, default>>
    BY <1>2 DEF ExitAgain, StillUsed
  <2>2. users[c] = defaultUsers
    BY <2>1 DEF UsersInv
  <2>3. users' \in [Ctx -> Nat] /\ users'[c] = defaultUsers' /\ defaultUsers' \in Nat /\ defaultUsers' > 0
        /\ \A d \in Ctx \ {c} : users'[d] = users[d]
    BY <2>1, <2>2 DEF ControlOK
  <2>4. ControlOK' /\ MonitorInv'
    BY <1>1, <2>1, <2>3 DEF ControlOK, MonitorInv, InBackend
  <2>5. UsersInv'
    BY <2>1, <2>3 DEF UsersInv, Initing, Active
  <2> QED BY <2>4, <2>5
<1>3. CASE ExitBegin(c)
  <2>1. /\ Initing = {} /\ phase[c] = "ready" /\ (lock.for = "poll" => lock.ctx # c) /\ ~StillUsed(c)
        /\ users' = [users EXCEPT ![c] = @ - 1] /\ phase' = [phase EXCEPT ![c] = "exiting"]
        /\ \/ default = c /\ default' = None /\ defaultUsers' = 0
           \/ default # c /\ UNCHANGED <<default, defaultUsers>>
    BY <1>3 DEF ExitBegin
  <2>2. /\ phase' \in [Ctx -> Phases] /\ phase'[c] = "exiting" /\ InBackend' = InBackend \cup {c}
        /\ \A d \in Ctx \ {c} : phase'[d] = phase[d]
    BY <2>1, SetPhase DEF Phases
  <2>3. users[c] = 1
    BY <2>1, Constants DEF UsersInv, StillUsed, ControlOK
  <2>4. users' \in [Ctx -> Nat] /\ users'[c] = 0 /\ \A d \in Ctx \ {c} : users'[d] = users[d]
    BY <2>1, <2>3 DEF ControlOK
  <2>5. ControlOK'
    BY <1>1, <2>1, <2>2, <2>4 DEF ControlOK
  <2>6. Initing' = {} /\ Active' = Active \ {c} /\ InBackend' = InBackend
    BY <2>1, <2>2 DEF Initing, Active, InBackend
  <2>7. UsersInv'
    BY <2>1, <2>2, <2>4, <2>6, Constants DEF UsersInv
  <2>8. (\E d \in Ctx : phase'[d] = "scan") <=> (\E d \in Ctx : phase[d] = "scan")
    BY <2>1, <2>2
  <2>9. MonitorInv'
    BY <1>1, <2>1, <2>2, <2>6, <2>8, LockIs DEF MonitorInv
  <2> QED BY <2>5, <2>7, <2>9
<1>4. CASE ExitDevices(c)
  <2>1. /\ phase[c] = "exiting" /\ phase' = [phase EXCEPT ![c] = "closing"]
        /\ UNCHANGED <<users, default, defaultUsers>>
    BY <1>4 DEF ExitDevices
  <2>2. /\ phase' \in [Ctx -> Phases] /\ phase'[c] = "closing" /\ InBackend' = InBackend \cup {c}
        /\ \A d \in Ctx \ {c} : phase'[d] = phase[d]
    BY <2>1, SetPhase DEF Phases
  <2>3. Initing' = Initing /\ Active' = Active /\ InBackend' = InBackend
        /\ ((\E d \in Ctx : phase'[d] = "scan") <=> (\E d \in Ctx : phase[d] = "scan"))
    BY <2>1, <2>2 DEF Initing, Active, InBackend
  <2>4. lock.for = "poll" => lock.ctx \in Ctx \ {c}
    BY <2>1, LockIs DEF MonitorInv
  <2> QED BY <1>1, <2>1, <2>2, <2>3, <2>4 DEF ControlOK, UsersInv, MonitorInv
<1> QED BY <1>2, <1>3, <1>4

LEMMA ExitBackendContext ==
    ASSUME ContextInv, NEW c \in Ctx, ExitBackend(c)
    PROVE  ContextInv'
<1> USE DEF ContextInv
<1>1. /\ phase[c] = "closing" /\ lock.for # "scan" /\ phase' = [phase EXCEPT ![c] = "none"]
      /\ initCount' = initCount - 1 /\ StopMonitor(initCount = 1)
      /\ UNCHANGED <<lock, users, default, defaultUsers>>
  BY DEF ExitBackend
<1>2. /\ phase' \in [Ctx -> Phases] /\ phase'[c] = "none" /\ InBackend' = InBackend \ {c}
      /\ \A d \in Ctx \ {c} : phase'[d] = phase[d]
  BY <1>1, SetPhase DEF Phases
<1>3. Initing' = Initing /\ Active' = Active /\ c \in InBackend
      /\ (\A d \in Ctx : phase[d] # "scan") /\ (\A d \in Ctx : phase'[d] # "scan")
  <2>1. \A d \in Ctx : phase[d] # "scan"
    BY <1>1 DEF MonitorInv
  <2> QED BY <1>1, <1>2, <2>1 DEF Initing, Active, InBackend
<1>4. initCount' = Cardinality(InBackend') /\ initCount' \in Nat /\ (initCount' = 0 <=> InBackend' = {})
  <2>1. initCount' = Cardinality(InBackend) - 1
    BY <1>1 DEF MonitorInv
  <2> QED BY <1>2, <1>3, <2>1, InBackendCount
<1>5. /\ uevents' \in Seq(Uevents) /\ monitor' \in BOOLEAN
      /\ initCount = 1 => ~monitor'
      /\ initCount # 1 => monitor' = monitor
  BY <1>1, StopMonitorUevents
<1>6. ControlOK' /\ UsersInv'
  BY <1>1, <1>2, <1>3, <1>4, <1>5 DEF ControlOK, UsersInv
<1>7. monitor' <=> InBackend' # {}
  BY <1>1, <1>2, <1>3, <1>4, <1>5 DEF MonitorInv, ControlOK
<1>8. lock.for = "poll" => lock.ctx \in Ctx \ {c}
  BY <1>1, LockIs DEF MonitorInv
<1> QED BY <1>1, <1>2, <1>3, <1>4, <1>6, <1>7, <1>8 DEF MonitorInv

LEMMA InitContextInv == Init => ContextInv
<1> SUFFICES ASSUME Init PROVE ContextInv
  OBVIOUS
<1>1. /\ uevents = <<>> /\ monitor = FALSE /\ initCount = 0 /\ lock = Unlocked
      /\ phase = [c \in Ctx |-> "none"] /\ users = [c \in Ctx |-> 0]
      /\ default = None /\ defaultUsers = 0
  BY DEF Init
<1>2. Unlocked \in Locks /\ Unlocked.for = "nothing"
  BY DEF Unlocked, Locks
<1>3. ControlOK
  <2>1. <<>> \in Seq(Uevents)
    OBVIOUS
  <2> QED BY <1>1, <1>2, <2>1 DEF ControlOK, Phases
<1>4. InBackend = {} /\ Initing = {}
  BY <1>1 DEF InBackend, Initing
<1> QED BY <1>1, <1>2, <1>3, <1>4, FS_EmptySet DEF ContextInv, UsersInv, MonitorInv

LEMMA NextContextInv ==
    ASSUME ContextInv, [Next]_vars
    PROVE  ContextInv'
<1>1. CASE UNCHANGED vars
  <2>1. UNCHANGED <<uevents, monitor, initCount, lock, ctxVars>>
    BY <1>1 DEF vars
  <2> QED BY <2>1, ContextFrame DEF ContextInv, ControlOK, MonitorInv
<1>2. ASSUME NEW a \in Addr, Plug(a) \/ Unplug(a) \/ OtherUevent PROVE ContextInv'
  BY <1>2, KernelContext
<1>3. ASSUME NEW c \in Ctx,
             MonitorReads \/ FreeDeviceList(c) \/ OpenGone(c) \/ HandleMessage(c) PROVE ContextInv'
  BY <1>3, DevicesContext
<1>4. CASE MonitorReads
  <2>1. /\ UNCHANGED <<monitor, initCount, lock, ctxVars>> /\ uevents # <<>> /\ uevents' = Tail(uevents)
    BY <1>4 DEF MonitorReads, ReadMessage
  <2> QED BY <2>1, UeventTypes, ContextFrame DEF ContextInv, ControlOK, MonitorInv
<1>5. CASE PollReads \/ GetDeviceList
  BY <1>5, PollContext
<1>6. CASE InitAgain
  <2>1. default \in Ctx
    BY <1>6 DEF InitAgain, ContextInv, ControlOK
  <2> QED BY <1>6, <2>1, InitContext
<1>7. ASSUME NEW c \in Ctx, InitBegin(c) PROVE ContextInv'
  BY <1>7, InitContext
<1>8. ASSUME NEW c \in Ctx, ScanBegin(c) \/ ScanEntry(c) \/ ScanEnds(c) PROVE ContextInv'
  BY <1>8, ScanContext
<1>9. ASSUME NEW c \in Ctx, IoLists(c) \/ IoPipe(c) \/ InitFails(c) \/ PollBegin(c) PROVE ContextInv'
  BY <1>9, IoContext, InitFailsContext, PollBeginContext
<1>10. ASSUME NEW c \in Ctx, ExitAgain(c) \/ ExitBegin(c) \/ ExitDevices(c) \/ ExitBackend(c) PROVE ContextInv'
  BY <1>10, ExitContext, ExitBackendContext
<1> QED BY <1>1, <1>2, <1>3, <1>4, <1>5, <1>6, <1>7, <1>8, <1>9, <1>10, Constants DEF Next

\* However inits and exits overlap, and whatever uevents come when, a context is
\* there while an init of it is not paid back, and the monitor while a context
\* relies on it.
THEOREM KeptWhileRelied == Spec => []KeptWhileUsed
<1>1. Spec => []ContextInv
  BY InitContextInv, NextContextInv, PTL DEF Spec
<1>2. ContextInv => KeptWhileUsed
  <2> SUFFICES ASSUME ContextInv PROVE KeptWhileUsed
    OBVIOUS
  <2>1. \A c \in Ctx : users[c] > 0 <=> phase[c] = "ready"
    BY Constants DEF ContextInv, ControlOK, UsersInv
  <2>2. initCount = Cardinality({c \in Ctx : phase[c] \in {"io", "lists", "ready", "exiting", "closing"}})
    BY DEF ContextInv, MonitorInv, InBackend
  <2>3. initCount > 0 <=> InBackend # {}
    <3>1. IsFiniteSet(InBackend)
      BY Constants, FS_Subset DEF InBackend
    <3> QED BY <3>1, FS_EmptySet, FS_CardinalityType DEF ContextInv, MonitorInv
  <2> QED BY <2>1, <2>2, <2>3 DEF ContextInv, MonitorInv, KeptWhileUsed
<1> QED BY <1>1, <1>2, PTL

----------------------------------------------------------------------------
(* Counting references.                                                    *)

LEMMA ChildrenCount ==
    ASSUME NEW ds, NEW s \in Slot
    PROVE  /\ IsFiniteSet(Children(ds, s)) /\ Cardinality(Children(ds, s)) \in Nat
           /\ Cardinality(Children(ds, s)) = 0 <=> Children(ds, s) = {}
<1>1. IsFiniteSet(Children(ds, s))
  BY Constants, FS_Subset DEF Children
<1> QED BY <1>1, FS_CardinalityType, FS_EmptySet

LEMMA Nobody == NoDev \in Devices /\ NoDev.refs = 0 /\ NoDev.parent = 0 /\ NoDev.at = None
BY Constants DEF NoDev, Devices

\* A device that others refer to, or with a child, is there, and a child has none.
LEMMA BalancedIs ==
    ASSUME NEW ds, NEW held \in [Slot -> Nat], Balanced(ds, held), NEW s \in Slot
    PROVE  /\ ds[s] \in Devices /\ ds[s].refs \in Nat /\ ds[s].parent \in 0..MaxSlots
           /\ held[s] > 0 => ds[s].refs > 0
           /\ Children(ds, s) # {} => ds[s].refs > 0 /\ ds[s].at = Hub
           /\ ds[s].refs = 0 => held[s] = 0 /\ ds[s] = NoDev /\ Children(ds, s) = {}
           /\ ds[s].parent # 0 => ds[s].refs > 0 /\ ds[s].parent \in Slot /\ ds[s].at \in Port
                                  /\ Children(ds, s) = {} /\ ds[s].refs = held[s]
                                  /\ s \in Children(ds, ds[s].parent)
<1>1. ds[s] \in Devices /\ ds[s].refs \in Nat /\ ds[s].parent \in 0..MaxSlots
  BY DEF Balanced, Tree, Devices
<1>2. ds[s].refs = held[s] + Cardinality(Children(ds, s)) /\ held[s] \in Nat
      /\ Cardinality(Children(ds, s)) \in Nat /\ (Cardinality(Children(ds, s)) = 0 <=> Children(ds, s) = {})
  BY ChildrenCount DEF Balanced
<1>3. ds[s].refs = 0 => ds[s] = NoDev
  BY DEF Balanced, Tree
<1>4. ASSUME Children(ds, s) # {} PROVE ds[s].at = Hub
  <2>1. PICK k \in Slot : ds[k].refs > 0 /\ ds[k].parent = s
    BY <1>4 DEF Children
  <2> QED BY <2>1, Constants DEF Balanced, Tree
<1>5. ASSUME ds[s].parent # 0 
      PROVE  ds[s].refs > 0 /\ ds[s].parent \in Slot /\ ds[s].at \in Port
             /\ s \in Children(ds, ds[s].parent)
  <2>1. ds[s].refs > 0
    BY <1>1, <1>3, <1>5, Nobody
  <2>2. ds[s].at \in Port
    BY <1>5, <2>1 DEF Balanced, Tree
  <2>3. ds[s].parent \in Slot
    BY <1>1, <1>5, Constants DEF Slot
  <2> QED BY <2>1, <2>2, <2>3 DEF Children
<1>6. ds[s].parent # 0 => Children(ds, s) = {}
  BY <1>4, <1>5, Constants
<1> QED BY <1>1, <1>2, <1>3, <1>4, <1>5, <1>6

\* The references that others hold, when each device of S gets or loses one
Adds(after, held, S) == \A s \in Slot : after[s] = IF s \in S THEN held[s] + 1 ELSE held[s]
Drops(after, held, S) == \A s \in Slot : after[s] = IF s \in S THEN held[s] - 1 ELSE held[s]

\* Which devices the slots of S hold is not changed.
SameDevices(e, ds, S) ==
    \A s \in S : /\ e[s].refs > 0 <=> ds[s].refs > 0
                 /\ ds[s] = NoDev => e[s] = NoDev
                 /\ e[s].at = ds[s].at /\ e[s].gen = ds[s].gen /\ e[s].parent = ds[s].parent

\* What is left of ds is as it was.
Remnant(e, ds) ==
    \A s \in Slot : e[s].refs > 0 => /\ ds[s].refs > 0 /\ e[s].at = ds[s].at
                                     /\ e[s].gen = ds[s].gen /\ e[s].parent = ds[s].parent

\* What is left of the references of s when each device of S loses one
Remaining(ds, S, s) ==
    ds[s].refs - (IF s \in S THEN 1 ELSE 0) - Cardinality(Orphaned(ds, S, s))

\* Whatever is dereferenced: the references of the others and of the children stay
\* counted, and only what nobody refers to is destroyed.
LEMMA UnrefBalanced ==
    ASSUME NEW ds, NEW held \in [Slot -> Nat], Balanced(ds, held),
           NEW S \in SUBSET Slot, \A s \in S : held[s] > 0,
           NEW after, Drops(after, held, S), NEW e, e = UnrefAll(ds, S)
    PROVE  Balanced(e, after) /\ Remnant(e, ds)
<1> USE DEF Drops
<1>0. \A s \in Slot : e[s] = IF ds[s].refs > 0 /\ Remaining(ds, S, s) = 0 THEN NoDev
                             ELSE [ds[s] EXCEPT !.refs = Remaining(ds, S, s)]
  BY DEF UnrefAll, Remaining
<1>1. \A s \in Slot : Orphaned(ds, S, s) \subseteq Children(ds, s)
  BY DEF Orphaned, Children
<1>2. \A s \in Slot : /\ IsFiniteSet(Orphaned(ds, S, s)) /\ Cardinality(Orphaned(ds, S, s)) \in Nat
                      /\ Cardinality(Orphaned(ds, S, s)) <= Cardinality(Children(ds, s))
                      /\ Children(ds, s) = {} => Cardinality(Orphaned(ds, S, s)) = 0
                      /\ Cardinality(Children(ds, s) \ Orphaned(ds, S, s))
                            = Cardinality(Children(ds, s)) - Cardinality(Orphaned(ds, S, s))
  <2> TAKE s \in Slot
  <2>1. IsFiniteSet(Children(ds, s)) /\ Cardinality(Children(ds, s)) \in Nat
    BY ChildrenCount
  <2>2. /\ IsFiniteSet(Orphaned(ds, S, s))
        /\ Cardinality(Orphaned(ds, S, s)) <= Cardinality(Children(ds, s))
    BY <1>1, <2>1, FS_Subset
  <2>3. Cardinality(Orphaned(ds, S, s)) \in Nat
    BY <2>2, FS_CardinalityType
  <2>4. Children(ds, s) = {} => Cardinality(Orphaned(ds, S, s)) = 0
    <3>1. Children(ds, s) = {} => Orphaned(ds, S, s) = {}
      BY <1>1
    <3> QED BY <3>1, FS_EmptySet
  <2>5. Cardinality(Children(ds, s) \ Orphaned(ds, S, s))
            = Cardinality(Children(ds, s)) - Cardinality(Orphaned(ds, S, s))
    <3>1. Children(ds, s) \cap Orphaned(ds, S, s) = Orphaned(ds, S, s)
      BY <1>1
    <3>2. Cardinality(Children(ds, s) \ Orphaned(ds, S, s))
            = Cardinality(Children(ds, s)) - Cardinality(Children(ds, s) \cap Orphaned(ds, S, s))
      BY <2>1, FS_Difference
    <3> QED BY <3>1, <3>2
  <2> QED BY <2>2, <2>3, <2>4, <2>5
<1>3. \A s \in Slot : /\ Remaining(ds, S, s) = after[s] + Cardinality(Children(ds, s) \ Orphaned(ds, S, s))
                      /\ after[s] \in Nat
                      /\ Remaining(ds, S, s) \in Nat
  <2> TAKE s \in Slot
  <2>1. ds[s].refs = held[s] + Cardinality(Children(ds, s)) /\ held[s] \in Nat
        /\ Cardinality(Children(ds, s)) \in Nat
    BY ChildrenCount DEF Balanced
  <2> DEFINE n == IF s \in S THEN 1 ELSE 0
             o == Cardinality(Orphaned(ds, S, s))  m == Cardinality(Children(ds, s))
             l == Cardinality(Children(ds, s) \ Orphaned(ds, S, s))
  <2>2. Remaining(ds, S, s) = ds[s].refs - n - o
    BY DEF Remaining
  <2>3. n \in Nat /\ after[s] = held[s] - n /\ after[s] \in Nat
    BY <2>1
  <2>4. o \in Nat /\ o <= m /\ l = m - o
    BY <1>2
  <2>5. m \in Nat /\ ds[s].refs = held[s] + m
    BY <2>1
  <2> HIDE DEF n, o, m, l
  <2>6. Remaining(ds, S, s) = after[s] + l /\ Remaining(ds, S, s) \in Nat
    BY <2>1, <2>2, <2>3, <2>4, <2>5
  <2> QED BY <2>3, <2>6 DEF l
<1>4. \A s \in Slot : ds[s].refs = 0 => s \notin S /\ Remaining(ds, S, s) = 0 /\ ds[s] = NoDev
  <2> SUFFICES ASSUME NEW s \in Slot, ds[s].refs = 0
               PROVE  s \notin S /\ Remaining(ds, S, s) = 0 /\ ds[s] = NoDev
    OBVIOUS
  <2>1. held[s] = 0 /\ ds[s] = NoDev /\ Children(ds, s) = {}
    BY BalancedIs
  <2> QED BY <1>2, <2>1 DEF Remaining
<1>5. \A s \in Slot : /\ e[s] \in Devices /\ e[s].refs = Remaining(ds, S, s)
                      /\ e[s].refs = 0 => e[s] = NoDev
                      /\ e[s].refs > 0 => /\ ds[s].refs > 0 /\ e[s].at = ds[s].at
                                          /\ e[s].gen = ds[s].gen /\ e[s].parent = ds[s].parent
  <2> TAKE s \in Slot
  <2>1. ds[s] \in Devices /\ ds[s].refs \in Nat /\ Remaining(ds, S, s) \in Nat
    BY <1>3, BalancedIs
  <2>2. CASE ds[s].refs > 0 /\ Remaining(ds, S, s) = 0
    <3>1. e[s] = NoDev
      BY <1>0, <2>2
    <3> HIDE DEF Remaining
    <3> QED BY <2>2, <3>1, Nobody
  <2>3. CASE ds[s].refs = 0
    <3>1. e[s] = [NoDev EXCEPT !.refs = 0]
      BY <1>0, <1>4, <2>3
    <3>2. e[s] = NoDev
      BY <3>1 DEF NoDev
    <3> QED BY <1>4, <2>3, <3>2, Nobody
  <2>4. CASE ds[s].refs > 0 /\ Remaining(ds, S, s) # 0
    <3>1. e[s] = [ds[s] EXCEPT !.refs = Remaining(ds, S, s)]
      BY <1>0, <2>4
    <3> QED BY <2>1, <2>4, <3>1 DEF Devices
  <2> QED BY <2>1, <2>2, <2>3, <2>4
<1>6. \A s \in Slot : Children(e, s) = Children(ds, s) \ Orphaned(ds, S, s)
  <2> SUFFICES ASSUME NEW s \in Slot, NEW k \in Slot
               PROVE  k \in Children(e, s) <=> k \in Children(ds, s) \ Orphaned(ds, S, s)
    BY DEF Children
  <2>1. CASE k \in Children(ds, s)
    <3>1. ds[k].refs > 0 /\ ds[k].parent = s /\ s # 0
      BY <2>1, Constants DEF Children
    <3>2. Children(ds, k) = {} /\ ds[k].refs \in Nat
      BY <3>1, BalancedIs
    <3>3. Remaining(ds, S, k) = ds[k].refs - (IF k \in S THEN 1 ELSE 0)
      <4>1. Cardinality(Orphaned(ds, S, k)) = 0
        BY <1>2, <3>2
      <4> DEFINE x == IF k \in S THEN 1 ELSE 0
      <4>2. Remaining(ds, S, k) = ds[k].refs - x - 0
        BY <4>1 DEF Remaining
      <4>3. x \in Nat
        OBVIOUS
      <4> HIDE DEF x
      <4>4. Remaining(ds, S, k) = ds[k].refs - x
        BY <3>2, <4>2, <4>3
      <4> QED BY <4>4 DEF x
    <3>4. e[k].refs > 0 <=> ~(k \in S /\ ds[k].refs = 1)
      BY <1>5, <3>1, <3>2, <3>3
    <3> QED BY <1>5, <2>1, <3>1, <3>4 DEF Children, Orphaned
  <2>2. CASE k \notin Children(ds, s)
    BY <1>5, <2>2 DEF Children
  <2> QED BY <2>1, <2>2
<1>7. \A s \in Slot : e[s].refs = after[s] + Cardinality(Children(e, s)) /\ after[s] \in Nat
  BY <1>3, <1>5, <1>6
<1>8. Tree(e)
  <2>1. e \in [Slot -> Devices]
    <3>1. e = [s \in Slot |-> e[s]]
      BY DEF UnrefAll
    <3> QED BY <1>5, <3>1
  <2>2. ASSUME NEW s \in Slot, e[s].refs > 0
        PROVE  /\ e[s].at \in Addr
               /\ e[s].parent # 0 => e[s].at \in Port /\ e[e[s].parent].at = Hub
    <3>1. ds[s].refs > 0 /\ e[s].at = ds[s].at /\ e[s].parent = ds[s].parent
      BY <1>5, <2>2
    <3>2. ds[s].at \in Addr
      BY <3>1 DEF Balanced, Tree
    <3>3. ASSUME e[s].parent # 0 PROVE e[s].at \in Port /\ e[e[s].parent].at = Hub
      <4> DEFINE q == ds[s].parent
      <4>1. q \in Slot /\ ds[s].at \in Port /\ s \in Children(ds, q)
        BY <3>1, <3>3, BalancedIs
      <4>2. s \in Children(e, q) /\ ds[q].at = Hub
        BY <2>2, <3>1, <4>1, BalancedIs DEF Children
      <4>3. Cardinality(Children(e, q)) \in Nat /\ Cardinality(Children(e, q)) # 0
        BY <4>1, <4>2, ChildrenCount
      <4>4. e[q].refs > 0
        BY <1>7, <4>1, <4>3
      <4> QED BY <1>5, <3>1, <4>1, <4>2, <4>4
    <3> QED BY <3>1, <3>2, <3>3
  <2> QED BY <1>5, <2>1, <2>2 DEF Tree
<1> QED BY <1>5, <1>7, <1>8 DEF Balanced, Remnant

LEMMA RefBalanced ==
    ASSUME NEW ds, NEW held \in [Slot -> Nat], Balanced(ds, held),
           NEW S \in SUBSET Slot, \A s \in S : ds[s].refs > 0,
           NEW after, Adds(after, held, S), NEW e, e = RefAll(ds, S)
    PROVE  Balanced(e, after) /\ SameDevices(e, ds, Slot)
<1> USE DEF Adds
<1>1. \A s \in Slot : ds[s] \in Devices /\ ds[s].refs \in Nat
  BY BalancedIs
<1>2. \A s \in Slot : /\ e[s] \in Devices /\ e[s].refs = IF s \in S THEN ds[s].refs + 1 ELSE ds[s].refs
                      /\ e[s].refs > 0 <=> ds[s].refs > 0
                      /\ e[s].refs = 0 => e[s] = ds[s]
                      /\ ds[s] = NoDev => e[s] = NoDev
                      /\ e[s].at = ds[s].at /\ e[s].gen = ds[s].gen /\ e[s].parent = ds[s].parent
  <2> TAKE s \in Slot
  <2>1. CASE s \in S
    <3>1. e[s] = [ds[s] EXCEPT !.refs = ds[s].refs + 1] /\ ds[s].refs > 0
      BY <2>1 DEF RefAll
    <3>2. e[s] \in Devices /\ e[s].refs = ds[s].refs + 1 /\ e[s].refs > 0
          /\ e[s].at = ds[s].at /\ e[s].gen = ds[s].gen /\ e[s].parent = ds[s].parent
      BY <1>1, <3>1 DEF Devices
    <3> QED BY <2>1, <3>1, <3>2, Nobody
  <2>2. CASE s \notin S
    BY <1>1, <2>2 DEF RefAll
  <2> QED BY <2>1, <2>2
<1>3. \A s \in Slot : Children(e, s) = Children(ds, s)
  BY <1>2 DEF Children
<1>4. Tree(e)
  <2>1. e \in [Slot -> Devices]
    BY <1>2 DEF RefAll
  <2>2. \A s \in Slot : ds[s].parent # 0 => ds[s].parent \in Slot
    BY BalancedIs
  <2> QED BY <1>2, <2>1, <2>2 DEF Balanced, Tree
<1>5. \A s \in Slot : e[s].refs = after[s] + Cardinality(Children(e, s))
  <2> TAKE s \in Slot
  <2>1. held[s] \in Nat /\ Cardinality(Children(ds, s)) \in Nat
        /\ ds[s].refs = held[s] + Cardinality(Children(ds, s))
    BY ChildrenCount DEF Balanced
  <2> QED BY <1>2, <1>3, <2>1
<1> QED BY <1>2, <1>4, <1>5 DEF Balanced, SameDevices

\* A new device takes a free slot, and a reference to its parent.
Allocate(ds, d, new) == [RefAll(ds, {new.parent} \ {0}) EXCEPT ![d] = new]

NewDevice(ds, new) ==
    /\ new \in Devices /\ new.at \in Addr /\ new.refs = 1
    /\ new.parent # 0 => new.at \in Port /\ ds[new.parent].refs > 0 /\ ds[new.parent].at = Hub

LEMMA AllocBalanced ==
    ASSUME NEW ds, NEW held \in [Slot -> Nat], Balanced(ds, held),
           NEW d \in Slot, ds[d] = NoDev, NEW new, NewDevice(ds, new),
           NEW after, Adds(after, held, {d}), NEW e, e = Allocate(ds, d, new)
    PROVE  Balanced(e, after) /\ e[d] = new /\ SameDevices(e, ds, Slot \ {d})
<1> DEFINE p == new.parent
           S == {p} \ {0}
           r == RefAll(ds, S)
           h2 == [s \in Slot |-> IF s \in S THEN held[s] + 1 ELSE held[s]]
<1> USE DEF Adds
<1>0. /\ new \in Devices /\ new.at \in Addr /\ new.refs = 1
      /\ p # 0 => new.at \in Port /\ ds[p].refs > 0 /\ ds[p].at = Hub
      /\ p \in 0..MaxSlots
  BY DEF NewDevice, Devices
<1>1. S \in SUBSET Slot /\ \A s \in S : ds[s].refs > 0
  BY <1>0, Constants DEF Slot
<1>2. /\ Balanced(r, h2)
      /\ \A s \in Slot : /\ r[s].refs > 0 <=> ds[s].refs > 0
                         /\ r[s].at = ds[s].at /\ r[s].gen = ds[s].gen /\ r[s].parent = ds[s].parent
  <2>1. Adds(h2, held, S)
    OBVIOUS
  <2>2. r = RefAll(ds, S)
    OBVIOUS
  <2> HIDE DEF h2, S, r, Adds
  <2> QED BY <1>1, <2>1, <2>2, RefBalanced DEF SameDevices
<1>3. r \in [Slot -> Devices]
  BY <1>2 DEF Balanced, Tree
<1>4. d \notin S /\ ds[d].refs = 0 /\ r[d].refs = 0 /\ ds[d].parent = 0
  <2>1. ds[d].refs = 0 /\ ds[d].parent = 0
    BY Nobody
  <2>2. d \notin S
    BY <1>1, <2>1
  <2> HIDE DEF r, S
  <2>3. r[d].refs \in Nat
    BY <1>3 DEF Devices
  <2>4. ~(r[d].refs > 0)
    BY <1>2, <2>1
  <2> QED BY <2>1, <2>2, <2>3, <2>4
<1>5. e \in [Slot -> Devices] /\ e[d] = new /\ \A s \in Slot \ {d} : e[s] = r[s]
  <2>1. e = [r EXCEPT ![d] = new]
    BY DEF Allocate
  <2> HIDE DEF r
  <2> QED BY <1>0, <1>3, <2>1
<1> HIDE DEF r
<1>6. \A s \in Slot \ {d} : ds[s] = NoDev => e[s] = NoDev
  <2> SUFFICES ASSUME NEW s \in Slot \ {d}, ds[s] = NoDev PROVE e[s] = NoDev
    OBVIOUS
  <2>1. s \notin S
    BY <1>1, Nobody
  <2>2. r[s] = ds[s]
    BY <2>1 DEF r, RefAll
  <2> QED BY <1>5, <2>2
<1>7. /\ \A s \in Slot : s # p => Children(e, s) = Children(r, s)
      /\ p # 0 => Children(e, p) = Children(r, p) \cup {d}
      /\ \A s \in Slot : d \notin Children(r, s)
  <2>1. \A k \in Slot : e[k].refs > 0 <=> r[k].refs > 0 \/ k = d
    <3>1. e[d].refs > 0
      BY <1>0, <1>5
    <3>2. \A k \in Slot \ {d} : e[k].refs = r[k].refs
      BY <1>5
    <3> QED BY <3>1, <3>2
  <2>2. \A k \in Slot \ {d} : e[k].parent = r[k].parent
    BY <1>5
  <2>3. e[d].parent = p /\ ~(r[d].refs > 0)
    <3>1. e[d].parent = p
      BY <1>5
    <3> QED BY <1>4, <3>1
  <2> QED BY <2>1, <2>2, <2>3 DEF Children
<1>8. \A s \in Slot : e[s].refs = after[s] + Cardinality(Children(e, s))
  <2> TAKE s \in Slot
  <2>1. /\ r[s].refs = h2[s] + Cardinality(Children(r, s)) /\ Cardinality(Children(r, s)) \in Nat
        /\ IsFiniteSet(Children(r, s))
    BY <1>2, ChildrenCount DEF Balanced
  <2>2. CASE s = d
    <3>1. ds[d].refs = 0 => held[d] = 0 /\ Children(ds, d) = {}
      BY BalancedIs
    <3>2. Children(r, d) = {}
      BY <1>2, <1>4, <3>1 DEF Children
    <3>3. Children(e, d) = {}
      <4>1. p # d
        BY <1>4, Constants
      <4> QED BY <1>7, <3>2, <4>1
    <3>4. after[d] = 1
      BY <1>4, <3>1
    <3>5. e[d].refs = 1 /\ Cardinality(Children(e, d)) = 0
      BY <1>0, <1>5, <3>3, FS_EmptySet
    <3> QED BY <2>2, <3>4, <3>5
  <2>3. CASE s # d /\ s # p
    <3>1. s \notin S /\ h2[s] = after[s] /\ Children(e, s) = Children(r, s)
      BY <1>7, <2>3
    <3> QED BY <1>5, <2>1, <2>3, <3>1
  <2>4. CASE s = p /\ s # d
    <3>1. s \in S /\ p # 0
      BY <2>4, Constants
    <3>2. h2[s] = after[s] + 1 /\ after[s] = held[s] /\ held[s] \in Nat
      BY <2>4, <3>1
    <3>3. Cardinality(Children(e, s)) = Cardinality(Children(r, s)) + 1
      <4>1. Children(e, s) = Children(r, s) \cup {d} /\ d \notin Children(r, s)
        BY <1>7, <2>4, <3>1
      <4> QED BY <2>1, <4>1, FS_AddElement
    <3>4. e[s].refs = r[s].refs
      BY <1>5, <2>4
    <3> HIDE DEF h2
    <3> QED BY <2>1, <3>2, <3>3, <3>4
  <2> QED BY <1>4, <2>2, <2>3, <2>4, <1>1
<1>9. Tree(e)
  <2>1. \A s \in Slot : e[s].refs = 0 => e[s] = NoDev
    <3>1. e[d].refs # 0
      BY <1>0, <1>5
    <3>2. \A s \in Slot : r[s].refs = 0 => r[s] = NoDev
      BY <1>2 DEF Balanced, Tree
    <3> QED BY <1>5, <3>1, <3>2
  <2>2. ASSUME NEW s \in Slot, e[s].refs > 0
        PROVE  /\ e[s].at \in Addr
               /\ e[s].parent # 0 => e[s].at \in Port /\ e[e[s].parent].at = Hub
    <3>1. CASE s = d
      <4>1. e[s].at = new.at /\ e[s].parent = p
        BY <1>5, <3>1
      <4>2. p # 0 => p \in S /\ p \in Slot \ {d}
        BY <1>1, <1>4
      <4>3. p # 0 => e[p].at = ds[p].at
        BY <1>2, <1>5, <4>2
      <4> QED BY <1>0, <4>1, <4>3
    <3>2. CASE s # d
      <4>1. e[s] = r[s] /\ r[s].refs > 0
        BY <1>5, <2>2, <3>2
      <4>2. r[s].at \in Addr /\ (r[s].parent # 0 => r[s].at \in Port /\ r[r[s].parent].at = Hub)
        BY <1>2, <4>1 DEF Balanced, Tree
      <4>3. ASSUME r[s].parent # 0 PROVE r[s].parent \in Slot \ {d}
        <5>1. r[s].parent = ds[s].parent
          BY <1>2
        <5>2. ds[s].parent \in Slot /\ s \in Children(ds, ds[s].parent)
          BY <4>3, <5>1, BalancedIs
        <5>3. Children(ds, d) = {}
          BY <1>4, BalancedIs
        <5> QED BY <5>1, <5>2, <5>3
      <4> QED BY <1>5, <4>1, <4>2, <4>3
    <3> QED BY <3>1, <3>2
  <2> QED BY <1>5, <2>1, <2>2 DEF Tree
<1>10. \A s \in Slot \ {d} : /\ e[s].refs > 0 <=> ds[s].refs > 0
                             /\ e[s].at = ds[s].at /\ e[s].gen = ds[s].gen /\ e[s].parent = ds[s].parent
  BY <1>2, <1>5
<1> QED BY <1>5, <1>6, <1>8, <1>9, <1>10 DEF Balanced, SameDevices

\* Nothing is left of what nobody refers to: there is no cycle of parents.
LEMMA NoneHeld ==
    ASSUME NEW ds, NEW held \in [Slot -> Nat], Balanced(ds, held), \A s \in Slot : held[s] = 0
    PROVE  ds = [s \in Slot |-> NoDev]
<1>1. \A k \in Slot : ds[k].parent # 0 => FALSE
  BY BalancedIs
<1>2. \A s \in Slot : Children(ds, s) = {}
  BY <1>1, Constants DEF Children
<1>3. \A s \in Slot : ds[s].refs = 0
  BY <1>2, ChildrenCount DEF Balanced
<1>4. ds \in [Slot -> Devices] /\ \A s \in Slot : ds[s] = NoDev
  BY <1>3 DEF Balanced, Tree
<1> QED BY <1>4

LEMMA BalancedSame ==
    ASSUME NEW ds, NEW held, Balanced(ds, held), NEW after, \A s \in Slot : after[s] = held[s]
    PROVE  Balanced(ds, after)
BY DEF Balanced

\* The messages that a device left, when one comes at the end or goes from the front
LEMMA LeftAppend ==
    ASSUME NEW M \in Seq(Messages), NEW m \in Messages
    PROVE  /\ Append(M, m) \in Seq(Messages) /\ Append(M, m) # <<>>
           /\ \A s : (m.left /\ m.d = s) \/ Left(Append(M, m), s) = Left(M, s)
           /\ m.left => Left(Append(M, m), m.d) = Left(M, m.d) \cup {Len(M) + 1}
           /\ Len(M) + 1 \notin Left(M, m.d)
<1> DEFINE N == Append(M, m)
<1>1. N \in Seq(Messages) /\ N # <<>> /\ Len(M) \in Nat /\ DOMAIN M = 1..Len(M) /\ DOMAIN N = 1..(Len(M) + 1)
      /\ N[Len(M) + 1] = m /\ \A k \in 1..Len(M) : N[k] = M[k]
  OBVIOUS
<1> HIDE DEF N
<1>2. ASSUME NEW s
      PROVE  /\ Left(M, s) \subseteq Left(N, s)
             /\ \A k \in Left(N, s) : k \in Left(M, s) \/ (k = Len(M) + 1 /\ m.left /\ m.d = s)
  BY <1>1 DEF Left
<1>3. m.left => Len(M) + 1 \in Left(N, m.d)
  BY <1>1 DEF Left
<1>4. Len(M) + 1 \notin Left(M, m.d)
  BY <1>1 DEF Left
<1>5. ASSUME NEW s, ~(m.left /\ m.d = s) PROVE Left(N, s) = Left(M, s)
  <2>1. Left(M, s) \subseteq Left(N, s) /\ \A k \in Left(N, s) : k \in Left(M, s)
    BY <1>2, <1>5
  <2> QED BY <2>1
<1>6. m.left => Left(N, m.d) = Left(M, m.d) \cup {Len(M) + 1}
  BY <1>2, <1>3
<1> QED BY <1>1, <1>4, <1>5, <1>6 DEF N

LEMMA LeftTail ==
    ASSUME NEW M \in Seq(Messages), M # <<>>
    PROVE  /\ Tail(M) \in Seq(Messages) /\ Head(M) \in Messages
           /\ \A s : 1 \in Left(M, s) <=> Head(M).left /\ Head(M).d = s
           /\ \A s : \A k \in Left(M, s) : k # 1 => k - 1 \in Left(Tail(M), s)
           /\ \A s : \A k \in Left(Tail(M), s) : k + 1 \in Left(M, s) /\ k \in Nat \ {0}
<1> DEFINE N == Tail(M)
<1>1. N \in Seq(Messages) /\ Head(M) \in Messages /\ Head(M) = M[1] /\ Len(M) \in Nat \ {0}
      /\ DOMAIN M = 1..Len(M) /\ DOMAIN N = 1..(Len(M) - 1)
      /\ \A k \in 1..(Len(M) - 1) : N[k] = M[k + 1]
  OBVIOUS
<1> HIDE DEF N
<1>2. \A s : 1 \in Left(M, s) <=> Head(M).left /\ Head(M).d = s
  BY <1>1 DEF Left
<1>3. ASSUME NEW s, NEW k \in Left(M, s), k # 1 PROVE k - 1 \in Left(N, s)
  <2>1. k \in 1..Len(M) /\ k - 1 \in 1..(Len(M) - 1) /\ N[k - 1] = M[(k - 1) + 1] /\ (k - 1) + 1 = k
    BY <1>1, <1>3 DEF Left
  <2> QED BY <1>1, <1>3, <2>1 DEF Left
<1>4. ASSUME NEW s, NEW k \in Left(N, s) PROVE k + 1 \in Left(M, s) /\ k \in Nat \ {0}
  <2>1. k \in 1..(Len(M) - 1) /\ k + 1 \in 1..Len(M) /\ N[k] = M[k + 1]
    BY <1>1, <1>4 DEF Left
  <2> QED BY <1>1, <1>4, <2>1 DEF Left
<1> QED BY <1>1, <1>2, <1>3, <1>4 DEF N

LEMMA HeldIs ==
    ASSUME NEW K, NEW M, NEW L
    PROVE  /\ Held(K, M, L) \in [Slot -> Nat]
           /\ \A s \in Slot : /\ Held(K, M, L)[s] = (IF s \in K THEN 1 ELSE 0) + (IF Left(M, s) = {} THEN 0 ELSE 1)
                                                      + (IF s \in L THEN 1 ELSE 0)
                              /\ Held(K, M, L)[s] = 0 => s \notin K /\ Left(M, s) = {} /\ s \notin L
                              /\ s \in K \/ Left(M, s) # {} \/ s \in L => Held(K, M, L)[s] > 0
BY DEF Held

----------------------------------------------------------------------------
(* Enumeration and departure, on the state of one context.                 *)

States == [dev : [Slot -> Devices], known : SUBSET Slot, msgs : Seq(Messages),
           signalled : BOOLEAN]

\* What must hold of the state of a context that uevents reach
StateOK(c, st, L) ==
    /\ st \in States
    /\ Refs(st.dev, st.known, st.msgs, L)
    /\ st.msgs # <<>> => st.signalled /\ phase[c] \in {"ready", "exiting"}

LEMMA StateIs ==
    ASSUME DeviceInv, NEW c \in Ctx
    PROVE  /\ StateOK(c, State(c), list[c]) /\ State(c).dev = dev[c] /\ State(c).known = known[c]
           /\ State(c).msgs = msgs[c] /\ State(c).signalled = signalled[c]
<1>1. State(c) \in States
  BY DEF State, States, DeviceInv, DeviceTypes
<1>2. ContextOK(phase[c], dev[c], known[c], msgs[c], signalled[c], list[c])
  BY DEF DeviceInv
<1> QED BY <1>1, <1>2 DEF StateOK, State, ContextOK

\* What a context knows is there, with a reference for the list
LEMMA KnownIs ==
    ASSUME NEW ds, NEW K, NEW M, NEW L, Refs(ds, K, M, L), NEW s \in Slot
    PROVE  /\ ds[s] \in Devices /\ ds[s].refs \in Nat
           /\ s \in K \/ s \in L \/ Left(M, s) # {} => ds[s].refs > 0 /\ ds[s].at \in Addr
           /\ ds[s] = NoDev => s \notin K /\ s \notin L /\ Left(M, s) = {}
<1>1. Balanced(ds, Held(K, M, L)) /\ Held(K, M, L) \in [Slot -> Nat]
  BY HeldIs DEF Refs
<1>2. s \in K \/ s \in L \/ Left(M, s) # {} => Held(K, M, L)[s] > 0
  BY HeldIs
<1>3. ds[s] \in Devices /\ ds[s].refs \in Nat /\ (Held(K, M, L)[s] > 0 => ds[s].refs > 0)
  BY <1>1, BalancedIs
<1>4. ds[s].refs > 0 => ds[s].at \in Addr
  BY <1>1 DEF Balanced, Tree
<1> QED BY <1>2, <1>3, <1>4, Nobody

LEMMA NotifyIs ==
    ASSUME NEW c \in Ctx, NEW st \in States, NEW left \in BOOLEAN, NEW d \in Slot,
           phase[c] # "lists", NEW n, n = Notify(c, st, left, d)
    PROVE  /\ n \in States /\ n.dev = st.dev /\ n.known = st.known
           /\ phase[c] # "ready" => n = st
           /\ phase[c] = "ready" => /\ n.msgs = Append(st.msgs, [left |-> left, d |-> d])
                                    /\ n.signalled = (st.signalled \/ st.msgs = <<>>)
<1>1. CASE phase[c] # "ready"
  BY <1>1 DEF Notify
<1>2. CASE phase[c] = "ready"
  <2> DEFINE m == [left |-> left, d |-> d]
             sig == st.signalled \/ st.msgs = <<>>
  <2>1. Append(st.msgs, m) \in Seq(Messages)
    <3>1. m \in Messages
      BY DEF Messages
    <3> QED BY <3>1 DEF States
  <2>2. sig \in BOOLEAN
    OBVIOUS
  <2>3. n = [st EXCEPT !.msgs = Append(st.msgs, m), !.signalled = sig]
    BY <1>2 DEF Notify
  <2> HIDE DEF sig, m
  <2>4. /\ n \in States /\ n.dev = st.dev /\ n.known = st.known
        /\ n.msgs = Append(st.msgs, m) /\ n.signalled = sig
    BY <2>1, <2>2, <2>3 DEF States
  <2> QED BY <1>2, <2>4 DEF sig, m
<1> QED BY <1>1, <1>2

LEMMA ParentOfIs ==
    ASSUME NEW st \in States, NEW a
    PROVE  /\ ParentOf(st, a) \in 0..MaxSlots
           /\ ParentOf(st, a) # 0 => /\ a \in Port /\ ParentOf(st, a) \in st.known
                                     /\ st.dev[ParentOf(st, a)].at = Hub
           /\ a \in Port /\ At(st, Hub) # {} => ParentOf(st, a) # 0
<1>1. At(st, Hub) \subseteq Slot /\ 0 \notin At(st, Hub)
  BY Constants DEF At, States
<1>2. CASE a \in Port /\ At(st, Hub) # {}
  <2>1. ParentOf(st, a) \in At(st, Hub)
    BY <1>2 DEF ParentOf
  <2> QED BY <1>1, <1>2, <2>1, Constants DEF At
<1>3. CASE ~(a \in Port /\ At(st, Hub) # {})
  BY <1>3, Constants DEF ParentOf
<1> QED BY <1>2, <1>3

\* What is new of a device that was connected: its slot was free.
Connected(c, st, a, n, d) ==
    /\ d \in Slot /\ st.dev[d] = NoDev /\ At(st, a) = {} /\ bus[a] # 0
    /\ n.known = st.known \cup {d}
    /\ n.dev[d].at = a /\ n.dev[d].gen = bus[a] /\ n.dev[d].parent = ParentOf(st, a)
    /\ \A s \in Slot \ {d} : /\ n.dev[s].at = st.dev[s].at /\ n.dev[s].gen = st.dev[s].gen
                             /\ n.dev[s].parent = st.dev[s].parent
                             /\ st.dev[s] = NoDev => n.dev[s] = NoDev

LEMMA ConnectOK ==
    ASSUME DeviceTypes, NEW c \in Ctx, phase[c] \in {"scan", "io", "ready"},
           NEW st, NEW L, StateOK(c, st, L), NEW a \in Addr,
           \E s \in Slot : st.dev[s] = NoDev, NEW n, n = Connect(c, st, a)
    PROVE  /\ StateOK(c, n, L)
           /\ IF At(st, a) # {} \/ bus[a] = 0 THEN n = st ELSE \E d : Connected(c, st, a, n, d)
<1>1. CASE At(st, a) # {} \/ bus[a] = 0
  BY <1>1 DEF Connect, Readable
<1>2. CASE At(st, a) = {} /\ bus[a] # 0
  <2> DEFINE d == CHOOSE s \in Slot : st.dev[s] = NoDev
             p == ParentOf(st, a)
             ds == [RefAll(st.dev, {p} \ {0}) EXCEPT ![d] = [at |-> a, gen |-> bus[a], refs |-> 1, parent |-> p]]
             K == st.known \cup {d}
             m == [st EXCEPT !.dev = ds, !.known = K]
             h == Held(st.known, st.msgs, L)
  <2>1. d \in Slot /\ st.dev[d] = NoDev
    OBVIOUS
  <2>0. ds = [RefAll(st.dev, {p} \ {0}) EXCEPT ![d] = [at |-> a, gen |-> bus[a], refs |-> 1, parent |-> p]]
    OBVIOUS
  <2>2. n = Notify(c, m, FALSE, d)
    BY <1>2 DEF Connect, Readable
  <2>3. st \in States /\ Refs(st.dev, st.known, st.msgs, L) /\ bus[a] \in Nat
    BY DEF StateOK, DeviceTypes
  <2>4. /\ p \in 0..MaxSlots
        /\ p # 0 => a \in Port /\ st.dev[p].refs > 0 /\ st.dev[p].at = Hub
    <3>1. /\ p \in 0..MaxSlots
          /\ p # 0 => a \in Port /\ p \in st.known /\ st.dev[p].at = Hub
      BY <2>3, ParentOfIs
    <3>2. p # 0 => st.dev[p].refs > 0
      BY <2>3, <3>1, KnownIs DEF States
    <3> QED BY <3>1, <3>2
  <2>5. Balanced(st.dev, h) /\ h \in [Slot -> Nat]
    BY <2>3, HeldIs DEF Refs
  <2> HIDE DEF d, p, h, ds
  <2> DEFINE h1 == [s \in Slot |-> IF s = d THEN h[s] + 1 ELSE h[s]]
  <2>6. /\ Balanced(ds, h1)
        /\ ds[d] = [at |-> a, gen |-> bus[a], refs |-> 1, parent |-> p]
        /\ \A s \in Slot \ {d} : /\ ds[s].refs > 0 <=> st.dev[s].refs > 0
                                 /\ st.dev[s] = NoDev => ds[s] = NoDev
                                 /\ ds[s].at = st.dev[s].at /\ ds[s].gen = st.dev[s].gen
                                 /\ ds[s].parent = st.dev[s].parent
    <3> DEFINE new == [at |-> a, gen |-> bus[a], refs |-> 1, parent |-> p]
    <3>1. Adds(h1, h, {d})
      BY DEF Adds
    <3>2. /\ NewDevice(st.dev, new) /\ new.parent = p
          /\ new = [at |-> a, gen |-> bus[a], refs |-> 1, parent |-> p]
      BY <2>3, <2>4 DEF Devices, NewDevice
    <3>3. ds = Allocate(st.dev, d, new)
      BY <2>0, <3>2 DEF Allocate
    <3> DEFINE old == st.dev
    <3>4. /\ d \in Slot /\ old[d] = NoDev /\ Balanced(old, h) /\ h \in [Slot -> Nat]
          /\ NewDevice(old, new) /\ ds = Allocate(old, d, new)
      BY <2>1, <2>5, <3>2, <3>3
    <3> HIDE DEF h1, new, old
    <3>5. Balanced(ds, h1) /\ ds[d] = new /\ SameDevices(ds, old, Slot \ {d})
      BY <3>1, <3>4, AllocBalanced, SMTT(30)
    <3> QED BY <3>2, <3>5 DEF SameDevices, old
  <2>7. m \in States /\ m.dev = ds /\ m.known = K /\ m.msgs = st.msgs /\ m.signalled = st.signalled
    <3>1. ds \in [Slot -> Devices] /\ K \in SUBSET Slot
      BY <2>1, <2>3, <2>6 DEF Balanced, Tree, States
    <3> QED BY <2>3, <3>1 DEF States
  <2> HIDE DEF m
  <2>8. /\ n \in States /\ n.dev = ds /\ n.known = K
        /\ phase[c] # "ready" => n = m
        /\ phase[c] = "ready" => /\ n.msgs = Append(st.msgs, [left |-> FALSE, d |-> d])
                                 /\ n.signalled = (st.signalled \/ st.msgs = <<>>)
    <3> DEFINE left == FALSE
    <3>1. phase[c] # "lists" /\ left \in BOOLEAN /\ n = Notify(c, m, left, d)
      BY <2>2
    <3> HIDE DEF left
    <3>2. /\ n \in States /\ n.dev = m.dev /\ n.known = m.known
          /\ phase[c] # "ready" => n = m
          /\ phase[c] = "ready" => /\ n.msgs = Append(m.msgs, [left |-> left, d |-> d])
                                   /\ n.signalled = (m.signalled \/ m.msgs = <<>>)
      BY <2>1, <2>7, <3>1, NotifyIs
    <3> QED BY <2>7, <3>2 DEF left
  <2>9. n.msgs \in Seq(Messages) /\ \A s : Left(n.msgs, s) = Left(st.msgs, s)
    <3>1. CASE phase[c] # "ready"
      BY <2>3, <2>7, <2>8, <3>1 DEF States
    <3>2. CASE phase[c] = "ready"
      <4>1. [left |-> FALSE, d |-> d] \in Messages /\ st.msgs \in Seq(Messages)
        BY <2>1, <2>3 DEF Messages, States
      <4> DEFINE x == [left |-> FALSE, d |-> d]
      <4>2. n.msgs = Append(st.msgs, x) /\ ~x.left
        BY <2>8, <3>2
      <4> HIDE DEF x
      <4>3. x \in Messages
        BY <4>1 DEF x
      <4>4. Append(st.msgs, x) \in Seq(Messages) /\ \A s : Left(Append(st.msgs, x), s) = Left(st.msgs, s)
        BY <4>1, <4>2, <4>3, LeftAppend
      <4> QED BY <4>2, <4>4
    <3> QED BY <3>1, <3>2
  <2>10. d \notin st.known /\ Left(st.msgs, d) = {}
    BY <2>1, <2>3, KnownIs
  <2>11. Balanced(ds, Held(K, n.msgs, L))
    <3>1. \A s \in Slot : Held(K, n.msgs, L)[s] = IF s = d THEN h[s] + 1 ELSE h[s]
      <4> TAKE s \in Slot
      <4>1. /\ Held(K, n.msgs, L)[s] = (IF s \in K THEN 1 ELSE 0) + (IF Left(st.msgs, s) = {} THEN 0 ELSE 1)
                                           + (IF s \in L THEN 1 ELSE 0)
            /\ h[s] = (IF s \in st.known THEN 1 ELSE 0) + (IF Left(st.msgs, s) = {} THEN 0 ELSE 1)
                                           + (IF s \in L THEN 1 ELSE 0)
        BY <2>9 DEF h, Held
      <4> QED BY <2>10, <4>1
    <3> DEFINE f == Held(K, n.msgs, L)
    <3>2. \A s \in Slot : f[s] = h1[s]
      BY <3>1
    <3> HIDE DEF f, h1
    <3>3. Balanced(ds, h1)
      BY <2>6
    <3>4. Balanced(ds, f)
      BY <3>2, <3>3, BalancedSame
    <3> QED BY <3>4 DEF f
  <2>12. Refs(ds, K, n.msgs, L)
    <3>1. \A s \in K : Left(n.msgs, s) = {}
      BY <2>3, <2>9, <2>10 DEF Refs
    <3>2. \A s \in st.known : ds[s].at = st.dev[s].at /\ ds[s].at # a
      BY <1>2, <2>3, <2>6, <2>10 DEF At, States
    <3>3. \A s, k \in K : ds[s].at = ds[k].at => s = k
      BY <2>3, <2>6, <3>2 DEF Refs
    <3>4. K \subseteq Slot /\ L \subseteq Slot /\ \A s \in Slot : \A j, k \in Left(n.msgs, s) : j = k
      BY <2>1, <2>3, <2>9 DEF Refs
    <3> QED BY <2>9, <2>11, <3>1, <3>3, <3>4 DEF Refs
  <2>13. n.msgs # <<>> => n.signalled /\ phase[c] \in {"ready", "exiting"}
    BY <2>7, <2>8 DEF StateOK
  <2>14. Connected(c, st, a, n, d)
    BY <1>2, <2>1, <2>6, <2>8 DEF Connected, p
  <2> QED BY <1>2, <2>8, <2>12, <2>13, <2>14 DEF StateOK
<1> QED BY <1>1, <1>2, Constants

\* Two slots that are free
Room(ds) == \E x, y \in Slot : x # y /\ ds[x] = NoDev /\ ds[y] = NoDev

LEMMA RoomIs ==
    ASSUME HasRoom, NEW c \in Ctx
    PROVE  Room(dev[c])
<1> DEFINE F == {s \in Slot : dev[c][s] = NoDev}
<1>1. Cardinality(F) >= 2 /\ F \subseteq Slot
  BY DEF HasRoom
<1>2. \A x : Cardinality({x}) = 1 /\ IsFiniteSet({x})
  BY FS_Singleton
<1>3. F # {}
  BY <1>1, FS_EmptySet
<1>4. PICK x \in F : TRUE
  BY <1>3
<1>5. F # {x}
  <2>1. CASE F = {x}
    <3>1. Cardinality({x}) = 1 /\ Cardinality({x}) >= 2
      <4>1. PICK X : X = F
        OBVIOUS
      <4> HIDE DEF F
      <4> QED BY <1>1, <1>2, <2>1
    <3> QED BY <3>1
  <2> QED BY <2>1
<1>6. PICK y \in F : y # x
  BY <1>4, <1>5
<1> QED BY <1>1, <1>4, <1>6 DEF Room

\* A device is connected after the hub it is behind, if that is not known.
Enumerated(c, st, a, n) ==
    IF At(st, a) # {} \/ bus[a] = 0 THEN n = st
    ELSE \E m, d, L : /\ IF a \in Port /\ At(st, Hub) = {} /\ bus[Hub] # 0
                         THEN \E h : Connected(c, st, Hub, m, h)
                         ELSE m = st
                      /\ Connected(c, m, a, n, d) /\ StateOK(c, m, L)

LEMMA EnumerateOK ==
    ASSUME DeviceTypes, NEW c \in Ctx, phase[c] \in {"scan", "io", "ready"},
           NEW st, NEW L, StateOK(c, st, L), NEW a \in Addr, Room(st.dev),
           NEW n, n = Enumerate(c, st, a)
    PROVE  StateOK(c, n, L) /\ Enumerated(c, st, a, n)
<1>1. CASE At(st, a) # {} \/ bus[a] = 0
  BY <1>1 DEF Enumerate, Readable, Enumerated
<1>2. CASE At(st, a) = {} /\ bus[a] # 0
  <2>1. PICK x, y \in Slot : x # y /\ st.dev[x] = NoDev /\ st.dev[y] = NoDev
    BY DEF Room
  <2> DEFINE m == IF a \in Port THEN Connect(c, st, Hub) ELSE st
  <2>2. n = Connect(c, m, a)
    BY <1>2 DEF Enumerate, Readable
  <2>3. /\ StateOK(c, m, L)
        /\ IF a \in Port /\ At(st, Hub) = {} /\ bus[Hub] # 0
           THEN \E h : Connected(c, st, Hub, m, h)
           ELSE m = st
    <3>1. CASE a \in Port
      <4> DEFINE k == Connect(c, st, Hub)
      <4>1. m = k
        BY <3>1
      <4> HIDE DEF m
      <4>2. k = Connect(c, st, Hub)
        OBVIOUS
      <4> HIDE DEF k
      <4>3. /\ StateOK(c, k, L)
            /\ IF At(st, Hub) # {} \/ bus[Hub] = 0 THEN k = st ELSE \E h : Connected(c, st, Hub, k, h)
        BY <2>1, <4>2, ConnectOK, Constants
      <4> QED BY <3>1, <4>1, <4>3
    <3>2. CASE a \notin Port
      BY <3>2
    <3> QED BY <3>1, <3>2
  <2> HIDE DEF m
  <2>4. At(m, a) = {} /\ \E s \in Slot : m.dev[s] = NoDev
    <3>1. CASE m = st
      BY <1>2, <2>1, <3>1
    <3>2. CASE m # st
      <4>1. a \in Port /\ \E h : Connected(c, st, Hub, m, h)
        BY <2>3, <3>2
      <4>2. PICK h : Connected(c, st, Hub, m, h)
        BY <4>1
      <4>3. At(m, a) = {}
        <5>1. m.known = st.known \cup {h} /\ m.dev[h].at = Hub /\ a # Hub
              /\ \A s \in Slot \ {h} : m.dev[s].at = st.dev[s].at
          BY <4>1, <4>2, Constants DEF Connected
        <5>2. st.known \subseteq Slot
          BY DEF StateOK, States
        <5> QED BY <1>2, <5>1, <5>2 DEF At
      <4>4. \A s \in Slot \ {h} : st.dev[s] = NoDev => m.dev[s] = NoDev
        BY <4>2 DEF Connected
      <4>5. x # h \/ y # h
        BY <2>1
      <4> QED BY <2>1, <4>3, <4>4, <4>5
    <3> QED BY <3>1, <3>2
  <2>5. StateOK(c, n, L) /\ \E d : Connected(c, m, a, n, d)
    BY <1>2, <2>2, <2>3, <2>4, ConnectOK
  <2> QED BY <1>2, <2>3, <2>5 DEF Enumerated
<1> QED BY <1>1, <1>2

LEMMA DisconnectOK ==
    ASSUME DeviceTypes, NEW c \in Ctx, phase[c] = "ready",
           NEW st, NEW L, StateOK(c, st, L), NEW a, NEW n, n = Disconnect(c, st, a)
    PROVE  StateOK(c, n, L) /\ n.dev = st.dev /\ n.known = st.known \ At(st, a)
<1>1. CASE At(st, a) = {}
  BY <1>1 DEF Disconnect
<1>2. CASE At(st, a) # {}
  <2> DEFINE d == CHOOSE s \in At(st, a) : TRUE
             K == st.known \ {d}
             m == [st EXCEPT !.known = K]
             x == [left |-> TRUE, d |-> d]
             h == Held(st.known, st.msgs, L)
  <2>1. st \in States /\ Refs(st.dev, st.known, st.msgs, L)
        /\ (st.msgs # <<>> => st.signalled)
    BY DEF StateOK
  <2>2. d \in At(st, a) /\ d \in Slot /\ d \in st.known /\ At(st, a) = {d}
    <3>1. d \in At(st, a)
      BY <1>2
    <3> HIDE DEF d
    <3>2. \A s \in At(st, a) : s = d
      BY <2>1, <3>1 DEF At, Refs
    <3> QED BY <2>1, <3>1, <3>2 DEF At, States
  <2>3. n = Notify(c, m, TRUE, d)
    BY <1>2 DEF Disconnect
  <2> HIDE DEF d
  <2>4. m \in States /\ m.dev = st.dev /\ m.known = K /\ m.msgs = st.msgs /\ m.signalled = st.signalled
    BY <2>1 DEF States
  <2> HIDE DEF m
  <2>5. /\ n \in States /\ n.dev = st.dev /\ n.known = K
        /\ n.msgs = Append(st.msgs, x) /\ n.signalled = (st.signalled \/ st.msgs = <<>>)
    <3> DEFINE left == TRUE
    <3>1. left \in BOOLEAN /\ n = Notify(c, m, left, d) /\ phase[c] # "lists" /\ phase[c] = "ready"
      BY <2>3
    <3> HIDE DEF left
    <3>2. /\ n \in States /\ n.dev = m.dev /\ n.known = m.known
          /\ phase[c] = "ready" => /\ n.msgs = Append(m.msgs, [left |-> left, d |-> d])
                                   /\ n.signalled = (m.signalled \/ m.msgs = <<>>)
      BY <2>2, <2>4, <3>1, NotifyIs
    <3> QED BY <2>4, <3>1, <3>2 DEF left
  <2>6. x \in Messages /\ x.left /\ x.d = d /\ st.msgs \in Seq(Messages)
    BY <2>1, <2>2 DEF Messages, States
  <2> HIDE DEF x
  <2>7. /\ n.msgs \in Seq(Messages) /\ \A s : s = d \/ Left(n.msgs, s) = Left(st.msgs, s)
        /\ Left(n.msgs, d) = Left(st.msgs, d) \cup {Len(st.msgs) + 1}
    <3> DEFINE M == st.msgs
    <3>1. M \in Seq(Messages) /\ n.msgs = Append(M, x)
      BY <2>5, <2>6
    <3> HIDE DEF M
    <3> DEFINE N == Append(M, x)
    <3>2. /\ N \in Seq(Messages) /\ \A s : (x.left /\ x.d = s) \/ Left(N, s) = Left(M, s)
          /\ x.left => Left(N, x.d) = Left(M, x.d) \cup {Len(M) + 1}
      BY <2>6, <3>1, LeftAppend
    <3> HIDE DEF N
    <3>3. n.msgs = N
      BY <3>1 DEF N
    <3> QED BY <2>6, <3>2, <3>3 DEF M
  <2>8. Left(st.msgs, d) = {} /\ Left(n.msgs, d) = {Len(st.msgs) + 1}
    BY <2>1, <2>2, <2>7 DEF Refs
  <2>9. Balanced(st.dev, Held(K, n.msgs, L))
    <3> DEFINE f == Held(K, n.msgs, L)
    <3>1. \A s \in Slot : f[s] = h[s]
      <4> TAKE s \in Slot
      <4>1. CASE s = d
        <5>1. d \notin K /\ Left(n.msgs, d) # {} /\ Left(st.msgs, d) = {} /\ d \in st.known /\ d \in Slot
          BY <2>2, <2>8
        <5> HIDE DEF K
        <5>2. /\ f[d] = 0 + 1 + (IF d \in L THEN 1 ELSE 0)
              /\ h[d] = 1 + 0 + (IF d \in L THEN 1 ELSE 0)
          BY <5>1 DEF Held
        <5> QED BY <4>1, <5>2
      <4>2. CASE s # d
        BY <2>7, <4>2 DEF Held
      <4> QED BY <4>1, <4>2
    <3>2. Balanced(st.dev, h)
      BY <2>1 DEF Refs
    <3> HIDE DEF f, h
    <3>3. Balanced(st.dev, f)
      BY <3>1, <3>2, BalancedSame
    <3> QED BY <3>3 DEF f
  <2>10. Refs(st.dev, K, n.msgs, L)
    <3>1. \A s \in K : Left(n.msgs, s) = {}
      BY <2>1, <2>7 DEF Refs
    <3>2. \A s \in Slot : \A j, k \in Left(n.msgs, s) : j = k
      BY <2>1, <2>7, <2>8 DEF Refs
    <3> QED BY <2>1, <2>7, <2>9, <3>1, <3>2 DEF Refs
  <2> QED BY <2>1, <2>2, <2>5, <2>10 DEF StateOK
<1> QED BY <1>1, <1>2

\* A message reaches each context that may be told: whatever it is, what the context
\* has stays in order, and no context is told that is not ready to be.
LEMMA HandledOK ==
    ASSUME ContextInv, DeviceInv, NEW e \in Uevents, e.act = "add" => HasRoom, ~TooEarly(e),
           NEW c \in Ctx
    PROVE  /\ StateOK(c, Handled(e)[c], list[c])
           /\ phase[c] \in {"none", "active", "closing"} => Handled(e)[c] = State(c)
           /\ IF c \notin Active \/ e.act = "other" THEN Handled(e)[c] = State(c)
              ELSE IF e.act = "add" THEN Enumerated(c, State(c), e.at, Handled(e)[c])
              ELSE /\ Handled(e)[c].dev = dev[c]
                   /\ Handled(e)[c].known = known[c] \ At(State(c), e.at)
<1>1. e.act \in {"add", "remove", "other"} /\ e.at \in Addr
  BY DEF Uevents
<1>2. /\ StateOK(c, State(c), list[c]) /\ State(c).dev = dev[c] /\ State(c).known = known[c]
      /\ DeviceTypes /\ (e.act = "add" => Room(State(c).dev))
  BY StateIs, RoomIs DEF DeviceInv
<1>3. /\ c \in Initing => phase[c] \notin {"active", "lists"}
      /\ c \in Initing => ~(e.act = "remove" /\ At(State(c), e.at) # {})
  BY DEF TooEarly
<1>4. c \in Active => phase[c] \in {"scan", "io", "ready"}
  BY <1>3, PhaseIs DEF ContextInv
<1>5. phase[c] \in {"none", "active", "closing"} => c \notin Active
  BY <1>4
<1>6. Handled(e)[c] = IF c \notin Active \/ ~AboutDevice(e) THEN State(c)
                      ELSE IF e.act = "add" THEN Enumerate(c, State(c), e.at)
                      ELSE Disconnect(c, State(c), e.at)
  BY DEF Handled
<1>7. CASE c \notin Active \/ e.act = "other"
  BY <1>2, <1>6, <1>7 DEF AboutDevice
<1>8. CASE c \in Active /\ e.act = "add"
  <2>1. Handled(e)[c] = Enumerate(c, State(c), e.at)
    BY <1>6, <1>8 DEF AboutDevice
  <2>2. /\ StateOK(c, Handled(e)[c], list[c])
        /\ Enumerated(c, State(c), e.at, Handled(e)[c])
    BY <1>1, <1>2, <1>4, <1>8, <2>1, EnumerateOK
  <2> QED BY <1>5, <1>8, <2>2
<1>9. CASE c \in Active /\ e.act = "remove"
  <2>1. Handled(e)[c] = Disconnect(c, State(c), e.at)
    BY <1>6, <1>9 DEF AboutDevice
  <2>2. CASE phase[c] = "ready"
    <3>1. /\ StateOK(c, Handled(e)[c], list[c]) /\ Handled(e)[c].dev = State(c).dev
          /\ Handled(e)[c].known = State(c).known \ At(State(c), e.at)
      BY <1>2, <2>1, <2>2, DisconnectOK
    <3> QED BY <1>2, <1>5, <1>9, <3>1
  <2>3. CASE phase[c] # "ready"
    <3>1. c \in Initing
      BY <1>9, <2>3, PhaseIs DEF ContextInv
    <3>2. At(State(c), e.at) = {}
      BY <1>3, <1>9, <3>1
    <3> QED BY <1>2, <1>5, <1>9, <2>1, <3>2 DEF Disconnect
  <2> QED BY <2>2, <2>3
<1> QED BY <1>1, <1>7, <1>8, <1>9

----------------------------------------------------------------------------
(* The references of the devices, while no uevent comes too early.         *)

LEMMA DeviceFrame ==
    ASSUME DeviceInv, UNCHANGED <<phase, devVars, list>>, bus' \in [Addr -> Nat], events' \in Nat
    PROVE  DeviceInv'
<1>1. UNCHANGED <<dev, known, msgs, signalled>>
  BY DEF devVars
<1> QED BY <1>1 DEF DeviceInv, DeviceTypes

\* A step that changes what one context has
Becomes(c, p, ds, K, M, sig, L) ==
    /\ phase' = [phase EXCEPT ![c] = p] /\ dev' = [dev EXCEPT ![c] = ds]
    /\ known' = [known EXCEPT ![c] = K] /\ msgs' = [msgs EXCEPT ![c] = M]
    /\ signalled' = [signalled EXCEPT ![c] = sig] /\ list' = [list EXCEPT ![c] = L]
    /\ sig \in BOOLEAN /\ UNCHANGED kernelVars

LEMMA ContextChanged ==
    ASSUME ContextInv, DeviceInv, NEW c \in Ctx, NEW p, NEW ds, NEW K, NEW M, NEW sig, NEW L,
           ContextOK(p, ds, K, M, sig, L), Becomes(c, p, ds, K, M, sig, L)
    PROVE  DeviceInv'
<1>1. DeviceTypes /\ phase \in [Ctx -> Phases]
  BY DEF DeviceInv, ContextInv, ControlOK
<1>2. /\ ds \in [Slot -> Devices] /\ K \in SUBSET Slot /\ M \in Seq(Messages)
      /\ sig \in BOOLEAN /\ L \in SUBSET Slot /\ UNCHANGED kernelVars
  BY DEF ContextOK, Refs, Balanced, Tree, Becomes
<1>3. /\ dev' \in [Ctx -> [Slot -> Devices]] /\ dev'[c] = ds /\ \A d \in Ctx \ {c} : dev'[d] = dev[d]
      /\ known' \in [Ctx -> SUBSET Slot] /\ known'[c] = K /\ \A d \in Ctx \ {c} : known'[d] = known[d]
      /\ msgs' \in [Ctx -> Seq(Messages)] /\ msgs'[c] = M /\ \A d \in Ctx \ {c} : msgs'[d] = msgs[d]
      /\ list' \in [Ctx -> SUBSET Slot] /\ list'[c] = L /\ \A d \in Ctx \ {c} : list'[d] = list[d]
      /\ signalled' \in [Ctx -> BOOLEAN] /\ signalled'[c] = sig
      /\ \A d \in Ctx \ {c} : signalled'[d] = signalled[d]
      /\ phase'[c] = p /\ \A d \in Ctx \ {c} : phase'[d] = phase[d]
  BY <1>1, <1>2 DEF DeviceTypes, Becomes
<1>4. DeviceTypes'
  BY <1>1, <1>2, <1>3 DEF DeviceTypes, kernelVars
<1>5. ASSUME NEW d \in Ctx
      PROVE  ContextOK(phase'[d], dev'[d], known'[d], msgs'[d], signalled'[d], list'[d])
  BY <1>3 DEF DeviceInv
<1> QED BY <1>4, <1>5 DEF DeviceInv

\* A step that sets the states of all contexts
LEMMA StatesChanged ==
    ASSUME DeviceInv, UNCHANGED <<kernelVars, phase, list>>, NEW st, SetStates(st),
           \A c \in Ctx : /\ StateOK(c, st[c], list[c])
                          /\ phase[c] \in {"none", "active", "closing"} => st[c] = State(c)
    PROVE  /\ DeviceInv'
           /\ \A c \in Ctx : /\ dev'[c] = st[c].dev /\ known'[c] = st[c].known
                             /\ msgs'[c] = st[c].msgs /\ signalled'[c] = st[c].signalled
<1>1. /\ dev' = [c \in Ctx |-> st[c].dev] /\ known' = [c \in Ctx |-> st[c].known]
      /\ msgs' = [c \in Ctx |-> st[c].msgs] /\ signalled' = [c \in Ctx |-> st[c].signalled]
  BY DEF SetStates
<1>2. \A c \in Ctx : /\ dev'[c] = st[c].dev /\ known'[c] = st[c].known
                     /\ msgs'[c] = st[c].msgs /\ signalled'[c] = st[c].signalled
  BY <1>1
<1>3. \A c \in Ctx : /\ st[c].dev \in [Slot -> Devices] /\ st[c].known \in SUBSET Slot
                     /\ st[c].msgs \in Seq(Messages) /\ st[c].signalled \in BOOLEAN
  BY DEF StateOK, States
<1>4. DeviceTypes'
  BY <1>1, <1>3 DEF DeviceInv, DeviceTypes, kernelVars
<1>5. ASSUME NEW c \in Ctx
      PROVE  ContextOK(phase[c], dev'[c], known'[c], msgs'[c], signalled'[c], list[c])
  <2>1. ContextOK(phase[c], dev[c], known[c], msgs[c], signalled[c], list[c])
    BY DEF DeviceInv
  <2>2. CASE phase[c] \in {"none", "active", "closing"}
    <3>1. /\ dev'[c] = dev[c] /\ known'[c] = known[c] /\ msgs'[c] = msgs[c]
          /\ signalled'[c] = signalled[c]
      BY <1>2, <2>2, StateIs
    <3> QED BY <2>1, <3>1
  <2>3. CASE phase[c] \notin {"none", "active", "closing"}
    BY <1>2, <2>1, <2>3 DEF StateOK, ContextOK
  <2> QED BY <2>2, <2>3
<1> QED BY <1>2, <1>4, <1>5 DEF DeviceInv

\* The kernel's devices, and the steps that change no device of a context
LEMMA KernelDevices ==
    ASSUME DeviceInv, NEW a \in Addr, Plug(a) \/ Unplug(a) \/ OtherUevent
    PROVE  DeviceInv'
<1>1. UNCHANGED <<phase, devVars, list>> /\ events \in Nat /\ bus \in [Addr -> Nat]
  BY DEF Plug, Unplug, OtherUevent, ctxVars, DeviceInv, DeviceTypes
<1>2. bus' \in [Addr -> Nat] /\ events' \in Nat
  BY <1>1 DEF Plug, Unplug, OtherUevent, Event
<1> QED BY <1>1, <1>2, DeviceFrame

LEMMA HandledDevices ==
    ASSUME ContextInv, DeviceInv, ~DuringInit, MonitorReads \/ PollReads \/ \E c \in Ctx : OpenGone(c)
    PROVE  DeviceInv'
<1>1. UNCHANGED <<kernelVars, phase, list>>
  BY DEF MonitorReads, PollReads, OpenGone, ctxVars
<1>2. ASSUME NEW e \in Uevents, SetStates(Handled(e)), ~TooEarly(e), e.act = "add" => HasRoom
      PROVE  DeviceInv'
  BY <1>1, <1>2, HandledOK, StatesChanged
<1>3. CASE MonitorReads \/ PollReads
  <2>1. uevents # <<>> /\ HasRoom /\ ~TooEarly(Head(uevents)) /\ SetStates(Handled(Head(uevents)))
    BY <1>3 DEF MonitorReads, PollReads, ReadMessage
  <2>2. Head(uevents) \in Uevents
    BY <2>1, UeventTypes DEF ContextInv, ControlOK
  <2> QED BY <1>2, <2>1, <2>2
<1>4. ASSUME NEW c \in Ctx, OpenGone(c) PROVE DeviceInv'
  <2>1. PICK s \in list[c] \cap known[c] :
           ~TooEarly([act |-> "remove", at |-> dev[c][s].at])
           /\ SetStates(Handled([act |-> "remove", at |-> dev[c][s].at]))
    BY <1>4 DEF OpenGone
  <2>2. dev[c][s].at \in Addr
    BY <2>1, KnownIs DEF DeviceInv, DeviceTypes, ContextOK
  <2> DEFINE e == [act |-> "remove", at |-> dev[c][s].at]
  <2>3. e \in Uevents /\ e.act # "add" /\ ~TooEarly(e) /\ SetStates(Handled(e))
    BY <2>1, <2>2 DEF Uevents
  <2> HIDE DEF e
  <2> QED BY <1>2, <2>3
<1> QED BY <1>3, <1>4

LEMMA ScanEntryDevices ==
    ASSUME ContextInv, DeviceInv, NEW c \in Ctx, ScanEntry(c)
    PROVE  /\ DeviceInv'
           /\ \E a \in lock.left :
                 /\ lock' = [lock EXCEPT !.left = @ \ {a},
                                         !.found = IF Readable(a) THEN @ + 1 ELSE @]
                 /\ Enumerated(c, State(c), a, State(c)')
                 /\ \A k \in Ctx \ {c} : State(k)' = State(k)
<1>1. /\ phase[c] = "scan" /\ HasRoom /\ UNCHANGED <<kernelVars, phase, list>>
      /\ \E a \in lock.left :
            /\ SetStates([k \in Ctx |-> IF k = c THEN Enumerate(c, State(c), a) ELSE State(k)])
            /\ lock' = [lock EXCEPT !.left = @ \ {a}, !.found = IF Readable(a) THEN @ + 1 ELSE @]
  BY DEF ScanEntry, ctxVars
<1>2. PICK a \in lock.left :
         /\ SetStates([k \in Ctx |-> IF k = c THEN Enumerate(c, State(c), a) ELSE State(k)])
         /\ lock' = [lock EXCEPT !.left = @ \ {a}, !.found = IF Readable(a) THEN @ + 1 ELSE @]
  BY <1>1
<1>3. a \in Addr
  <2>1. lock.for = "scan"
    BY <1>1 DEF ContextInv, MonitorInv
  <2> QED BY <1>2, <2>1, LockIs DEF ContextInv
<1> DEFINE st == [k \in Ctx |-> IF k = c THEN Enumerate(c, State(c), a) ELSE State(k)]
<1>4. /\ StateOK(c, State(c), list[c]) /\ State(c).dev = dev[c] /\ DeviceTypes /\ Room(State(c).dev)
  BY <1>1, StateIs, RoomIs DEF DeviceInv
<1>5. StateOK(c, Enumerate(c, State(c), a), list[c]) /\ Enumerated(c, State(c), a, Enumerate(c, State(c), a))
  BY <1>1, <1>3, <1>4, EnumerateOK
<1>6. SetStates(st) /\ st[c] = Enumerate(c, State(c), a) /\ \A k \in Ctx \ {c} : st[k] = State(k)
  BY <1>2
<1> HIDE DEF st
<1>7. \A k \in Ctx : /\ StateOK(k, st[k], list[k])
                     /\ phase[k] \in {"none", "active", "closing"} => st[k] = State(k)
  BY <1>1, <1>5, <1>6, StateIs
<1>8. /\ DeviceInv'
      /\ \A k \in Ctx : /\ dev'[k] = st[k].dev /\ known'[k] = st[k].known
                        /\ msgs'[k] = st[k].msgs /\ signalled'[k] = st[k].signalled
  BY <1>1, <1>6, <1>7, StatesChanged
<1>9. \A k \in Ctx : State(k)' = st[k]
  <2> TAKE k \in Ctx
  <2>1. st[k] \in States
    BY <1>7 DEF StateOK
  <2>2. State(k)' = [dev |-> st[k].dev, known |-> st[k].known, msgs |-> st[k].msgs,
                     signalled |-> st[k].signalled]
    BY <1>8 DEF State
  <2> QED BY <2>1, <2>2 DEF States
<1> QED BY <1>2, <1>5, <1>6, <1>8, <1>9

\* Whatever is dereferenced of a context, if it is no longer counted
LEMMA RefsDropped ==
    ASSUME NEW ds, NEW K, NEW M, NEW L, Refs(ds, K, M, L), NEW S \in SUBSET Slot,
           NEW K2, NEW N, NEW L2, K2 \subseteq K, N \in Seq(Messages), L2 \subseteq L,
           \A s \in Slot : \A j, k \in Left(N, s) : j = k, \A s \in K2 : Left(N, s) = {},
           \A s \in S : Held(K, M, L)[s] > 0, Drops(Held(K2, N, L2), Held(K, M, L), S),
           NEW e, e = UnrefAll(ds, S)
    PROVE  Refs(e, K2, N, L2)
<1> DEFINE h == Held(K, M, L)  f == Held(K2, N, L2)
<1>1. Balanced(ds, h) /\ h \in [Slot -> Nat] /\ f \in [Slot -> Nat] /\ \A s \in K2 : s \in Slot => f[s] > 0
  BY HeldIs DEF Refs
<1>2. Drops(f, h, S) /\ \A s \in S : h[s] > 0
  OBVIOUS
<1>3. K \subseteq Slot /\ L \subseteq Slot /\ \A s, k \in K : ds[s].at = ds[k].at => s = k
  BY DEF Refs
<1> HIDE DEF h, f
<1>4. Balanced(e, f) /\ Remnant(e, ds)
  BY <1>1, <1>2, UnrefBalanced
<1>5. \A s \in K2 : e[s].at = ds[s].at
  <2> TAKE s \in K2
  <2>1. s \in Slot /\ f[s] > 0
    BY <1>1, <1>3
  <2>2. e[s].refs > 0
    BY <1>1, <1>4, <2>1, BalancedIs
  <2> QED BY <1>4, <2>1, <2>2 DEF Remnant
<1>6. \A s, k \in K2 : e[s].at = e[k].at => s = k
  BY <1>3, <1>5
<1>7. K2 \subseteq Slot /\ L2 \subseteq Slot
  BY <1>3
<1> QED BY <1>4, <1>6, <1>7 DEF Refs, f

\* The application takes and frees its list.
LEMMA ListDevices ==
    ASSUME ContextInv, DeviceInv, PollInv, NEW c \in Ctx, (GetDeviceList /\ c = lock.ctx) \/ FreeDeviceList(c)
    PROVE  DeviceInv'
<1> DEFINE ds == dev[c]  K == known[c]  M == msgs[c]  L == list[c]
<1>1. /\ UNCHANGED <<kernelVars, phase, known, msgs, signalled>> /\ phase \in [Ctx -> Phases]
  BY DEF GetDeviceList, FreeDeviceList, ctxVars, ContextInv, ControlOK
<1>2. /\ ds \in [Slot -> Devices] /\ K \in SUBSET Slot /\ M \in Seq(Messages) /\ L \in SUBSET Slot
      /\ signalled[c] \in BOOLEAN /\ known' = [known EXCEPT ![c] = K] /\ msgs' = [msgs EXCEPT ![c] = M]
      /\ signalled' = [signalled EXCEPT ![c] = signalled[c]]
      /\ ContextOK(phase[c], ds, K, M, signalled[c], L)
  BY <1>1 DEF DeviceInv, DeviceTypes
<1>3. Refs(ds, K, M, L) /\ Balanced(ds, Held(K, M, L)) /\ Held(K, M, L) \in [Slot -> Nat]
  BY <1>2, HeldIs DEF ContextOK, Refs
<1>4. ASSUME NEW e, NEW L2 \in SUBSET Slot, Refs(e, K, M, L2), phase[c] # "ready" => L2 = {},
             dev' = [dev EXCEPT ![c] = e], list' = [list EXCEPT ![c] = L2]
      PROVE  DeviceInv'
  <2>1. e \in [Slot -> Devices]
    BY <1>4 DEF Refs, Balanced, Tree
  <2>2. phase[c] \in {"none", "active", "closing"} => e = [s \in Slot |-> NoDev]
    <3> SUFFICES ASSUME phase[c] \in {"none", "active", "closing"} PROVE e = [s \in Slot |-> NoDev]
      OBVIOUS
    <3>1. K = {} /\ M = <<>> /\ L2 = {}
      BY <1>2, <1>4 DEF ContextOK
    <3> DEFINE f == Held(K, M, L2)
    <3>2. \A s \in Slot : f[s] = 0
      BY <3>1 DEF Held, Left
    <3>3. Balanced(e, f) /\ f \in [Slot -> Nat]
      BY <1>4, HeldIs DEF Refs
    <3> HIDE DEF f
    <3> QED BY <3>2, <3>3, NoneHeld
  <2>3. ContextOK(phase[c], e, K, M, signalled[c], L2)
    BY <1>2, <1>4, <2>2 DEF ContextOK
  <2> DEFINE p == phase[c]  sig == signalled[c]
  <2>4. ContextOK(p, e, K, M, sig, L2) /\ Becomes(c, p, e, K, M, sig, L2)
    BY <1>1, <1>2, <1>4, <2>3 DEF Becomes
  <2> HIDE DEF K, M, p, sig
  <2> QED BY <2>4, ContextChanged
<1>5. CASE GetDeviceList /\ c = lock.ctx
  <2> DEFINE e == RefAll(ds, K)  h == Held(K, M, L)  f == Held(K, M, K)
  <2>1. /\ lock.for = "poll" /\ dev' = [dev EXCEPT ![c] = e]
        /\ list' = [list EXCEPT ![c] = K]
    BY <1>5 DEF GetDeviceList
  <2>2. phase[c] = "ready" /\ L = {}
    BY <1>5, <2>1 DEF ContextInv, MonitorInv, PollInv
  <2>3. \A s \in K : ds[s].refs > 0
    BY <1>2, <1>3, KnownIs
  <2>4. Adds(f, h, K)
    BY <2>2 DEF Adds, Held
  <2>5. Balanced(ds, h) /\ h \in [Slot -> Nat] /\ e = RefAll(ds, K)
    BY <1>3
  <2> HIDE DEF ds, K, h, f, e
  <2>6. Balanced(e, f) /\ SameDevices(e, ds, Slot)
    BY <1>2, <2>3, <2>4, <2>5, RefBalanced
  <2>7. \A s \in K : e[s].at = ds[s].at
    BY <1>2, <2>6 DEF SameDevices
  <2>8. Refs(e, K, M, K)
    BY <1>2, <1>3, <2>6, <2>7 DEF Refs, f
  <2> QED BY <1>2, <1>4, <2>1, <2>2, <2>8
<1>6. CASE FreeDeviceList(c)
  <2> DEFINE e == UnrefAll(ds, L)  h == Held(K, M, L)  f == Held(K, M, {})
  <2>1. /\ L # {} /\ dev' = [dev EXCEPT ![c] = e] /\ list' = [list EXCEPT ![c] = {}]
    BY <1>6 DEF FreeDeviceList
  <2>2. Drops(f, h, L) /\ \A s \in L : h[s] > 0
    <3>1. \A s \in L : h[s] > 0
      BY <1>2, HeldIs
    <3>2. ASSUME NEW s \in Slot PROVE f[s] = IF s \in L THEN h[s] - 1 ELSE h[s]
      <4> DEFINE x == IF s \in K THEN 1 ELSE 0  y == IF Left(M, s) = {} THEN 0 ELSE 1
      <4>1. x \in Nat /\ y \in Nat
        OBVIOUS
      <4>2. f[s] = x + y + 0 /\ h[s] = x + y + (IF s \in L THEN 1 ELSE 0)
        BY DEF Held
      <4> HIDE DEF x, y, f, h
      <4> QED BY <4>1, <4>2
    <3> QED BY <3>1, <3>2 DEF Drops
  <2>3. e = UnrefAll(ds, L) /\ {} \subseteq L
    OBVIOUS
  <2>4. (\A s \in Slot : \A j, k \in Left(M, s) : j = k) /\ (\A s \in K : Left(M, s) = {})
    BY <1>3 DEF Refs
  <2> HIDE DEF ds, K, M, L, e
  <2>5. Refs(e, K, M, {})
    BY <1>2, <1>3, <2>2, <2>3, <2>4, RefsDropped
  <2>6. {} \in SUBSET Slot
    OBVIOUS
  <2> QED BY <1>4, <2>1, <2>5, <2>6
<1> QED BY <1>5, <1>6

\* A message that is handled
LEMMA MessageDevices ==
    ASSUME ContextInv, DeviceInv, NEW c \in Ctx, HandleMessage(c)
    PROVE  DeviceInv'
<1> DEFINE p == phase[c]  ds == dev[c]  K == known[c]  M == msgs[c]  L == list[c]  N == Tail(M)
           e == IF Head(M).left THEN UnrefAll(ds, {Head(M).d}) ELSE ds
           sig == Len(M) > 1
<1>1. /\ p = "ready" /\ M # <<>> /\ UNCHANGED <<kernelVars, phase, known, list>>
      /\ dev' = IF Head(M).left THEN [dev EXCEPT ![c] = UnrefAll(ds, {Head(M).d})] ELSE dev
      /\ msgs' = [msgs EXCEPT ![c] = N] /\ signalled' = [signalled EXCEPT ![c] = sig]
  BY DEF HandleMessage, ctxVars
<1>2. Becomes(c, p, e, K, N, sig, L)
  <2>1. dev \in [Ctx -> [Slot -> Devices]] /\ known \in [Ctx -> SUBSET Slot] /\ list \in [Ctx -> SUBSET Slot]
        /\ phase \in [Ctx -> Phases]
    BY DEF DeviceInv, DeviceTypes, ContextInv, ControlOK
  <2>2. dev' = [dev EXCEPT ![c] = e]
    BY <1>1, <2>1
  <2>3. phase' = [phase EXCEPT ![c] = p] /\ known' = [known EXCEPT ![c] = K]
        /\ list' = [list EXCEPT ![c] = L] /\ UNCHANGED kernelVars
    BY <1>1, <2>1
  <2>4. msgs' = [msgs EXCEPT ![c] = N] /\ signalled' = [signalled EXCEPT ![c] = sig] /\ sig \in BOOLEAN
    BY <1>1
  <2> HIDE DEF e, p, K, L, N, sig
  <2> QED BY <2>2, <2>3, <2>4 DEF Becomes
<1>3. /\ M \in Seq(Messages) /\ Refs(ds, K, M, L) /\ ContextOK(p, ds, K, M, signalled[c], L)
  BY DEF DeviceInv, DeviceTypes, ContextOK
<1>4. N # <<>> => sig
  BY <1>1, <1>3
<1> HIDE DEF M, N
<1>5. /\ N \in Seq(Messages) /\ Head(M) \in Messages
      /\ \A s : 1 \in Left(M, s) <=> Head(M).left /\ Head(M).d = s
      /\ \A s : \A k \in Left(M, s) : k # 1 => k - 1 \in Left(N, s)
      /\ \A s : \A k \in Left(N, s) : k + 1 \in Left(M, s) /\ k \in Nat \ {0}
  BY <1>1, <1>3, LeftTail DEF N
<1>6. \A s \in Slot : \A j, k \in Left(M, s) : j = k
  BY <1>3 DEF Refs
<1>7. /\ \A s \in Slot : \A j, k \in Left(N, s) : j = k
      /\ \A s \in K : Left(N, s) = {}
  <2>1. ASSUME NEW s \in Slot, NEW j \in Left(N, s), NEW k \in Left(N, s) PROVE j = k
    <3>1. j + 1 = k + 1 /\ j \in Nat /\ k \in Nat
      BY <1>5, <1>6
    <3> QED BY <3>1
  <2>2. \A s \in K : Left(M, s) = {}
    BY <1>3 DEF Refs
  <2> QED BY <1>5, <2>1, <2>2
<1>8. Refs(e, K, N, L)
  <2>1. CASE Head(M).left
    <3> DEFINE d == Head(M).d  h == Held(K, M, L)  f == Held(K, N, L)
    <3>1. d \in Slot /\ e = UnrefAll(ds, {d}) /\ 1 \in Left(M, d)
      BY <1>5, <2>1 DEF Messages
    <3> HIDE DEF d, e
    <3>2. Left(N, d) = {}
      <4>1. ASSUME NEW k \in Left(N, d) PROVE FALSE
        <5>1. k + 1 = 1 /\ k \in Nat \ {0}
          BY <1>5, <1>6, <3>1
        <5> QED BY <5>1
      <4> QED BY <4>1
    <3>3. \A s \in Slot \ {d} : Left(N, s) = {} <=> Left(M, s) = {}
      <4> TAKE s \in Slot \ {d}
      <4>1. 1 \notin Left(M, s)
        BY <1>5 DEF d
      <4> QED BY <1>5, <4>1
    <3>4. Drops(f, h, {d})
      <4>1. ASSUME NEW s \in Slot, s # d PROVE f[s] = h[s]
        BY <3>3, <4>1 DEF Held
      <4>2. f[d] = h[d] - 1
        <5> DEFINE x == IF d \in K THEN 1 ELSE 0  y == IF d \in L THEN 1 ELSE 0
        <5>1. x \in Nat /\ y \in Nat
          OBVIOUS
        <5>2. Left(M, d) # {}
          BY <3>1
        <5>3. f[d] = x + 0 + y /\ h[d] = x + 1 + y
          BY <3>1, <3>2, <5>2 DEF Held
        <5> HIDE DEF x, y, f, h
        <5> QED BY <5>1, <5>3
      <4> HIDE DEF f, h
      <4> QED BY <3>1, <4>1, <4>2 DEF Drops
    <3>5. \A s \in {d} : h[s] > 0
      BY <3>1, HeldIs
    <3> HIDE DEF ds, K, L, f, h
    <3>6. Drops(Held(K, N, L), Held(K, M, L), {d}) /\ \A s \in {d} : Held(K, M, L)[s] > 0
      BY <3>4, <3>5 DEF f, h
    <3>7. {d} \in SUBSET Slot /\ K \subseteq K /\ L \subseteq L
      BY <3>1
    <3> QED BY <1>3, <1>5, <1>7, <3>1, <3>6, <3>7, RefsDropped
  <2>2. CASE ~Head(M).left
    <3> DEFINE h == Held(K, M, L)  f == Held(K, N, L)
    <3>1. e = ds
      BY <2>2
    <3>2. \A s \in Slot : Left(N, s) = {} <=> Left(M, s) = {}
      <4> TAKE s \in Slot
      <4>1. 1 \notin Left(M, s)
        BY <1>5, <2>2
      <4> QED BY <1>5, <4>1
    <3>3. \A s \in Slot : f[s] = h[s]
      BY <3>2 DEF Held
    <3>4. Balanced(ds, h)
      BY <1>3 DEF Refs
    <3> HIDE DEF ds, K, L, e, h, f
    <3>5. Balanced(ds, f)
      BY <3>3, <3>4, BalancedSame
    <3>6. Refs(ds, K, N, L)
      BY <1>3, <1>5, <1>7, <3>5 DEF Refs, f
    <3> QED BY <3>1, <3>6
  <2> QED BY <2>1, <2>2
<1>9. ContextOK(p, e, K, N, sig, L)
  BY <1>1, <1>3, <1>4, <1>8 DEF ContextOK
<1> HIDE DEF p, ds, K, L, e, sig
<1> QED BY <1>2, <1>9, ContextChanged

\* A context that is freed, whether its init failed or it is left
LEMMA FreedDevices ==
    ASSUME ContextInv, DeviceInv, NEW c \in Ctx, InitFails(c) \/ ExitDevices(c)
    PROVE  DeviceInv'
<1> DEFINE ds == dev[c]  K == known[c]  M == msgs[c]  L == list[c]
           S == IF phase[c] = "exiting" THEN Leavers(c) ELSE {}
           d1 == IF phase[c] = "exiting" THEN UnrefAll(ds, S) ELSE ds
           e == UnrefAll(d1, K)
           p == IF phase[c] = "exiting" THEN "closing" ELSE "none"
           sig == IF phase[c] = "exiting" THEN FALSE ELSE signalled[c]
           none == [s \in Slot |-> NoDev]
<1>1. Refs(ds, K, M, L) /\ (M # <<>> => signalled[c] /\ phase[c] \in {"ready", "exiting"})
      /\ (phase[c] # "ready" => L = {}) /\ K \in SUBSET Slot /\ M \in Seq(Messages)
      /\ signalled[c] \in BOOLEAN /\ L \in SUBSET Slot
  BY DEF DeviceInv, DeviceTypes, ContextOK
<1>2. phase[c] # "ready" /\ (phase[c] = "exiting" <=> ExitDevices(c))
  BY DEF InitFails, ExitDevices, Initing
<1>3. L = {} /\ (phase[c] # "exiting" => M = <<>>)
  BY <1>1, <1>2
<1>4. Becomes(c, p, e, {}, <<>>, sig, L)
  <2>1. signalled \in [Ctx -> BOOLEAN] /\ list \in [Ctx -> SUBSET Slot]
    BY DEF DeviceInv, DeviceTypes
  <2>2. CASE ExitDevices(c)
    <3>1. /\ phase' = [phase EXCEPT ![c] = p] /\ dev' = [dev EXCEPT ![c] = e]
          /\ known' = [known EXCEPT ![c] = {}] /\ msgs' = [msgs EXCEPT ![c] = <<>>]
          /\ signalled' = [signalled EXCEPT ![c] = sig] /\ sig \in BOOLEAN
          /\ UNCHANGED <<kernelVars, list>>
      BY <1>2, <2>2 DEF ExitDevices
    <3> HIDE DEF e, p, sig
    <3> QED BY <2>1, <3>1 DEF Becomes
  <2>3. CASE InitFails(c)
    <3>0. phase[c] # "exiting"
      BY <2>3 DEF InitFails, Initing
    <3>1. /\ phase' = [phase EXCEPT ![c] = p] /\ dev' = [dev EXCEPT ![c] = e]
          /\ known' = [known EXCEPT ![c] = {}] /\ msgs' = [msgs EXCEPT ![c] = <<>>]
          /\ signalled' = signalled /\ sig = signalled[c] /\ sig \in BOOLEAN
          /\ UNCHANGED <<kernelVars, list>>
      BY <1>1, <2>3, <3>0 DEF InitFails
    <3> HIDE DEF e, p, sig
    <3> QED BY <2>1, <3>1 DEF Becomes
  <2> QED BY <2>2, <2>3
<1>5. \A s : Left(<<>>, s) = {}
  BY DEF Left
<1>6. Refs(d1, K, <<>>, {})
  <2>1. CASE phase[c] = "exiting"
    <3>1. \A s \in Slot : s \in S <=> Left(M, s) # {}
      BY <1>1, <2>1 DEF Leavers, Left, Messages
    <3>2. S \in SUBSET Slot
      <4>1. \A k \in DOMAIN M : M[k].d \in Slot
        <5>1. \A k \in DOMAIN M : M[k] \in Messages
          BY <1>1
        <5> QED BY <5>1 DEF Messages
      <4> QED BY <2>1, <4>1 DEF Leavers
    <3>3. d1 = UnrefAll(ds, S)
      BY <2>1
    <3> HIDE DEF ds, K, M, L, S, d1
    <3>4. \A s \in S : Held(K, M, L)[s] > 0
      BY <3>1, <3>2, HeldIs
    <3>5. Drops(Held(K, <<>>, {}), Held(K, M, L), S)
      <4> SUFFICES ASSUME NEW s \in Slot
                   PROVE  Held(K, <<>>, {})[s] = IF s \in S THEN Held(K, M, L)[s] - 1 ELSE Held(K, M, L)[s]
        BY DEF Drops
      <4>1. CASE s \in S
        BY <1>3, <1>5, <3>1, <4>1 DEF Held
      <4>2. CASE s \notin S
        BY <1>3, <1>5, <3>1, <4>2 DEF Held
      <4> QED BY <4>1, <4>2
    <3>6. <<>> \in Seq(Messages) /\ {} \subseteq L /\ K \subseteq K
      OBVIOUS
    <3> QED BY <1>1, <1>5, <3>2, <3>3, <3>4, <3>5, <3>6, RefsDropped
  <2>2. CASE phase[c] # "exiting"
    BY <1>1, <1>3, <2>2
  <2> QED BY <2>1, <2>2
<1>7. Refs(e, {}, <<>>, {})
  <2> HIDE DEF ds, K, M, L, S, d1
  <2>1. Drops(Held({}, <<>>, {}), Held(K, <<>>, {}), K) /\ \A s \in K : Held(K, <<>>, {})[s] > 0
    BY <1>1, <1>5 DEF Drops, Held
  <2>2. <<>> \in Seq(Messages) /\ {} \subseteq K /\ e = UnrefAll(d1, K) /\ {} \subseteq {}
    OBVIOUS
  <2> HIDE DEF e
  <2> QED BY <1>1, <1>5, <1>6, <2>1, <2>2, RefsDropped
<1>8. e = none
  <2> DEFINE f == Held({}, <<>>, {})
  <2>1. Balanced(e, f) /\ f \in [Slot -> Nat] /\ \A s \in Slot : f[s] = 0
    BY <1>5, <1>7 DEF Refs, Held
  <2> HIDE DEF f, e
  <2> QED BY <2>1, NoneHeld
<1>9. ContextOK(p, e, {}, <<>>, sig, L)
  BY <1>3, <1>7, <1>8 DEF ContextOK
<1> HIDE DEF p, e, sig, L
<1> QED BY <1>4, <1>9, ContextChanged

\* The steps that only move a context on
LEMMA PhaseDevices ==
    ASSUME ContextInv, DeviceInv, NEW c \in Ctx,
           \/ InitBegin(c) \/ ScanBegin(c) \/ ScanEnds(c) \/ IoLists(c) \/ IoPipe(c)
           \/ ExitBegin(c) \/ ExitBackend(c)
    PROVE  DeviceInv'
<1> DEFINE ds == dev[c]  K == known[c]  M == msgs[c]  L == list[c]  sig == signalled[c]
<1>1. PICK p : /\ phase' = [phase EXCEPT ![c] = p]
               /\ \/ phase[c] = "none" /\ p = "active"
                  \/ phase[c] = "active" /\ p = "scan"
                  \/ phase[c] = "scan" /\ p = "io"
                  \/ phase[c] = "io" /\ p = "lists"
                  \/ phase[c] = "lists" /\ p = "ready"
                  \/ phase[c] = "closing" /\ p = "none"
                  \/ phase[c] = "ready" /\ p = "exiting" /\ L = {}
  <2>1. CASE InitBegin(c)
    <3>1. phase' = [phase EXCEPT ![c] = "active"] /\ phase[c] = "none"
      BY <2>1 DEF InitBegin
    <3> QED BY <3>1
  <2>2. CASE ScanBegin(c)
    <3>1. phase' = [phase EXCEPT ![c] = "scan"] /\ phase[c] = "active"
      BY <2>2 DEF ScanBegin
    <3> QED BY <3>1
  <2>3. CASE ScanEnds(c)
    <3>1. phase' = [phase EXCEPT ![c] = "io"] /\ phase[c] = "scan"
      BY <2>3 DEF ScanEnds
    <3> QED BY <3>1
  <2>4. CASE IoLists(c)
    <3>1. phase' = [phase EXCEPT ![c] = "lists"] /\ phase[c] = "io"
      BY <2>4 DEF IoLists
    <3> QED BY <3>1
  <2>5. CASE IoPipe(c)
    <3>1. phase' = [phase EXCEPT ![c] = "ready"] /\ phase[c] = "lists"
      BY <2>5 DEF IoPipe
    <3> QED BY <3>1
  <2>6. CASE ExitBackend(c)
    <3>1. phase' = [phase EXCEPT ![c] = "none"] /\ phase[c] = "closing"
      BY <2>6 DEF ExitBackend
    <3> QED BY <3>1
  <2>7. CASE ExitBegin(c)
    <3>1. phase' = [phase EXCEPT ![c] = "exiting"] /\ phase[c] = "ready" /\ L = {}
      BY <2>7 DEF ExitBegin
    <3> QED BY <3>1
  <2> QED BY <2>1, <2>2, <2>3, <2>4, <2>5, <2>6, <2>7
<1>2. UNCHANGED <<bus, devVars, list>> /\ events' \in Nat
  BY DEF InitBegin, ScanBegin, ScanEnds, IoLists, IoPipe, ExitBegin, ExitBackend, Event, kernelVars,
         DeviceInv, DeviceTypes
<1>3. ContextOK(phase[c], ds, K, M, sig, L)
  BY DEF DeviceInv
<1>4. ContextOK(p, ds, K, M, sig, L)
  BY <1>1, <1>3 DEF ContextOK
<1>5. phase'[c] = p /\ \A d \in Ctx \ {c} : phase'[d] = phase[d]
  BY <1>1 DEF ContextInv, ControlOK
<1> QED BY <1>2, <1>4, <1>5 DEF DeviceInv, DeviceTypes, devVars

LEMMA PollStep ==
    ASSUME ContextInv, DeviceInv, PollInv, [Next]_vars
    PROVE  PollInv'
<1>1. CASE UNCHANGED <<lock, list>> \/ lock' = Unlocked
  BY <1>1 DEF PollInv, Unlocked
<1>2. ASSUME NEW c \in Ctx, FreeDeviceList(c) PROVE PollInv'
  <2>1. list' = [list EXCEPT ![c] = {}] /\ lock' = lock /\ list \in [Ctx -> SUBSET Slot]
    BY <1>2 DEF FreeDeviceList, DeviceInv, DeviceTypes
  <2> QED BY <2>1, LockIs DEF PollInv, ContextInv
<1>3. ASSUME NEW c \in Ctx, PollBegin(c) PROVE PollInv'
  BY <1>3 DEF PollBegin, PollInv
<1>4. CASE PollReads
  <2>1. lock.for = "poll" /\ list' = list
        /\ lock' = [lock EXCEPT !.due = IF @ > 0 THEN @ - 1 ELSE 0, !.more = AboutDevice(Head(uevents))]
    BY <1>4 DEF PollReads
  <2>2. lock \in [for : {"poll"}, ctx : Ctx, due : Nat, more : BOOLEAN]
    BY <2>1 DEF ContextInv, ControlOK, Locks
  <2>3. lock'.ctx = lock.ctx
    BY <2>1, <2>2
  <2> QED BY <2>1, <2>3 DEF PollInv
<1>5. ASSUME NEW c \in Ctx, ScanBegin(c) PROVE PollInv'
  BY <1>5 DEF ScanBegin, PollInv
<1>6. ASSUME NEW c \in Ctx, ScanEntry(c) PROVE PollInv'
  <2>1. phase[c] = "scan"
    BY <1>6 DEF ScanEntry
  <2>2. lock.for = "scan"
    BY <2>1 DEF ContextInv, MonitorInv
  <2>3. lock \in [for : {"scan"}, left : SUBSET Addr, found : Nat, listed : Nat]
    BY <2>2 DEF ContextInv, ControlOK, Locks
  <2>4. PICK a \in lock.left :
           lock' = [lock EXCEPT !.left = @ \ {a}, !.found = IF Readable(a) THEN @ + 1 ELSE @]
    BY <1>6 DEF ScanEntry
  <2>5. lock'.for = "scan"
    BY <2>3, <2>4
  <2> QED BY <2>5 DEF PollInv
<1>7. ASSUME NEW c \in Ctx,
             \/ InitBegin(c) \/ ScanEnds(c) \/ IoLists(c) \/ IoPipe(c) \/ InitFails(c) \/ OpenGone(c)
             \/ HandleMessage(c) \/ ExitAgain(c) \/ ExitBegin(c) \/ ExitDevices(c) \/ ExitBackend(c)
      PROVE  UNCHANGED <<lock, list>> \/ lock' = Unlocked
  BY <1>7 DEF InitBegin, ScanEnds, IoLists, IoPipe, InitFails, OpenGone, HandleMessage,
              ExitAgain, ExitBegin, ExitDevices, ExitBackend
<1>8. ASSUME NEW a \in Addr,
             \/ Plug(a) \/ Unplug(a) \/ OtherUevent \/ MonitorReads \/ GetDeviceList \/ InitAgain
             \/ UNCHANGED vars
      PROVE  UNCHANGED <<lock, list>> \/ lock' = Unlocked
  BY <1>8 DEF Plug, Unplug, OtherUevent, MonitorReads, GetDeviceList, InitAgain, vars
<1> QED BY <1>1, <1>2, <1>3, <1>4, <1>5, <1>6, <1>7, <1>8, Constants DEF Next

LEMMA DeviceStep ==
    ASSUME ContextInv, DeviceInv, PollInv, ~DuringInit, [Next]_vars
    PROVE  DeviceInv'
<1>1. ASSUME NEW c \in Ctx, ExitAgain(c) \/ PollBegin(c) \/ InitAgain \/ UNCHANGED vars PROVE DeviceInv'
  <2>1. UNCHANGED <<bus, phase, devVars, list>> /\ events' \in Nat
    BY <1>1 DEF ExitAgain, PollBegin, InitAgain, vars, kernelVars, ctxVars, Event, DeviceInv, DeviceTypes
  <2> QED BY <2>1, DeviceFrame DEF DeviceInv, DeviceTypes
<1>2. ASSUME NEW a \in Addr, Plug(a) \/ Unplug(a) \/ OtherUevent PROVE DeviceInv'
  BY <1>2, KernelDevices
<1>3. ASSUME MonitorReads \/ PollReads \/ \E c \in Ctx : OpenGone(c) PROVE DeviceInv'
  BY <1>3, HandledDevices
<1>4. ASSUME NEW c \in Ctx, ScanEntry(c) PROVE DeviceInv'
  BY <1>4, ScanEntryDevices
<1>5. ASSUME NEW c \in Ctx, FreeDeviceList(c) PROVE DeviceInv'
  BY <1>5, ListDevices
<1>6. CASE GetDeviceList
  <2>1. lock.for = "poll"
    BY <1>6 DEF GetDeviceList
  <2>2. lock.ctx \in Ctx
    BY <2>1, LockIs DEF ContextInv
  <2> QED BY <1>6, <2>2, ListDevices
<1>7. ASSUME NEW c \in Ctx, HandleMessage(c) PROVE DeviceInv'
  BY <1>7, MessageDevices
<1>8. ASSUME NEW c \in Ctx, InitFails(c) \/ ExitDevices(c) PROVE DeviceInv'
  BY <1>8, FreedDevices
<1>9. ASSUME NEW c \in Ctx,
             \/ InitBegin(c) \/ ScanBegin(c) \/ ScanEnds(c) \/ IoLists(c) \/ IoPipe(c)
             \/ ExitBegin(c) \/ ExitBackend(c)
      PROVE  DeviceInv'
  BY <1>9, PhaseDevices
<1>10. CASE InitAgain
  <2>1. default \in Ctx
    BY <1>10 DEF InitAgain, ContextInv, ControlOK
  <2> QED BY <1>1, <1>10, <2>1
<1>11. CASE UNCHANGED vars
  <2>1. UNCHANGED <<bus, events, phase, devVars, list>>
    BY <1>11 DEF vars, kernelVars, ctxVars
  <2> QED BY <2>1, DeviceFrame DEF DeviceInv, DeviceTypes
<1> QED BY <1>1, <1>2, <1>3, <1>4, <1>5, <1>6, <1>7, <1>8, <1>9, <1>10, <1>11, Constants DEF Next

LEMMA InitDevices == Init => DeviceInv /\ PollInv
<1> SUFFICES ASSUME Init PROVE DeviceInv /\ PollInv
  OBVIOUS
<1> DEFINE none == [s \in Slot |-> NoDev]
<1>1. /\ bus = [a \in Addr |-> 0] /\ events = 0 /\ lock = Unlocked
      /\ phase = [c \in Ctx |-> "none"] /\ dev = [c \in Ctx |-> none]
      /\ known = [c \in Ctx |-> {}] /\ msgs = [c \in Ctx |-> <<>>]
      /\ signalled = [c \in Ctx |-> FALSE] /\ list = [c \in Ctx |-> {}]
  BY DEF Init
<1>2. none \in [Slot -> Devices] /\ <<>> \in Seq(Messages)
  BY Nobody
<1>3. Refs(none, {}, <<>>, {})
  <2>1. \A s : Left(<<>>, s) = {}
    BY DEF Left
  <2>2. \A s \in Slot : Children(none, s) = {} /\ none[s].refs = 0
    BY Nobody DEF Children
  <2>3. \A s \in Slot : none[s].refs = Held({}, <<>>, {})[s] + Cardinality(Children(none, s))
    BY <2>1, <2>2, FS_EmptySet DEF Held
  <2>4. Tree(none)
    BY <1>2, <2>2 DEF Tree
  <2> HIDE DEF none
  <2> QED BY <1>2, <2>1, <2>3, <2>4 DEF Refs, Balanced
<1>4. \A c \in Ctx : ContextOK(phase[c], dev[c], known[c], msgs[c], signalled[c], list[c])
  BY <1>1, <1>3 DEF ContextOK
<1>5. DeviceTypes
  BY <1>1, <1>2 DEF DeviceTypes
<1> QED BY <1>1, <1>4, <1>5 DEF DeviceInv, PollInv, Unlocked

\* When no uevent comes too early, each device of each context has as many references
\* as the lists, the messages and its children make up, and a context that is gone
\* has none left: no interleaving of the monitor, the scan, the application and
\* libusb_exit drops a reference twice or keeps one for ever.
THEOREM ReferencesBalance == ~DuringInit => (Spec => []RefsBalance)
<1> SUFFICES ASSUME ~DuringInit PROVE Spec => []RefsBalance
  OBVIOUS
<1> DEFINE Inv == ContextInv /\ DeviceInv /\ PollInv
<1>1. Init => Inv
  BY InitContextInv, InitDevices
<1>2. Inv /\ [Next]_vars => Inv'
  BY NextContextInv, DeviceStep, PollStep
<1>3. Inv => RefsBalance
  <2> SUFFICES ASSUME ContextInv, DeviceInv, NEW c \in Ctx, NEW s \in Slot
               PROVE  /\ phase[c] = "none" => dev[c][s] = NoDev
                      /\ dev[c][s].refs = Count(s \in known[c]) + Cardinality(LeftMessages(c, s))
                           + Count(s \in list[c])
                           + Cardinality({k \in Slot : dev[c][k].refs > 0 /\ dev[c][k].parent = s})
    BY DEF RefsBalance
  <2> DEFINE K == known[c]  M == msgs[c]  L == list[c]
             x == IF s \in K THEN 1 ELSE 0  z == IF s \in L THEN 1 ELSE 0
             y == IF Left(M, s) = {} THEN 0 ELSE 1
             n == Cardinality(Children(dev[c], s))
  <2>1. ContextOK(phase[c], dev[c], K, M, signalled[c], L)
    BY DEF DeviceInv
  <2>2. phase[c] = "none" => dev[c][s] = NoDev
    BY <2>1 DEF ContextOK
  <2>3. dev[c][s].refs = x + y + z + n
    BY <2>1 DEF ContextOK, Refs, Balanced, Held
  <2>4. Cardinality(LeftMessages(c, s)) = y
    <3>1. LeftMessages(c, s) = Left(M, s)
      BY DEF LeftMessages, Left
    <3>2. \A j, k \in Left(M, s) : j = k
      BY <2>1 DEF ContextOK, Refs
    <3>3. CASE Left(M, s) = {}
      BY <3>1, <3>3, FS_EmptySet
    <3>4. CASE Left(M, s) # {}
      <4>1. PICK j \in Left(M, s) : Left(M, s) = {j}
        BY <3>2, <3>4
      <4>2. Cardinality({j}) = 1
        BY FS_Singleton
      <4> QED BY <3>1, <3>4, <4>1, <4>2
    <3> QED BY <3>3, <3>4
  <2>5. Count(s \in known[c]) = x /\ Count(s \in list[c]) = z
    BY DEF Count
  <2>6. n = Cardinality({k \in Slot : dev[c][k].refs > 0 /\ dev[c][k].parent = s})
    BY DEF Children
  <2> HIDE DEF x, y, z, n
  <2> QED BY <2>2, <2>3, <2>4, <2>5, <2>6
<1> QED BY <1>1, <1>2, <1>3, PTL DEF Spec

----------------------------------------------------------------------------
(* What the kernel tells, message by message.                              *)

LEMMA ToldIs ==
    ASSUME NEW M \in Seq(Uevents)
    PROVE  /\ \A k \in Nat : \A act, a : Told(M, k, act, a) => k >= 1 /\ k <= Len(M)
           /\ \A act, a : ~Told(<<>>, 0, act, a) /\ ~Pending(<<>>, act, a)
           /\ \A k \in Nat : \A act, a : Told(M, k, act, a) => Pending(M, act, a)
<1>1. DOMAIN M = 1..Len(M) /\ Len(M) \in Nat
  OBVIOUS
<1>2. \A k \in Nat : \A act, a : Told(M, k, act, a) => k >= 1 /\ k <= Len(M)
  BY <1>1 DEF Told
<1>3. \A k, act, a : ~Told(<<>>, k, act, a)
  BY DEF Told
<1> QED BY <1>2, <1>3 DEF Pending

LEMMA ToldAppend ==
    ASSUME NEW M \in Seq(Uevents), NEW e \in Uevents, NEW N, N = Append(M, e)
    PROVE  /\ N \in Seq(Uevents) /\ Len(M) + 1 \in Nat
           /\ \A k \in Nat : \A act, a : Told(M, k, act, a) => Told(N, k, act, a) /\ k < Len(M) + 1
           /\ \A k \in Nat : \A act, a : Told(N, k, act, a) =>
                 Told(M, k, act, a) \/ (k = Len(M) + 1 /\ e.act = act /\ e.at = a)
           /\ Told(N, Len(M) + 1, e.act, e.at)
           /\ \A act, a : Pending(M, act, a) => Pending(N, act, a)
           /\ Pending(N, e.act, e.at)
<1>1. /\ N \in Seq(Uevents) /\ Len(M) \in Nat /\ DOMAIN M = 1..Len(M) /\ DOMAIN N = 1..(Len(M) + 1)
      /\ N[Len(M) + 1] = e /\ \A k \in 1..Len(M) : N[k] = M[k]
  OBVIOUS
<1>2. e = [act |-> e.act, at |-> e.at]
  BY DEF Uevents
<1>3. ASSUME NEW k \in Nat, NEW act, NEW a, Told(M, k, act, a)
      PROVE  Told(N, k, act, a) /\ k < Len(M) + 1
  BY <1>1, <1>3 DEF Told
<1>4. ASSUME NEW k \in Nat, NEW act, NEW a, Told(N, k, act, a)
      PROVE  Told(M, k, act, a) \/ (k = Len(M) + 1 /\ e.act = act /\ e.at = a)
  <2>1. k \in 1..(Len(M) + 1) /\ N[k] = [act |-> act, at |-> a]
    BY <1>1, <1>4 DEF Told
  <2>2. CASE k = Len(M) + 1
    <3>1. e = [act |-> act, at |-> a]
      BY <1>1, <2>1, <2>2
    <3> QED BY <2>2, <3>1
  <2>3. CASE k # Len(M) + 1
    <3>1. k \in 1..Len(M)
      BY <1>1, <2>1, <2>3
    <3> QED BY <1>1, <2>1, <3>1 DEF Told
  <2> QED BY <2>2, <2>3
<1>5. Told(N, Len(M) + 1, e.act, e.at)
  <2>1. Len(M) + 1 \in DOMAIN N
    BY <1>1
  <2> QED BY <1>1, <1>2, <2>1 DEF Told
<1>6. Len(M) + 1 \in Nat
  BY <1>1
<1> QED BY <1>1, <1>3, <1>4, <1>5, <1>6 DEF Pending

LEMMA ToldTail ==
    ASSUME NEW M \in Seq(Uevents), M # <<>>, NEW N, N = Tail(M), NEW e, e = Head(M)
    PROVE  /\ N \in Seq(Uevents) /\ e \in Uevents
           /\ \A act, a : Told(M, 1, act, a) <=> e.act = act /\ e.at = a
           /\ \A k \in Nat : \A act, a : Told(N, k, act, a) => Told(M, k + 1, act, a) /\ k >= 1
           /\ \A k \in Nat : \A act, a : Told(M, k, act, a) /\ k # 1 => Told(N, k - 1, act, a) /\ k > 1
           /\ \A act, a : Pending(N, act, a) => Pending(M, act, a)
           /\ \A act, a : Pending(M, act, a) => Pending(N, act, a) \/ (e.act = act /\ e.at = a)
<1>1. /\ N \in Seq(Uevents) /\ e \in Uevents /\ e = M[1] /\ Len(M) \in Nat \ {0}
      /\ DOMAIN M = 1..Len(M) /\ DOMAIN N = 1..(Len(M) - 1)
      /\ \A k \in 1..(Len(M) - 1) : N[k] = M[k + 1]
  OBVIOUS
<1>2. e = [act |-> e.act, at |-> e.at]
  BY <1>1 DEF Uevents
<1>3. \A act, a : Told(M, 1, act, a) <=> e.act = act /\ e.at = a
  <2> SUFFICES ASSUME NEW act, NEW a PROVE Told(M, 1, act, a) <=> e.act = act /\ e.at = a
    OBVIOUS
  <2>1. Told(M, 1, act, a) <=> e = [act |-> act, at |-> a]
    BY <1>1 DEF Told
  <2>2. e = [act |-> act, at |-> a] => e.act = act /\ e.at = a
    OBVIOUS
  <2>3. e.act = act /\ e.at = a => e = [act |-> act, at |-> a]
    BY <1>2
  <2> QED BY <2>1, <2>2, <2>3
<1>4. ASSUME NEW k \in Nat, NEW act, NEW a, Told(N, k, act, a)
      PROVE  Told(M, k + 1, act, a) /\ k >= 1
  <2>1. k \in 1..(Len(M) - 1) /\ k + 1 \in 1..Len(M) /\ N[k] = M[k + 1] /\ N[k] = [act |-> act, at |-> a]
    BY <1>1, <1>4 DEF Told
  <2> QED BY <1>1, <2>1 DEF Told
<1>5. ASSUME NEW k \in Nat, NEW act, NEW a, Told(M, k, act, a), k # 1
      PROVE  Told(N, k - 1, act, a) /\ k > 1
  <2>1. k \in 1..Len(M) /\ k - 1 \in 1..(Len(M) - 1) /\ N[k - 1] = M[(k - 1) + 1] /\ (k - 1) + 1 = k
        /\ M[k] = [act |-> act, at |-> a]
    BY <1>1, <1>5 DEF Told
  <2> QED BY <1>1, <2>1 DEF Told
<1>6. ASSUME NEW act, NEW a, Pending(N, act, a) PROVE Pending(M, act, a)
  <2>1. PICK k \in Nat : Told(N, k, act, a)
    BY <1>6 DEF Pending
  <2>2. k + 1 \in Nat
    OBVIOUS
  <2> QED BY <1>4, <2>1, <2>2 DEF Pending
<1>7. ASSUME NEW act, NEW a, Pending(M, act, a) PROVE Pending(N, act, a) \/ (e.act = act /\ e.at = a)
  <2>1. PICK k \in Nat : Told(M, k, act, a)
    BY <1>7 DEF Pending
  <2>2. k # 1 => k - 1 \in Nat /\ Told(N, k - 1, act, a)
    BY <1>5, <2>1
  <2> QED BY <1>3, <2>1, <2>2 DEF Pending
<1> QED BY <1>1, <1>3, <1>4, <1>5, <1>6, <1>7

\* A device is plugged in or out; a socket that is open is told.
LEMMA UeventsPlug ==
    ASSUME NEW M \in Seq(Uevents), NEW b \in [Addr -> Nat], UeventsOK(M, b),
           NEW a \in Addr, b[a] = 0, a \in Port => b[Hub] # 0, NEW g \in Nat \ {0},
           NEW N, N = Append(M, [act |-> "add", at |-> a]) \/ (M = <<>> /\ N = M)
    PROVE  UeventsOK(N, [b EXCEPT ![a] = g])
<1> DEFINE b2 == [b EXCEPT ![a] = g]
<1>1. b2[a] # 0 /\ \A x \in Addr \ {a} : b2[x] = b[x]
  OBVIOUS
<1>2. \A p \in Port : b2[p] # 0 => b2[Hub] # 0
  BY <1>1, Constants DEF UeventsOK
<1> HIDE DEF b2
<1>3. CASE M = <<>> /\ N = M
  <2>1. \A k, act, x : ~Told(N, k, act, x)
    BY <1>3 DEF Told
  <2> QED BY <1>2, <2>1 DEF UeventsOK, b2
<1>4. CASE N = Append(M, [act |-> "add", at |-> a])
  <2> DEFINE e == [act |-> "add", at |-> a]  n == Len(M) + 1
  <2>1. e \in Uevents /\ e.act = "add" /\ e.at = a /\ N = Append(M, e)
    BY <1>4 DEF Uevents
  <2> HIDE DEF e
  <2>2. /\ n \in Nat
        /\ \A k \in Nat : \A act, x : Told(M, k, act, x) => Told(N, k, act, x) /\ k < n
        /\ \A k \in Nat : \A act, x : Told(N, k, act, x) => Told(M, k, act, x) \/ (k = n /\ act = "add" /\ x = a)
        /\ Told(N, n, "add", a)
    <3>1. /\ n \in Nat
          /\ \A k \in Nat : \A act, x : Told(M, k, act, x) => Told(N, k, act, x) /\ k < n
          /\ \A k \in Nat : \A act, x : Told(N, k, act, x) => Told(M, k, act, x) \/ (k = n /\ e.act = act /\ e.at = x)
          /\ Told(N, n, e.act, e.at)
      BY <2>1, ToldAppend, ZenonT(60)
    <3> HIDE DEF n
    <3> QED BY <2>1, <3>1
  <2> HIDE DEF n
  <2>3. ASSUME NEW x \in Addr, NEW k \in Nat, Told(N, k, "remove", x), b2[x] # 0
        PROVE  \E j \in Nat : j > k /\ Told(N, j, "add", x)
    <3>1. Told(M, k, "remove", x) /\ k < n
      BY <2>2, <2>3
    <3>2. CASE x = a
      BY <2>2, <3>1, <3>2
    <3>3. CASE x # a
      <4>1. PICK j \in Nat : j > k /\ Told(M, j, "add", x)
        BY <1>1, <2>3, <3>1, <3>3 DEF UeventsOK
      <4> QED BY <2>2, <4>1
    <3> QED BY <3>2, <3>3
  <2>4. ASSUME NEW p \in Port, NEW k \in Nat, Told(N, k, "remove", Hub), b2[p] # 0
        PROVE  \E j \in Nat : j > k /\ Told(N, j, "add", p)
    <3>1. Told(M, k, "remove", Hub) /\ k < n
      BY <2>2, <2>4
    <3>2. CASE p = a
      BY <2>2, <3>1, <3>2
    <3>3. CASE p # a
      <4>1. PICK j \in Nat : j > k /\ Told(M, j, "add", p)
        BY <1>1, <2>4, <3>1, <3>3, Constants DEF UeventsOK
      <4> QED BY <2>2, <4>1
    <3> QED BY <3>2, <3>3
  <2>5. ASSUME NEW x \in Addr, NEW k \in Nat, Told(N, k, "add", x), b2[x] = 0
        PROVE  \E j \in Nat : j > k /\ Told(N, j, "remove", x)
    <3>1. x # a /\ b[x] = 0
      BY <1>1, <2>5
    <3>2. Told(M, k, "add", x)
      BY <2>2, <2>5, <3>1
    <3>3. PICK j \in Nat : j > k /\ Told(M, j, "remove", x)
      BY <3>1, <3>2 DEF UeventsOK
    <3> QED BY <2>2, <3>3
  <2>6. ASSUME NEW x \in Addr, NEW i \in Nat, NEW k \in Nat, Told(N, i, "add", x), Told(N, k, "add", x), i < k
        PROVE  \E j \in Nat : i < j /\ j < k /\ Told(N, j, "remove", x)
    <3>1. Told(M, i, "add", x)
      BY <2>2, <2>6
    <3>2. CASE Told(M, k, "add", x)
      <4>1. PICK j \in Nat : i < j /\ j < k /\ Told(M, j, "remove", x)
        BY <2>6, <3>1, <3>2 DEF UeventsOK
      <4> QED BY <2>2, <4>1
    <3>3. CASE k = n /\ x = a
      <4>1. PICK j \in Nat : j > i /\ Told(M, j, "remove", x)
        BY <3>1, <3>3 DEF UeventsOK
      <4> QED BY <2>2, <3>3, <4>1
    <3> QED BY <2>2, <2>6, <3>2, <3>3
  <2> QED BY <1>2, <2>3, <2>4, <2>5, <2>6 DEF UeventsOK, b2
<1> QED BY <1>3, <1>4

LEMMA UeventsUnplug ==
    ASSUME NEW M \in Seq(Uevents), NEW b \in [Addr -> Nat], UeventsOK(M, b),
           NEW a \in Addr, a = Hub => \A p \in Port : b[p] = 0,
           NEW N, N = Append(M, [act |-> "remove", at |-> a]) \/ (M = <<>> /\ N = M)
    PROVE  UeventsOK(N, [b EXCEPT ![a] = 0])
<1> DEFINE b2 == [b EXCEPT ![a] = 0]
<1>1. b2[a] = 0 /\ \A x \in Addr \ {a} : b2[x] = b[x]
  OBVIOUS
<1>2. \A p \in Port : b2[p] # 0 => b2[Hub] # 0
  BY <1>1, Constants DEF UeventsOK
<1> HIDE DEF b2
<1>3. CASE M = <<>> /\ N = M
  <2>1. \A k, act, x : ~Told(N, k, act, x)
    BY <1>3 DEF Told
  <2> QED BY <1>2, <2>1 DEF UeventsOK, b2
<1>4. CASE N = Append(M, [act |-> "remove", at |-> a])
  <2> DEFINE e == [act |-> "remove", at |-> a]  n == Len(M) + 1
  <2>1. e \in Uevents /\ e.act = "remove" /\ e.at = a /\ N = Append(M, e)
    BY <1>4 DEF Uevents
  <2> HIDE DEF e
  <2>2. /\ n \in Nat
        /\ \A k \in Nat : \A act, x : Told(M, k, act, x) => Told(N, k, act, x) /\ k < n
        /\ \A k \in Nat : \A act, x : Told(N, k, act, x) => Told(M, k, act, x) \/ (k = n /\ act = "remove" /\ x = a)
        /\ Told(N, n, "remove", a)
    <3>1. /\ n \in Nat
          /\ \A k \in Nat : \A act, x : Told(M, k, act, x) => Told(N, k, act, x) /\ k < n
          /\ \A k \in Nat : \A act, x : Told(N, k, act, x) => Told(M, k, act, x) \/ (k = n /\ e.act = act /\ e.at = x)
          /\ Told(N, n, e.act, e.at)
      BY <2>1, ToldAppend
    <3> HIDE DEF n
    <3> QED BY <2>1, <3>1
  <2> HIDE DEF n
  <2>3. ASSUME NEW x \in Addr, NEW k \in Nat, Told(N, k, "remove", x), b2[x] # 0
        PROVE  \E j \in Nat : j > k /\ Told(N, j, "add", x)
    <3>1. x # a /\ b[x] # 0
      BY <1>1, <2>3
    <3>2. Told(M, k, "remove", x)
      BY <2>2, <2>3, <3>1
    <3>3. PICK j \in Nat : j > k /\ Told(M, j, "add", x)
      BY <3>1, <3>2 DEF UeventsOK
    <3> QED BY <2>2, <3>3
  <2>4. ASSUME NEW p \in Port, NEW k \in Nat, Told(N, k, "remove", Hub), b2[p] # 0
        PROVE  \E j \in Nat : j > k /\ Told(N, j, "add", p)
    <3>1. p # a /\ b[p] # 0 /\ a # Hub
      BY <1>1, <2>4, Constants
    <3>2. Told(M, k, "remove", Hub)
      <4>1. Told(M, k, "remove", Hub) \/ Hub = a
        BY <2>2, <2>4
      <4> QED BY <3>1, <4>1
    <3>3. PICK j \in Nat : j > k /\ Told(M, j, "add", p)
      BY <3>1, <3>2 DEF UeventsOK
    <3> QED BY <2>2, <3>3
  <2>5. ASSUME NEW x \in Addr, NEW k \in Nat, Told(N, k, "add", x), b2[x] = 0
        PROVE  \E j \in Nat : j > k /\ Told(N, j, "remove", x)
    <3>1. Told(M, k, "add", x) /\ k < n
      BY <2>2, <2>5
    <3>2. CASE x = a
      BY <2>2, <3>1, <3>2
    <3>3. CASE x # a
      <4>1. PICK j \in Nat : j > k /\ Told(M, j, "remove", x)
        BY <1>1, <2>5, <3>1, <3>3 DEF UeventsOK
      <4> QED BY <2>2, <4>1
    <3> QED BY <3>2, <3>3
  <2>6. ASSUME NEW x \in Addr, NEW i \in Nat, NEW k \in Nat, Told(N, i, "add", x), Told(N, k, "add", x), i < k
        PROVE  \E j \in Nat : i < j /\ j < k /\ Told(N, j, "remove", x)
    <3>1. Told(M, i, "add", x) /\ Told(M, k, "add", x)
      BY <2>2, <2>6
    <3>2. PICK j \in Nat : i < j /\ j < k /\ Told(M, j, "remove", x)
      BY <2>6, <3>1 DEF UeventsOK
    <3> QED BY <2>2, <3>2
  <2> QED BY <1>2, <2>3, <2>4, <2>5, <2>6 DEF UeventsOK, b2
<1> QED BY <1>3, <1>4

\* A message of something else
LEMMA UeventsOther ==
    ASSUME NEW M \in Seq(Uevents), NEW b, UeventsOK(M, b), NEW e \in Uevents, e.act = "other",
           NEW N, N = Append(M, e)
    PROVE  UeventsOK(N, b) /\ \A act, x : Pending(M, act, x) => Pending(N, act, x)
<1>1. /\ \A k \in Nat : \A act, x : Told(M, k, act, x) => Told(N, k, act, x) /\ k < Len(M) + 1
      /\ \A k \in Nat : \A act, x : Told(N, k, act, x) =>
            Told(M, k, act, x) \/ (k = Len(M) + 1 /\ e.act = act /\ e.at = x)
      /\ \A act, x : Pending(M, act, x) => Pending(N, act, x)
  BY ToldAppend
<1>2. /\ \A k \in Nat : \A act, x : Told(M, k, act, x) => Told(N, k, act, x)
      /\ \A k \in Nat : \A act, x : Told(N, k, act, x) => Told(M, k, act, x) \/ act = "other"
      /\ \A act, x : Pending(M, act, x) => Pending(N, act, x)
  BY <1>1
<1>3. \A k \in Nat : \A x :
         /\ Told(M, k, "add", x) <=> Told(N, k, "add", x)
         /\ Told(M, k, "remove", x) <=> Told(N, k, "remove", x)
  BY <1>2
<1> QED BY <1>2, <1>3 DEF UeventsOK

LEMMA UeventsTail ==
    ASSUME NEW M \in Seq(Uevents), M # <<>>, NEW b, UeventsOK(M, b), NEW N, N = Tail(M)
    PROVE  UeventsOK(N, b)
<1> DEFINE e == Head(M)
<1>1. /\ \A k \in Nat : \A act, a : Told(N, k, act, a) => Told(M, k + 1, act, a) /\ k >= 1
      /\ \A k \in Nat : \A act, a : Told(M, k, act, a) /\ k # 1 => Told(N, k - 1, act, a) /\ k > 1
  BY ToldTail
<1>2. \A k \in Nat : k + 1 \in Nat /\ \A j \in Nat : j > k + 1 => j - 1 \in Nat /\ j - 1 > k /\ j # 1
  OBVIOUS
<1>3. ASSUME NEW x, NEW y, NEW c, NEW d, NEW k \in Nat, Told(N, k, c, x),
             Told(M, k + 1, c, x) => \E j \in Nat : j > k + 1 /\ Told(M, j, d, y)
      PROVE  \E j \in Nat : j > k /\ Told(N, j, d, y)
  <2>1. PICK j \in Nat : j > k + 1 /\ Told(M, j, d, y)
    BY <1>1, <1>3
  <2> QED BY <1>1, <1>2, <2>1
<1>4. ASSUME NEW x \in Addr, NEW k \in Nat, Told(N, k, "remove", x), b[x] # 0
      PROVE  \E j \in Nat : j > k /\ Told(N, j, "add", x)
  <2>1. Told(M, k + 1, "remove", x) => \E j \in Nat : j > k + 1 /\ Told(M, j, "add", x)
    BY <1>2, <1>4 DEF UeventsOK
  <2> QED BY <1>3, <1>4, <2>1
<1>5. ASSUME NEW p \in Port, NEW k \in Nat, Told(N, k, "remove", Hub), b[p] # 0
      PROVE  \E j \in Nat : j > k /\ Told(N, j, "add", p)
  <2>1. Told(M, k + 1, "remove", Hub) => \E j \in Nat : j > k + 1 /\ Told(M, j, "add", p)
    BY <1>2, <1>5 DEF UeventsOK
  <2> QED BY <1>3, <1>5, <2>1
<1>6. ASSUME NEW x \in Addr, NEW k \in Nat, Told(N, k, "add", x), b[x] = 0
      PROVE  \E j \in Nat : j > k /\ Told(N, j, "remove", x)
  <2>1. Told(M, k + 1, "add", x) => \E j \in Nat : j > k + 1 /\ Told(M, j, "remove", x)
    BY <1>2, <1>6 DEF UeventsOK
  <2> QED BY <1>3, <1>6, <2>1
<1>7. ASSUME NEW x \in Addr, NEW i \in Nat, NEW k \in Nat, Told(N, i, "add", x), Told(N, k, "add", x), i < k
      PROVE  \E j \in Nat : i < j /\ j < k /\ Told(N, j, "remove", x)
  <2>1. i + 1 \in Nat /\ k + 1 \in Nat /\ i + 1 < k + 1 /\ Told(M, i + 1, "add", x) /\ Told(M, k + 1, "add", x)
    BY <1>1, <1>7
  <2>2. PICK j \in Nat : i + 1 < j /\ j < k + 1 /\ Told(M, j, "remove", x)
    BY <2>1 DEF UeventsOK
  <2>3. j - 1 \in Nat /\ i < j - 1 /\ j - 1 < k /\ j # 1
    BY <2>2
  <2> QED BY <1>1, <2>2, <2>3
<1> QED BY <1>4, <1>5, <1>6, <1>7 DEF UeventsOK

----------------------------------------------------------------------------
(* The list of a context, as the kernel and the messages go on.            *)

LEMMA ListPlug ==
    ASSUME NEW M \in Seq(Uevents), NEW b \in [Addr -> Nat], UeventsOK(M, b),
           NEW a \in Addr, b[a] = 0, a \in Port => b[Hub] # 0, NEW g \in Nat \ {0},
           NEW N, N = Append(M, [act |-> "add", at |-> a]),
           NEW ds, NEW K \in SUBSET Slot, \A s \in K : ds[s].at \in Addr, NEW left \in SUBSET Addr,
           ListOK(ds, K, b, M, left)
    PROVE  ListOK(ds, K, [b EXCEPT ![a] = g], N, left)
<1> DEFINE b2 == [b EXCEPT ![a] = g]  e == [act |-> "add", at |-> a]
<1>1. b2[a] # 0 /\ \A x \in Addr \ {a} : b2[x] = b[x]
  OBVIOUS
<1> HIDE DEF b2
<1>2. e \in Uevents /\ e.act = "add" /\ e.at = a /\ N = Append(M, e)
  BY DEF Uevents
<1> HIDE DEF e
<1>3. (\A act, x : Pending(M, act, x) => Pending(N, act, x)) /\ Pending(N, "add", a)
  <2>1. (\A act, x : Pending(M, act, x) => Pending(N, act, x)) /\ Pending(N, e.act, e.at)
    BY <1>2, ToldAppend
  <2> QED BY <1>2, <2>1
<1>4. ASSUME NEW s \in K, Fresh(ds, s, b) PROVE Fresh(ds, s, b2)
  <2>1. ds[s].at # a /\ ds[s].at \in Addr
    BY <1>4 DEF Fresh
  <2>2. ds[s].at \in Port => a # Hub
    BY <1>4 DEF Fresh, UeventsOK
  <2>3. ds[s].at \in Port => b2[Hub] = b[Hub]
    BY <1>1, <2>2, Constants
  <2> QED BY <1>1, <1>4, <2>1, <2>3 DEF Fresh
<1>5. Current(ds, K, b2, N)
  BY <1>3, <1>4 DEF ListOK, Current
<1>6. Complete(ds, K, b2, N, left)
  <2> SUFFICES ASSUME NEW x \in Addr, b2[x] # 0
               PROVE  (\E s \in K : ds[s].at = x) \/ Pending(N, "add", x) \/ x \in left
    BY DEF Complete
  <2>1. CASE x = a
    BY <1>3, <2>1
  <2>2. CASE x # a
    BY <1>1, <1>3, <2>2 DEF ListOK, Complete
  <2> QED BY <2>1, <2>2
<1>7. Scanned(ds, K, b2, N, left)
  <2>1. \A x \in left : b[x] # 0 => b2[x] # 0
    BY <1>1
  <2> QED BY <1>3, <1>4, <2>1 DEF ListOK, Scanned
<1> QED BY <1>5, <1>6, <1>7 DEF ListOK, b2

LEMMA ListUnplug ==
    ASSUME NEW M \in Seq(Uevents), NEW b \in [Addr -> Nat], UeventsOK(M, b),
           NEW a \in Addr, a = Hub => \A p \in Port : b[p] = 0,
           NEW N, N = Append(M, [act |-> "remove", at |-> a]),
           NEW ds, NEW K \in SUBSET Slot, \A s \in K : ds[s].at \in Addr, NEW left \in SUBSET Addr,
           ListOK(ds, K, b, M, left)
    PROVE  ListOK(ds, K, [b EXCEPT ![a] = 0], N, left)
<1> DEFINE b2 == [b EXCEPT ![a] = 0]  e == [act |-> "remove", at |-> a]
<1>1. b2[a] = 0 /\ \A x \in Addr \ {a} : b2[x] = b[x]
  OBVIOUS
<1> HIDE DEF b2
<1>2. e \in Uevents /\ e.act = "remove" /\ e.at = a /\ N = Append(M, e)
  BY DEF Uevents
<1> HIDE DEF e
<1>3. (\A act, x : Pending(M, act, x) => Pending(N, act, x)) /\ Pending(N, "remove", a)
  <2>1. (\A act, x : Pending(M, act, x) => Pending(N, act, x)) /\ Pending(N, e.act, e.at)
    BY <1>2, ToldAppend
  <2> QED BY <1>2, <2>1
<1>4. ASSUME NEW s \in K, Fresh(ds, s, b), ds[s].at # a PROVE Fresh(ds, s, b2)
  <2>1. ds[s].at \in Addr
    OBVIOUS
  <2>2. ds[s].at \in Port => a # Hub
    BY <1>4 DEF Fresh
  <2>3. ds[s].at \in Port => b2[Hub] = b[Hub]
    BY <1>1, <2>2, Constants
  <2> QED BY <1>1, <1>4, <2>1, <2>3 DEF Fresh
<1>5. Current(ds, K, b2, N)
  <2> SUFFICES ASSUME NEW s \in K PROVE Fresh(ds, s, b2) \/ Pending(N, "remove", ds[s].at)
    BY DEF Current
  <2>1. CASE ds[s].at = a
    BY <1>3, <2>1
  <2>2. CASE ds[s].at # a
    BY <1>3, <1>4, <2>2 DEF ListOK, Current
  <2> QED BY <2>1, <2>2
<1>6. Complete(ds, K, b2, N, left)
  BY <1>1, <1>3 DEF ListOK, Complete
<1>7. ASSUME NEW x \in left PROVE b2[x] # 0 \/ Pending(N, "remove", x)
  <2>1. CASE x = a
    BY <1>3, <2>1
  <2>2. CASE x # a
    BY <1>1, <1>3, <2>2 DEF ListOK, Scanned
  <2> QED BY <2>1, <2>2
<1>8. ASSUME NEW p \in left \cap Port, NEW s \in K, ds[s].at = Hub
      PROVE  Fresh(ds, s, b2) \/ Pending(N, "remove", p)
  <2>1. CASE a = Hub
    <3>1. b[p] = 0
      BY <2>1
    <3>2. Pending(M, "remove", p)
      BY <3>1 DEF ListOK, Scanned
    <3> QED BY <1>3, <3>2
  <2>2. CASE a # Hub
    BY <1>3, <1>4, <1>8, <2>2 DEF ListOK, Scanned
  <2> QED BY <2>1, <2>2
<1>9. Scanned(ds, K, b2, N, left)
  BY <1>7, <1>8 DEF Scanned
<1> QED BY <1>5, <1>6, <1>9 DEF ListOK, b2

\* Nothing is lost of what is to be read.
LEMMA ListLater ==
    ASSUME NEW M, NEW N,
           \A act \in {"add", "remove"} : \A a : Pending(M, act, a) => Pending(N, act, a),
           NEW b, NEW ds, NEW K, NEW left, ListOK(ds, K, b, M, left)
    PROVE  ListOK(ds, K, b, N, left)
<1>1. Current(ds, K, b, N)
  BY DEF ListOK, Current
<1>2. Complete(ds, K, b, N, left)
  BY DEF ListOK, Complete
<1>3. Scanned(ds, K, b, N, left)
  BY DEF ListOK, Scanned
<1> QED BY <1>1, <1>2, <1>3 DEF ListOK

\* References do not matter to what is listed.
SameKind(e, ds) ==
    \A s \in Slot : e[s].refs > 0 => /\ e[s].at = ds[s].at /\ e[s].gen = ds[s].gen
                                     /\ e[s].parent = ds[s].parent

LEMMA ListRefs ==
    ASSUME NEW e, NEW K, NEW M, NEW L, Refs(e, K, M, L), NEW ds, SameKind(e, ds),
           NEW b, NEW N, NEW left, ListOK(ds, K, b, N, left)
    PROVE  ListOK(e, K, b, N, left)
<1>1. K \subseteq Slot /\ Balanced(e, Held(K, M, L)) /\ Held(K, M, L) \in [Slot -> Nat]
  BY HeldIs DEF Refs
<1>2. \A s \in K : e[s].refs > 0 /\ e[s].at = ds[s].at /\ e[s].gen = ds[s].gen /\ e[s].parent = ds[s].parent
  BY <1>1, KnownIs DEF SameKind
<1>3. ASSUME NEW s \in K, Fresh(ds, s, b) PROVE Fresh(e, s, b)
  <2>1. e[s].at = ds[s].at /\ e[s].gen = ds[s].gen /\ e[s].parent = ds[s].parent /\ s \in Slot
    BY <1>1, <1>2
  <2>2. ASSUME e[s].parent # 0 PROVE e[e[s].parent].gen = ds[ds[s].parent].gen
    <3> DEFINE p == e[s].parent
    <3>1. p \in Slot /\ s \in Children(e, p)
      BY <1>1, <2>1, <2>2, BalancedIs
    <3>2. e[p].refs > 0
      BY <1>1, <3>1, BalancedIs
    <3> QED BY <2>1, <3>1, <3>2 DEF SameKind
  <2> QED BY <1>3, <2>1, <2>2 DEF Fresh
<1>4. Current(e, K, b, N)
  BY <1>2, <1>3 DEF ListOK, Current
<1>5. Complete(e, K, b, N, left)
  BY <1>2 DEF ListOK, Complete
<1>6. Scanned(e, K, b, N, left)
  BY <1>2, <1>3 DEF ListOK, Scanned
<1> QED BY <1>4, <1>5, <1>6 DEF ListOK

LEMMA UnrefKind ==
    ASSUME NEW ds, ds \in [Slot -> Devices], NEW S, NEW e, e = UnrefAll(ds, S) \/ e = RefAll(ds, S)
    PROVE  SameKind(e, ds)
<1> SUFFICES ASSUME NEW s \in Slot, e[s].refs > 0
             PROVE  e[s].at = ds[s].at /\ e[s].gen = ds[s].gen /\ e[s].parent = ds[s].parent
  BY DEF SameKind
<1>1. CASE e = UnrefAll(ds, S)
  <2>1. e[s] = NoDev \/ e[s] = [ds[s] EXCEPT !.refs = Remaining(ds, S, s)]
    BY <1>1 DEF UnrefAll, Remaining
  <2>2. e[s] # NoDev
    BY Nobody
  <2> HIDE DEF Remaining
  <2> QED BY <2>1, <2>2 DEF Devices
<1>2. CASE e = RefAll(ds, S)
  BY <1>2 DEF RefAll, Devices
<1> QED BY <1>1, <1>2

\* A device that was connected leaves the others as they are.
LEMMA ConnectedFresh ==
    ASSUME NEW c, NEW st, NEW L, StateOK(c, st, L), NEW a, NEW n, NEW d, Connected(c, st, a, n, d)
    PROVE  /\ \A s \in st.known : /\ s \in n.known \ {d} /\ n.dev[s].at = st.dev[s].at
                                  /\ Fresh(st.dev, s, bus) => Fresh(n.dev, s, bus)
           /\ n.known = st.known \cup {d} /\ d \in Slot /\ n.dev[d].at = a /\ bus[a] # 0
           /\ n.dev[d].gen = bus[a] /\ n.dev[d].parent = ParentOf(st, a) /\ At(st, a) = {}
           /\ \A s \in st.known : n.dev[s].gen = st.dev[s].gen
<1>1. Refs(st.dev, st.known, st.msgs, L) /\ st.known \subseteq Slot
  BY DEF StateOK, States
<1>2. /\ d \in Slot /\ st.dev[d] = NoDev /\ n.known = st.known \cup {d}
      /\ \A s \in Slot \ {d} : /\ n.dev[s].at = st.dev[s].at /\ n.dev[s].gen = st.dev[s].gen
                               /\ n.dev[s].parent = st.dev[s].parent
  BY DEF Connected
<1>3. d \notin st.known
  BY <1>1, <1>2, KnownIs
<1>4. ASSUME NEW s \in st.known, Fresh(st.dev, s, bus) PROVE Fresh(n.dev, s, bus)
  <2> DEFINE p == st.dev[s].parent  h == Held(st.known, st.msgs, L)  ds == st.dev
  <2>1. s \in Slot \ {d} /\ n.dev[s].at = st.dev[s].at /\ n.dev[s].gen = st.dev[s].gen
        /\ n.dev[s].parent = p
    BY <1>1, <1>2, <1>3
  <2>2. ASSUME p # 0 PROVE p \in Slot \ {d}
    <3>1. Balanced(ds, h) /\ h \in [Slot -> Nat] /\ s \in Slot /\ ds[s].parent = p /\ d \in Slot /\ ds[d] = NoDev
      BY <1>1, <1>2, <2>1, HeldIs DEF Refs
    <3> HIDE DEF ds, h, p
    <3>2. p \in Slot /\ s \in Children(ds, p)
      BY <2>2, <3>1, BalancedIs
    <3>3. ds[p].refs > 0
      BY <3>1, <3>2, BalancedIs
    <3> QED BY <3>1, <3>2, <3>3, Nobody
  <2>3. p # 0 => n.dev[p].gen = st.dev[p].gen
    BY <1>2, <2>2
  <2> QED BY <1>4, <2>1, <2>3 DEF Fresh
<1> QED BY <1>1, <1>2, <1>3, <1>4 DEF Connected

\* A device that is enumerated is fresh, unless it was told to be gone when the hub
\* that is listed is not the one that is there.
LEMMA EnumeratedFresh ==
    ASSUME NEW c, NEW st, NEW L, StateOK(c, st, L), NEW a \in Addr, NEW n, Enumerated(c, st, a, n),
           At(st, a) = {}, bus[a] # 0, a \in Port => bus[Hub] # 0
    PROVE  /\ \A s \in st.known : /\ s \in n.known /\ n.dev[s].at = st.dev[s].at
                                  /\ Fresh(st.dev, s, bus) => Fresh(n.dev, s, bus)
           /\ \E s \in n.known : n.dev[s].at = a
           /\ \A s \in n.known \ st.known :
                 \/ Fresh(n.dev, s, bus)
                 \/ n.dev[s].at = a /\ a \in Port /\ \E h \in At(st, Hub) : ~Fresh(st.dev, h, bus)
<1>1. PICK m, d, P : /\ IF a \in Port /\ At(st, Hub) = {} /\ bus[Hub] # 0
                        THEN \E h : Connected(c, st, Hub, m, h)
                        ELSE m = st
                     /\ Connected(c, m, a, n, d) /\ StateOK(c, m, P)
  BY DEF Enumerated
<1>2. /\ \A s \in m.known : /\ s \in n.known \ {d} /\ n.dev[s].at = m.dev[s].at
                            /\ Fresh(m.dev, s, bus) => Fresh(n.dev, s, bus)
      /\ n.known = m.known \cup {d} /\ d \in Slot /\ n.dev[d].at = a
      /\ n.dev[d].gen = bus[a] /\ n.dev[d].parent = ParentOf(m, a)
      /\ \A s \in m.known : n.dev[s].gen = m.dev[s].gen
  BY <1>1, ConnectedFresh
<1>3. m \in States /\ st \in States
  BY <1>1 DEF StateOK
<1>4. ASSUME a \in Port, NEW h \in m.known, m.dev[h].at = Hub, m.dev[h].gen = bus[Hub], At(m, Hub) = {h}
      PROVE  Fresh(n.dev, d, bus)
  <2>1. ParentOf(m, a) = h /\ ParentOf(m, a) # 0
    <3>1. ParentOf(m, a) # 0 /\ ParentOf(m, a) \in m.known /\ m.dev[ParentOf(m, a)].at = Hub
      BY <1>3, <1>4, ParentOfIs
    <3> HIDE DEF ParentOf
    <3>2. ParentOf(m, a) \in At(m, Hub)
      BY <3>1 DEF At
    <3> QED BY <1>4, <3>1, <3>2
  <2>2. n.dev[h].gen = bus[Hub]
    BY <1>2, <1>4
  <2> QED BY <1>2, <2>1, <2>2 DEF Fresh
<1>5. CASE a \in Port /\ At(st, Hub) = {}
  <2>1. PICK h : Connected(c, st, Hub, m, h)
    BY <1>1, <1>5
  <2>2. /\ \A s \in st.known : /\ s \in m.known \ {h} /\ m.dev[s].at = st.dev[s].at
                               /\ Fresh(st.dev, s, bus) => Fresh(m.dev, s, bus)
        /\ m.known = st.known \cup {h} /\ h \in Slot /\ m.dev[h].at = Hub
        /\ m.dev[h].gen = bus[Hub] /\ bus[Hub] # 0
    BY <2>1, ConnectedFresh, Constants
  <2>3. At(m, Hub) = {h}
    <3>1. \A s \in st.known : st.dev[s].at # Hub
      BY <1>5 DEF At
    <3>2. \A s \in m.known : m.dev[s].at = Hub <=> s = h
      BY <2>2, <3>1
    <3>3. h \in m.known
      BY <2>2
    <3> QED BY <3>2, <3>3 DEF At
  <2>4. Fresh(n.dev, d, bus)
    BY <1>4, <1>5, <2>2, <2>3
  <2>5. Fresh(m.dev, h, bus)
    BY <2>2, Constants DEF Fresh
  <2>6. Fresh(n.dev, h, bus)
    BY <1>2, <2>2, <2>5
  <2>7. \A s \in n.known \ st.known : s = h \/ s = d
    BY <1>2, <2>2
  <2>8. \A s \in n.known \ st.known : Fresh(n.dev, s, bus)
    BY <2>4, <2>6, <2>7
  <2>9. \A s \in st.known : /\ s \in n.known /\ n.dev[s].at = st.dev[s].at
                            /\ Fresh(st.dev, s, bus) => Fresh(n.dev, s, bus)
    BY <1>2, <2>2
  <2>10. \E s \in n.known : n.dev[s].at = a
    BY <1>2
  <2> QED BY <2>8, <2>9, <2>10
<1>6. CASE ~(a \in Port /\ At(st, Hub) = {})
  <2>1. m = st
    BY <1>1, <1>6
  <2>4. Fresh(n.dev, d, bus) \/ (a \in Port /\ \E h \in At(st, Hub) : ~Fresh(st.dev, h, bus))
    <3>1. CASE a \notin Port
      BY <1>2, <3>1 DEF Fresh
    <3>2. CASE a \in Port
      <4>1. PICK h \in At(st, Hub) : TRUE
        BY <1>6, <3>2
      <4>2. At(st, Hub) = {h} /\ h \in st.known /\ st.dev[h].at = Hub
        <5>1. \A x, y \in st.known : st.dev[x].at = st.dev[y].at => x = y
          BY DEF StateOK, Refs
        <5> QED BY <4>1, <5>1 DEF At
      <4>3. CASE st.dev[h].gen = bus[Hub]
        <5>1. Fresh(n.dev, d, bus)
          BY <1>4, <2>1, <3>2, <4>2, <4>3
        <5> QED BY <5>1
      <4>4. CASE st.dev[h].gen # bus[Hub]
        <5>1. ~Fresh(st.dev, h, bus)
          BY <4>2, <4>4 DEF Fresh
        <5> QED BY <3>2, <4>1, <5>1
      <4> QED BY <4>3, <4>4
    <3> QED BY <3>1, <3>2
  <2>5. \A s \in n.known \ st.known : s = d
    BY <1>2, <2>1
  <2>6. \A s \in st.known : /\ s \in n.known /\ n.dev[s].at = st.dev[s].at
                            /\ Fresh(st.dev, s, bus) => Fresh(n.dev, s, bus)
    BY <1>2, <2>1
  <2>7. \A s \in n.known \ st.known :
           Fresh(n.dev, s, bus) \/ (a \in Port /\ \E h \in At(st, Hub) : ~Fresh(st.dev, h, bus))
    BY <2>4, <2>5
  <2>8. \A s \in n.known \ st.known : n.dev[s].at = a
    BY <1>2, <2>5
  <2>9. \E s \in n.known : n.dev[s].at = a
    BY <1>2
  <2> QED BY <2>6, <2>7, <2>8, <2>9
<1> QED BY <1>5, <1>6

\* A message that says that a device left
LEMMA ListRemove ==
    ASSUME NEW M \in Seq(Uevents), M # <<>>, NEW b, UeventsOK(M, b),
           NEW a, Head(M).act = "remove", Head(M).at = a,
           NEW ds, NEW K, ListOK(ds, K, b, M, {}),
           NEW N, N = Tail(M), NEW K2, K2 = {s \in K : ds[s].at # a}
    PROVE  ListOK(ds, K2, b, N, {})
<1> DEFINE e == Head(M)
<1>1. /\ Told(M, 1, e.act, e.at)
      /\ \A k \in Nat : \A act, x : Told(M, k, act, x) /\ k # 1 => Told(N, k - 1, act, x) /\ k > 1
      /\ \A act, x : Pending(M, act, x) => Pending(N, act, x) \/ (e.act = act /\ e.at = x)
  BY ToldTail
<1>2. e.act = "remove" /\ e.at = a
  OBVIOUS
<1> HIDE DEF e
<1>3. Current(ds, K2, b, N)
  <2> SUFFICES ASSUME NEW s \in K2 PROVE Fresh(ds, s, b) \/ Pending(N, "remove", ds[s].at)
    BY DEF Current
  <2>1. ds[s].at # a /\ (Fresh(ds, s, b) \/ Pending(M, "remove", ds[s].at))
    BY DEF ListOK, Current
  <2> QED BY <1>1, <1>2, <2>1
<1>4. Complete(ds, K2, b, N, {})
  <2> SUFFICES ASSUME NEW x \in Addr, b[x] # 0
               PROVE  (\E s \in K2 : ds[s].at = x) \/ Pending(N, "add", x)
    BY DEF Complete
  <2>1. CASE x = a
    <3>1. Told(M, 1, "remove", a)
      BY <1>1, <1>2
    <3>2. PICK j \in Nat : j > 1 /\ Told(M, j, "add", a)
      BY <2>1, <3>1 DEF UeventsOK
    <3>3. j - 1 \in Nat /\ j # 1
      BY <3>2
    <3>4. Told(N, j - 1, "add", a)
      BY <1>1, <3>2, <3>3
    <3> QED BY <2>1, <3>3, <3>4 DEF Pending
  <2>2. CASE x # a
    <3>1. (\E s \in K : ds[s].at = x) \/ Pending(M, "add", x)
      BY DEF ListOK, Complete
    <3> QED BY <1>1, <1>2, <2>2, <3>1
  <2> QED BY <2>1, <2>2
<1> QED BY <1>3, <1>4 DEF ListOK, Scanned

\* A device that is found to be gone before the message is read
LEMMA ListGone ==
    ASSUME NEW b, NEW a, b[a] = 0, NEW ds, NEW K, NEW M, ListOK(ds, K, b, M, {}),
           NEW K2, K2 = {s \in K : ds[s].at # a}
    PROVE  ListOK(ds, K2, b, M, {})
<1>1. Current(ds, K2, b, M)
  BY DEF ListOK, Current
<1>2. Complete(ds, K2, b, M, {})
  BY DEF ListOK, Complete
<1> QED BY <1>1, <1>2 DEF ListOK, Scanned

\* A message that says that a device is there: if it is put behind a hub that was
\* replaced, the messages go on to tell that it left with that hub.
LEMMA ListAdd ==
    ASSUME NEW M \in Seq(Uevents), M # <<>>, UeventsOK(M, bus),
           NEW a \in Addr, Head(M).act = "add", Head(M).at = a, NEW N, N = Tail(M),
           NEW c, NEW st, NEW L, StateOK(c, st, L), NEW n, Enumerated(c, st, a, n),
           ListOK(st.dev, st.known, bus, M, {})
    PROVE  ListOK(n.dev, n.known, bus, N, {})
<1> DEFINE e == Head(M)
<1>1. /\ Told(M, 1, e.act, e.at)
      /\ \A k \in Nat : \A act, x : Told(M, k, act, x) /\ k # 1 => Told(N, k - 1, act, x) /\ k > 1
      /\ \A act, x : Pending(M, act, x) => Pending(N, act, x) \/ (e.act = act /\ e.at = x)
  BY ToldTail
<1>2. e.act = "add" /\ e.at = a
  OBVIOUS
<1> HIDE DEF e
<1>3. CASE At(st, a) # {} \/ bus[a] = 0
  <2>1. n = st
    BY <1>3 DEF Enumerated
  <2>2. Current(st.dev, st.known, bus, N)
    <3> SUFFICES ASSUME NEW s \in st.known
                 PROVE  Fresh(st.dev, s, bus) \/ Pending(N, "remove", st.dev[s].at)
      BY DEF Current
    <3>1. Fresh(st.dev, s, bus) \/ Pending(M, "remove", st.dev[s].at)
      BY DEF ListOK, Current
    <3> QED BY <1>1, <1>2, <3>1
  <2>3. Complete(st.dev, st.known, bus, N, {})
    <3> SUFFICES ASSUME NEW x \in Addr, bus[x] # 0
                 PROVE  (\E s \in st.known : st.dev[s].at = x) \/ Pending(N, "add", x)
      BY DEF Complete
    <3>1. (\E s \in st.known : st.dev[s].at = x) \/ Pending(M, "add", x)
      BY DEF ListOK, Complete
    <3>2. x = a => \E s \in st.known : st.dev[s].at = x
      BY <1>3 DEF At
    <3> QED BY <1>1, <1>2, <3>1, <3>2
  <2> QED BY <2>1, <2>2, <2>3 DEF ListOK, Scanned
<1>4. CASE At(st, a) = {} /\ bus[a] # 0
  <2>0. a \in Port => bus[Hub] # 0
    BY <1>4 DEF UeventsOK
  <2>1. /\ \A s \in st.known : /\ s \in n.known /\ n.dev[s].at = st.dev[s].at
                               /\ Fresh(st.dev, s, bus) => Fresh(n.dev, s, bus)
        /\ \E s \in n.known : n.dev[s].at = a
        /\ \A s \in n.known \ st.known :
              \/ Fresh(n.dev, s, bus)
              \/ n.dev[s].at = a /\ a \in Port /\ \E h \in At(st, Hub) : ~Fresh(st.dev, h, bus)
    BY <1>4, <2>0, EnumeratedFresh
  <2>2. ASSUME a \in Port, NEW h \in At(st, Hub), ~Fresh(st.dev, h, bus)
        PROVE  Pending(N, "remove", a)
    <3>1. Pending(M, "remove", Hub)
      BY <2>2 DEF ListOK, Current, At
    <3>2. PICK k \in Nat : Told(M, k, "remove", Hub)
      BY <3>1 DEF Pending
    <3>3. PICK j \in Nat : j > k /\ Told(M, j, "add", a)
      BY <1>4, <2>2, <3>2 DEF UeventsOK
    <3>4. k >= 1
      BY <3>2, ToldIs
    <3>5. Told(M, 1, "add", a) /\ 1 \in Nat /\ 1 < j
      BY <1>1, <1>2, <3>3, <3>4
    <3>6. PICK i \in Nat : 1 < i /\ i < j /\ Told(M, i, "remove", a)
      BY <3>3, <3>5 DEF UeventsOK
    <3>7. i - 1 \in Nat /\ Told(N, i - 1, "remove", a)
      <4>1. i - 1 \in Nat /\ i - 1 >= 1 /\ (i - 1) + 1 = i
        BY <3>6
      <4> QED BY <1>1, <3>6, <4>1, SMTT(30)
    <3> QED BY <3>7 DEF Pending
  <2>3. Current(n.dev, n.known, bus, N)
    <3> SUFFICES ASSUME NEW s \in n.known
                 PROVE  Fresh(n.dev, s, bus) \/ Pending(N, "remove", n.dev[s].at)
      BY DEF Current
    <3>1. CASE s \in st.known
      <4>1. Fresh(st.dev, s, bus) \/ Pending(M, "remove", st.dev[s].at)
        BY <3>1 DEF ListOK, Current
      <4> QED BY <1>1, <1>2, <2>1, <3>1, <4>1
    <3>2. CASE s \notin st.known
      BY <2>1, <2>2, <3>2
    <3> QED BY <3>1, <3>2
  <2>4. Complete(n.dev, n.known, bus, N, {})
    <3> SUFFICES ASSUME NEW x \in Addr, bus[x] # 0
                 PROVE  (\E s \in n.known : n.dev[s].at = x) \/ Pending(N, "add", x)
      BY DEF Complete
    <3>1. (\E s \in st.known : st.dev[s].at = x) \/ Pending(M, "add", x)
      BY DEF ListOK, Complete
    <3>2. (\E s \in st.known : st.dev[s].at = x) => \E s \in n.known : n.dev[s].at = x
      BY <2>1
    <3>3. x = a => \E s \in n.known : n.dev[s].at = x
      BY <2>1
    <3> QED BY <1>1, <1>2, <3>1, <3>2, <3>3
  <2> QED BY <2>3, <2>4 DEF ListOK, Scanned
<1> QED BY <1>3, <1>4

\* An entry that is scanned
LEMMA ListScan ==
    ASSUME NEW M, NEW left \in SUBSET Addr, NEW a \in left, \A p \in Port : bus[p] # 0 => bus[Hub] # 0,
           NEW c, NEW st, NEW L, StateOK(c, st, L), NEW n, Enumerated(c, st, a, n),
           ListOK(st.dev, st.known, bus, M, left)
    PROVE  ListOK(n.dev, n.known, bus, M, left \ {a})
<1>1. CASE At(st, a) # {} \/ bus[a] = 0
  <2>1. n = st
    BY <1>1 DEF Enumerated
  <2>2. Complete(st.dev, st.known, bus, M, left \ {a})
    <3> SUFFICES ASSUME NEW x \in Addr, bus[x] # 0
                 PROVE  (\E s \in st.known : st.dev[s].at = x) \/ Pending(M, "add", x) \/ x \in left \ {a}
      BY DEF Complete
    <3>1. (\E s \in st.known : st.dev[s].at = x) \/ Pending(M, "add", x) \/ x \in left
      BY DEF ListOK, Complete
    <3>2. x = a => \E s \in st.known : st.dev[s].at = x
      BY <1>1 DEF At
    <3> QED BY <3>1, <3>2
  <2>3. Scanned(st.dev, st.known, bus, M, left \ {a})
    BY DEF ListOK, Scanned
  <2> QED BY <2>1, <2>2, <2>3 DEF ListOK
<1>2. CASE At(st, a) = {} /\ bus[a] # 0
  <2>0. a \in Addr /\ (a \in Port => bus[Hub] # 0)
    BY <1>2
  <2>1. /\ \A s \in st.known : /\ s \in n.known /\ n.dev[s].at = st.dev[s].at
                               /\ Fresh(st.dev, s, bus) => Fresh(n.dev, s, bus)
        /\ \E s \in n.known : n.dev[s].at = a
        /\ \A s \in n.known \ st.known :
              \/ Fresh(n.dev, s, bus)
              \/ n.dev[s].at = a /\ a \in Port /\ \E h \in At(st, Hub) : ~Fresh(st.dev, h, bus)
    BY <1>2, <2>0, EnumeratedFresh
  <2>2. ASSUME a \in Port, NEW h \in At(st, Hub), ~Fresh(st.dev, h, bus)
        PROVE  Pending(M, "remove", a)
    BY <2>2 DEF ListOK, Scanned, At
  <2>3. Current(n.dev, n.known, bus, M)
    <3> SUFFICES ASSUME NEW s \in n.known
                 PROVE  Fresh(n.dev, s, bus) \/ Pending(M, "remove", n.dev[s].at)
      BY DEF Current
    <3>1. CASE s \in st.known
      <4>1. Fresh(st.dev, s, bus) \/ Pending(M, "remove", st.dev[s].at)
        BY <3>1 DEF ListOK, Current
      <4> QED BY <2>1, <3>1, <4>1
    <3>2. CASE s \notin st.known
      BY <2>1, <2>2, <3>2
    <3> QED BY <3>1, <3>2
  <2>4. Complete(n.dev, n.known, bus, M, left \ {a})
    <3> SUFFICES ASSUME NEW x \in Addr, bus[x] # 0
                 PROVE  (\E s \in n.known : n.dev[s].at = x) \/ Pending(M, "add", x) \/ x \in left \ {a}
      BY DEF Complete
    <3>1. (\E s \in st.known : st.dev[s].at = x) \/ Pending(M, "add", x) \/ x \in left
      BY DEF ListOK, Complete
    <3>2. (\E s \in st.known : st.dev[s].at = x) => \E s \in n.known : n.dev[s].at = x
      BY <2>1
    <3>3. x = a => \E s \in n.known : n.dev[s].at = x
      BY <2>1
    <3> QED BY <3>1, <3>2, <3>3
  <2>5. ASSUME NEW p \in (left \ {a}) \cap Port, NEW s \in n.known, n.dev[s].at = Hub
        PROVE  Fresh(n.dev, s, bus) \/ Pending(M, "remove", p)
    <3>1. CASE s \in st.known
      <4>1. Fresh(st.dev, s, bus) \/ Pending(M, "remove", p)
        BY <2>1, <2>5, <3>1 DEF ListOK, Scanned
      <4> QED BY <2>1, <3>1, <4>1
    <3>2. CASE s \notin st.known
      BY <2>1, <2>5, <3>2, Constants
    <3> QED BY <3>1, <3>2
  <2>6. Scanned(n.dev, n.known, bus, M, left \ {a})
    <3>1. \A x \in left \ {a} : bus[x] # 0 \/ Pending(M, "remove", x)
      BY DEF ListOK, Scanned
    <3> QED BY <2>5, <3>1 DEF Scanned
  <2> QED BY <2>3, <2>4, <2>6 DEF ListOK
<1> QED BY <1>1, <1>2

----------------------------------------------------------------------------
(* The lists, step by step.                                                *)

LEMMA ListingIs ==
    ASSUME ContextInv, NEW c \in Listing
    PROVE  /\ c \in Ctx /\ monitor /\ phase[c] \notin {"none", "active", "exiting", "closing"}
           /\ c \in Active
           /\ lock.for # "scan" => LeftToScan(c) = {}
           /\ LeftToScan(c) \in SUBSET Addr
<1>1. c \in Ctx /\ phase[c] \in {"scan", "io", "lists", "ready"}
  BY DEF Listing
<1>2. phase[c] = "scan" \/ c \in InBackend
  BY <1>1 DEF InBackend
<1>3. monitor /\ (phase[c] = "scan" => lock.for = "scan")
  BY <1>1, <1>2 DEF ContextInv, MonitorInv
<1>4. LeftToScan(c) \in SUBSET Addr
  BY <1>3, LockIs DEF LeftToScan, ContextInv
<1> QED BY <1>1, <1>3, <1>4 DEF LeftToScan, Active

\* A step that changes no list that is kept
LEMMA ListFrame ==
    ASSUME ListInv, UNCHANGED <<bus, uevents>>, monitor => monitor',
           \A c \in Listing' : /\ c \in Listing /\ dev'[c] = dev[c] /\ known'[c] = known[c]
                               /\ LeftToScan(c)' = LeftToScan(c)
    PROVE  ListInv'
<1>1. \A c \in Listing' : ListOK(dev'[c], known'[c], bus', uevents', LeftToScan(c)')
  BY DEF ListInv
<1> QED BY <1>1 DEF ListInv

LEMMA KernelLists ==
    ASSUME ContextInv, DeviceInv, ListInv, NEW a \in Addr, Plug(a) \/ Unplug(a) \/ OtherUevent
    PROVE  ListInv'
<1>1. /\ UNCHANGED <<monitor, lock, phase, dev, known>> /\ Listing' = Listing
      /\ \A c \in Ctx : LeftToScan(c)' = LeftToScan(c)
  BY DEF Plug, Unplug, OtherUevent, ctxVars, devVars, Listing, LeftToScan
<1>2. /\ uevents \in Seq(Uevents) /\ bus \in [Addr -> Nat] /\ UeventsOK(uevents, bus)
      /\ events + 1 \in Nat \ {0} /\ (~monitor => uevents = <<>>)
  BY DEF ContextInv, ControlOK, DeviceInv, DeviceTypes, ListInv
<1>3. ASSUME NEW c \in Listing
      PROVE  /\ known[c] \in SUBSET Slot /\ \A s \in known[c] : dev[c][s].at \in Addr
             /\ LeftToScan(c) \in SUBSET Addr /\ monitor
             /\ ListOK(dev[c], known[c], bus, uevents, LeftToScan(c))
  <2>1. c \in Ctx /\ LeftToScan(c) \in SUBSET Addr /\ monitor
    BY ListingIs
  <2>2. Refs(dev[c], known[c], msgs[c], list[c]) /\ known[c] \in SUBSET Slot
    BY <2>1 DEF DeviceInv, DeviceTypes, ContextOK
  <2>3. \A s \in known[c] : dev[c][s].at \in Addr
    BY <2>2, KnownIs
  <2> QED BY <2>1, <2>2, <2>3 DEF ListInv
<1>7. ASSUME ~monitor' => uevents' = <<>>, UeventsOK(uevents', bus'),
             \A c \in Listing : ListOK(dev[c], known[c], bus', uevents', LeftToScan(c))
      PROVE  ListInv'
  <2>1. \A c \in Listing' : ListOK(dev'[c], known'[c], bus', uevents', LeftToScan(c)')
    <3> TAKE c \in Listing'
    <3>1. c \in Listing /\ c \in Ctx /\ dev' = dev /\ known' = known
      BY <1>1 DEF Listing
    <3>2. LeftToScan(c)' = LeftToScan(c)
      BY <1>1, <3>1
    <3> QED BY <1>7, <3>1, <3>2
  <2> QED BY <1>7, <2>1 DEF ListInv
<1>4. CASE Plug(a)
  <2> DEFINE b == bus  g == events + 1
  <2>1. /\ b[a] = 0 /\ (a \in Port => b[Hub] # 0) /\ bus' = [b EXCEPT ![a] = g]
        /\ uevents' = IF monitor THEN Append(uevents, [act |-> "add", at |-> a]) ELSE uevents
        /\ g \in Nat \ {0}
    BY <1>2, <1>4 DEF Plug, Uevent
  <2> HIDE DEF g
  <2>2. UeventsOK(uevents', bus')
    BY <1>2, <2>1, UeventsPlug
  <2>3. ASSUME NEW c \in Listing PROVE ListOK(dev[c], known[c], bus', uevents', LeftToScan(c))
    BY <1>2, <1>3, <2>1, <2>3, ListPlug
  <2>4. ~monitor' => uevents' = <<>>
    BY <1>1, <1>2, <2>1
  <2> QED BY <1>7, <2>2, <2>3, <2>4
<1>5. CASE Unplug(a)
  <2> DEFINE b == bus
  <2>1. /\ (a = Hub => \A p \in Port : b[p] = 0) /\ bus' = [b EXCEPT ![a] = 0]
        /\ uevents' = IF monitor THEN Append(uevents, [act |-> "remove", at |-> a]) ELSE uevents
    BY <1>5 DEF Unplug, Uevent
  <2>2. UeventsOK(uevents', bus')
    BY <1>2, <2>1, UeventsUnplug
  <2>3. ASSUME NEW c \in Listing PROVE ListOK(dev[c], known[c], bus', uevents', LeftToScan(c))
    BY <1>2, <1>3, <2>1, <2>3, ListUnplug
  <2>4. ~monitor' => uevents' = <<>>
    BY <1>1, <1>2, <2>1
  <2> QED BY <1>7, <2>2, <2>3, <2>4
<1>6. CASE OtherUevent
  <2>1. bus' = bus /\ monitor /\ uevents' = Append(uevents, [act |-> "other", at |-> Hub])
    BY <1>6 DEF OtherUevent, Uevent
  <2> DEFINE M == uevents  e == [act |-> "other", at |-> Hub]  N == Append(uevents, e)
  <2>2. /\ UeventsOK(uevents', bus')
        /\ \A act, x : Pending(uevents, act, x) => Pending(uevents', act, x)
    <3>1. /\ M \in Seq(Uevents) /\ UeventsOK(M, bus) /\ e \in Uevents /\ e.act = "other"
          /\ N = Append(M, e)
      BY <1>2, Constants DEF Uevents
    <3> HIDE DEF N, M, e
    <3>2. UeventsOK(N, bus) /\ \A act, x : Pending(M, act, x) => Pending(N, act, x)
      BY <3>1, UeventsOther
    <3>3. uevents' = N
      BY <2>1 DEF N, e
    <3> QED BY <2>1, <3>2, <3>3 DEF M
  <2>3. ASSUME NEW c \in Listing PROVE ListOK(dev[c], known[c], bus', uevents', LeftToScan(c))
    BY <1>3, <2>1, <2>2, ListLater
  <2>4. ~monitor' => uevents' = <<>>
    BY <1>1, <2>1
  <2> QED BY <1>7, <2>2, <2>3, <2>4
<1> QED BY <1>4, <1>5, <1>6

\* A message is read.
LEMMA ReadLists ==
    ASSUME ContextInv, DeviceInv, ListInv, ~DuringInit, MonitorReads \/ PollReads
    PROVE  ListInv'
<1> DEFINE e == Head(uevents)  M == uevents  N == Tail(uevents)
<1>1. /\ M # <<>> /\ HasRoom /\ ~TooEarly(e) /\ SetStates(Handled(e)) /\ uevents' = N
      /\ UNCHANGED <<kernelVars, bus, monitor, phase, list>>
  BY DEF MonitorReads, PollReads, ReadMessage, ctxVars, kernelVars
<1>2. M \in Seq(Uevents) /\ e \in Uevents /\ UeventsOK(M, bus)
  BY <1>1, UeventTypes DEF ContextInv, ControlOK, ListInv
<1>3. lock.for # "scan" /\ lock'.for # "scan"
  <2>1. CASE MonitorReads
    <3>1. lock = Unlocked /\ lock' = lock
      BY <2>1 DEF MonitorReads
    <3> QED BY <3>1 DEF Unlocked
  <2>2. CASE PollReads
    <3>1. lock.for = "poll"
          /\ lock' = [lock EXCEPT !.due = IF @ > 0 THEN @ - 1 ELSE 0, !.more = AboutDevice(Head(uevents))]
      BY <2>2 DEF PollReads
    <3>2. lock \in [for : {"poll"}, ctx : Ctx, due : Nat, more : BOOLEAN]
      BY <3>1 DEF ContextInv, ControlOK, Locks
    <3> QED BY <3>1, <3>2
  <2> QED BY <2>1, <2>2
<1>4. \A c \in Ctx :
         /\ StateOK(c, Handled(e)[c], list[c])
         /\ phase[c] \in {"none", "active", "closing"} => Handled(e)[c] = State(c)
         /\ IF c \notin Active \/ e.act = "other" THEN Handled(e)[c] = State(c)
            ELSE IF e.act = "add" THEN Enumerated(c, State(c), e.at, Handled(e)[c])
            ELSE /\ Handled(e)[c].dev = dev[c]
                 /\ Handled(e)[c].known = known[c] \ At(State(c), e.at)
  BY <1>1, <1>2, HandledOK
<1>5. \A c \in Ctx : dev'[c] = Handled(e)[c].dev /\ known'[c] = Handled(e)[c].known
  BY <1>1, <1>4, StatesChanged
<1>6. /\ e.act \in {"add", "remove", "other"} /\ e.at \in Addr /\ e = Head(M)
      /\ \A act, x : Pending(M, act, x) => Pending(N, act, x) \/ (e.act = act /\ e.at = x)
  <2>1. \A act, x : Pending(M, act, x) => Pending(N, act, x) \/ (e.act = act /\ e.at = x)
    BY <1>1, <1>2, ToldTail
  <2> QED BY <1>2, <2>1 DEF Uevents
<1>7. Listing' = Listing /\ bus' = bus /\ uevents' = N /\ monitor' = monitor
  BY <1>1 DEF Listing
<1> HIDE DEF e, M, N
<1>8. ASSUME NEW c \in Listing
      PROVE  ListOK(dev'[c], known'[c], bus, N, {})
  <2>1. c \in Ctx /\ c \in Active /\ LeftToScan(c) = {}
    BY <1>3, ListingIs
  <2>2. /\ StateOK(c, State(c), list[c]) /\ State(c).dev = dev[c] /\ State(c).known = known[c]
        /\ ListOK(dev[c], known[c], bus, M, {})
    BY <2>1, StateIs DEF ListInv, M
  <2>3. CASE e.act = "other"
    <3>1. dev'[c] = dev[c] /\ known'[c] = known[c]
      BY <1>4, <1>5, <2>1, <2>2, <2>3
    <3>2. \A act \in {"add", "remove"} : \A x : Pending(M, act, x) => Pending(N, act, x)
      BY <1>6, <2>3
    <3> QED BY <2>2, <3>1, <3>2, ListLater
  <2>4. CASE e.act = "add"
    <3> DEFINE n == Handled(e)[c]  st == State(c)
    <3>1. Enumerated(c, st, e.at, n) /\ dev'[c] = n.dev /\ known'[c] = n.known
      BY <1>4, <1>5, <2>1, <2>4
    <3>2. StateOK(c, st, list[c]) /\ ListOK(st.dev, st.known, bus, M, {})
      BY <2>2
    <3> HIDE DEF n, st
    <3>3. ListOK(n.dev, n.known, bus, N, {})
      BY <1>1, <1>2, <1>6, <2>4, <3>1, <3>2, ListAdd DEF M, N
    <3> QED BY <3>1, <3>3
  <2>5. CASE e.act = "remove"
    <3>1. dev'[c] = dev[c] /\ known'[c] = known[c] \ At(State(c), e.at)
      BY <1>4, <1>5, <2>1, <2>5
    <3>2. known'[c] = {s \in known[c] : dev[c][s].at # e.at}
      BY <2>2, <3>1 DEF At
    <3>3. ListOK(dev[c], known'[c], bus, N, {})
      BY <1>1, <1>2, <1>6, <2>2, <2>5, <3>2, ListRemove, ZenonT(60) DEF M, N
    <3> QED BY <3>1, <3>3
  <2> QED BY <1>6, <2>3, <2>4, <2>5
<1>9. ASSUME NEW c \in Listing PROVE LeftToScan(c)' = {}
  <2>1. phase[c] # "scan"
    BY <1>3 DEF ContextInv, MonitorInv, Listing
  <2> QED BY <1>1, <2>1 DEF LeftToScan
<1>10. UeventsOK(N, bus)
  BY <1>1, <1>2, UeventsTail DEF M, N
<1>11. ~monitor => N = <<>>
  <2>1. monitor
    BY <1>1 DEF ListInv, M
  <2> QED BY <2>1
<1> QED BY <1>7, <1>8, <1>9, <1>10, <1>11 DEF ListInv

\* The opener of a device that is gone
LEMMA GoneLists ==
    ASSUME ContextInv, DeviceInv, ListInv, ~DuringInit, NEW k \in Ctx, OpenGone(k)
    PROVE  ListInv'
<1>1. PICK s \in list[k] \cap known[k] :
         LET e == [act |-> "remove", at |-> dev[k][s].at]
         IN bus[e.at] = 0 /\ ~TooEarly(e) /\ SetStates(Handled(e))
  BY DEF OpenGone
<1> DEFINE a == dev[k][s].at  e == [act |-> "remove", at |-> a]
<1>2. a \in Addr
  BY <1>1, KnownIs DEF DeviceInv, DeviceTypes, ContextOK
<1>3. bus[a] = 0 /\ ~TooEarly(e) /\ SetStates(Handled(e)) /\ e.act = "remove" /\ e.at = a
  BY <1>1
<1>4. e \in Uevents
  BY <1>2 DEF Uevents
<1>5. /\ UNCHANGED <<kernelVars, bus, uevents, monitor, phase, list, lock>> /\ lock.for # "scan"
      /\ Listing' = Listing
  BY DEF OpenGone, ctxVars, kernelVars, Unlocked, Listing
<1> HIDE DEF e, a
<1>6. \A c \in Ctx :
         /\ StateOK(c, Handled(e)[c], list[c])
         /\ phase[c] \in {"none", "active", "closing"} => Handled(e)[c] = State(c)
         /\ c \in Active => /\ Handled(e)[c].dev = dev[c]
                            /\ Handled(e)[c].known = known[c] \ At(State(c), a)
  <2> TAKE c \in Ctx
  <2>1. e.act # "add" /\ e.act # "other"
    BY <1>3
  <2> QED BY <1>3, <1>4, <2>1, HandledOK
<1>7. \A c \in Ctx : dev'[c] = Handled(e)[c].dev /\ known'[c] = Handled(e)[c].known
  BY <1>3, <1>5, <1>6, StatesChanged
<1>8. ASSUME NEW c \in Listing
      PROVE  ListOK(dev'[c], known'[c], bus, uevents, LeftToScan(c))
  <2>1. c \in Ctx /\ c \in Active /\ LeftToScan(c) = {}
    BY <1>5, ListingIs
  <2>2. ListOK(dev[c], known[c], bus, uevents, {})
    BY <2>1 DEF ListInv
  <2>3. dev'[c] = dev[c] /\ known'[c] = {x \in known[c] : dev[c][x].at # a}
    <3>1. dev'[c] = dev[c] /\ known'[c] = known[c] \ At(State(c), a)
      BY <1>6, <1>7, <2>1
    <3> QED BY <2>1, <3>1, StateIs DEF At
  <2> QED BY <1>3, <2>1, <2>2, <2>3, ListGone
<1>9. \A c \in Listing : LeftToScan(c)' = LeftToScan(c)
  BY <1>5 DEF LeftToScan
<1> QED BY <1>5, <1>8, <1>9 DEF ListInv

\* An entry of the directory is scanned.
LEMMA ScanLists ==
    ASSUME ContextInv, DeviceInv, ListInv, NEW c \in Ctx, ScanEntry(c)
    PROVE  ListInv'
<1>1. PICK a \in lock.left :
         /\ lock' = [lock EXCEPT !.left = @ \ {a}, !.found = IF Readable(a) THEN @ + 1 ELSE @]
         /\ Enumerated(c, State(c), a, State(c)')
         /\ \A k \in Ctx \ {c} : State(k)' = State(k)
  BY ScanEntryDevices
<1>2. UNCHANGED <<bus, uevents, monitor, phase>> /\ phase[c] = "scan" /\ Listing' = Listing
  BY DEF ScanEntry, kernelVars, ctxVars, Listing
<1>3. lock.for = "scan"
  BY <1>2 DEF ContextInv, MonitorInv
<1>4. lock \in [for : {"scan"}, left : SUBSET Addr, found : Nat, listed : Nat]
  BY <1>3 DEF ContextInv, ControlOK, Locks
<1>5. lock'.left = lock.left \ {a} /\ lock.left \in SUBSET Addr
  BY <1>1, <1>4
<1>6. \A k \in Ctx : LeftToScan(k)' = IF k = c THEN lock.left \ {a} ELSE LeftToScan(k)
  <2>1. \A k \in Ctx \ {c} : phase[k] # "scan"
    BY <1>2, PhaseIs DEF ContextInv, UsersInv
  <2> QED BY <1>2, <1>5, <2>1 DEF LeftToScan
<1>7. ASSUME NEW k \in Listing, k # c
      PROVE  ListOK(dev'[k], known'[k], bus, uevents, LeftToScan(k))
  <2>1. k \in Ctx \ {c}
    BY <1>7 DEF Listing
  <2>2. State(k)' = State(k)
    BY <1>1, <2>1
  <2>3. dev'[k] = dev[k] /\ known'[k] = known[k]
    BY <2>2 DEF State
  <2> QED BY <2>3 DEF ListInv
<1>8. c \in Listing => ListOK(dev'[c], known'[c], bus, uevents, lock.left \ {a})
  <2> SUFFICES ASSUME c \in Listing PROVE ListOK(dev'[c], known'[c], bus, uevents, lock.left \ {a})
    OBVIOUS
  <2> DEFINE st == State(c)  n == State(c)'  left == lock.left
  <2>1. LeftToScan(c) = lock.left
    BY <1>2 DEF LeftToScan
  <2>2. /\ StateOK(c, st, list[c]) /\ ListOK(st.dev, st.known, bus, uevents, left)
        /\ \A p \in Port : bus[p] # 0 => bus[Hub] # 0
    BY <2>1, StateIs DEF ListInv, UeventsOK
  <2>3. Enumerated(c, st, a, n) /\ n.dev = dev'[c] /\ n.known = known'[c] /\ a \in left /\ left \in SUBSET Addr
    BY <1>1, <1>5 DEF State
  <2> HIDE DEF st, n, left
  <2>4. ListOK(n.dev, n.known, bus, uevents, left \ {a})
    BY <2>2, <2>3, ListScan
  <2> QED BY <2>3, <2>4 DEF left
<1>9. ASSUME NEW k \in Listing PROVE ListOK(dev'[k], known'[k], bus, uevents, LeftToScan(k)')
  <2>1. k \in Ctx
    BY DEF Listing
  <2> QED BY <1>6, <1>7, <1>8, <2>1
<1> QED BY <1>2, <1>9 DEF ListInv

\* References that are taken or dropped, of devices that are listed all the same
LEMMA ReferencedLists ==
    ASSUME ListInv, DeviceInv', UNCHANGED <<bus, uevents, monitor, phase, known>>,
           \A c \in Listing : SameKind(dev'[c], dev[c]) /\ LeftToScan(c)' = LeftToScan(c)
    PROVE  ListInv'
<1>1. Listing' = Listing
  BY DEF Listing
<1>2. ASSUME NEW c \in Listing
      PROVE  ListOK(dev'[c], known'[c], bus', uevents', LeftToScan(c)')
  <2> DEFINE e == dev'[c]  ds == dev[c]  K == known[c]  M == msgs'[c]  L == list'[c]
             left == LeftToScan(c)
  <2>1. Refs(dev'[c], known'[c], msgs'[c], list'[c])
    BY DEF DeviceInv, ContextOK, Listing
  <2>2. Refs(e, K, M, L) /\ SameKind(e, ds) /\ ListOK(ds, K, bus, uevents, left)
    BY <2>1 DEF ListInv
  <2> HIDE DEF e, ds, K, M, L, left
  <2>3. ListOK(e, K, bus, uevents, left)
    BY <2>2, ListRefs
  <2> QED BY <2>3 DEF e, K, left
<1> QED BY <1>1, <1>2 DEF ListInv

LEMMA RefLists ==
    ASSUME ContextInv, DeviceInv, ListInv, DeviceInv', NEW c \in Ctx,
           GetDeviceList \/ FreeDeviceList(c) \/ HandleMessage(c)
    PROVE  ListInv'
<1>0. dev \in [Ctx -> [Slot -> Devices]]
  BY DEF DeviceInv, DeviceTypes
<1>1. \A k \in Ctx : SameKind(dev[k], dev[k])
  BY DEF SameKind
<1>2. ASSUME NEW k \in Ctx, NEW S, NEW ds,
             ds = UnrefAll(dev[k], S) \/ ds = RefAll(dev[k], S), dev' = [dev EXCEPT ![k] = ds]
      PROVE  \A j \in Ctx : SameKind(dev'[j], dev[j])
  <2>1. SameKind(ds, dev[k])
    BY <1>0, <1>2, UnrefKind
  <2> QED BY <1>0, <1>1, <1>2, <2>1
<1>3. \A j \in Ctx : SameKind(dev'[j], dev[j])
  <2>1. CASE GetDeviceList
    <3>1. lock.ctx \in Ctx
      BY <2>1, LockIs DEF GetDeviceList, ContextInv
    <3> QED BY <1>2, <2>1, <3>1 DEF GetDeviceList
  <2>2. CASE FreeDeviceList(c)
    BY <1>2, <2>2 DEF FreeDeviceList
  <2>3. CASE HandleMessage(c)
    <3>1. dev' = dev \/ dev' = [dev EXCEPT ![c] = UnrefAll(@, {Head(msgs[c]).d})]
      BY <2>3 DEF HandleMessage
    <3> QED BY <1>1, <1>2, <3>1
  <2> QED BY <2>1, <2>2, <2>3
<1>4. /\ UNCHANGED <<bus, uevents, monitor, phase, known>>
      /\ lock' = lock \/ lock.for # "scan"
  BY DEF GetDeviceList, FreeDeviceList, HandleMessage, kernelVars, ctxVars
<1>5. \A j \in Listing : LeftToScan(j)' = LeftToScan(j)
  <2>1. \A j \in Listing : phase[j] = "scan" => lock' = lock
    BY <1>4 DEF ContextInv, MonitorInv, Listing
  <2> QED BY <1>4, <2>1 DEF LeftToScan
<1> QED BY <1>3, <1>4, <1>5, ReferencedLists DEF Listing

\* The list of a new context is what is to be scanned.
LEMMA ScanBeginLists ==
    ASSUME ContextInv, DeviceInv, ListInv, NEW c \in Ctx, ScanBegin(c)
    PROVE  ListInv'
<1>1. /\ phase[c] = "active" /\ lock = Unlocked /\ phase' = [phase EXCEPT ![c] = "scan"] /\ monitor'
      /\ lock'.left = {a \in Addr : bus[a] # 0} /\ UNCHANGED <<bus, uevents, dev, known>>
  BY DEF ScanBegin, StartMonitor, Entries, kernelVars, devVars
<1>2. /\ phase'[c] = "scan" /\ \A k \in Ctx \ {c} : phase'[k] = phase[k]
  BY <1>1, SetPhase DEF ContextInv, Phases
<1>3. known[c] = {}
  BY <1>1 DEF DeviceInv, ContextOK
<1>4. \A k \in Ctx \ {c} : phase[k] # "scan"
  BY <1>1, LockIs DEF ContextInv, MonitorInv
<1>5. LeftToScan(c)' = {a \in Addr : bus[a] # 0}
  BY <1>1, <1>2 DEF LeftToScan
<1>6. ListOK(dev'[c], known'[c], bus', uevents', LeftToScan(c)')
  <2> DEFINE left == {a \in Addr : bus[a] # 0}
  <2>1. ListOK(dev[c], {}, bus, uevents, left)
    BY DEF ListOK, Current, Complete, Scanned
  <2> QED BY <1>1, <1>3, <1>5, <2>1
<1>7. ASSUME NEW k \in Listing', k # c
      PROVE  ListOK(dev'[k], known'[k], bus', uevents', LeftToScan(k)')
  <2>1. k \in Ctx \ {c} /\ k \in Listing
    BY <1>2, <1>7 DEF Listing
  <2>2. LeftToScan(k)' = LeftToScan(k)
    BY <1>2, <1>4, <2>1 DEF LeftToScan
  <2> QED BY <1>1, <2>1, <2>2 DEF ListInv
<1> QED BY <1>1, <1>6, <1>7 DEF ListInv

\* A context moves on, or is freed; what is not read by the last of them is lost.
LEMMA PhaseLists ==
    ASSUME ContextInv, DeviceInv, ListInv, ContextInv', NEW c \in Ctx,
           \/ InitAgain \/ InitBegin(c) \/ ScanEnds(c) \/ IoLists(c) \/ IoPipe(c) \/ PollBegin(c)
           \/ InitFails(c) \/ ExitAgain(c) \/ ExitBegin(c) \/ ExitDevices(c) \/ ExitBackend(c)
    PROVE  ListInv'
<1>0. phase \in [Ctx -> Phases] /\ dev \in [Ctx -> [Slot -> Devices]] /\ known \in [Ctx -> SUBSET Slot]
  BY DEF ContextInv, ControlOK, DeviceInv, DeviceTypes
<1>1. CASE InitAgain \/ PollBegin(c) \/ ExitAgain(c)
  <2>1. UNCHANGED <<bus, uevents, monitor, phase, dev, known>>
    BY <1>1 DEF InitAgain, PollBegin, ExitAgain, kernelVars, ctxVars, devVars
  <2>2. lock' = lock \/ lock.for # "scan"
    BY <1>1 DEF InitAgain, PollBegin, ExitAgain, Unlocked
  <2>3. \A k \in Listing' : k \in Listing /\ LeftToScan(k)' = LeftToScan(k)
    <3>1. \A k \in Ctx : phase[k] = "scan" => lock' = lock
      BY <2>2 DEF ContextInv, MonitorInv
    <3> QED BY <2>1, <3>1 DEF Listing, LeftToScan
  <2> QED BY <2>1, <2>3, ListFrame
<1>2. CASE InitBegin(c) \/ IoLists(c) \/ IoPipe(c) \/ ExitBegin(c)
  <2>1. /\ UNCHANGED <<bus, uevents, monitor, lock, dev, known>>
        /\ \E p \in {"active", "lists", "ready", "exiting"} : phase' = [phase EXCEPT ![c] = p]
        /\ phase[c] \in {"none", "io", "lists", "ready"}
        /\ phase[c] = "none" => phase' = [phase EXCEPT ![c] = "active"]
    BY <1>2 DEF InitBegin, IoLists, IoPipe, ExitBegin, kernelVars, devVars
  <2>2. \A k \in Listing' : k \in Listing /\ LeftToScan(k)' = LeftToScan(k)
    BY <1>0, <2>1 DEF Listing, LeftToScan
  <2> QED BY <2>1, <2>2, ListFrame
<1>3. CASE ScanEnds(c)
  <2>1. /\ UNCHANGED <<bus, uevents, monitor, dev, known>> /\ phase[c] = "scan" /\ lock.left = {}
        /\ phase' = [phase EXCEPT ![c] = "io"]
    BY <1>3 DEF ScanEnds, kernelVars, devVars
  <2>2. \A k \in Ctx \ {c} : phase[k] # "scan"
    BY <2>1, PhaseIs DEF ContextInv, UsersInv
  <2>3. \A k \in Listing' : k \in Listing /\ LeftToScan(k)' = LeftToScan(k)
    BY <1>0, <2>1, <2>2 DEF Listing, LeftToScan
  <2> QED BY <2>1, <2>3, ListFrame
<1>4. CASE ExitDevices(c)
  <2>1. /\ UNCHANGED <<bus, uevents, monitor, lock>> /\ phase[c] = "exiting"
        /\ phase' = [phase EXCEPT ![c] = "closing"] /\ known' = [known EXCEPT ![c] = {}]
        /\ \A k \in Ctx \ {c} : dev'[k] = dev[k]
    BY <1>0, <1>4 DEF ExitDevices, kernelVars
  <2>2. \A k \in Listing' : /\ k \in Listing /\ k \in Ctx \ {c} /\ LeftToScan(k)' = LeftToScan(k)
    BY <1>0, <2>1 DEF Listing, LeftToScan
  <2> QED BY <1>0, <2>1, <2>2, ListFrame
<1>5. CASE InitFails(c) \/ ExitBackend(c)
  <2>1. /\ bus' = bus /\ phase' = [phase EXCEPT ![c] = "none"]
        /\ \A k \in Ctx \ {c} : dev'[k] = dev[k] /\ known'[k] = known[k]
        /\ uevents' = IF initCount' = 0 THEN <<>> ELSE uevents
        /\ monitor' = (monitor /\ initCount' # 0)
    <3>1. CASE InitFails(c)
      BY <1>0, <1>5, <3>1 DEF InitFails, StopMonitor, kernelVars
    <3>2. CASE ExitBackend(c)
      <4>1. initCount \in Nat /\ initCount' = initCount - 1 /\ (initCount = 1 <=> initCount' = 0)
        BY <3>2 DEF ExitBackend, ContextInv, ControlOK
      <4>2. /\ bus' = bus /\ phase' = [phase EXCEPT ![c] = "none"] /\ UNCHANGED <<dev, known>>
            /\ StopMonitor(initCount = 1)
        BY <3>2 DEF ExitBackend, kernelVars, devVars
      <4> QED BY <4>1, <4>2 DEF StopMonitor
    <3> QED BY <1>5, <3>1, <3>2
  <2>2. /\ phase'[c] = "none" /\ \A k \in Ctx \ {c} : phase'[k] = phase[k]
    BY <1>0, <2>1
  <2>3. \A k \in Ctx \ {c} : phase[k] # "scan"
    <3>1. CASE InitFails(c)
      BY <3>1 DEF InitFails, ContextInv, UsersInv, Initing
    <3>2. CASE ExitBackend(c)
      BY <3>2 DEF ExitBackend, ContextInv, MonitorInv
    <3> QED BY <1>5, <3>1, <3>2
  <2>4. \A k \in Listing' : k \in Listing /\ k \in Ctx \ {c} /\ LeftToScan(k) = {} /\ LeftToScan(k)' = {}
    BY <2>2, <2>3 DEF Listing, LeftToScan
  <2>5. CASE initCount' = 0
    <3>1. Cardinality(InBackend') = 0
      BY <2>5 DEF ContextInv, MonitorInv
    <3>2. IsFiniteSet(InBackend')
      BY Constants, FS_Subset DEF InBackend
    <3>3. InBackend' = {}
      BY <3>1, <3>2, FS_EmptySet
    <3>4. Listing' = {}
      BY <2>2, <2>3, <3>3 DEF Listing, InBackend
    <3>5. UeventsOK(<<>>, bus)
      <4>1. \A k, act, a : ~Told(<<>>, k, act, a)
        BY DEF Told
      <4> QED BY <4>1 DEF ListInv, UeventsOK
    <3> QED BY <2>1, <2>5, <3>4, <3>5 DEF ListInv
  <2>6. CASE initCount' # 0
    BY <2>1, <2>4, <2>6, ListFrame
  <2> QED BY <2>5, <2>6
<1> QED BY <1>1, <1>2, <1>3, <1>4, <1>5

LEMMA ListStep ==
    ASSUME ContextInv, DeviceInv, PollInv, ListInv, ~DuringInit, [Next]_vars
    PROVE  ListInv'
<1>1. ContextInv' /\ DeviceInv'
  BY NextContextInv, DeviceStep
<1>2. ASSUME NEW a \in Addr, Plug(a) \/ Unplug(a) \/ OtherUevent PROVE ListInv'
  BY <1>2, KernelLists
<1>3. CASE MonitorReads \/ PollReads
  BY <1>3, ReadLists
<1>4. CASE GetDeviceList
  <2>1. lock.ctx \in Ctx
    BY <1>4, LockIs DEF GetDeviceList, ContextInv
  <2> QED BY <1>1, <1>4, <2>1, RefLists
<1>5. CASE InitAgain
  <2>1. default \in Ctx
    BY <1>5 DEF InitAgain, ContextInv, ControlOK
  <2> QED BY <1>1, <1>5, <2>1, PhaseLists
<1>6. ASSUME NEW c \in Ctx,
             \/ InitBegin(c) \/ ScanEnds(c) \/ IoLists(c) \/ IoPipe(c) \/ PollBegin(c) \/ InitFails(c)
             \/ ExitAgain(c) \/ ExitBegin(c) \/ ExitDevices(c) \/ ExitBackend(c)
      PROVE  ListInv'
  BY <1>1, <1>6, PhaseLists
<1>7. ASSUME NEW c \in Ctx, FreeDeviceList(c) \/ HandleMessage(c) PROVE ListInv'
  BY <1>1, <1>7, RefLists
<1>8. ASSUME NEW c \in Ctx, ScanBegin(c) \/ ScanEntry(c) \/ OpenGone(c) PROVE ListInv'
  BY <1>8, ScanBeginLists, ScanLists, GoneLists
<1>9. CASE UNCHANGED vars
  <2>1. UNCHANGED <<bus, uevents, monitor, phase, lock, dev, known>>
    BY <1>9 DEF vars, kernelVars, ctxVars, devVars
  <2>2. \A c \in Listing' : c \in Listing /\ LeftToScan(c)' = LeftToScan(c)
    BY <2>1 DEF Listing, LeftToScan
  <2> QED BY <2>1, <2>2, ListFrame
<1> QED BY <1>2, <1>3, <1>4, <1>5, <1>6, <1>7, <1>8, <1>9, Constants DEF Next

\* When no uevent comes too early and none is left to be read, a ready context lists
\* exactly the devices that are there, each behind the hub that is there: whatever
\* comes and goes while contexts are initialised and scanned, addresses used again
\* included, the order of the messages puts each list right.
THEOREM ListsMatchTheBus == ~DuringInit => (Spec => []ListMatchesBus)
<1> SUFFICES ASSUME ~DuringInit PROVE Spec => []ListMatchesBus
  OBVIOUS
<1>1. Init => IInv
  <2> SUFFICES ASSUME Init PROVE IInv
    OBVIOUS
  <2>1. uevents = <<>> /\ bus = [a \in Addr |-> 0] /\ phase = [c \in Ctx |-> "none"]
    BY DEF Init
  <2>2. Listing = {} /\ \A k, act, a : ~Told(<<>>, k, act, a)
    BY <2>1 DEF Listing, Told
  <2>3. UeventsOK(<<>>, bus)
    BY <2>1, <2>2, Constants DEF UeventsOK
  <2>4. ListInv
    BY <2>1, <2>2, <2>3 DEF ListInv
  <2> QED BY <2>4, InitContextInv, InitDevices DEF IInv
<1>2. IInv /\ [Next]_vars => IInv'
  BY NextContextInv, DeviceStep, PollStep, ListStep DEF IInv
<1>3. IInv => ListMatchesBus
  <2> SUFFICES ASSUME IInv, uevents = <<>>, NEW c \in Ctx, phase[c] = "ready"
               PROVE  /\ {<<dev[c][s].at, dev[c][s].gen>> : s \in known[c]}
                           = {<<a, bus[a]>> : a \in {b \in Addr : bus[b] # 0}}
                      /\ \A s \in known[c] : dev[c][s].at \in Port =>
                            dev[c][s].parent # 0 /\ dev[c][dev[c][s].parent].gen = bus[Hub]
    BY DEF ListMatchesBus
  <2>1. \A act, a : ~Pending(uevents, act, a)
    BY DEF Pending, Told
  <2>2. ListOK(dev[c], known[c], bus, uevents, {})
    BY DEF IInv, ListInv, Listing, LeftToScan
  <2>3. \A s \in known[c] : Fresh(dev[c], s, bus)
    BY <2>1, <2>2 DEF ListOK, Current
  <2>4. \A a \in Addr : bus[a] # 0 => \E s \in known[c] : dev[c][s].at = a
    BY <2>1, <2>2 DEF ListOK, Complete
  <2>5. \A s \in known[c] : dev[c][s].at \in Addr
    <3>1. Refs(dev[c], known[c], msgs[c], list[c])
      BY DEF IInv, DeviceInv, ContextOK
    <3>2. known[c] \subseteq Slot
      BY <3>1 DEF Refs
    <3> QED BY <3>1, <3>2, KnownIs
  <2>6. \A s \in known[c] : /\ dev[c][s].at \in {b \in Addr : bus[b] # 0}
                            /\ dev[c][s].gen = bus[dev[c][s].at]
    BY <2>3, <2>5 DEF Fresh
  <2>7. \A s \in known[c] : dev[c][s].at \in Port =>
           dev[c][s].parent # 0 /\ dev[c][dev[c][s].parent].gen = bus[Hub]
    BY <2>3 DEF Fresh
  <2>8. {<<dev[c][s].at, dev[c][s].gen>> : s \in known[c]}
          = {<<a, bus[a]>> : a \in {b \in Addr : bus[b] # 0}}
    <3>1. \A s \in known[c] : <<dev[c][s].at, dev[c][s].gen>> \in {<<a, bus[a]>> : a \in {b \in Addr : bus[b] # 0}}
      BY <2>6
    <3>2. \A a \in {b \in Addr : bus[b] # 0} : <<a, bus[a]>> \in {<<dev[c][s].at, dev[c][s].gen>> : s \in known[c]}
      BY <2>4, <2>6
    <3> QED BY <3>1, <3>2
  <2> QED BY <2>7, <2>8
<1> QED BY <1>1, <1>2, <1>3, PTL DEF Spec
=============================================================================
