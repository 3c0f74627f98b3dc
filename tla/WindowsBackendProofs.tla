------------------------ MODULE WindowsBackendProofs ------------------------
(***************************************************************************)
(* Proofs about the Windows backends (WindowsBackend.tla), for any number  *)
(* of handles, transfers, interfaces and descriptors, while nothing named  *)
(* in Faults happens.                                                      *)
(***************************************************************************)
EXTENDS WindowsBackend, FiniteSetTheorems, WellFoundedInduction, TLAPS

----------------------------------------------------------------------------
(* The inductive invariant.                                                *)

\* get_valid_interface and auto_claim are behind, and clear_transfer_priv is ahead.
Chosen == {"start", "started", "in_flight"}
Cleared(t) == ev.pc = "report" /\ ev.cur = t
Taken == ev.pc \in {"taken", "report"}
OpenFds == {k \in Fd : fdTable[k] # None}

\* A transfer has its descriptor from CreateFd on until it is refused or cleared,
\* and the table names its owner.
FdInv ==
    /\ \A t \in Transfer : tr[t].pc \in {"idle", "listed"} => tr[t].fd = None
    /\ \A t \in Transfer : tr[t].pc \notin {"idle", "listed"} /\ ~Cleared(t) => tr[t].fd # None
    /\ \A t \in Transfer : tr[t].fd # None => fdTable[tr[t].fd] = t
    /\ \A k \in Fd : fdTable[k] # None => tr[fdTable[k]].fd = k

\* The event thread watches the open descriptors, and what it works on is in flight.
EventInv ==
    /\ Taken =>
        /\ ev.cur \in Transfer /\ tr[ev.cur].pc = "in_flight"
        /\ tr[ev.cur].fd # None <=> ev.pc = "taken"
        /\ tr[ev.cur].fd \notin ev.ready
        /\ io[ev.cur] = "none"
    /\ ev.pc # "taken" => polled = OpenFds
    /\ ev.pc = "taken" => polled = OpenFds \ {tr[ev.cur].fd}
    /\ ev.seen \subseteq OpenFds
    /\ ev.pc # "poll" => ev.seen = {}
    /\ \A k \in ev.ready : fdTable[k] # None /\ io[fdTable[k]] \notin {"none", "pending"}

\* The system has a request only for a transfer that is flying.
IoInv ==
    /\ \A t \in Transfer : io[t] # "none" => tr[t].pc \in {"started", "in_flight"}
    /\ \A t \in Transfer : tr[t].pc # "idle" <=> result[t] = "flying"

\* AbortPipe is for an endpoint: no two transfers share one.
EndpointsApart == \A t, u \in Transfer : ~Control(t) /\ Kind[t] = Kind[u] => t = u

\* Requests end as aborted only if somebody asked.
AbortInv == EndpointsApart =>
    /\ \A t \in Transfer : io[t] = "aborted" => t \in asked
    /\ Taken /\ ev.res = "aborted" => ev.cur \in asked

\* Who uses a handle: transfers of claimed interfaces, and one control transfer.
BusyInv ==
    /\ \A t \in Transfer : tr[t].pc # "idle" => tr[t].h \in open
    /\ \A t \in Transfer : tr[t].pc # "idle" /\ ~Control(t) => Kind[t] \in user[tr[t].h]
    /\ \A t, u \in Transfer :
        Control(t) /\ Control(u) /\ tr[t].pc # "idle" /\ tr[u].pc # "idle" /\ tr[t].h = tr[u].h
            => t = u

\* core.c's claims are the program's and the automatic ones, and each has its
\* WinUSB handle; interface 0 may have one for another's sake.
ClaimInv ==
    /\ \A h \in open : claimed[h] = user[h] \cup {i \in Interface : auto[h][i] > 0}
    /\ \A h \in Handle \ open :
        api[h] = {} /\ claimed[h] = {} /\ user[h] = {} /\ auto[h] = [i \in Interface |-> 0]
    /\ backend # "usbdk" => \A h \in open :
        claimed[h] \subseteq api[h] /\ api[h] \subseteq claimed[h] \cup {0} /\ file[h] = WinusbxOpen
    /\ backend = "usbdk" =>
        /\ redirector <=> open # {}
        /\ \A g, h \in open : g = h
        /\ \A h \in Handle : api[h] = {} /\ auto[h] = [i \in Interface |-> 0]

\* An automatic claim is there for a control transfer that is to release it.
AutoInv ==
    /\ \A h \in Handle, i \in Interface : auto[h][i] > 0 =>
        /\ auto[h][i] = 1 /\ i \notin user[h]
        /\ \E t \in Transfer : Control(t) /\ tr[t].h = h /\ tr[t].via = i /\ tr[t].pc \in Chosen
                                /\ ~Cleared(t)
    /\ \A t \in Transfer : tr[t].pc = "auto" =>
        /\ Control(t) /\ backend # "usbdk" /\ 0 \notin user[tr[t].h]
        /\ tr[t].at > 0 => user[tr[t].h] = {}
        /\ \A i \in Interface : auto[tr[t].h][i] = 0
    /\ backend # "usbdk" => \A t \in Transfer : tr[t].pc \in Chosen =>
        /\ ~Cleared(t) => tr[t].via \in api[tr[t].h]
        /\ ~Control(t) => tr[t].via = Kind[t]
        /\ tr[t].pc = "in_flight" => tr[t].itf = tr[t].via

IInv == TypeOK /\ FdInv /\ EventInv /\ IoInv /\ AbortInv /\ BusyInv /\ ClaimInv /\ AutoInv

----------------------------------------------------------------------------
(* What the definitions of the model come to.                              *)

LEMMA Constants ==
    /\ LastInterface \in Nat /\ 0 \in Interface /\ Interface \subseteq Int
    /\ \A t \in Transfer : Kind[t] \in -1..LastInterface /\ (~Control(t) => Kind[t] \in Interface)
    /\ None \notin Transfer /\ None \notin Handle /\ None \notin Fd
    /\ Backends \subseteq {"winusb", "composite", "usbdk"}
BY ConstantsAssumption DEF ConstantsAssumption, Interface, Control

\* The fields of a transfer, and of an updated one.
LEMMA TransferType ==
    ASSUME TypeOK, NEW t \in Transfer
    PROVE  /\ tr[t] \in TransferState
           /\ tr[t].h \in Handle \cup {None} /\ tr[t].fd \in Fd \cup {None}
           /\ tr[t].itf \in Interface /\ tr[t].via \in Interface
           /\ tr[t].at \in 0..LastInterface + 1
BY DEF TypeOK, TransferState

\* A set of natural numbers has a least one, so the CHOOSEs of the model do.
LEMMA Least ==
    ASSUME NEW S, S \subseteq Nat, S # {}
    PROVE  \E x \in S : \A y \in S : x <= y
<1> DEFINE R == {ss \in Nat \X Nat : ss[1] < ss[2]}
<1>1. IsWellFoundedOn(R, Nat)
  BY NatLessThanWellFounded DEF OpToRel
<1>2. \E x \in S : \A y \in S : <<y, x>> \notin R
  <2> HIDE DEF R
  <2> QED BY <1>1, WFMin
<1>3. PICK x \in S : \A y \in S : <<y, x>> \notin R
  BY <1>2
<1>4. ASSUME NEW y \in S PROVE x <= y
  <2>1. x \in Nat /\ y \in Nat /\ <<y, x>> \notin R
    BY <1>3
  <2>2. ~(y < x)
    BY <2>1
  <2> QED BY <2>1, <2>2
<1> QED BY <1>4

\* The fields of the event thread, and what it finds in the table.
LEMMA EventType ==
    ASSUME TypeOK
    PROVE  /\ ev \in EventThread
           /\ ev.seen \subseteq Fd /\ ev.ready \subseteq Fd /\ ev.cur \in Transfer \cup {None}
           /\ \A k \in Fd : fdTable[k] # None => fdTable[k] \in Transfer
BY DEF TypeOK, EventThread

\* The first free descriptor is one, and free.
LEMMA FirstFreeIsFree ==
    ASSUME FreeFds # {}
    PROVE  FirstFree \in Fd /\ fdTable[FirstFree] = None
<1>1. FreeFds \subseteq Nat
  BY ConstantsAssumption DEF ConstantsAssumption, FreeFds, Fd
<1>2. FirstFree \in FreeFds
  <2> HIDE DEF FreeFds
  <2> QED BY <1>1, Least DEF FirstFree
<1> QED BY <1>2 DEF FreeFds

\* The interface that a control transfer is given is valid.
LEMMA ValidIsFirst ==
    ASSUME TypeOK, NEW h \in Handle, ValidInterfaces(h) # {}
    PROVE  GetValidInterface(h) \in file[h] \cap api[h] \cap Interface
<1>1. ValidInterfaces(h) \subseteq Nat /\ ValidInterfaces(h) \subseteq Interface
  BY ConstantsAssumption DEF ConstantsAssumption, TypeOK, ValidInterfaces, Interface
<1>2. GetValidInterface(h) \in ValidInterfaces(h)
  <2> DEFINE V == ValidInterfaces(h)
  <2>1. V \subseteq Nat /\ V # {}
    BY <1>1
  <2>2. \E i \in V : \A j \in V : i <= j
    <3> HIDE DEF V
    <3> QED BY <2>1, Least
  <2> QED BY <2>2 DEF GetValidInterface
<1> QED BY <1>1, <1>2 DEF ValidInterfaces

\* What a claim may come to.
LEMMA ClaimOutcomes ==
    ASSUME TypeOK, NEW h \in Handle, NEW i \in Interface, NEW c \in Claims(h, i)
    PROVE  /\ c.ok \in BOOLEAN /\ c.api \in SUBSET Interface /\ c.ends \in SUBSET Interface
           /\ backend = "usbdk" => c.ok /\ c.api = api[h]
           /\ c.ok /\ i \notin claimed[h] /\ backend # "usbdk" =>
                 c.api = api[h] \cup {i} \/ c.api = api[h] \cup {0, i}
           /\ i \in claimed[h] => c.ok /\ c.api = api[h]
           /\ ~c.ok => api[h] \ {i} \subseteq c.api /\ c.api \subseteq api[h] \cup {0}
<1>1. api[h] \in SUBSET Interface /\ ends \in SUBSET Interface /\ 0 \in Interface
      /\ backend \in {"winusb", "composite", "usbdk"}
  BY Constants DEF TypeOK
<1>2. CASE i \in claimed[h]
  <2>1. c = [ok |-> TRUE, api |-> api[h], ends |-> ends]
    BY <1>2 DEF Claims
  <2> QED BY <1>1, <1>2, <2>1
<1>3. CASE i \notin claimed[h] /\ backend = "usbdk"
  <2>1. PICK d \in UsbdkClaim(h, i) : c = [ok |-> d.ok, api |-> d.api, ends |-> ends]
    BY <1>3 DEF Claims
  <2>2. d.ok = TRUE /\ d.api = api[h]
    BY DEF UsbdkClaim
  <2> QED BY <1>1, <1>3, <2>1, <2>2
<1>4. CASE i \notin claimed[h] /\ backend # "usbdk"
  <2>1. PICK d \in WinusbxClaim(h, i) : c = [ok |-> d.ok, api |-> d.api, ends |-> AfterClaim(d.ok, i)]
    BY <1>1, <1>4 DEF Claims, CompositeClaim
  <2>2. d \in Initialize(h, i) \/ d \in GetAssociated(h, i)
    BY <2>1 DEF WinusbxClaim
  <2>3. d.ok \in BOOLEAN /\ d.api \in SUBSET Interface
        /\ (d.ok => d.api = api[h] \cup {i} \/ d.api = api[h] \cup {0, i})
        /\ (~d.ok => api[h] \ {i} \subseteq d.api /\ d.api \subseteq api[h] \cup {0})
    <3>1. ASSUME d \in Initialize(h, i)
          PROVE  \/ d.ok = TRUE /\ d.api = api[h] \cup {i}
                 \/ d.ok = FALSE /\ d.api = api[h] \ {i}
                 \/ d.ok = FALSE /\ d.api = api[h]
      BY <3>1 DEF Initialize
    <3>2. ASSUME d \in GetAssociated(h, i)
          PROVE  \/ d.ok = TRUE /\ d.api = api[h] \cup {0, i}
                 \/ d.ok = FALSE /\ d.api = (api[h] \cup {0}) \ {i}
                 \/ d.ok = FALSE /\ d.api = api[h]
      BY <3>2 DEF GetAssociated
    <3>3. api[h] \cup {i} \in SUBSET Interface /\ api[h] \cup {0, i} \in SUBSET Interface
          /\ (api[h] \cup {0}) \ {i} \in SUBSET Interface
      BY <1>1
    <3>4. CASE d \in Initialize(h, i)
      BY <1>1, <3>1, <3>3, <3>4
    <3>5. CASE d \in GetAssociated(h, i)
      BY <1>1, <3>2, <3>3, <3>5
    <3> QED BY <2>2, <3>4, <3>5
  <2>4. AfterClaim(d.ok, i) \in SUBSET Interface
    BY <1>1 DEF AfterClaim
  <2> QED BY <1>4, <2>1, <2>3, <2>4
<1> QED BY <1>2, <1>3, <1>4

\* An updated transfer.
LEMMA SetTransfer ==
    ASSUME TypeOK, NEW t \in Transfer, NEW r \in TransferState, SetTr(t, r)
    PROVE  /\ tr' \in [Transfer -> TransferState]
           /\ tr'[t] = r
           /\ \A u \in Transfer \ {t} : tr'[u] = tr[u]
BY DEF TypeOK, SetTr

----------------------------------------------------------------------------
(* Handles and interfaces.                                                 *)

\* What only changes handles and claims leaves transfers and events alone.
LEMMA HandleFrame ==
    ASSUME IInv, UNCHANGED <<backend, cancelEx, fdTable, polled, tr, io, asked, result, ev>>
    PROVE  FdInv' /\ EventInv' /\ IoInv' /\ AbortInv' /\ (\A t \in Transfer : Cleared(t)' <=> Cleared(t))
BY DEF IInv, FdInv, EventInv, IoInv, AbortInv, Cleared, Taken, OpenFds

LEMMA OpenHandleStep ==
    ASSUME IInv, Faults = {}, NEW h \in Handle, OpenHandle(h)
    PROVE  IInv'
<1> USE DEF IInv
<1>1. UNCHANGED <<backend, cancelEx, fdTable, polled, tr, io, asked, result, ev>>
  BY DEF OpenHandle, Unchanged
<1>2. UNCHANGED <<api, claimed, user, auto, ends>> /\ h \notin open
      /\ redirector' \in BOOLEAN /\ open' = open \cup {h}
      /\ (backend = "usbdk" => ~redirector /\ redirector' /\ file' = file)
      /\ (backend # "usbdk" => file' = [file EXCEPT ![h] = WinusbxOpen])
  BY DEF OpenHandle, Unchanged, UsbdkOpen, CompositeOpen, TypeOK
<1>3. TypeOK'
  BY <1>1, <1>2, Constants DEF TypeOK, WinusbxOpen
<1>4. FdInv' /\ EventInv' /\ IoInv' /\ AbortInv' /\ \A t \in Transfer : Cleared(t)' <=> Cleared(t)
  BY <1>1, HandleFrame
<1>5. BusyInv'
  BY <1>1, <1>2 DEF BusyInv, Control
<1>6. ClaimInv'
  <2>1. CASE backend = "usbdk"
    <3>1. open = {} /\ open' = {h}
      BY <1>2, <2>1 DEF ClaimInv
    <3> QED BY <1>1, <1>2, <2>1, <3>1 DEF ClaimInv, TypeOK
  <2>2. CASE backend # "usbdk"
    <3>1. \A g \in open' : file'[g] = WinusbxOpen
      BY <1>2, <2>2 DEF ClaimInv, TypeOK
    <3>2. api[h] = {} /\ claimed[h] = {} /\ user[h] = {} /\ auto[h] = [i \in Interface |-> 0]
      BY <1>2 DEF ClaimInv
    <3> QED BY <1>1, <1>2, <2>2, <3>1, <3>2 DEF ClaimInv, TypeOK, WinusbxOpen
  <2> QED BY <2>1, <2>2
<1>7. AutoInv'
  BY <1>1, <1>2, <1>4 DEF AutoInv, Control, Chosen
<1> QED BY <1>3, <1>4, <1>5, <1>6, <1>7

LEMMA CloseHandleStep ==
    ASSUME IInv, Faults = {}, NEW h \in Handle, CloseHandle(h)
    PROVE  IInv'
<1> USE DEF IInv
<1>1. UNCHANGED <<backend, cancelEx, fdTable, polled, tr, io, asked, result, ev>>
  BY DEF CloseHandle, Unchanged
<1>2. /\ ends' = ends /\ h \in open /\ open' = open \ {h}
      /\ \A t \in Transfer : tr[t].pc # "idle" => tr[t].h # h
      /\ claimed' = [claimed EXCEPT ![h] = {}] /\ user' = [user EXCEPT ![h] = {}]
      /\ auto' = [auto EXCEPT ![h] = [i \in Interface |-> 0]]
      /\ backend = "usbdk" => redirector' = FALSE /\ file' = file /\ api' = api
      /\ backend # "usbdk" => /\ redirector' = redirector
                              /\ file' = [file EXCEPT ![h] = {}] /\ api' = [api EXCEPT ![h] = {}]
  BY Constants DEF CloseHandle, Unchanged, WinusbxClose, CompositeClose, UsbdkClose, Busy, TypeOK
<1>3. TypeOK'
  BY <1>1, <1>2, Constants DEF TypeOK
<1>4. FdInv' /\ EventInv' /\ IoInv' /\ AbortInv' /\ \A t \in Transfer : Cleared(t)' <=> Cleared(t)
  BY <1>1, HandleFrame
<1>5. BusyInv'
  BY <1>1, <1>2, TransferType DEF BusyInv, Control, TypeOK
<1>6. ClaimInv'
  <2>1. CASE backend = "usbdk"
    <3>1. open = {h} /\ open' = {}
      BY <1>2, <2>1 DEF ClaimInv
    <3> QED BY <1>1, <1>2, <2>1, <3>1 DEF ClaimInv, TypeOK
  <2>2. CASE backend # "usbdk"
    <3>1. api'[h] = {} /\ claimed'[h] = {} /\ user'[h] = {} /\ auto'[h] = [i \in Interface |-> 0]
      BY <1>2, <2>2 DEF TypeOK
    <3>2. \A g \in Handle \ {h} : /\ api'[g] = api[g] /\ claimed'[g] = claimed[g] /\ user'[g] = user[g]
                                  /\ auto'[g] = auto[g] /\ file'[g] = file[g]
      BY <1>2, <2>2 DEF TypeOK
    <3> QED BY <1>1, <1>2, <2>2, <3>1, <3>2 DEF ClaimInv, TypeOK, WinusbxOpen
  <2> QED BY <2>1, <2>2
<1>7. AutoInv'
  <2>1. \A g \in Handle, i \in Interface : auto'[g][i] > 0 => g # h /\ auto'[g][i] = auto[g][i]
    BY <1>2 DEF TypeOK
  <2>2. \A g \in Handle : g # h => user'[g] = user[g] /\ api'[g] = api[g]
    BY <1>2 DEF TypeOK
  <2>3. \A t \in Transfer : tr[t].pc # "idle" => tr[t].h \in open /\ tr[t].h # h /\ tr[t].h \in Handle
                                              /\ auto'[tr[t].h] = auto[tr[t].h]
    BY <1>2 DEF BusyInv, TypeOK
  <2>4. \A g \in Handle, i \in Interface : auto'[g][i] > 0 =>
            /\ auto'[g][i] = 1 /\ i \notin user'[g]
            /\ \E t \in Transfer : Control(t) /\ tr[t].h = g /\ tr[t].via = i /\ tr[t].pc \in Chosen
                                    /\ ~Cleared(t)
    BY <2>1, <2>2 DEF AutoInv
  <2>5. \A t \in Transfer : tr[t].pc \in Chosen \cup {"auto"} =>
            user'[tr[t].h] = user[tr[t].h] /\ api'[tr[t].h] = api[tr[t].h] /\ auto'[tr[t].h] = auto[tr[t].h]
    BY <2>2, <2>3 DEF Chosen
  <2> HIDE DEF IInv
  <2>6. AutoInv
    BY DEF IInv
  <2> QED BY <1>1, <1>4, <2>4, <2>5, <2>6 DEF AutoInv, Control, Chosen
<1> QED BY <1>3, <1>4, <1>5, <1>6, <1>7

LEMMA ClaimStep ==
    ASSUME IInv, Faults = {}, NEW h \in Handle, NEW i \in Interface, Claim(h, i)
    PROVE  IInv'
<1> USE DEF IInv
<1>1. UNCHANGED <<backend, cancelEx, fdTable, polled, tr, io, asked, result, ev, open, redirector, file, auto>>
  BY DEF Claim, Unchanged
<1>2. PICK c \in Claims(h, i) :
        /\ c.ok \/ i \notin api[h]
        /\ api' = [api EXCEPT ![h] = c.api] /\ ends' = c.ends
        /\ claimed' = IF c.ok THEN [claimed EXCEPT ![h] = @ \cup {i}] ELSE claimed
        /\ user' = IF c.ok THEN [user EXCEPT ![h] = @ \cup {i}] ELSE user
  BY DEF Claim
<1>3. h \in open /\ auto[h][i] = 0 /\ \A t \in Transfer : tr[t].h = h => tr[t].pc # "auto"
  BY DEF Claim, Busy
<1>4. /\ c.ok \in BOOLEAN /\ c.api \in SUBSET Interface /\ c.ends \in SUBSET Interface
      /\ backend = "usbdk" => c.ok /\ c.api = api[h]
      /\ c.ok /\ i \notin claimed[h] /\ backend # "usbdk" =>
            c.api = api[h] \cup {i} \/ c.api = api[h] \cup {0, i}
      /\ i \in claimed[h] => c.ok /\ c.api = api[h]
      /\ ~c.ok => api[h] \ {i} \subseteq c.api /\ c.api \subseteq api[h] \cup {0}
  BY ClaimOutcomes
<1> HIDE DEF IInv
<1>t. TypeOK /\ TypeOK'
  BY <1>1, <1>2, <1>4 DEF TypeOK, IInv
<1>5. /\ \A g \in Handle \ {h} : api'[g] = api[g] /\ claimed'[g] = claimed[g] /\ user'[g] = user[g]
      /\ api'[h] = c.api /\ api[h] \subseteq api'[h]
      /\ claimed'[h] = IF c.ok THEN claimed[h] \cup {i} ELSE claimed[h]
      /\ user'[h] = IF c.ok THEN user[h] \cup {i} ELSE user[h]
  BY <1>2, <1>4, <1>t DEF TypeOK
<1>6. FdInv' /\ EventInv' /\ IoInv' /\ AbortInv' /\ \A t \in Transfer : Cleared(t)' <=> Cleared(t)
  BY <1>1, HandleFrame
<1>7. BusyInv'
  <2>1. BusyInv
    BY DEF IInv
  <2>2. \A g \in open : user[g] \subseteq user'[g]
    BY <1>5, <1>t DEF TypeOK
  <2> QED BY <1>1, <2>1, <2>2 DEF BusyInv, Control
<1>8. ClaimInv'
  <2>1. ClaimInv
    BY DEF IInv
  <2>2. \A g \in open' : claimed'[g] = user'[g] \cup {j \in Interface : auto'[g][j] > 0}
    <3>1. ASSUME NEW g \in open PROVE claimed[g] = user[g] \cup {j \in Interface : auto'[g][j] > 0}
      BY <1>1, <2>1 DEF ClaimInv
    <3>2. claimed'[h] = user'[h] \cup {j \in Interface : auto'[h][j] > 0}
      BY <1>3, <1>5, <3>1
    <3>3. ASSUME NEW g \in open, g # h
          PROVE  claimed'[g] = user'[g] \cup {j \in Interface : auto'[g][j] > 0}
      BY <1>5, <1>t, <3>1, <3>3 DEF TypeOK
    <3> QED BY <1>1, <3>2, <3>3
  <2>3. \A g \in Handle \ open' :
          api'[g] = {} /\ claimed'[g] = {} /\ user'[g] = {} /\ auto'[g] = [j \in Interface |-> 0]
    BY <1>1, <1>3, <1>5, <2>1 DEF ClaimInv
  <2>4. ASSUME backend # "usbdk", NEW g \in open'
        PROVE claimed'[g] \subseteq api'[g] /\ api'[g] \subseteq claimed'[g] \cup {0} /\ file'[g] = WinusbxOpen'
    <3>1. claimed[g] \subseteq api[g] /\ api[g] \subseteq claimed[g] \cup {0} /\ file[g] = WinusbxOpen
      BY <1>1, <2>1, <2>4 DEF ClaimInv
    <3>2. file'[g] = WinusbxOpen'
      BY <1>1, <3>1 DEF WinusbxOpen
    <3>3. CASE g = h
      BY <1>4, <1>5, <2>4, <3>1, <3>2, <3>3
    <3>4. CASE g # h
      BY <1>1, <1>5, <1>t, <3>1, <3>2, <3>4 DEF TypeOK
    <3> QED BY <3>3, <3>4
  <2>5. ASSUME backend = "usbdk"
        PROVE  /\ redirector' <=> open' # {}
               /\ \A f, g \in open' : f = g
               /\ \A g \in Handle : api'[g] = {} /\ auto'[g] = [j \in Interface |-> 0]
    BY <1>1, <1>4, <1>5, <2>1, <2>5 DEF ClaimInv
  <2> QED BY <1>1, <2>2, <2>3, <2>4, <2>5 DEF ClaimInv
<1>9. AutoInv'
  <2>1. AutoInv /\ BusyInv
    BY DEF IInv
  <2>2. \A g \in Handle, j \in Interface : auto[g][j] > 0 /\ j \notin user[g] => j \notin user'[g]
    BY <1>3, <1>5
  <2>3. \A g \in Handle : api[g] \subseteq api'[g]
    BY <1>5
  <2>4. \A t \in Transfer : tr[t].pc = "auto" => user'[tr[t].h] = user[tr[t].h]
    BY <1>3, <1>5, <1>t, <2>1 DEF BusyInv, TypeOK
  <2>5. \A t \in Transfer : tr[t].pc \in Chosen => tr[t].h \in Handle
    BY <1>t, <2>1 DEF BusyInv, TypeOK, Chosen
  <2> QED BY <1>1, <1>6, <2>1, <2>2, <2>3, <2>4, <2>5 DEF AutoInv, Control, Chosen
<1> QED BY <1>t, <1>6, <1>7, <1>8, <1>9 DEF IInv

LEMMA ReleaseStep ==
    ASSUME IInv, Faults = {}, NEW h \in Handle, NEW i \in Interface, Release(h, i)
    PROVE  IInv'
<1>1. UNCHANGED <<backend, cancelEx, fdTable, polled, tr, io, asked, result, ev, open, redirector, file,
                  auto, ends>>
  BY DEF Release, Unchanged
<1>2. /\ h \in open /\ i \in user[h]
      /\ \A t \in Transfer : tr[t].pc # "idle" /\ tr[t].h = h => Kind[t] # i /\ ~Control(t)
      /\ user' = [user EXCEPT ![h] = @ \ {i}]
  BY DEF Release, Busy
<1>t. TypeOK /\ ClaimInv /\ AutoInv /\ BusyInv
  BY DEF IInv
<1>3. /\ user'[h] = user[h] \ {i} /\ claimed'[h] = claimed[h] \ {i}
      /\ (backend = "usbdk" => api'[h] = api[h]) /\ (backend # "usbdk" => api'[h] = api[h] \ {i})
      /\ \A g \in Handle \ {h} : api'[g] = api[g] /\ claimed'[g] = claimed[g] /\ user'[g] = user[g]
      /\ api' \in [Handle -> SUBSET Interface] /\ claimed' \in [Handle -> SUBSET Interface]
      /\ user' \in [Handle -> SUBSET Interface]
  <2>1. i \in claimed[h] /\ (backend # "usbdk" => i \in api[h])
    BY <1>2, <1>t DEF ClaimInv
  <2>2. claimed' = [claimed EXCEPT ![h] = @ \ {i}]
    BY <2>1 DEF Release, ReleaseInterface
  <2>3. (backend = "usbdk" => api' = api) /\ (backend # "usbdk" => api' = [api EXCEPT ![h] = @ \ {i}])
    BY <1>t, Constants DEF Release, ReleaseInterface, WinusbxRelease, CompositeRelease, UsbdkRelease, TypeOK
  <2>4. CASE backend = "usbdk"
    BY <1>2, <1>t, <2>2, <2>3, <2>4 DEF TypeOK
  <2>5. CASE backend # "usbdk"
    BY <1>2, <1>t, <2>2, <2>3, <2>5 DEF TypeOK
  <2> QED BY <2>4, <2>5
<1>4. TypeOK'
  BY <1>1, <1>3, <1>t DEF TypeOK
<1>5. auto[h] = [j \in Interface |-> 0]
  <2>1. \A j \in Interface : ~(auto[h][j] > 0)
    BY <1>2, <1>t DEF AutoInv, Chosen
  <2> QED BY <2>1, <1>t DEF TypeOK
<1>6. FdInv' /\ EventInv' /\ IoInv' /\ AbortInv' /\ \A t \in Transfer : Cleared(t)' <=> Cleared(t)
  BY <1>1, HandleFrame
<1>7. BusyInv'
  BY <1>1, <1>2, <1>3, <1>t, Constants DEF BusyInv, Control, TypeOK
<1>8. ClaimInv'
  <2>1. \A g \in open : claimed[g] = user[g] \cup {j \in Interface : auto[g][j] > 0}
    BY <1>t DEF ClaimInv
  <2>2. claimed'[h] = user'[h] \cup {j \in Interface : auto'[h][j] > 0}
    BY <1>1, <1>2, <1>3, <1>5, <2>1
  <2>3. \A g \in open \ {h} : claimed'[g] = user'[g] \cup {j \in Interface : auto'[g][j] > 0}
    BY <1>1, <1>3, <1>t, <2>1 DEF TypeOK
  <2>4. \A g \in Handle \ open' :
          api'[g] = {} /\ claimed'[g] = {} /\ user'[g] = {} /\ auto'[g] = [j \in Interface |-> 0]
    BY <1>1, <1>2, <1>3, <1>t DEF ClaimInv
  <2>5. ASSUME backend # "usbdk", NEW g \in open'
        PROVE claimed'[g] \subseteq api'[g] /\ api'[g] \subseteq claimed'[g] \cup {0} /\ file'[g] = WinusbxOpen'
    <3>1. claimed[g] \subseteq api[g] /\ api[g] \subseteq claimed[g] \cup {0} /\ file[g] = WinusbxOpen
      BY <1>1, <1>t, <2>5 DEF ClaimInv
    <3>2. file'[g] = WinusbxOpen'
      BY <1>1, <3>1 DEF WinusbxOpen
    <3>3. CASE g = h
      BY <1>3, <2>5, <3>1, <3>2, <3>3
    <3>4. CASE g # h
      BY <1>1, <1>3, <1>t, <3>1, <3>2, <3>4 DEF TypeOK
    <3> QED BY <3>3, <3>4
  <2>6. ASSUME backend = "usbdk"
        PROVE  /\ redirector' <=> open' # {}
               /\ \A f, g \in open' : f = g
               /\ \A g \in Handle : api'[g] = {} /\ auto'[g] = [j \in Interface |-> 0]
    BY <1>1, <1>3, <1>t, <2>6 DEF ClaimInv
  <2> QED BY <1>1, <2>2, <2>3, <2>4, <2>5, <2>6 DEF ClaimInv
<1>9. AutoInv'
  <2>1. \A g \in Handle : user'[g] \subseteq user[g]
    BY <1>3
  <2>2. ASSUME backend # "usbdk", NEW t \in Transfer, tr[t].pc \in Chosen, ~Cleared(t)
        PROVE  tr[t].via \in api'[tr[t].h]
    <3>1. tr[t].via \in api[tr[t].h] /\ tr[t].h \in Handle /\ (~Control(t) => tr[t].via = Kind[t])
      BY <1>t, <2>2 DEF AutoInv, BusyInv, TypeOK, Chosen
    <3> QED BY <1>2, <1>3, <2>2, <3>1 DEF Chosen
  <2>3. \A t \in Transfer : tr[t].pc = "auto" => tr[t].h \in Handle
    BY <1>t DEF BusyInv, TypeOK
  <2> QED BY <1>1, <1>6, <1>t, <2>1, <2>2, <2>3, SMTT(30) DEF AutoInv, Control, Chosen
<1> QED BY <1>4, <1>6, <1>7, <1>8, <1>9 DEF IInv

LEMMA SetAltSettingStep ==
    ASSUME IInv, NEW h \in Handle, NEW i \in Interface, SetAltSetting(h, i)
    PROVE  IInv'
<1>1. UNCHANGED <<backend, cancelEx, fdTable, polled, tr, io, asked, result, ev, open, redirector, file,
                  api, claimed, user, auto>>
  BY DEF SetAltSetting, Unchanged
<1>2. ends' \subseteq Interface
  BY DEF SetAltSetting, AfterClaim, IInv, TypeOK
<1>3. TypeOK'
  BY <1>1, <1>2 DEF IInv, TypeOK
<1>4. FdInv' /\ EventInv' /\ IoInv' /\ AbortInv' /\ \A t \in Transfer : Cleared(t)' <=> Cleared(t)
  BY <1>1, HandleFrame
<1>5. BusyInv' /\ ClaimInv' /\ AutoInv'
  BY <1>1, <1>4 DEF IInv, BusyInv, ClaimInv, AutoInv, WinusbxOpen, Control
<1> QED BY <1>3, <1>4, <1>5 DEF IInv

----------------------------------------------------------------------------
(* The system, and cancellation.                                           *)

\* What only changes transfers and events leaves handles and claims alone.
LEMMA ClaimFrame ==
    ASSUME IInv, UNCHANGED <<backend, open, claims>>
    PROVE  ClaimInv'
BY DEF IInv, ClaimInv, WinusbxOpen, claims

\* Requests are aborted, of which the pending ones were asked to end.
LEMMA AbortStep ==
    ASSUME IInv, NEW S \in SUBSET Transfer, Abort(S), cancelEx' \in BOOLEAN,
           asked \subseteq asked', asked' \subseteq Transfer,
           EndpointsApart => Pending(S) \subseteq asked',
           UNCHANGED <<backend, open, claims, fdTable, polled, tr, result, ev>>
    PROVE  IInv'
<1>1. /\ io' \in [Transfer -> Request]
      /\ \A t \in Transfer : io[t] # "pending" => io'[t] = io[t]
      /\ \A t \in Transfer : io[t] = "pending" => io'[t] \in {"pending", "aborted"}
      /\ EndpointsApart => \A t \in Transfer : io'[t] = "aborted" => io[t] = "aborted" \/ t \in asked'
  BY DEF Abort, Pending, IInv, TypeOK, Request
<1>2. TypeOK'
  BY <1>1 DEF IInv, TypeOK, claims
<1>3. FdInv'
  BY DEF IInv, FdInv, Cleared
<1>4. EventInv'
  <2>1. EventInv /\ TypeOK
    BY DEF IInv
  <2>2. \A k \in ev.ready : io'[fdTable[k]] = io[fdTable[k]]
    BY <1>1, <2>1, EventType DEF EventInv
  <2>3. Taken => io'[ev.cur] = io[ev.cur]
    BY <1>1, <2>1 DEF EventInv
  <2> QED BY <1>1, <2>1, <2>2, <2>3 DEF EventInv, Taken, OpenFds
<1>5. IoInv'
  BY <1>1 DEF IInv, IoInv
<1>6. AbortInv'
  BY <1>1 DEF IInv, AbortInv, EndpointsApart, Control, Taken
<1>7. BusyInv' /\ AutoInv'
  BY DEF IInv, BusyInv, AutoInv, Control, Cleared, claims
<1>8. ClaimInv'
  BY ClaimFrame
<1> QED BY <1>2, <1>3, <1>4, <1>5, <1>6, <1>7, <1>8 DEF IInv

LEMMA IoEndsStep ==
    ASSUME IInv, NEW t \in Transfer, IoEnds(t)
    PROVE  IInv'
<1>1. /\ UNCHANGED <<backend, open, claims, cancelEx, fdTable, polled, tr, asked, result, ev>>
      /\ io[t] = "pending" /\ io' \in [Transfer -> Request] /\ io'[t] \in {"ok", "failed"}
      /\ \A u \in Transfer \ {t} : io'[u] = io[u]
  BY DEF IoEnds, IInv, TypeOK, Request
<1>2. TypeOK'
  BY <1>1 DEF IInv, TypeOK, claims
<1>3. FdInv'
  BY <1>1 DEF IInv, FdInv, Cleared
<1>4. EventInv'
  <2>1. EventInv /\ TypeOK
    BY DEF IInv
  <2>2. \A k \in ev.ready : io'[fdTable[k]] = io[fdTable[k]]
    BY <1>1, <2>1, EventType DEF EventInv
  <2>3. Taken => io'[ev.cur] = io[ev.cur]
    BY <1>1, <2>1 DEF EventInv
  <2> QED BY <1>1, <2>1, <2>2, <2>3 DEF EventInv, Taken, OpenFds
<1>5. IoInv'
  BY <1>1 DEF IInv, IoInv
<1>6. AbortInv'
  BY <1>1 DEF IInv, AbortInv, EndpointsApart, Control, Taken
<1>7. BusyInv' /\ AutoInv'
  BY <1>1, SMTT(30) DEF IInv, BusyInv, AutoInv, Control, Cleared, claims
<1>8. ClaimInv'
  BY <1>1, ClaimFrame
<1> QED BY <1>2, <1>3, <1>4, <1>5, <1>6, <1>7, <1>8 DEF IInv

LEMMA CancelStep ==
    ASSUME IInv, Faults = {}, NEW t \in Transfer, Cancel(t)
    PROVE  IInv'
<1>1. /\ UNCHANGED <<backend, open, claims, fdTable, polled, tr, result, ev>>
      /\ asked' = asked \cup {t} /\ asked' \subseteq Transfer
  BY DEF Cancel, IInv, TypeOK
<1>2. CASE UNCHANGED <<io, cancelEx>>
  <2>1. Abort({})
    BY <1>2 DEF Abort, Pending, IInv, TypeOK
  <2>2. Pending({}) = {}
    BY DEF Pending
  <2> QED BY <1>1, <1>2, <2>1, <2>2, AbortStep DEF IInv, TypeOK
<1>3. CASE Abort({t}) /\ cancelEx' = cancelEx
  <2>1. Pending({t}) \subseteq {t}
    BY DEF Pending
  <2> QED BY <1>1, <1>3, <2>1, AbortStep DEF IInv, TypeOK
<1>4. CASE ~Control(t) /\ AbortPipe(t) /\ cancelEx' = FALSE
  <2> DEFINE S == {u \in Transfer : Kind[u] = Kind[t]}
  <2>1. Abort(S) /\ S \in SUBSET Transfer
    BY <1>4 DEF AbortPipe
  <2>2. EndpointsApart => Pending(S) \subseteq {t}
    BY <1>4 DEF EndpointsApart, Pending
  <2> HIDE DEF S
  <2> QED BY <1>1, <1>4, <2>1, <2>2, AbortStep
<1>5. \/ UNCHANGED <<io, cancelEx>>
      \/ Abort({t}) /\ cancelEx' = cancelEx
      \/ ~Control(t) /\ AbortPipe(t) /\ cancelEx' = FALSE
  BY DEF Cancel, UsbdkCancel, WinusbCancel, UsbdkAbort, WinusbxAbort, CompositeAbort, CancelIoEx,
         WinusbxAbortControl, CompositeAbortControl
<1> QED BY <1>2, <1>3, <1>4, <1>5

LEMMA ResetStep ==
    ASSUME IInv, NEW h \in Handle, Reset(h)
    PROVE  IInv'
<1>1. PICK S \in SUBSET Transfer : Abort(S) /\ asked' = asked \cup Pending(S)
  <2>1. WinusbxReset(h) \subseteq Transfer /\ CompositeReset(h) \subseteq Transfer /\ UsbdkReset(h) \subseteq Transfer
    BY DEF WinusbxReset, CompositeReset, UsbdkReset, Busy
  <2>2. backend \in {"winusb", "composite", "usbdk"}
    BY Constants DEF IInv, TypeOK
  <2> HIDE DEF Reset
  <2>3. CASE backend = "winusb"
    BY <2>1, <2>3 DEF Reset
  <2>4. CASE backend = "composite"
    BY <2>1, <2>4 DEF Reset
  <2>5. CASE backend = "usbdk"
    BY <2>1, <2>5 DEF Reset
  <2> QED BY <2>2, <2>3, <2>4, <2>5
<1>2. UNCHANGED <<backend, open, claims, cancelEx, fdTable, polled, tr, result, ev>>
  BY DEF Reset
<1>3. Pending(S) \subseteq Transfer /\ asked \subseteq Transfer /\ cancelEx \in BOOLEAN
  BY DEF Pending, IInv, TypeOK
<1> QED BY <1>1, <1>2, <1>3, AbortStep

----------------------------------------------------------------------------
(* Submission.                                                             *)

InSubmission == {"choose", "auto", "start", "started"}

\* A transfer that goes on in its submission keeps its descriptor.
LEMMA GoesOn ==
    ASSUME IInv, NEW t \in Transfer, NEW r \in TransferState, SetTr(t, r), r.fd = tr[t].fd,
           tr[t].pc \in InSubmission, r.pc \in InSubmission \cup {"in_flight"},
           io' \in [Transfer -> Request], \A u \in Transfer \ {t} : io'[u] = io[u],
           io'[t] = io[t] \/ (io[t] = "none" /\ io'[t] \in {"pending", "ok"}),
           io'[t] # "none" => r.pc \in {"started", "in_flight"},
           UNCHANGED <<fdTable, polled, asked, result, ev>>
    PROVE  FdInv' /\ EventInv' /\ IoInv' /\ AbortInv' /\ (\A u \in Transfer : Cleared(u)' <=> Cleared(u))
           /\ ~Cleared(t)
<1>1. TypeOK /\ FdInv /\ EventInv /\ IoInv /\ AbortInv
  BY DEF IInv
<1>2. tr'[t] = r /\ \A u \in Transfer \ {t} : tr'[u] = tr[u]
  BY <1>1, SetTransfer
<1>3. Taken => ev.cur # t /\ ev.cur \in Transfer
  BY <1>1 DEF EventInv, InSubmission
<1>4. ~Cleared(t) /\ \A u \in Transfer : Cleared(u)' <=> Cleared(u)
  BY <1>3 DEF Cleared, Taken
<1>5. FdInv'
  <2>1. \A k \in Fd : fdTable[k] # None => tr'[fdTable[k]].fd = k
    BY <1>1, <1>2, EventType DEF FdInv
  <2> QED BY <1>1, <1>2, <1>4, <2>1 DEF FdInv, InSubmission
<1>6. EventInv'
  <2>1. \A k \in ev.ready : fdTable[k] # None /\ io'[fdTable[k]] \notin {"none", "pending"}
    BY <1>1, EventType DEF EventInv
  <2>2. Taken => tr'[ev.cur] = tr[ev.cur] /\ io'[ev.cur] = io[ev.cur]
    BY <1>2, <1>3
  <2> QED BY <1>1, <2>1, <2>2 DEF EventInv, Taken, OpenFds
<1>7. IoInv'
  BY <1>1, <1>2 DEF IoInv, InSubmission
<1>8. AbortInv'
  BY <1>1 DEF AbortInv, EndpointsApart, Control, Taken
<1> QED BY <1>4, <1>5, <1>6, <1>7, <1>8

\* A refused one gives its descriptor back, which no snapshot has.
LEMMA Refusal ==
    ASSUME IInv, Faults = {}, NEW t \in Transfer, SubmitFails(t), tr[t].pc \in InSubmission \ {"started"},
           UNCHANGED <<io, asked, ev>>
    PROVE  /\ FdInv' /\ EventInv' /\ IoInv' /\ AbortInv' /\ \A u \in Transfer : Cleared(u)' <=> Cleared(u)
           /\ ~Cleared(t)
           /\ fdTable' \in [Fd -> Transfer \cup {None}] /\ polled' \subseteq Fd
           /\ result' = [result EXCEPT ![t] = "idle"]
           /\ \E r \in TransferState : SetTr(t, r) /\ r.pc = "idle" /\ r.h = tr[t].h
<1> DEFINE k == tr[t].fd  r == [tr[t] EXCEPT !.pc = "idle", !.fd = None]
<1>1. TypeOK /\ FdInv /\ EventInv /\ IoInv /\ AbortInv
  BY DEF IInv
<1>2. Taken => ev.cur # t /\ ev.cur \in Transfer /\ tr[ev.cur].pc = "in_flight"
  BY <1>1 DEF EventInv, InSubmission
<1>3. ~Cleared(t) /\ \A u \in Transfer : Cleared(u)' <=> Cleared(u)
  BY <1>2 DEF Cleared, Taken
<1>4. k \in Fd /\ fdTable[k] = t /\ k \notin ev.seen
  BY <1>1, <1>3, TransferType DEF FdInv, InSubmission, SubmitFails
<1>5. /\ polled' = polled \ {k} /\ fdTable' = [fdTable EXCEPT ![k] = None]
      /\ SetTr(t, r) /\ result' = [result EXCEPT ![t] = "idle"]
  BY DEF SubmitFails, PolledWithout, Refused
<1>6. r \in TransferState /\ r.pc = "idle" /\ r.fd = None /\ r.h = tr[t].h
  BY <1>1, TransferType DEF TransferState
<1> HIDE DEF r, k
<1>7. tr'[t] = r /\ \A u \in Transfer \ {t} : tr'[u] = tr[u]
  BY <1>1, <1>5, <1>6, SetTransfer
<1>8. /\ fdTable' \in [Fd -> Transfer \cup {None}] /\ polled' \subseteq Fd
      /\ fdTable'[k] = None /\ \A j \in Fd \ {k} : fdTable'[j] = fdTable[j]
      /\ OpenFds' = OpenFds \ {k}
  BY <1>1, <1>4, <1>5 DEF TypeOK, OpenFds
<1>9. \A j \in Fd \ {k} : fdTable[j] # t
  BY <1>1, <1>4, Constants DEF FdInv, k
<1>10. FdInv'
  <2>1. \A j \in Fd : fdTable'[j] # None => tr'[fdTable'[j]].fd = j
    BY <1>1, <1>7, <1>8, <1>9, EventType DEF FdInv
  <2>2. ASSUME NEW u \in Transfer, tr'[u].fd # None PROVE fdTable'[tr'[u].fd] = u
    <3>1. u # t /\ tr'[u] = tr[u]
      BY <1>6, <1>7, <2>2
    <3>2. tr[u].fd \in Fd /\ fdTable[tr[u].fd] = u
      BY <1>1, <2>2, <3>1, TransferType DEF FdInv
    <3> QED BY <1>4, <1>8, <3>1, <3>2
  <2> QED BY <1>1, <1>3, <1>6, <1>7, <2>1, <2>2 DEF FdInv
<1>11. EventInv'
  <2>1. io[t] = "none"
    BY <1>1 DEF IoInv, InSubmission
  <2>2. k \notin ev.ready
    BY <1>1, <1>4, <2>1 DEF EventInv
  <2>3. \A j \in ev.ready : fdTable'[j] = fdTable[j]
    BY <1>1, <1>8, <2>2, EventType
  <2>4. Taken => tr'[ev.cur] = tr[ev.cur]
    BY <1>2, <1>7
  <2>5. ev.seen \subseteq OpenFds'
    BY <1>1, <1>4, <1>8 DEF EventInv
  <2> QED BY <1>1, <1>5, <1>8, <2>3, <2>4, <2>5 DEF EventInv, Taken
<1>12. IoInv'
  <2>1. io[t] = "none" /\ result'[t] = "idle" /\ \A u \in Transfer \ {t} : result'[u] = result[u]
    BY <1>1, <1>5 DEF IoInv, InSubmission, TypeOK
  <2> QED BY <1>1, <1>6, <1>7, <2>1 DEF IoInv
<1>13. AbortInv'
  BY <1>1 DEF AbortInv, EndpointsApart, Control, Taken
<1> QED BY <1>3, <1>5, <1>6, <1>8, <1>10, <1>11, <1>12, <1>13

\* The interface of a transfer that goes on is one with a WinUSB handle; one that
\* was claimed for it stays with it.
LEMMA KeepsClaims ==
    ASSUME IInv, NEW t \in Transfer, NEW r \in TransferState, SetTr(t, r), r.h = tr[t].h,
           tr[t].pc # "idle", ~Cleared(t), \A u \in Transfer : Cleared(u)' <=> Cleared(u),
           UNCHANGED <<backend, open, claims>>,
           Control(t) /\ tr[t].pc \in Chosen /\ auto[tr[t].h][tr[t].via] > 0 =>
               r.pc \in Chosen /\ r.via = tr[t].via,
           r.pc = "auto" =>
               /\ Control(t) /\ backend # "usbdk" /\ 0 \notin user[r.h] /\ r.at = 0
               /\ \A i \in Interface : auto[r.h][i] = 0,
           r.pc \in Chosen /\ backend # "usbdk" =>
               /\ r.via \in api[r.h] /\ (~Control(t) => r.via = Kind[t])
               /\ r.pc = "in_flight" => r.itf = r.via
    PROVE  BusyInv' /\ ClaimInv' /\ AutoInv'
<1>1. TypeOK /\ BusyInv /\ AutoInv
  BY DEF IInv
<1>2. tr'[t] = r /\ \A u \in Transfer \ {t} : tr'[u] = tr[u]
  BY <1>1, SetTransfer
<1>3. UNCHANGED <<backend, open, api, user, auto>>
  BY DEF claims
<1>4. BusyInv'
  BY <1>1, <1>2, <1>3 DEF BusyInv, Control
<1>5. ClaimInv'
  BY ClaimFrame
<1>6. ASSUME NEW h \in Handle, NEW i \in Interface, auto[h][i] > 0
      PROVE  \E u \in Transfer : Control(u) /\ tr'[u].h = h /\ tr'[u].via = i /\ tr'[u].pc \in Chosen
                                 /\ ~Cleared(u)
  <2>1. PICK u \in Transfer : Control(u) /\ tr[u].h = h /\ tr[u].via = i /\ tr[u].pc \in Chosen /\ ~Cleared(u)
    BY <1>1, <1>6 DEF AutoInv
  <2>2. Control(u) /\ tr'[u].h = h /\ tr'[u].via = i /\ tr'[u].pc \in Chosen
    BY <1>2, <1>6, <2>1
  <2> QED BY <2>1, <2>2
<1>7. \A u \in Transfer : tr'[u].pc = "auto" =>
        /\ Control(u) /\ backend # "usbdk" /\ 0 \notin user[tr'[u].h]
        /\ tr'[u].at > 0 => user[tr'[u].h] = {}
        /\ \A i \in Interface : auto[tr'[u].h][i] = 0
  BY <1>1, <1>2 DEF AutoInv
<1>8. backend # "usbdk" => \A u \in Transfer : tr'[u].pc \in Chosen =>
        /\ ~Cleared(u) => tr'[u].via \in api[tr'[u].h]
        /\ ~Control(u) => tr'[u].via = Kind[u]
        /\ tr'[u].pc = "in_flight" => tr'[u].itf = tr'[u].via
  BY <1>1, <1>2 DEF AutoInv
<1>9. AutoInv'
  BY <1>1, <1>3, <1>6, <1>7, <1>8 DEF AutoInv, Control, Chosen
<1> QED BY <1>4, <1>5, <1>9

LEMMA SubmitStartStep ==
    ASSUME IInv, Faults = {}, NEW t \in Transfer, NEW h \in Handle, SubmitStart(t, h)
    PROVE  IInv'
<1> DEFINE r == [tr[t] EXCEPT !.pc = "listed", !.h = h, !.tries = 0]
<1>1. TypeOK /\ FdInv /\ EventInv /\ IoInv /\ AbortInv /\ BusyInv /\ ClaimInv /\ AutoInv
  BY DEF IInv
<1>2. /\ tr[t].pc = "idle" /\ h \in open /\ (Control(t) \/ Kind[t] \in user[h])
      /\ \A u \in Transfer : tr[u].pc # "idle" /\ tr[u].h = h => ~(Control(u) /\ Control(t))
      /\ SetTr(t, r) /\ asked' = asked \ {t} /\ result' = [result EXCEPT ![t] = "flying"]
      /\ UNCHANGED <<backend, open, claims, cancelEx, fdTable, polled, io, ev>>
  BY DEF SubmitStart, Busy
<1>3. r \in TransferState /\ r.pc = "listed" /\ r.h = h /\ r.fd = tr[t].fd
  BY <1>1, TransferType DEF TransferState
<1> HIDE DEF r
<1>4. tr' \in [Transfer -> TransferState] /\ tr'[t] = r /\ \A u \in Transfer \ {t} : tr'[u] = tr[u]
  BY <1>1, <1>2, <1>3, SetTransfer
<1>5. io[t] = "none" /\ tr[t].fd = None
  BY <1>1, <1>2 DEF IoInv, FdInv
<1>6. Taken => ev.cur # t /\ ev.cur \in Transfer
  BY <1>1, <1>2 DEF EventInv
<1>7. ~Cleared(t) /\ \A u \in Transfer : Cleared(u)' <=> Cleared(u)
  BY <1>2, <1>6 DEF Cleared, Taken
<1>8. TypeOK'
  BY <1>1, <1>2, <1>4 DEF TypeOK, claims
<1>9. FdInv'
  <2>1. \A k \in Fd : fdTable[k] # None => tr'[fdTable[k]].fd = k
    BY <1>1, <1>3, <1>4, EventType DEF FdInv
  <2> QED BY <1>1, <1>2, <1>3, <1>4, <1>5, <1>7, <2>1 DEF FdInv
<1>10. EventInv'
  <2>1. Taken => tr'[ev.cur] = tr[ev.cur]
    BY <1>4, <1>6
  <2> QED BY <1>1, <1>2, <2>1 DEF EventInv, Taken, OpenFds
<1>11. IoInv'
  <2>1. result' = [result EXCEPT ![t] = "flying"] /\ result'[t] = "flying" /\ io' = io
    BY <1>1, <1>2 DEF TypeOK
  <2>2. \A u \in Transfer \ {t} : result'[u] = result[u] /\ tr'[u].pc = tr[u].pc
    BY <1>1, <1>4, <2>1 DEF TypeOK
  <2> QED BY <1>1, <1>3, <1>4, <1>5, <2>1, <2>2 DEF IoInv
<1>12. AbortInv'
  BY <1>1, <1>2, <1>5, <1>6 DEF AbortInv, EndpointsApart, Control, Taken
<1>13. BusyInv'
  BY <1>1, <1>2, <1>3, <1>4 DEF BusyInv, Control, claims
<1>14. ClaimInv'
  BY <1>2, ClaimFrame
<1>15. AutoInv'
  <2>1. ASSUME NEW g \in Handle, NEW i \in Interface, auto[g][i] > 0
        PROVE  \E u \in Transfer : Control(u) /\ tr'[u].h = g /\ tr'[u].via = i /\ tr'[u].pc \in Chosen
                                   /\ ~Cleared(u)
    <3>1. PICK u \in Transfer : Control(u) /\ tr[u].h = g /\ tr[u].via = i /\ tr[u].pc \in Chosen /\ ~Cleared(u)
      BY <1>1, <2>1 DEF AutoInv
    <3> QED BY <1>2, <1>4, <3>1 DEF Chosen
  <2>2. \A u \in Transfer : tr'[u].pc \in Chosen \cup {"auto"} => tr'[u] = tr[u]
    BY <1>3, <1>4 DEF Chosen
  <2>3. UNCHANGED <<backend, api, user, auto>>
    BY <1>2 DEF claims
  <2> QED BY <1>1, <1>7, <2>1, <2>2, <2>3 DEF AutoInv, Control, Chosen
<1> QED BY <1>8, <1>9, <1>10, <1>11, <1>12, <1>13, <1>14, <1>15 DEF IInv

LEMMA CreateFdStep ==
    ASSUME IInv, NEW t \in Transfer, CreateFd(t)
    PROVE  IInv'
<1>1. TypeOK /\ FdInv /\ EventInv /\ IoInv /\ AbortInv /\ BusyInv /\ ClaimInv /\ AutoInv
  BY DEF IInv
<1>2. tr[t].pc = "listed" /\ tr[t].fd = None /\ io[t] = "none"
      /\ UNCHANGED <<backend, open, claims, cancelEx, io, asked, ev>>
  BY <1>1 DEF CreateFd, FdInv, IoInv
<1>3. Taken => ev.cur # t /\ ev.cur \in Transfer
  BY <1>1, <1>2 DEF EventInv
<1>4. ~Cleared(t) /\ \A u \in Transfer : Cleared(u)' <=> Cleared(u)
  BY <1>2, <1>3 DEF Cleared, Taken
<1>5. AbortInv'
  BY <1>1, <1>2 DEF AbortInv, EndpointsApart, Control, Taken
<1>6. CASE FreeFds = {}
  <2> DEFINE r == [tr[t] EXCEPT !.pc = "idle", !.fd = None]
  <2>1. SetTr(t, r) /\ result' = [result EXCEPT ![t] = "idle"] /\ UNCHANGED <<fdTable, polled>>
    BY <1>6 DEF CreateFd, Refused
  <2>2. r \in TransferState /\ r.pc = "idle" /\ r.h = tr[t].h /\ r.fd = None
    BY <1>1, TransferType DEF TransferState
  <2> HIDE DEF r
  <2>3. tr' \in [Transfer -> TransferState] /\ tr'[t] = r /\ \A u \in Transfer \ {t} : tr'[u] = tr[u]
    BY <1>1, <2>1, <2>2, SetTransfer
  <2>4. TypeOK'
    BY <1>1, <1>2, <2>1, <2>3 DEF TypeOK, claims
  <2>5. FdInv'
    <3>1. \A k \in Fd : fdTable[k] # None => tr'[fdTable[k]].fd = k
      BY <1>1, <1>2, <2>2, <2>3, EventType DEF FdInv
    <3> QED BY <1>1, <1>2, <1>4, <2>1, <2>2, <2>3, <3>1 DEF FdInv
  <2>6. EventInv'
    <3>1. Taken => tr'[ev.cur] = tr[ev.cur]
      BY <1>3, <2>3
    <3> QED BY <1>1, <1>2, <2>1, <3>1 DEF EventInv, Taken, OpenFds
  <2>7. IoInv'
    BY <1>1, <1>2, <2>1, <2>2, <2>3 DEF IoInv, TypeOK
  <2>8. BusyInv' /\ ClaimInv' /\ AutoInv'
    BY <1>2, <1>4, <2>1, <2>2, KeepsClaims DEF Chosen
  <2> QED BY <1>5, <2>4, <2>5, <2>6, <2>7, <2>8 DEF IInv
<1>7. CASE FreeFds # {}
  <2> DEFINE k == FirstFree  r == [tr[t] EXCEPT !.pc = "choose", !.fd = k]
  <2>1. /\ SetTr(t, r) /\ fdTable' = [fdTable EXCEPT ![k] = t] /\ polled' = polled \cup {k}
        /\ result' = result
    BY <1>7 DEF CreateFd
  <2>2. k \in Fd /\ fdTable[k] = None
    BY <1>7, FirstFreeIsFree
  <2> HIDE DEF k
  <2>3. r \in TransferState /\ r.pc = "choose" /\ r.h = tr[t].h /\ r.fd = k
    BY <1>1, <2>2, TransferType DEF TransferState
  <2> HIDE DEF r
  <2>4. tr' \in [Transfer -> TransferState] /\ tr'[t] = r /\ \A u \in Transfer \ {t} : tr'[u] = tr[u]
    BY <1>1, <2>1, <2>3, SetTransfer
  <2>5. /\ fdTable' \in [Fd -> Transfer \cup {None}] /\ polled' \subseteq Fd
        /\ fdTable'[k] = t /\ \A j \in Fd \ {k} : fdTable'[j] = fdTable[j]
        /\ OpenFds' = OpenFds \cup {k} /\ k \notin OpenFds
    BY <1>1, <2>1, <2>2, Constants DEF TypeOK, OpenFds
  <2>6. TypeOK'
    BY <1>1, <1>2, <2>1, <2>4, <2>5 DEF TypeOK, claims
  <2>7. FdInv'
    <3>1. \A j \in Fd : fdTable'[j] # None => tr'[fdTable'[j]].fd = j
      BY <1>1, <1>2, <2>2, <2>3, <2>4, <2>5, Constants, EventType DEF FdInv
    <3>2. ASSUME NEW u \in Transfer, tr'[u].fd # None PROVE fdTable'[tr'[u].fd] = u
      <4>1. CASE u = t
        BY <2>3, <2>4, <2>5, <4>1
      <4>2. CASE u # t
        <5>1. tr'[u] = tr[u] /\ tr[u].fd \in Fd /\ fdTable[tr[u].fd] = u
          BY <1>1, <2>4, <3>2, <4>2, TransferType DEF FdInv
        <5> QED BY <2>2, <2>5, <5>1, Constants
      <4> QED BY <4>1, <4>2
    <3> QED BY <1>1, <1>4, <2>2, <2>3, <2>4, <3>1, <3>2, Constants DEF FdInv
  <2>8. EventInv'
    <3>1. Taken => tr'[ev.cur] = tr[ev.cur] /\ tr[ev.cur].fd # k
      <4> HAVE Taken
      <4>1. ev.cur \in Transfer /\ ev.cur # t
        BY <1>3
      <4>2. tr[ev.cur].fd # None => fdTable[tr[ev.cur].fd] = ev.cur
        BY <1>1, <4>1 DEF FdInv
      <4> QED BY <2>2, <2>4, <4>1, <4>2, Constants
    <3>2. \A j \in ev.ready : fdTable'[j] = fdTable[j]
      BY <1>1, <2>2, <2>5, EventType DEF EventInv
    <3> QED BY <1>1, <1>2, <2>1, <2>5, <3>1, <3>2 DEF EventInv, Taken
  <2>9. IoInv'
    BY <1>1, <1>2, <2>1, <2>3, <2>4 DEF IoInv
  <2>10. BusyInv' /\ ClaimInv' /\ AutoInv'
    BY <1>2, <1>4, <2>1, <2>3, KeepsClaims DEF Chosen
  <2> QED BY <1>5, <2>6, <2>7, <2>8, <2>9, <2>10 DEF IInv
<1> QED BY <1>6, <1>7

\* A control transfer that has no interface yet has none claimed for it.
LEMMA NothingAuto ==
    ASSUME IInv, NEW t \in Transfer, Control(t), tr[t].pc \notin Chosen \cup {"idle"}
    PROVE  /\ tr[t].h \in open /\ tr[t].h \in Handle
           /\ auto[tr[t].h] = [i \in Interface |-> 0]
           /\ claimed[tr[t].h] = user[tr[t].h]
<1>1. TypeOK /\ BusyInv /\ ClaimInv /\ AutoInv
  BY DEF IInv
<1> DEFINE h == tr[t].h
<1>2. h \in open /\ h \in Handle
  BY <1>1 DEF BusyInv, TypeOK
<1>3. ASSUME NEW i \in Interface, auto[h][i] > 0 PROVE FALSE
  <2>1. PICK u \in Transfer : Control(u) /\ tr[u].h = h /\ tr[u].via = i /\ tr[u].pc \in Chosen /\ ~Cleared(u)
    BY <1>1, <1>2, <1>3 DEF AutoInv
  <2> QED BY <1>1, <2>1 DEF BusyInv, Chosen
<1>4. auto[h] \in [Interface -> Nat]
  BY <1>1, <1>2 DEF TypeOK
<1>5. \A i \in Interface : auto[h][i] = 0
  BY <1>3, <1>4
<1>6. claimed[h] = user[h] \cup {i \in Interface : auto[h][i] > 0}
  BY <1>1, <1>2 DEF ClaimInv
<1>7. claimed[h] = user[h]
  BY <1>5, <1>6
<1>8. auto[h] = [i \in Interface |-> 0]
  BY <1>4, <1>5
<1> QED BY <1>2, <1>7, <1>8

\* The two halves together.
LEMMA SubmissionStep ==
    ASSUME IInv, NEW t \in Transfer, NEW r \in TransferState, SetTr(t, r),
           r.fd = tr[t].fd, r.h = tr[t].h,
           tr[t].pc \in InSubmission, r.pc \in InSubmission \cup {"in_flight"},
           io' \in [Transfer -> Request], \A u \in Transfer \ {t} : io'[u] = io[u],
           io'[t] = io[t] \/ (io[t] = "none" /\ io'[t] \in {"pending", "ok"}),
           io'[t] # "none" => r.pc \in {"started", "in_flight"},
           UNCHANGED <<backend, open, claims, cancelEx, fdTable, polled, asked, result, ev>>,
           Control(t) /\ tr[t].pc \in Chosen /\ auto[tr[t].h][tr[t].via] > 0 =>
               r.pc \in Chosen /\ r.via = tr[t].via,
           r.pc = "auto" => Control(t) /\ backend # "usbdk" /\ 0 \notin user[r.h] /\ r.at = 0
                            /\ \A i \in Interface : auto[r.h][i] = 0,
           r.pc \in Chosen /\ backend # "usbdk" =>
               /\ r.via \in api[r.h] /\ (~Control(t) => r.via = Kind[t])
               /\ r.pc = "in_flight" => r.itf = r.via
    PROVE  IInv'
<1>1. TypeOK
  BY DEF IInv
<1>2. FdInv' /\ EventInv' /\ IoInv' /\ AbortInv' /\ (\A u \in Transfer : Cleared(u)' <=> Cleared(u))
      /\ ~Cleared(t)
  BY GoesOn
<1>3. TypeOK'
  <2>1. tr' \in [Transfer -> TransferState]
    BY <1>1, SetTransfer
  <2> QED BY <1>1, <2>1 DEF TypeOK, claims
<1>4. tr[t].pc # "idle"
  BY DEF InSubmission
<1>5. BusyInv' /\ ClaimInv' /\ AutoInv'
  BY <1>2, <1>4, KeepsClaims
<1> QED BY <1>2, <1>3, <1>5 DEF IInv

LEMMA ChooseInterfaceStep ==
    ASSUME IInv, NEW t \in Transfer, ChooseInterface(t)
    PROVE  IInv'
<1> DEFINE h == tr[t].h
<1>1. TypeOK /\ IoInv /\ BusyInv /\ ClaimInv
  BY DEF IInv
<1>2. /\ tr[t].pc = "choose"
      /\ UNCHANGED <<backend, open, claims, cancelEx, fdTable, polled, io, asked, result, ev>>
      /\ h \in open /\ h \in Handle /\ io[t] = "none"
  BY <1>1 DEF ChooseInterface, BusyInv, IoInv, TypeOK
<1>3. \/ \E v \in Interface :
            Through(t, v) /\ (backend # "usbdk" => v \in api[h] /\ (~Control(t) => v = Kind[t]))
      \/ /\ Control(t) /\ backend # "usbdk" /\ ValidInterfaces(h) = {}
         /\ SetTr(t, [tr[t] EXCEPT !.pc = "auto", !.at = 0])
  <2>1. CASE backend = "usbdk"
    <3>1. Through(t, tr[t].itf)
      BY <2>1 DEF ChooseInterface, UsbdkSubmit, UsbdkControl, UsbdkIso, UsbdkBulk
    <3> QED BY <1>1, <2>1, <3>1, TransferType
  <2>2. CASE backend # "usbdk" /\ Control(t)
    <3>1. WinusbxControl(t)
      <4>1. backend \in {"winusb", "composite"} /\ t \notin Iso
        BY <1>1, <2>2, Constants, ConstantsAssumption DEF TypeOK, ConstantsAssumption, Control
      <4> QED BY <2>2, <4>1 DEF ChooseInterface, WinusbSubmit, CompositeSubmit, CompositeControl
    <3>2. CASE ValidInterfaces(h) = {}
      BY <2>2, <3>1, <3>2 DEF WinusbxControl
    <3>3. CASE ValidInterfaces(h) # {}
      <4>1. Through(t, GetValidInterface(h))
        BY <3>1, <3>3 DEF WinusbxControl
      <4>2. GetValidInterface(h) \in file[h] \cap api[h] \cap Interface
        BY <1>1, <1>2, <3>3, ValidIsFirst
      <4> QED BY <2>2, <4>1, <4>2
    <3> QED BY <3>2, <3>3
  <2>3. CASE backend # "usbdk" /\ ~Control(t)
    <3>1. HasInterface(t) /\ Through(t, Kind[t])
      BY <1>1, <2>3, Constants DEF ChooseInterface, WinusbSubmit, CompositeSubmit, WinusbxBulk, WinusbxIso,
                                   CompositeBulk, CompositeIso, TypeOK
    <3> QED BY <2>3, <3>1, Constants DEF HasInterface
  <2> QED BY <2>1, <2>2, <2>3
<1>4. CASE \E v \in Interface :
            Through(t, v) /\ (backend # "usbdk" => v \in api[h] /\ (~Control(t) => v = Kind[t]))
  <2>1. PICK v \in Interface :
            Through(t, v) /\ (backend # "usbdk" => v \in api[h] /\ (~Control(t) => v = Kind[t]))
    BY <1>4
  <2> DEFINE r == [tr[t] EXCEPT !.pc = "start", !.via = v]
  <2>0. SetTr(t, r)
    BY <2>1 DEF Through
  <2>2. /\ r \in TransferState /\ r.pc = "start" /\ r.via = v /\ r.h = h /\ r.fd = tr[t].fd
    BY <1>1, TransferType DEF TransferState
  <2> HIDE DEF r
  <2>3. tr[t].pc \in InSubmission /\ r.pc \in InSubmission /\ tr[t].pc \notin Chosen /\ r.pc # "auto"
        /\ r.pc # "in_flight" /\ io' = io /\ io \in [Transfer -> Request]
    BY <1>1, <1>2, <2>2 DEF InSubmission, Chosen, TypeOK
  <2>4. backend # "usbdk" => r.via \in api[r.h] /\ (~Control(t) => r.via = Kind[t])
    BY <2>1, <2>2
  <2> QED BY <1>2, <2>0, <2>2, <2>3, <2>4, SubmissionStep
<1>5. CASE /\ Control(t) /\ backend # "usbdk" /\ ValidInterfaces(h) = {}
           /\ SetTr(t, [tr[t] EXCEPT !.pc = "auto", !.at = 0])
  <2> DEFINE r == [tr[t] EXCEPT !.pc = "auto", !.at = 0]
  <2>1. /\ r \in TransferState /\ SetTr(t, r) /\ r.pc = "auto" /\ r.at = 0 /\ r.h = h /\ r.fd = tr[t].fd
    <3>1. 0 \in 0..LastInterface + 1
      BY Constants
    <3> QED BY <1>1, <1>5, <3>1, TransferType DEF TransferState
  <2> HIDE DEF r
  <2>2. auto[h] = [i \in Interface |-> 0] /\ claimed[h] = user[h]
    BY <1>2, <1>5, NothingAuto DEF Chosen
  <2>3. 0 \notin user[h]
    <3>1. 0 \in file[h] /\ claimed[h] \subseteq api[h]
      BY <1>1, <1>2, <1>5, Constants DEF ClaimInv, WinusbxOpen
    <3> QED BY <1>5, <2>2, <3>1 DEF ValidInterfaces
  <2> QED BY <1>1, <1>2, <1>5, <2>1, <2>2, <2>3, SubmissionStep, ZenonT(60)
         DEF InSubmission, Chosen, TypeOK
<1> QED BY <1>3, <1>4, <1>5

LEMMA StartIoStep ==
    ASSUME IInv, NEW t \in Transfer, StartIo(t)
    PROVE  IInv'
<1> DEFINE r == [tr[t] EXCEPT !.pc = "started"]
<1>1. TypeOK /\ IoInv /\ AutoInv
  BY DEF IInv
<1>2. /\ tr[t].pc = "start" /\ SetTr(t, r) /\ io[t] = "none"
      /\ UNCHANGED <<backend, open, claims, cancelEx, fdTable, polled, asked, result, ev>>
  BY <1>1 DEF StartIo, IoInv
<1>3. r \in TransferState /\ r.pc = "started" /\ r.h = tr[t].h /\ r.fd = tr[t].fd /\ r.via = tr[t].via
  BY <1>1, TransferType DEF TransferState
<1> HIDE DEF r
<1>4. /\ io' \in [Transfer -> Request] /\ io'[t] \in {"pending", "ok"}
      /\ \A u \in Transfer \ {t} : io'[u] = io[u]
  BY <1>1 DEF StartIo, TypeOK, Request
<1>5. ~Cleared(t)
  BY <1>2 DEF Cleared, IInv, EventInv, Taken
<1>6. backend # "usbdk" => tr[t].via \in api[tr[t].h] /\ (~Control(t) => tr[t].via = Kind[t])
  BY <1>1, <1>2, <1>5 DEF AutoInv, Chosen
<1> QED BY <1>2, <1>3, <1>4, <1>6, SubmissionStep DEF InSubmission, Chosen

LEMMA InFlightStep ==
    ASSUME IInv, NEW t \in Transfer, InFlight(t)
    PROVE  IInv'
<1> DEFINE r == [tr[t] EXCEPT !.pc = "in_flight", !.itf = tr[t].via]
<1>1. TypeOK /\ AutoInv
  BY DEF IInv
<1>2. /\ tr[t].pc = "started" /\ SetTr(t, r)
      /\ UNCHANGED <<backend, open, claims, cancelEx, fdTable, polled, io, asked, result, ev>>
  BY DEF InFlight
<1>3. r \in TransferState /\ r.pc = "in_flight" /\ r.h = tr[t].h /\ r.fd = tr[t].fd
      /\ r.via = tr[t].via /\ r.itf = r.via
  BY <1>1, TransferType DEF TransferState
<1> HIDE DEF r
<1>5. ~Cleared(t)
  BY <1>2 DEF Cleared, IInv, EventInv, Taken
<1>6. backend # "usbdk" => tr[t].via \in api[tr[t].h] /\ (~Control(t) => tr[t].via = Kind[t])
  BY <1>1, <1>2, <1>5 DEF AutoInv, Chosen
<1> QED BY <1>1, <1>2, <1>3, <1>6, SubmissionStep DEF InSubmission, Chosen, TypeOK

\* A submission that fails, of a transfer with no interface claimed for it.
LEMMA RefusalStep ==
    ASSUME IInv, Faults = {}, NEW t \in Transfer, SubmitFails(t), tr[t].pc \in InSubmission \ {"started"},
           Control(t) /\ tr[t].pc \in Chosen => auto[tr[t].h][tr[t].via] = 0,
           UNCHANGED <<backend, open, claims, cancelEx, io, asked, ev>>
    PROVE  IInv'
<1>1. TypeOK
  BY DEF IInv
<1>2. /\ FdInv' /\ EventInv' /\ IoInv' /\ AbortInv' /\ \A u \in Transfer : Cleared(u)' <=> Cleared(u)
      /\ ~Cleared(t)
      /\ fdTable' \in [Fd -> Transfer \cup {None}] /\ polled' \subseteq Fd
      /\ result' = [result EXCEPT ![t] = "idle"]
      /\ \E r \in TransferState : SetTr(t, r) /\ r.pc = "idle" /\ r.h = tr[t].h
  BY Refusal
<1>3. PICK r \in TransferState : SetTr(t, r) /\ r.pc = "idle" /\ r.h = tr[t].h
  BY <1>2
<1>4. TypeOK'
  <2>1. tr' \in [Transfer -> TransferState]
    BY <1>1, <1>3, SetTransfer
  <2> QED BY <1>1, <1>2, <2>1 DEF TypeOK, claims
<1>5. tr[t].pc # "idle"
  BY DEF InSubmission
<1>6. BusyInv' /\ ClaimInv' /\ AutoInv'
  BY <1>2, <1>3, <1>5, KeepsClaims DEF Chosen
<1> QED BY <1>2, <1>4, <1>6 DEF IInv

LEMMA NoInterfaceStep ==
    ASSUME IInv, Faults = {}, NEW t \in Transfer, NoInterface(t)
    PROVE  IInv'
BY RefusalStep DEF NoInterface, InSubmission

\* composite_submit_control_transfer's second attempt starts again.
LEMMA FailsOrRetriesStep ==
    ASSUME IInv, Faults = {}, NEW t \in Transfer, FailsOrRetries(t), tr[t].pc \in {"auto", "start"},
           Control(t) /\ tr[t].pc \in Chosen => auto[tr[t].h][tr[t].via] = 0,
           UNCHANGED <<backend, open, claims, cancelEx, io, asked, ev>>
    PROVE  IInv'
<1>1. CASE SubmitFails(t)
  BY <1>1, RefusalStep DEF InSubmission
<1>2. CASE /\ SetTr(t, [tr[t] EXCEPT !.pc = "choose", !.tries = 1])
           /\ UNCHANGED <<fdTable, polled, result>>
  <2> DEFINE r == [tr[t] EXCEPT !.pc = "choose", !.tries = 1]
  <2>1. TypeOK /\ IoInv
    BY DEF IInv
  <2>2. r \in TransferState /\ SetTr(t, r) /\ r.pc = "choose" /\ r.h = tr[t].h /\ r.fd = tr[t].fd
    BY <1>2, <2>1, TransferType DEF TransferState
  <2> HIDE DEF r
  <2>3. io[t] = "none"
    BY <2>1 DEF IoInv
  <2> QED BY <1>2, <2>1, <2>2, <2>3, SubmissionStep DEF InSubmission, Chosen, TypeOK
<1> QED BY <1>1, <1>2 DEF FailsOrRetries

LEMMA AutoClaimFailsStep ==
    ASSUME IInv, Faults = {}, NEW t \in Transfer, AutoClaimFails(t)
    PROVE  IInv'
BY FailsOrRetriesStep DEF AutoClaimFails, Chosen

LEMMA StartFailsStep ==
    ASSUME IInv, Faults = {}, NEW t \in Transfer, StartFails(t)
    PROVE  IInv'
BY FailsOrRetriesStep DEF StartFails

\* auto_claim: an interface is claimed for the transfer, or the program has none
\* and the next one is tried.
LEMMA AutoClaimStep ==
    ASSUME IInv, Faults = {}, NEW t \in Transfer, AutoClaim(t)
    PROVE  IInv'
<1> DEFINE h == tr[t].h  i == tr[t].at
<1>1. TypeOK /\ IoInv /\ BusyInv /\ ClaimInv /\ AutoInv
  BY DEF IInv
<1>2. /\ tr[t].pc = "auto" /\ i \in Interface
      /\ UNCHANGED <<backend, open, redirector, file, user, cancelEx, fdTable, polled, io, asked, result, ev>>
  BY DEF AutoClaim
<1>3. PICK c \in Claims(h, i) :
        /\ c.ok \/ user[h] = {}
        /\ api' = [api EXCEPT ![h] = c.api] /\ ends' = c.ends
        /\ c.ok => /\ claimed' = [claimed EXCEPT ![h] = @ \cup {i}]
                   /\ auto' = [auto EXCEPT ![h][i] = @ + 1]
                   /\ SetTr(t, [tr[t] EXCEPT !.pc = "start", !.via = i])
        /\ ~c.ok => SetTr(t, [tr[t] EXCEPT !.at = i + 1]) /\ UNCHANGED <<claimed, auto>>
  BY DEF AutoClaim, Through
<1>4. /\ Control(t) /\ backend # "usbdk" /\ 0 \notin user[h] /\ (i > 0 => user[h] = {})
      /\ h \in open /\ h \in Handle /\ auto[h] = [j \in Interface |-> 0] /\ claimed[h] = user[h]
      /\ api[h] \subseteq claimed[h] \cup {0} /\ claimed[h] \subseteq api[h] /\ file[h] = WinusbxOpen
  <2>1. Control(t) /\ backend # "usbdk" /\ 0 \notin user[h] /\ (i > 0 => user[h] = {})
    BY <1>1, <1>2 DEF AutoInv
  <2>2. /\ h \in open /\ h \in Handle /\ auto[h] = [j \in Interface |-> 0] /\ claimed[h] = user[h]
    BY <1>2, <2>1, NothingAuto DEF Chosen
  <2> QED BY <1>1, <2>1, <2>2 DEF ClaimInv
<1>5. i \notin claimed[h]
  BY <1>2, <1>4 DEF Interface
<1>6. /\ c.ok \in BOOLEAN /\ c.api \in SUBSET Interface /\ c.ends \in SUBSET Interface
      /\ c.ok => c.api = api[h] \cup {i} \/ c.api = api[h] \cup {0, i}
      /\ ~c.ok => c.api \subseteq api[h] \cup {0}
  BY <1>1, <1>2, <1>4, <1>5, ClaimOutcomes
<1> DEFINE r == IF c.ok THEN [tr[t] EXCEPT !.pc = "start", !.via = i] ELSE [tr[t] EXCEPT !.at = i + 1]
<1>7. SetTr(t, r)
  BY <1>3
<1>8. /\ r \in TransferState /\ r.h = h /\ r.fd = tr[t].fd
      /\ c.ok => r.pc = "start" /\ r.via = i
      /\ ~c.ok => r.pc = "auto" /\ r.at > 0
  <2>1. i + 1 \in 0..LastInterface + 1 /\ i + 1 > 0
    BY <1>2, Constants DEF Interface
  <2>2. CASE c.ok
    BY <1>1, <1>2, <2>2, TransferType, ZenonT(60) DEF TransferState
  <2>3. CASE ~c.ok
    BY <1>1, <1>2, <2>1, <2>3, TransferType DEF TransferState
  <2> QED BY <2>2, <2>3
<1> HIDE DEF r
<1>9. tr' \in [Transfer -> TransferState] /\ tr'[t] = r /\ \A u \in Transfer \ {t} : tr'[u] = tr[u]
  BY <1>1, <1>7, <1>8, SetTransfer
<1>10. /\ api' \in [Handle -> SUBSET Interface] /\ claimed' \in [Handle -> SUBSET Interface]
       /\ auto' \in [Handle -> [Interface -> Nat]]
       /\ api'[h] = c.api
       /\ claimed'[h] = IF c.ok THEN claimed[h] \cup {i} ELSE claimed[h]
       /\ auto'[h] = IF c.ok THEN [auto[h] EXCEPT ![i] = @ + 1] ELSE auto[h]
       /\ \A g \in Handle \ {h} : api'[g] = api[g] /\ claimed'[g] = claimed[g] /\ auto'[g] = auto[g]
  <2>1. api' \in [Handle -> SUBSET Interface] /\ api'[h] = c.api /\ \A g \in Handle \ {h} : api'[g] = api[g]
    BY <1>1, <1>3, <1>4, <1>6 DEF TypeOK
  <2>2. CASE c.ok
    <3>1. /\ claimed' \in [Handle -> SUBSET Interface] /\ claimed'[h] = claimed[h] \cup {i}
          /\ \A g \in Handle \ {h} : claimed'[g] = claimed[g]
      <4>1. claimed' = [claimed EXCEPT ![h] = @ \cup {i}] /\ claimed \in [Handle -> SUBSET Interface]
        BY <1>1, <1>3, <2>2 DEF TypeOK
      <4> HIDE DEF h, i
      <4> QED BY <1>2, <1>4, <4>1
    <3>2. /\ auto' \in [Handle -> [Interface -> Nat]] /\ auto'[h] = [auto[h] EXCEPT ![i] = @ + 1]
          /\ \A g \in Handle \ {h} : auto'[g] = auto[g]
      <4>1. auto' = [auto EXCEPT ![h][i] = @ + 1] /\ auto \in [Handle -> [Interface -> Nat]]
        BY <1>1, <1>3, <2>2 DEF TypeOK
      <4> HIDE DEF h, i
      <4> QED BY <1>2, <1>4, <4>1
    <3> QED BY <2>1, <2>2, <3>1, <3>2
  <2>3. CASE ~c.ok
    BY <1>1, <1>3, <1>4, <2>1, <2>3 DEF TypeOK
  <2> QED BY <2>2, <2>3
<1>11. \A j \in Interface : auto'[h][j] = IF c.ok /\ j = i THEN 1 ELSE 0
  <2>1. CASE c.ok
    BY <1>2, <1>4, <1>10, <2>1
  <2>2. CASE ~c.ok
    BY <1>4, <1>10, <2>2
  <2> QED BY <2>1, <2>2
<1>12. FdInv' /\ EventInv' /\ IoInv' /\ AbortInv' /\ (\A u \in Transfer : Cleared(u)' <=> Cleared(u))
       /\ ~Cleared(t)
  <2>1. tr[t].pc \in InSubmission /\ r.pc \in InSubmission /\ io[t] = "none" /\ io \in [Transfer -> Request]
    BY <1>1, <1>2, <1>6, <1>8 DEF InSubmission, IoInv, TypeOK
  <2> QED BY <1>2, <1>7, <1>8, <2>1, GoesOn
<1>13. TypeOK'
  <2>1. ends' \subseteq Interface
    BY <1>3, <1>6
  <2> QED BY <1>1, <1>2, <1>9, <1>10, <2>1 DEF TypeOK
<1>14. BusyInv'
  BY <1>1, <1>2, <1>8, <1>9 DEF BusyInv, Control
<1>15. ClaimInv'
  <2>1. ASSUME NEW g \in open, g # h
        PROVE  /\ claimed'[g] = user'[g] \cup {j \in Interface : auto'[g][j] > 0}
               /\ claimed'[g] \subseteq api'[g] /\ api'[g] \subseteq claimed'[g] \cup {0}
               /\ file'[g] = WinusbxOpen'
    <3>1. /\ claimed[g] = user[g] \cup {j \in Interface : auto[g][j] > 0}
          /\ claimed[g] \subseteq api[g] /\ api[g] \subseteq claimed[g] \cup {0} /\ file[g] = WinusbxOpen
      BY <1>1, <1>4, <2>1 DEF ClaimInv
    <3> QED BY <1>1, <1>2, <1>10, <2>1, <3>1 DEF TypeOK, WinusbxOpen
  <2>2. /\ claimed'[h] = user'[h] \cup {j \in Interface : auto'[h][j] > 0}
        /\ claimed'[h] \subseteq api'[h] /\ api'[h] \subseteq claimed'[h] \cup {0}
    <3>1. CASE c.ok
      BY <1>2, <1>4, <1>6, <1>10, <1>11, <3>1
    <3>2. CASE ~c.ok
      BY <1>2, <1>3, <1>4, <1>6, <1>10, <1>11, <3>2
    <3> QED BY <3>1, <3>2
  <2>3. file'[h] = WinusbxOpen'
    BY <1>2, <1>4 DEF WinusbxOpen
  <2>4. \A g \in Handle \ open' :
          api'[g] = {} /\ claimed'[g] = {} /\ user'[g] = {} /\ auto'[g] = [j \in Interface |-> 0]
    BY <1>1, <1>2, <1>4, <1>10 DEF ClaimInv
  <2> QED BY <1>2, <1>4, <2>1, <2>2, <2>3, <2>4 DEF ClaimInv
<1>16. AutoInv'
  <2>1. ASSUME NEW g \in Handle, NEW j \in Interface, auto'[g][j] > 0
        PROVE  /\ auto'[g][j] = 1 /\ j \notin user'[g]
               /\ \E u \in Transfer : Control(u) /\ tr'[u].h = g /\ tr'[u].via = j /\ tr'[u].pc \in Chosen
                                      /\ ~Cleared(u)'
    <3>1. CASE g = h
      <4>1. c.ok /\ j = i /\ auto'[g][j] = 1
        BY <1>11, <2>1, <3>1
      <4>2. j \notin user'[g]
        BY <1>2, <1>4, <1>5, <3>1, <4>1
      <4>3. Control(t) /\ tr'[t].h = g /\ tr'[t].via = j /\ tr'[t].pc \in Chosen /\ ~Cleared(t)'
        BY <1>4, <1>8, <1>9, <1>12, <3>1, <4>1 DEF Chosen
      <4> QED BY <4>1, <4>2, <4>3
    <3>2. CASE g # h
      <4>1. auto'[g] = auto[g]
        BY <1>10, <3>2
      <4>2. /\ auto[g][j] = 1 /\ j \notin user[g]
            /\ \E u \in Transfer : Control(u) /\ tr[u].h = g /\ tr[u].via = j /\ tr[u].pc \in Chosen /\ ~Cleared(u)
        BY <1>1, <2>1, <4>1 DEF AutoInv
      <4>3. PICK u \in Transfer : Control(u) /\ tr[u].h = g /\ tr[u].via = j /\ tr[u].pc \in Chosen /\ ~Cleared(u)
        BY <4>2
      <4>4. tr'[u] = tr[u] /\ ~Cleared(u)'
        BY <1>9, <1>12, <3>2, <4>3
      <4> QED BY <1>2, <4>1, <4>2, <4>3, <4>4
    <3> QED BY <3>1, <3>2
  <2>2. ASSUME NEW u \in Transfer, tr'[u].pc = "auto"
        PROVE  /\ Control(u) /\ backend' # "usbdk" /\ 0 \notin user'[tr'[u].h]
               /\ tr'[u].at > 0 => user'[tr'[u].h] = {}
               /\ \A j \in Interface : auto'[tr'[u].h][j] = 0
    <3>1. CASE u = t
      BY <1>2, <1>3, <1>4, <1>6, <1>8, <1>9, <1>11, <2>2, <3>1
    <3>2. CASE u # t
      <4>1. tr'[u] = tr[u] /\ tr[u].pc = "auto" /\ Control(u) /\ tr[u].h \in Handle
        BY <1>1, <1>9, <2>2, <3>2 DEF AutoInv, BusyInv, TypeOK
      <4>2. tr[u].h # h
        BY <1>1, <1>2, <1>4, <3>2, <4>1 DEF BusyInv
      <4>3. /\ backend # "usbdk" /\ 0 \notin user[tr[u].h]
            /\ tr[u].at > 0 => user[tr[u].h] = {}
            /\ \A j \in Interface : auto[tr[u].h][j] = 0
        BY <1>1, <4>1 DEF AutoInv
      <4>4. auto'[tr[u].h] = auto[tr[u].h]
        BY <1>10, <4>1, <4>2
      <4> QED BY <1>2, <4>1, <4>3, <4>4
    <3> QED BY <3>1, <3>2
  <2>3. ASSUME NEW u \in Transfer, tr'[u].pc \in Chosen
        PROVE  /\ ~Cleared(u) => tr'[u].via \in api'[tr'[u].h]
               /\ ~Control(u) => tr'[u].via = Kind[u]
               /\ tr'[u].pc = "in_flight" => tr'[u].itf = tr'[u].via
    <3>1. CASE u = t
      BY <1>4, <1>6, <1>8, <1>9, <1>10, <2>3, <3>1 DEF Chosen
    <3>2. CASE u # t
      <4>1. /\ tr'[u] = tr[u] /\ tr[u].h \in Handle
            /\ ~Cleared(u) => tr[u].via \in api[tr[u].h]
            /\ ~Control(u) => tr[u].via = Kind[u]
            /\ tr[u].pc = "in_flight" => tr[u].itf = tr[u].via
        BY <1>1, <1>4, <1>9, <2>3, <3>2 DEF AutoInv, BusyInv, TypeOK, Chosen
      <4>2. tr[u].h = h => ~Control(u) /\ Kind[u] \in user[h]
        BY <1>1, <1>2, <1>4, <2>3, <3>2, <4>1 DEF BusyInv, Chosen
      <4>3. tr[u].h = h => c.ok /\ api[h] \subseteq api'[h]
        BY <1>3, <1>6, <1>10, <4>2
      <4> QED BY <1>10, <4>1, <4>3
    <3> QED BY <3>1, <3>2
  <2> QED BY <1>12, <2>1, <2>2, <2>3 DEF AutoInv, Control
<1> QED BY <1>12, <1>13, <1>14, <1>15, <1>16 DEF IInv

----------------------------------------------------------------------------
(* Events.                                                                 *)

\* Until a completion is cleared, events do not touch the claims.
LEMMA EventFrame ==
    ASSUME IInv, UNCHANGED <<backend, open, claims, tr>>, \A u \in Transfer : Cleared(u)' <=> Cleared(u)
    PROVE  BusyInv' /\ ClaimInv' /\ AutoInv'
<1>1. BusyInv' /\ AutoInv'
  BY DEF IInv, BusyInv, AutoInv, Control, claims
<1> QED BY <1>1, ClaimFrame

LEMMA WaitingType == Waiting \in EventThread
BY Constants DEF Waiting, EventThread, Request

LEMMA PollStep ==
    ASSUME IInv, Poll
    PROVE  IInv'
<1> DEFINE e == [ev EXCEPT !.pc = "poll", !.seen = polled]
<1>1. TypeOK /\ FdInv /\ EventInv /\ IoInv /\ AbortInv
  BY DEF IInv
<1>2. /\ ev.pc = "idle" /\ ev' = e
      /\ UNCHANGED <<backend, open, claims, cancelEx, fdTable, polled, tr, io, asked, result>>
  BY DEF Poll, NotEvents, claims
<1>3. e \in EventThread /\ e.pc = "poll" /\ e.seen = polled /\ e.ready = ev.ready
  BY <1>1 DEF TypeOK, EventThread
<1> HIDE DEF e
<1>4. \A u \in Transfer : Cleared(u)' <=> Cleared(u)
  BY <1>2, <1>3 DEF Cleared
<1>5. TypeOK'
  BY <1>1, <1>2, <1>3 DEF TypeOK, claims
<1>6. FdInv' /\ IoInv'
  BY <1>1, <1>2, <1>4 DEF FdInv, IoInv
<1>7. EventInv' /\ AbortInv'
  BY <1>1, <1>2, <1>3 DEF EventInv, AbortInv, Taken, OpenFds, EndpointsApart, Control
<1> QED BY <1>2, <1>4, <1>5, <1>6, <1>7, EventFrame DEF IInv

LEMMA CheckPollfdsStep ==
    ASSUME IInv, CheckPollfds
    PROVE  IInv'
<1> DEFINE ready == {k \in ev.seen : Signalled(k)}
           e == IF ready = {} THEN Waiting ELSE [Waiting EXCEPT !.pc = "scan", !.ready = ready]
<1>1. TypeOK /\ FdInv /\ EventInv /\ IoInv /\ AbortInv
  BY DEF IInv
<1>2. /\ ev.pc = "poll" /\ ev' = e
      /\ UNCHANGED <<backend, open, claims, cancelEx, fdTable, polled, tr, io, asked, result>>
  BY DEF CheckPollfds, NotEvents, claims
<1>3. e \in EventThread /\ e.pc \in {"idle", "scan"} /\ e.seen = {} /\ e.ready \subseteq ready
  <2>1. ready \subseteq Fd
    BY <1>1, EventType
  <2> HIDE DEF ready
  <2>2. CASE ready = {}
    BY <2>2, WaitingType DEF Waiting
  <2>3. CASE ready # {}
    BY <2>1, <2>3, WaitingType DEF Waiting, EventThread
  <2> QED BY <2>2, <2>3
<1>4. \A k \in ready : fdTable[k] # None /\ io[fdTable[k]] \notin {"none", "pending"}
  BY <1>1 DEF EventInv, OpenFds, Signalled
<1> HIDE DEF e, ready
<1>5. \A u \in Transfer : Cleared(u)' <=> Cleared(u)
  BY <1>2, <1>3 DEF Cleared
<1>6. TypeOK'
  BY <1>1, <1>2, <1>3 DEF TypeOK, claims
<1>7. FdInv' /\ IoInv'
  BY <1>1, <1>2, <1>5 DEF FdInv, IoInv
<1>8. EventInv' /\ AbortInv'
  BY <1>1, <1>2, <1>3, <1>4 DEF EventInv, AbortInv, Taken, OpenFds, EndpointsApart, Control
<1> QED BY <1>2, <1>5, <1>6, <1>7, <1>8, EventFrame DEF IInv

LEMMA TakeStep ==
    ASSUME IInv, Faults = {}, NEW k \in Fd, Take(k)
    PROVE  IInv'
<1>1. TypeOK /\ FdInv /\ EventInv /\ IoInv /\ AbortInv
  BY DEF IInv
<1>2. /\ ev.pc = "scan" /\ k \in ev.ready /\ polled = OpenFds
      /\ UNCHANGED <<backend, open, claims, cancelEx, fdTable, tr, asked, result>>
  BY <1>1 DEF Take, NotEvents, claims, EventInv
<1>3. FdInv'
  BY <1>1, <1>2, ZenonT(60) DEF FdInv, Cleared, Take, Waiting
<1>4. CASE ev' = Waiting /\ UNCHANGED <<io, polled>>
  <2>1. Waiting.pc = "idle" /\ Waiting.seen = {} /\ Waiting.ready = {}
    BY DEF Waiting
  <2>2. \A u \in Transfer : Cleared(u)' <=> Cleared(u)
    BY <1>2, <1>4, <2>1 DEF Cleared
  <2>3. TypeOK'
    BY <1>1, <1>2, <1>4, WaitingType DEF TypeOK, claims
  <2>4. EventInv' /\ AbortInv' /\ IoInv'
    BY <1>1, <1>2, <1>4, <2>1 DEF EventInv, AbortInv, Taken, OpenFds, EndpointsApart, Control, IoInv
  <2> QED BY <1>2, <1>3, <2>2, <2>3, <2>4, EventFrame DEF IInv
<1>5. CASE Owners(k) # {}
  <2> DEFINE res(t) == IF backend = "usbdk" THEN UsbdkResult(t) ELSE WinusbResult(t)
             e(t) == [ev EXCEPT !.pc = "taken", !.ready = @ \ {k}, !.cur = t, !.res = res(t)]
  <2>1. PICK t \in Transfer :
          /\ tr[t].fd = k /\ tr[t].pc = "in_flight" /\ ev' = e(t)
          /\ io' = [io EXCEPT ![t] = IF io[t] = "pending" THEN "pending" ELSE "none"]
          /\ polled' = polled \ {k}
    BY <1>5 DEF Take, Owners, PolledWithout
  <2>2. res(t) \in Request \cup {"stalled"} /\ (res(t) = "aborted" => io[t] = "aborted")
    BY <1>1 DEF UsbdkResult, WinusbResult, TypeOK, Request
  <2> HIDE DEF res
  <2>3. /\ e(t) \in EventThread /\ e(t).pc = "taken" /\ e(t).seen = ev.seen /\ e(t).ready = ev.ready \ {k}
        /\ e(t).cur = t /\ e(t).res = res(t)
    BY <1>1, <2>2 DEF TypeOK, EventThread
  <2> HIDE DEF e
  <2>4. fdTable[k] = t /\ io[t] \notin {"none", "pending"}
    BY <1>1, <1>2, <2>1, Constants DEF FdInv, EventInv
  <2>5. io' \in [Transfer -> Request] /\ io'[t] = "none" /\ \A u \in Transfer \ {t} : io'[u] = io[u]
    BY <1>1, <2>1, <2>4 DEF TypeOK, Request
  <2>6. \A u \in Transfer : Cleared(u)' <=> Cleared(u)
    BY <1>2, <2>1, <2>3 DEF Cleared
  <2>7. TypeOK'
    BY <1>1, <1>2, <2>1, <2>3, <2>5 DEF TypeOK, claims
  <2>8. EventInv'
    <3>1. \A j \in ev'.ready : fdTable'[j] # None /\ io'[fdTable'[j]] \notin {"none", "pending"}
      <4> TAKE j \in ev'.ready
      <4>1. j \in ev.ready /\ j # k /\ j \in Fd /\ fdTable[j] \in Transfer
        BY <1>1, <2>1, <2>3, EventType DEF EventInv
      <4>2. fdTable[j] # t
        BY <1>1, <2>1, <4>1, Constants DEF FdInv
      <4> QED BY <1>1, <1>2, <2>5, <4>1, <4>2 DEF EventInv
    <3>2. tr[t].fd # None
      BY <2>1, Constants
    <3> QED BY <1>1, <1>2, <2>1, <2>3, <2>5, <3>1, <3>2 DEF EventInv, Taken, OpenFds
  <2>9. IoInv'
    BY <1>1, <1>2, <2>5 DEF IoInv
  <2>10. AbortInv'
    BY <1>1, <1>2, <2>1, <2>2, <2>3, <2>5 DEF AbortInv, Taken, EndpointsApart, Control
  <2> QED BY <1>2, <1>3, <2>6, <2>7, <2>8, <2>9, <2>10, EventFrame DEF IInv
<1> QED BY <1>4, <1>5 DEF Take

LEMMA ReportStep ==
    ASSUME IInv, Report
    PROVE  IInv'
<1> DEFINE t == ev.cur  r == [tr[t] EXCEPT !.pc = "idle"]
           e == IF ev.ready = {} THEN Waiting ELSE [ev EXCEPT !.pc = "scan", !.cur = None]
<1>1. TypeOK /\ FdInv /\ EventInv /\ IoInv /\ AbortInv /\ BusyInv /\ ClaimInv /\ AutoInv
  BY DEF IInv
<1>2. /\ ev.pc = "report" /\ ev' = e /\ SetTr(t, r) /\ result' = [result EXCEPT ![t] = Status[ev.res]]
      /\ UNCHANGED <<backend, open, claims, cancelEx, fdTable, polled, io, asked>>
  BY DEF Report, NotEvents, claims
<1>3. t \in Transfer /\ tr[t].pc = "in_flight" /\ tr[t].fd = None /\ io[t] = "none" /\ ev.seen = {}
      /\ polled = OpenFds
  BY <1>1, <1>2 DEF EventInv, Taken
<1>4. Status[ev.res] \in {"completed", "error", "stall", "cancelled"}
      /\ (Status[ev.res] = "cancelled" => ev.res = "aborted")
  <2>1. ev.res \in {"none", "pending", "ok", "failed", "aborted", "stalled"}
    BY <1>1 DEF TypeOK, EventThread, Request
  <2>2. /\ Status["none"] = "error" /\ Status["pending"] = "error" /\ Status["ok"] = "completed"
        /\ Status["failed"] = "error" /\ Status["aborted"] = "cancelled" /\ Status["stalled"] = "stall"
    BY DEF Status
  <2> QED BY <2>1, <2>2
<1>5. e \in EventThread /\ e.pc \in {"idle", "scan"} /\ e.seen = {} /\ e.ready = ev.ready
  <2>1. CASE ev.ready = {}
    BY <2>1, WaitingType DEF Waiting
  <2>2. CASE ev.ready # {}
    BY <1>1, <1>3, <2>2 DEF TypeOK, EventThread
  <2> QED BY <2>1, <2>2
<1>6. r \in TransferState /\ r.pc = "idle" /\ r.fd = None /\ r.h = tr[t].h
  BY <1>1, <1>3, TransferType DEF TransferState
<1> HIDE DEF e, r
<1>7. tr' \in [Transfer -> TransferState] /\ tr'[t] = r /\ \A u \in Transfer \ {t} : tr'[u] = tr[u]
  BY <1>1, <1>2, <1>3, <1>6, SetTransfer
<1>8. \A u \in Transfer : ~Cleared(u)' /\ (Cleared(u) <=> u = t)
  BY <1>2, <1>5 DEF Cleared
<1>9. TypeOK'
  BY <1>1, <1>2, <1>3, <1>4, <1>5, <1>7 DEF TypeOK, claims
<1>10. FdInv'
  <2>1. \A k \in Fd : fdTable[k] # None => tr'[fdTable[k]].fd = k
    BY <1>1, <1>3, <1>6, <1>7, EventType DEF FdInv
  <2> QED BY <1>1, <1>2, <1>3, <1>6, <1>7, <1>8, <2>1 DEF FdInv
<1>11. EventInv'
  BY <1>1, <1>2, <1>3, <1>5 DEF EventInv, Taken, OpenFds
<1>12. IoInv'
  <2>1. result'[t] # "flying" /\ \A u \in Transfer \ {t} : result'[u] = result[u]
    BY <1>1, <1>2, <1>3, <1>4 DEF TypeOK
  <2> QED BY <1>1, <1>2, <1>3, <1>6, <1>7, <2>1 DEF IoInv
<1>13. AbortInv'
  BY <1>1, <1>2, <1>5 DEF AbortInv, Taken, EndpointsApart, Control
<1>14. BusyInv'
  BY <1>1, <1>2, <1>6, <1>7 DEF BusyInv, Control, claims
<1>15. ClaimInv'
  BY <1>2, ClaimFrame
<1>16. AutoInv'
  <2>1. UNCHANGED <<backend, api, user, auto>>
    BY <1>2 DEF claims
  <2>2. ASSUME NEW h \in Handle, NEW i \in Interface, auto[h][i] > 0
        PROVE  \E u \in Transfer : Control(u) /\ tr'[u].h = h /\ tr'[u].via = i /\ tr'[u].pc \in Chosen
    <3>1. PICK u \in Transfer : Control(u) /\ tr[u].h = h /\ tr[u].via = i /\ tr[u].pc \in Chosen /\ ~Cleared(u)
      BY <1>1, <2>2 DEF AutoInv
    <3> QED BY <1>7, <1>8, <3>1
  <2>3. \A u \in Transfer : tr'[u].pc \in Chosen \cup {"auto"} => tr'[u] = tr[u] /\ ~Cleared(u)
    BY <1>6, <1>7, <1>8 DEF Chosen
  <2> QED BY <1>1, <1>8, <2>1, <2>2, <2>3 DEF AutoInv, Control, Chosen
<1> QED BY <1>9, <1>10, <1>11, <1>12, <1>13, <1>14, <1>15, <1>16 DEF IInv

\* What an automatic release does: nothing is claimed for t any more, and no other
\* transfer of the handle uses what was.
LEMMA AutoReleased ==
    ASSUME IInv, backend # "usbdk", NEW t \in Transfer, tr[t].pc = "in_flight", ~Cleared(t), AutoRelease(t)
    PROVE  /\ api' \in [Handle -> SUBSET Interface] /\ claimed' \in [Handle -> SUBSET Interface]
           /\ auto' \in [Handle -> [Interface -> Nat]]
           /\ \A g \in Handle \ {tr[t].h} : api'[g] = api[g] /\ claimed'[g] = claimed[g] /\ auto'[g] = auto[g]
           /\ \/ api' = api /\ claimed' = claimed /\ auto' = auto /\ auto[tr[t].h][tr[t].via] = 0
              \/ /\ Control(t) /\ tr[t].via \notin user[tr[t].h]
                 /\ api'[tr[t].h] = api[tr[t].h] \ {tr[t].via}
                 /\ claimed'[tr[t].h] = claimed[tr[t].h] \ {tr[t].via}
                 /\ auto'[tr[t].h] = [auto[tr[t].h] EXCEPT ![tr[t].via] = 0]
<1> DEFINE h == tr[t].h  i == tr[t].via
<1>1. TypeOK /\ BusyInv /\ ClaimInv /\ AutoInv
  BY DEF IInv
<1>2. h \in open /\ h \in Handle /\ i \in Interface /\ tr[t].itf = i /\ backend \in {"winusb", "composite"}
      /\ (~Control(t) => i = Kind[t])
  BY <1>1, TransferType, Constants DEF BusyInv, AutoInv, Chosen, TypeOK
<1>3. /\ api \in [Handle -> SUBSET Interface] /\ claimed \in [Handle -> SUBSET Interface]
      /\ auto \in [Handle -> [Interface -> Nat]]
  BY <1>1 DEF TypeOK
<1>4. CASE auto[h][i] = 0
  BY <1>2, <1>3, <1>4 DEF AutoRelease
<1>5. CASE auto[h][i] # 0
  <2>1. auto[h][i] = 1 /\ i \notin user[h] /\ i \in claimed[h] /\ i \in api[h]
    <3>1. auto[h][i] > 0
      BY <1>2, <1>3, <1>5
    <3>2. auto[h][i] = 1 /\ i \notin user[h]
      BY <1>1, <1>2, <3>1 DEF AutoInv
    <3>3. claimed[h] = user[h] \cup {j \in Interface : auto[h][j] > 0} /\ claimed[h] \subseteq api[h]
      BY <1>1, <1>2 DEF ClaimInv
    <3> QED BY <1>2, <3>1, <3>2, <3>3
  <2>2. Control(t)
    BY <1>1, <1>2, <2>1 DEF BusyInv
  <2>3. auto' = [auto EXCEPT ![h][i] = 0]
    BY <1>2, <2>1 DEF AutoRelease
  <2>4. api' = [api EXCEPT ![h] = @ \ {i}] /\ claimed' = [claimed EXCEPT ![h] = @ \ {i}]
    <3>1. ReleaseInterface(h, i)
      BY <1>2, <2>1 DEF AutoRelease, LastOf
    <3> HIDE DEF h, i
    <3>2. WinusbxRelease(h, i) /\ claimed' = [claimed EXCEPT ![h] = @ \ {i}]
      <4>1. CASE backend = "winusb"
        BY <2>1, <3>1, <4>1 DEF ReleaseInterface
      <4>2. CASE backend = "composite"
        BY <2>1, <3>1, <4>2 DEF ReleaseInterface, CompositeRelease
      <4> QED BY <1>2, <4>1, <4>2
    <3> QED BY <3>2 DEF WinusbxRelease
  <2> HIDE DEF h, i
  <2>5. /\ api' \in [Handle -> SUBSET Interface] /\ api'[h] = api[h] \ {i}
        /\ \A g \in Handle \ {h} : api'[g] = api[g]
    BY <1>2, <1>3, <2>4
  <2>6. /\ claimed' \in [Handle -> SUBSET Interface] /\ claimed'[h] = claimed[h] \ {i}
        /\ \A g \in Handle \ {h} : claimed'[g] = claimed[g]
    BY <1>2, <1>3, <2>4
  <2>7. /\ auto' \in [Handle -> [Interface -> Nat]] /\ auto'[h] = [auto[h] EXCEPT ![i] = 0]
        /\ \A g \in Handle \ {h} : auto'[g] = auto[g]
    BY <1>2, <1>3, <2>3
  <2> QED BY <2>1, <2>2, <2>5, <2>6, <2>7 DEF h, i
<1> QED BY <1>4, <1>5

LEMMA ClearTransferPrivStep ==
    ASSUME IInv, ClearTransferPriv
    PROVE  IInv'
<1> DEFINE t == ev.cur  k == tr[t].fd  h == tr[t].h  i == tr[t].via
           r == [tr[t] EXCEPT !.fd = None]  e == [ev EXCEPT !.pc = "report"]
<1>1. TypeOK /\ FdInv /\ EventInv /\ IoInv /\ AbortInv /\ BusyInv /\ ClaimInv /\ AutoInv
  BY DEF IInv
<1>2. /\ ev.pc = "taken" /\ ev' = e /\ SetTr(t, r) /\ fdTable' = [fdTable EXCEPT ![k] = None]
      /\ UNCHANGED <<backend, open, redirector, file, user, ends, cancelEx, polled, io, asked, result>>
      /\ (backend = "usbdk" => UNCHANGED <<api, claimed, auto>>)
      /\ (backend # "usbdk" => AutoRelease(t))
  BY DEF ClearTransferPriv, NotEvents, WinusbClearPriv, UsbdkClearPriv, GiveUp
<1>3. /\ t \in Transfer /\ tr[t].pc = "in_flight" /\ k \in Fd /\ fdTable[k] = t /\ io[t] = "none"
      /\ ev.seen = {} /\ k \notin ev.ready /\ polled = OpenFds \ {k}
  BY <1>1, <1>2, TransferType DEF EventInv, Taken, FdInv
<1>4. /\ e \in EventThread /\ e.pc = "report" /\ e.seen = ev.seen /\ e.ready = ev.ready
      /\ e.cur = t /\ e.res = ev.res
  BY <1>1 DEF TypeOK, EventThread
<1>5. /\ r \in TransferState /\ r.pc = "in_flight" /\ r.fd = None /\ r.h = h /\ r.via = i
      /\ r.itf = tr[t].itf
  BY <1>1, <1>3, TransferType DEF TransferState
<1> HIDE DEF e, r
<1>6. tr' \in [Transfer -> TransferState] /\ tr'[t] = r /\ \A u \in Transfer \ {t} : tr'[u] = tr[u]
  BY <1>1, <1>2, <1>3, <1>5, SetTransfer
<1>7. \A u \in Transfer : ~Cleared(u) /\ (Cleared(u)' <=> u = t)
  BY <1>2, <1>4 DEF Cleared
<1>8. /\ fdTable' \in [Fd -> Transfer \cup {None}] /\ OpenFds' = OpenFds \ {k}
      /\ fdTable'[k] = None /\ \A j \in Fd \ {k} : fdTable'[j] = fdTable[j]
  BY <1>1, <1>2, <1>3 DEF TypeOK, OpenFds
<1>9. /\ api' \in [Handle -> SUBSET Interface] /\ claimed' \in [Handle -> SUBSET Interface]
      /\ auto' \in [Handle -> [Interface -> Nat]]
      /\ \A g \in Handle \ {h} : api'[g] = api[g] /\ claimed'[g] = claimed[g] /\ auto'[g] = auto[g]
      /\ \/ /\ api' = api /\ claimed' = claimed /\ auto' = auto
            /\ backend # "usbdk" => auto[h][i] = 0
         \/ /\ backend # "usbdk" /\ Control(t) /\ i \notin user[h]
            /\ api'[h] = api[h] \ {i} /\ claimed'[h] = claimed[h] \ {i}
            /\ auto'[h] = [auto[h] EXCEPT ![i] = 0]
  <2>1. CASE backend = "usbdk"
    BY <1>1, <1>2, <2>1 DEF TypeOK
  <2>2. CASE backend # "usbdk"
    <3>1. AutoRelease(t) /\ ~Cleared(t)
      BY <1>2, <1>3, <1>7, <2>2
    <3> HIDE DEF t
    <3> QED BY <1>3, <2>2, <3>1, AutoReleased
  <2> QED BY <2>1, <2>2
<1>10. h \in open /\ h \in Handle /\ i \in Interface
  BY <1>1, <1>3, TransferType DEF BusyInv, TypeOK
<1>11. TypeOK'
  <2>1. /\ api' \in [Handle -> SUBSET Interface] /\ claimed' \in [Handle -> SUBSET Interface]
        /\ auto' \in [Handle -> [Interface -> Nat]]
    BY <1>9
  <2>2. tr' \in [Transfer -> TransferState] /\ fdTable' \in [Fd -> Transfer \cup {None}]
    BY <1>6, <1>8
  <2>3. ev' \in EventThread /\ polled' \subseteq Fd
    <3>1. ev' = e /\ polled' = polled
      BY <1>2
    <3> QED BY <1>1, <1>4, <3>1 DEF TypeOK
  <2>4. /\ backend' \in Backends /\ open' \subseteq Handle /\ redirector' \in BOOLEAN
        /\ cancelEx' \in BOOLEAN /\ file' \in [Handle -> SUBSET Interface]
        /\ user' \in [Handle -> SUBSET Interface] /\ ends' \subseteq Interface
        /\ io' \in [Transfer -> Request] /\ asked' \subseteq Transfer
        /\ result' \in [Transfer -> {"idle", "flying", "completed", "error", "stall", "cancelled"}]
    BY <1>1, <1>2 DEF TypeOK
  <2> QED BY <2>1, <2>2, <2>3, <2>4, SMTT(30) DEF TypeOK
<1>12. FdInv'
  <2>1. \A j \in Fd \ {k} : fdTable[j] # t
    BY <1>1, <1>3, Constants DEF FdInv
  <2>2. \A j \in Fd : fdTable'[j] # None => tr'[fdTable'[j]].fd = j
    BY <1>1, <1>6, <1>8, <2>1, EventType DEF FdInv
  <2>3. ASSUME NEW u \in Transfer, tr'[u].fd # None PROVE fdTable'[tr'[u].fd] = u
    <3>1. u # t /\ tr'[u] = tr[u]
      BY <1>5, <1>6, <2>3
    <3>2. tr[u].fd \in Fd /\ fdTable[tr[u].fd] = u
      BY <1>1, <2>3, <3>1, TransferType DEF FdInv
    <3> QED BY <1>3, <1>8, <3>1, <3>2
  <2> QED BY <1>1, <1>3, <1>5, <1>6, <1>7, <2>2, <2>3 DEF FdInv
<1>13. EventInv'
  <2>1. \A j \in ev.ready : fdTable'[j] = fdTable[j]
    BY <1>1, <1>3, <1>8, EventType
  <2>2. tr'[t].fd \notin ev.ready
    BY <1>1, <1>5, <1>6, EventType, Constants
  <2> QED BY <1>1, <1>2, <1>3, <1>4, <1>5, <1>6, <1>8, <2>1, <2>2 DEF EventInv, Taken
<1>14. IoInv'
  BY <1>1, <1>2, <1>3, <1>5, <1>6 DEF IoInv
<1>15. AbortInv'
  BY <1>1, <1>2, <1>4 DEF AbortInv, Taken, EndpointsApart, Control
<1>16. BusyInv'
  BY <1>1, <1>2, <1>3, <1>5, <1>6 DEF BusyInv, Control
<1>16a. tr[t].h = h /\ tr[t].via = i
  OBVIOUS
<1> HIDE DEF t, k, h, i
<1>16b. \A g \in Handle \ {h} : api'[g] = api[g] /\ claimed'[g] = claimed[g] /\ auto'[g] = auto[g]
  BY <1>9
<1>16c. PICK a \in [Interface -> Nat] : a = auto[h]
  BY <1>1, <1>10 DEF TypeOK
<1>17. ClaimInv'
  <2>1. CASE api' = api /\ claimed' = claimed /\ auto' = auto
    BY <1>1, <1>2, <2>1, ClaimFrame DEF claims, ClaimInv, WinusbxOpen
  <2>2. CASE /\ backend # "usbdk" /\ Control(t) /\ i \notin user[h]
             /\ api'[h] = api[h] \ {i} /\ claimed'[h] = claimed[h] \ {i}
             /\ auto'[h] = [auto[h] EXCEPT ![i] = 0]
    <3>1. \A g \in open : /\ claimed[g] = user[g] \cup {j \in Interface : auto[g][j] > 0}
                          /\ claimed[g] \subseteq api[g] /\ api[g] \subseteq claimed[g] \cup {0}
                          /\ file[g] = WinusbxOpen
      BY <1>1, <2>2 DEF ClaimInv
    <3>2. \A j \in Interface : auto'[h][j] = IF j = i THEN 0 ELSE auto[h][j]
      <4>1. auto'[h] = [a EXCEPT ![i] = 0]
        BY <1>16c, <2>2
      <4> QED BY <1>16c, <4>1
    <3>3. /\ claimed'[h] = user'[h] \cup {j \in Interface : auto'[h][j] > 0}
          /\ claimed'[h] \subseteq api'[h] /\ api'[h] \subseteq claimed'[h] \cup {0}
      <4>1. user'[h] = user[h] /\ i \notin user[h]
        BY <1>2, <2>2
      <4>2. {j \in Interface : auto'[h][j] > 0} = {j \in Interface : auto[h][j] > 0} \ {i}
        BY <3>2
      <4>3. /\ claimed[h] = user[h] \cup {j \in Interface : auto[h][j] > 0}
            /\ claimed[h] \subseteq api[h] /\ api[h] \subseteq claimed[h] \cup {0}
        BY <1>10, <3>1
      <4>4. api'[h] = api[h] \ {i} /\ claimed'[h] = claimed[h] \ {i}
        BY <2>2
      <4>5. claimed'[h] = user'[h] \cup {j \in Interface : auto'[h][j] > 0}
        BY <4>1, <4>2, <4>3, <4>4
      <4> QED BY <4>3, <4>4, <4>5
    <3>4. ASSUME NEW g \in open, g # h
          PROVE  /\ claimed'[g] = user'[g] \cup {j \in Interface : auto'[g][j] > 0}
                 /\ claimed'[g] \subseteq api'[g] /\ api'[g] \subseteq claimed'[g] \cup {0}
      <4>1. /\ g \in Handle /\ user'[g] = user[g] /\ api'[g] = api[g]
            /\ claimed'[g] = claimed[g] /\ auto'[g] = auto[g]
        BY <1>1, <1>2, <1>16b, <3>4 DEF TypeOK
      <4> QED BY <3>1, <4>1
    <3>5. \A g \in open : file'[g] = WinusbxOpen'
      BY <1>2, <3>1 DEF WinusbxOpen
    <3>6. \A g \in Handle \ open' :
            api'[g] = {} /\ claimed'[g] = {} /\ user'[g] = {} /\ auto'[g] = [j \in Interface |-> 0]
      <4> SUFFICES ASSUME NEW g \in Handle \ open
                   PROVE  /\ api'[g] = {} /\ claimed'[g] = {} /\ user'[g] = {}
                          /\ auto'[g] = [j \in Interface |-> 0]
        BY <1>2
      <4>1. g # h /\ user'[g] = user[g]
        BY <1>2, <1>10
      <4>2. api'[g] = api[g] /\ claimed'[g] = claimed[g] /\ auto'[g] = auto[g]
        BY <1>16b, <4>1
      <4> QED BY <1>1, <4>1, <4>2 DEF ClaimInv
    <3> QED BY <1>2, <2>2, <3>3, <3>4, <3>5, <3>6 DEF ClaimInv
  <2> QED BY <1>9, <2>1, <2>2
<1>18. AutoInv'
  <2>1. CASE backend = "usbdk"
    <3>1. \A g \in Handle : auto'[g] = [j \in Interface |-> 0]
      <4>1. auto' = auto
        BY <1>2, <2>1
      <4> QED BY <1>1, <2>1, <4>1 DEF ClaimInv
    <3>2. \A u \in Transfer : tr'[u].pc # "auto"
      BY <1>1, <1>5, <1>6, <2>1 DEF AutoInv
    <3> QED BY <1>2, <2>1, <3>1, <3>2 DEF AutoInv
  <2>2. CASE backend # "usbdk"
    <3>1. auto'[h][i] = 0 /\ (\A j \in Interface \ {i} : auto'[h][j] = auto[h][j])
      <4>1. \/ auto'[h] = a /\ a[i] = 0
            \/ auto'[h] = [a EXCEPT ![i] = 0]
        BY <1>9, <1>16c, <2>2
      <4> QED BY <1>10, <1>16c, <4>1
    <3>2. ASSUME NEW g \in Handle, NEW j \in Interface, auto'[g][j] > 0
          PROVE  /\ auto'[g][j] = 1 /\ j \notin user'[g]
                 /\ \E u \in Transfer : Control(u) /\ tr'[u].h = g /\ tr'[u].via = j /\ tr'[u].pc \in Chosen
                                        /\ ~Cleared(u)'
      <4>1. auto'[g][j] = auto[g][j] /\ ~(g = h /\ j = i)
        <5>1. ~(g = h /\ j = i)
          BY <3>1, <3>2
        <5>2. CASE g = h
          BY <3>1, <5>1, <5>2
        <5>3. CASE g # h
          BY <1>16b, <5>3
        <5> QED BY <5>1, <5>2, <5>3
      <4>2. /\ auto[g][j] = 1 /\ j \notin user[g]
            /\ \E u \in Transfer : Control(u) /\ tr[u].h = g /\ tr[u].via = j /\ tr[u].pc \in Chosen /\ ~Cleared(u)
        BY <1>1, <3>2, <4>1 DEF AutoInv
      <4>3. PICK u \in Transfer : Control(u) /\ tr[u].h = g /\ tr[u].via = j /\ tr[u].pc \in Chosen /\ ~Cleared(u)
        BY <4>2
      <4>4. u # t
        BY <1>16a, <4>1, <4>3
      <4> QED BY <1>2, <1>6, <1>7, <4>1, <4>2, <4>3, <4>4
    <3>3. ASSUME NEW u \in Transfer, tr'[u].pc = "auto"
          PROVE  /\ Control(u) /\ backend' # "usbdk" /\ 0 \notin user'[tr'[u].h]
                 /\ tr'[u].at > 0 => user'[tr'[u].h] = {}
                 /\ \A j \in Interface : auto'[tr'[u].h][j] = 0
      <4>1. u # t /\ tr'[u] = tr[u] /\ tr[u].pc = "auto" /\ tr[u].h \in Handle
        BY <1>1, <1>5, <1>6, <3>3 DEF BusyInv, TypeOK
      <4>2. /\ Control(u) /\ backend # "usbdk" /\ 0 \notin user[tr[u].h]
            /\ tr[u].at > 0 => user[tr[u].h] = {}
            /\ \A j \in Interface : auto[tr[u].h][j] = 0
        BY <1>1, <4>1 DEF AutoInv
      <4>3. \A j \in Interface : auto'[tr[u].h][j] = 0
        <5>1. CASE tr[u].h = h
          BY <3>1, <4>2, <5>1
        <5>2. CASE tr[u].h # h
          BY <1>16b, <4>1, <4>2, <5>2
        <5> QED BY <5>1, <5>2
      <4> QED BY <1>2, <4>1, <4>2, <4>3
    <3>4. ASSUME NEW u \in Transfer, tr'[u].pc \in Chosen
          PROVE  /\ ~Cleared(u)' => tr'[u].via \in api'[tr'[u].h]
                 /\ ~Control(u) => tr'[u].via = Kind[u]
                 /\ tr'[u].pc = "in_flight" => tr'[u].itf = tr'[u].via
      <4>1. CASE u = t
        <5>1. /\ Cleared(u)' /\ tr'[u].via = tr[u].via /\ tr'[u].itf = tr[u].itf
              /\ tr[u].pc = "in_flight"
          BY <1>3, <1>5, <1>6, <1>7, <1>16a, <4>1
        <5> QED BY <1>1, <2>2, <5>1 DEF AutoInv, Chosen
      <4>2. CASE u # t
        <5>1. /\ tr'[u] = tr[u] /\ tr[u].h \in Handle /\ tr[u].via \in api[tr[u].h]
              /\ ~Control(u) => tr[u].via = Kind[u]
              /\ tr[u].pc = "in_flight" => tr[u].itf = tr[u].via
          BY <1>1, <1>6, <1>7, <2>2, <3>4, <4>2 DEF AutoInv, BusyInv, TypeOK, Chosen
        <5>2. ASSUME tr[u].h = h, Control(t) PROVE tr[u].via \in user[h]
          BY <1>1, <1>3, <1>16a, <3>4, <4>2, <5>1, <5>2 DEF BusyInv, Chosen
        <5>3. tr[u].via \in api'[tr[u].h]
          <6>1. CASE tr[u].h = h
            <7>1. \/ api'[h] = api[h]
                  \/ Control(t) /\ i \notin user[h] /\ api'[h] = api[h] \ {i}
              BY <1>9
            <7> QED BY <5>1, <5>2, <6>1, <7>1
          <6>2. CASE tr[u].h # h
            BY <1>16b, <5>1, <6>2
          <6> QED BY <6>1, <6>2
        <5> QED BY <5>1, <5>3
      <4> QED BY <4>1, <4>2
    <3> QED BY <3>2, <3>3, <3>4 DEF AutoInv, Control
  <2> QED BY <2>1, <2>2
<1> QED BY <1>11, <1>12, <1>13, <1>14, <1>15, <1>16, <1>17, <1>18 DEF IInv

----------------------------------------------------------------------------
(* The theorems.                                                           *)

LEMMA InitStep == Init => IInv
<1> SUFFICES ASSUME Init PROVE IInv
  OBVIOUS
<1>1. \A t \in Transfer : tr[t] = Unused /\ Unused.pc = "idle" /\ Unused.fd = None
  BY DEF Init, Unused
<1>2. ev = Waiting /\ ev.pc = "idle" /\ ev.seen = {} /\ ev.ready = {}
  BY DEF Init, Waiting
<1>3. TypeOK
  <2>1. Unused \in TransferState
    <3>1. 0 \in Interface /\ 0 \in 0..LastInterface + 1
      BY Constants
    <3> QED BY <3>1 DEF Unused, TransferState
  <2>2. backend \in Backends /\ tr \in [Transfer -> TransferState] /\ ev \in EventThread
    BY <1>2, <2>1, WaitingType DEF Init
  <2>3. /\ file \in [Handle -> SUBSET Interface] /\ api \in [Handle -> SUBSET Interface]
        /\ claimed \in [Handle -> SUBSET Interface] /\ user \in [Handle -> SUBSET Interface]
        /\ auto \in [Handle -> [Interface -> Nat]]
    BY DEF Init
  <2> QED BY <2>2, <2>3 DEF Init, TypeOK, Request
<1>4. FdInv /\ EventInv /\ IoInv /\ AbortInv
  BY <1>1, <1>2 DEF Init, FdInv, EventInv, IoInv, AbortInv, Taken, OpenFds, Cleared
<1>5. BusyInv /\ ClaimInv /\ AutoInv
  BY <1>1 DEF Init, BusyInv, ClaimInv, AutoInv, Chosen
<1> QED BY <1>3, <1>4, <1>5 DEF IInv

LEMMA SubmissionsStep ==
    ASSUME IInv, Faults = {}, NEW t \in Transfer, Submission(t)
    PROVE  IInv'
BY CreateFdStep, ChooseInterfaceStep, NoInterfaceStep, AutoClaimStep, AutoClaimFailsStep, StartIoStep,
   StartFailsStep, InFlightStep DEF Submission

LEMMA EventsStep ==
    ASSUME IInv, Faults = {}, Events
    PROVE  IInv'
BY PollStep, CheckPollfdsStep, TakeStep, ClearTransferPrivStep, ReportStep DEF Events

LEMMA StutterStep ==
    ASSUME IInv, UNCHANGED vars
    PROVE  IInv'
<1>1. UNCHANGED <<backend, cancelEx, fdTable, polled, tr, io, asked, result, ev>> /\ UNCHANGED <<open, claims>>
  BY DEF vars
<1>2. FdInv' /\ EventInv' /\ IoInv' /\ AbortInv' /\ \A t \in Transfer : Cleared(t)' <=> Cleared(t)
  BY <1>1, HandleFrame
<1>3. BusyInv' /\ ClaimInv' /\ AutoInv'
  BY <1>1, <1>2, EventFrame
<1>4. TypeOK'
  BY <1>1 DEF IInv, TypeOK, claims
<1> QED BY <1>2, <1>3, <1>4 DEF IInv

\* While nothing of Faults happens, IInv is an inductive invariant: types, who has
\* which descriptor (poll_windows.c), what the event thread works on, what the
\* system holds, and which interfaces are claimed for whom (windows_winusb.c).
THEOREM Invariance == Faults = {} => (Spec => []IInv)
<1> SUFFICES ASSUME Faults = {} PROVE Spec => []IInv
  OBVIOUS
<1>1. IInv /\ [Next]_vars => IInv'
  <2> SUFFICES ASSUME IInv, [Next]_vars PROVE IInv'
    OBVIOUS
  <2>1. CASE UNCHANGED vars
    BY <2>1, StutterStep
  <2>2. CASE \E h \in Handle : OpenHandle(h) \/ CloseHandle(h) \/ Reset(h)
    BY <2>2, OpenHandleStep, CloseHandleStep, ResetStep
  <2>3. CASE \E h \in Handle, i \in Interface : Claim(h, i) \/ Release(h, i) \/ SetAltSetting(h, i)
    BY <2>3, ClaimStep, ReleaseStep, SetAltSettingStep
  <2>4. CASE \E t \in Transfer, h \in Handle : SubmitStart(t, h)
    BY <2>4, SubmitStartStep
  <2>5. CASE \E t \in Transfer : Submission(t) \/ IoEnds(t) \/ Cancel(t)
    BY <2>5, SubmissionsStep, IoEndsStep, CancelStep
  <2>6. CASE Events
    BY <2>6, EventsStep
  <2> QED BY <2>1, <2>2, <2>3, <2>4, <2>5, <2>6 DEF Next
<1> QED BY <1>1, InitStep, PTL DEF Spec

\* The event thread finds each descriptor of its snapshot open and with one owner
\* (usbi_poll, windows_handle_events), however many threads submit meanwhile.
THEOREM DescriptorsAreFound == Faults = {} => (Spec => []DescriptorsFound)
<1> SUFFICES ASSUME Faults = {} PROVE Spec => []DescriptorsFound
  OBVIOUS
<1>1. IInv => DescriptorsFound
  <2> SUFFICES ASSUME IInv PROVE DescriptorsFound
    OBVIOUS
  <2>1. TypeOK /\ FdInv /\ EventInv
    BY DEF IInv
  <2>2. ASSUME NEW k \in ev.ready PROVE Cardinality(Owners(k)) = 1
    <3>1. k \in Fd /\ fdTable[k] \in Transfer
      BY <2>1, <2>2, EventType DEF EventInv
    <3>2. tr[fdTable[k]].fd = k /\ tr[fdTable[k]].pc # "idle"
      BY <2>1, <3>1, Constants DEF FdInv
    <3>3. \A t \in Transfer : tr[t].fd = k => fdTable[k] = t
      BY <2>1, <3>1, Constants DEF FdInv
    <3>4. Owners(k) = {fdTable[k]}
      BY <3>1, <3>2, <3>3 DEF Owners
    <3> QED BY <3>4, FS_Singleton
  <2> QED BY <2>1, <2>2 DEF DescriptorsFound, EventInv, OpenFds, FdInv
<1> QED BY <1>1, Invariance, PTL

\* What the program claimed stays claimed, every request goes through an interface
\* with a WinUSB handle, and auto_release leaves nothing that auto_claim claimed.
THEOREM ClaimsAreBalanced == Faults = {} => (Spec => []ClaimsBalance)
<1> SUFFICES ASSUME Faults = {} PROVE Spec => []ClaimsBalance
  OBVIOUS
<1>1. IInv => ClaimsBalance
  <2> SUFFICES ASSUME IInv PROVE ClaimsBalance
    OBVIOUS
  <2>1. TypeOK /\ IoInv /\ EventInv /\ BusyInv /\ ClaimInv /\ AutoInv
    BY DEF IInv
  <2>2. backend = "usbdk" => (open # {} => redirector)
    BY <2>1, Zenon DEF ClaimInv
  <2>3. ClaimsHeld
    <3>1. ASSUME backend # "usbdk", NEW h \in open PROVE user[h] \subseteq claimed[h] \cap api[h]
      BY <2>1, <3>1 DEF ClaimInv
    <3>2. ASSUME backend # "usbdk", NEW t \in Transfer, io[t] = "pending"
          PROVE  tr[t].via \in claimed[tr[t].h] \cup {0} /\ tr[t].via \in api[tr[t].h]
      <4>1. tr[t].pc \in Chosen /\ ~Cleared(t) /\ tr[t].h \in open
        BY <2>1, <3>2 DEF IoInv, EventInv, Cleared, Taken, BusyInv, Chosen
      <4> QED BY <2>1, <3>2, <4>1 DEF AutoInv, ClaimInv
    <3> QED BY <2>2, <3>1, <3>2, Zenon DEF ClaimsHeld
  <2>4. AutoClaimsBalance
    <3> SUFFICES ASSUME NEW h \in Handle, Busy(h) = {}, NEW i \in Interface
                 PROVE  auto[h][i] = 0 /\ (h \in open => (i \in claimed[h] <=> i \in user[h]))
      BY DEF AutoClaimsBalance
    <3>1. \A t \in Transfer : tr[t].h = h => tr[t].pc = "idle"
      BY DEF Busy
    <3>2. ~(auto[h][i] > 0)
      BY <2>1, <3>1 DEF AutoInv, Chosen
    <3>3. auto[h][i] \in Nat
      BY <2>1 DEF TypeOK
    <3> QED BY <2>1, <3>2, <3>3 DEF ClaimInv
  <2> QED BY <2>3, <2>4 DEF ClaimsBalance
<1> QED BY <1>1, Invariance, PTL

\* What a step may do to the outcome of a transfer: nothing, let it fly, or end it
\* when the system has no request for it.
Keeps == result' = result /\ asked \subseteq asked'
Launches(t) ==
    /\ result[t] # "flying" /\ io[t] = "none"
    /\ result' = [result EXCEPT ![t] = "flying"] /\ io' = io /\ asked' = asked \ {t}
Ends(t, s) ==
    /\ result[t] = "flying" /\ io[t] = "none"
    /\ result' = [result EXCEPT ![t] = s] /\ io' = io /\ asked' = asked
    /\ s = "cancelled" /\ EndpointsApart => t \in asked
Outcomes == {"completed", "error", "stall", "cancelled", "idle"}

LEMMA RefusalEnds ==
    ASSUME IInv, NEW t \in Transfer, SubmitFails(t) \/ Refused(t), UNCHANGED <<io, asked>>,
           tr[t].pc \in {"listed", "choose", "auto", "start"}
    PROVE  Ends(t, "idle")
<1>1. result' = [result EXCEPT ![t] = "idle"]
  BY DEF SubmitFails, Refused
<1>2. result[t] = "flying" /\ io[t] = "none"
  BY DEF IInv, IoInv
<1> QED BY <1>1, <1>2 DEF Ends

LEMMA OutcomeStep ==
    ASSUME IInv, [Next]_vars
    PROVE  Keeps \/ (\E t \in Transfer : Launches(t)) \/ (\E t \in Transfer, s \in Outcomes : Ends(t, s))
<1>1. CASE UNCHANGED vars
  BY <1>1 DEF vars, Keeps
<1>2. ASSUME NEW h \in Handle, OpenHandle(h) \/ CloseHandle(h) \/ Reset(h) PROVE Keeps
  BY <1>2 DEF OpenHandle, CloseHandle, Reset, Unchanged, Keeps
<1>3. ASSUME NEW h \in Handle, NEW i \in Interface, Claim(h, i) \/ Release(h, i) \/ SetAltSetting(h, i)
      PROVE  Keeps
  BY <1>3 DEF Claim, Release, SetAltSetting, Unchanged, Keeps
<1>4. ASSUME NEW t \in Transfer, NEW h \in Handle, SubmitStart(t, h) PROVE Launches(t)
  BY <1>4 DEF SubmitStart, Launches, IInv, IoInv
<1>5. ASSUME NEW t \in Transfer, IoEnds(t) \/ Cancel(t) PROVE Keeps
  BY <1>5 DEF IoEnds, Cancel, Keeps
<1>6. ASSUME NEW t \in Transfer, Submission(t) PROVE Keeps \/ Ends(t, "idle")
  <2>1. CASE CreateFd(t)
    <3>1. tr[t].pc = "listed" /\ UNCHANGED <<io, asked>> /\ (Refused(t) \/ result' = result)
      BY <2>1 DEF CreateFd
    <3> QED BY <3>1, RefusalEnds DEF Keeps
  <2>2. CASE ChooseInterface(t) \/ AutoClaim(t) \/ StartIo(t) \/ InFlight(t)
    BY <2>2 DEF ChooseInterface, AutoClaim, StartIo, InFlight, Keeps
  <2>3. CASE NoInterface(t)
    BY <2>3, RefusalEnds DEF NoInterface
  <2>4. CASE AutoClaimFails(t) \/ StartFails(t)
    <3>1. tr[t].pc \in {"auto", "start"} /\ UNCHANGED <<io, asked>> /\ FailsOrRetries(t)
      BY <2>4 DEF AutoClaimFails, StartFails
    <3>2. SubmitFails(t) \/ result' = result
      BY <3>1 DEF FailsOrRetries
    <3> QED BY <3>1, <3>2, RefusalEnds DEF Keeps
  <2> QED BY <1>6, <2>1, <2>2, <2>3, <2>4 DEF Submission
<1>7. CASE Events
  <2>1. CASE Poll \/ CheckPollfds \/ (\E k \in Fd : Take(k)) \/ ClearTransferPriv
    BY <2>1 DEF Poll, CheckPollfds, Take, ClearTransferPriv, NotEvents, Keeps
  <2>2. CASE Report
    <3> DEFINE t == ev.cur  s == Status[ev.res]
    <3>1. /\ t \in Transfer /\ io[t] = "none" /\ result[t] = "flying"
          /\ EndpointsApart /\ ev.res = "aborted" => t \in asked
      BY <2>2 DEF Report, IInv, EventInv, IoInv, AbortInv, Taken
    <3>2. ev.res \in {"none", "pending", "ok", "failed", "aborted", "stalled"}
      BY DEF IInv, TypeOK, EventThread, Request
    <3>3. /\ Status["none"] = "error" /\ Status["pending"] = "error" /\ Status["ok"] = "completed"
          /\ Status["failed"] = "error" /\ Status["aborted"] = "cancelled" /\ Status["stalled"] = "stall"
      BY DEF Status
    <3>4. s \in Outcomes /\ (s = "cancelled" => ev.res = "aborted")
      BY <3>2, <3>3 DEF Outcomes
    <3>5. result' = [result EXCEPT ![t] = s] /\ UNCHANGED <<io, asked>>
      BY <2>2 DEF Report, NotEvents
    <3> HIDE DEF t, s
    <3>6. Ends(t, s)
      BY <3>1, <3>4, <3>5 DEF Ends
    <3> QED BY <3>1, <3>4, <3>6
  <2> QED BY <1>7, <2>1, <2>2 DEF Events
<1>8. "idle" \in Outcomes
  BY DEF Outcomes
<1> QED BY <1>1, <1>2, <1>3, <1>4, <1>5, <1>6, <1>7, <1>8 DEF Next

\* A transfer whose end nobody asked for is not reported as cancelled, if no other
\* shares its endpoint: CancelIoEx and AbortPipe reach no further.
THEOREM OnlyTheAskedAreCancelled == Faults = {} /\ EndpointsApart => (Spec => []OthersGoOn)
<1> SUFFICES ASSUME Faults = {}, EndpointsApart PROVE Spec => []OthersGoOn
  OBVIOUS
<1>1. Init => OthersGoOn
  BY DEF Init, OthersGoOn
<1>2. OthersGoOn /\ IInv /\ [Next]_vars => OthersGoOn'
  <2> SUFFICES ASSUME OthersGoOn, IInv, [Next]_vars PROVE OthersGoOn'
    OBVIOUS
  <2>1. \A t \in Transfer : result[t] = "cancelled" => t \in asked
    BY DEF OthersGoOn
  <2>2. result \in [Transfer -> {"idle", "flying", "completed", "error", "stall", "cancelled"}]
    BY DEF IInv, TypeOK
  <2>3. CASE Keeps
    BY <2>1, <2>3 DEF Keeps, OthersGoOn
  <2>4. ASSUME NEW t \in Transfer, Launches(t) PROVE OthersGoOn'
    <3>1. result'[t] = "flying" /\ \A u \in Transfer \ {t} : result'[u] = result[u]
      BY <2>2, <2>4 DEF Launches
    <3> QED BY <2>1, <2>4, <3>1 DEF Launches, OthersGoOn
  <2>5. ASSUME NEW t \in Transfer, NEW s \in Outcomes, Ends(t, s) PROVE OthersGoOn'
    <3>1. result'[t] = s /\ \A u \in Transfer \ {t} : result'[u] = result[u]
      BY <2>2, <2>5 DEF Ends
    <3> QED BY <2>1, <2>5, <3>1 DEF Ends, OthersGoOn
  <2> QED BY <2>3, <2>4, <2>5, OutcomeStep
<1> QED BY <1>1, <1>2, Invariance, PTL DEF Spec

\* The Windows backends implement TransferBackend, what io.c relies on: a transfer
\* that was accepted is reported once, when no driver has its buffer any more.
THEOREM BackendImplemented == Faults = {} => (Spec => ImplementsBackend)
<1> SUFFICES ASSUME Faults = {} PROVE Spec => ImplementsBackend
  OBVIOUS
<1> DEFINE held == Pending(Transfer)
<1>1. Init => Backend!Init
  BY DEF Init, Backend!Init, Pending
<1>2. IInv /\ IInv' /\ [Next]_vars => [Backend!Next]_<<result, held>>
  <2> SUFFICES ASSUME IInv, IInv', [Next]_vars PROVE Backend!Next
    OBVIOUS
  <2>1. held' \subseteq {x \in Transfer : result'[x] = "flying"}
    BY DEF IInv, IoInv, Pending
  <2>2. CASE Keeps
    <3>1. Backend!Exchange
      BY <2>1, <2>2 DEF Keeps, Backend!Exchange
    <3> QED BY <3>1 DEF Backend!Next
  <2>3. ASSUME NEW t \in Transfer, Launches(t) PROVE Backend!Next
    <3>1. t \notin held /\ held' = held
      BY <2>3 DEF Launches, Pending
    <3>2. Backend!Submit(t)
      BY <2>3, <3>1 DEF Launches, Backend!Submit
    <3> QED BY <3>2 DEF Backend!Next
  <2>4. ASSUME NEW t \in Transfer, NEW s \in Outcomes, Ends(t, s) PROVE Backend!Next
    <3>1. held' = held \ {t}
      BY <2>4 DEF Ends, Pending
    <3>2. Backend!End(t)
      BY <2>4, <3>1 DEF Ends, Outcomes, Backend!End
    <3> QED BY <3>2 DEF Backend!Next
  <2> QED BY <2>2, <2>3, <2>4, OutcomeStep
<1> QED BY <1>1, <1>2, Invariance, PTL DEF Spec, ImplementsBackend, Backend!Spec
====
