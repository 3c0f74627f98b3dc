------------------------- MODULE UnixBackendsProofs -------------------------
(***************************************************************************)
(* Proofs about the macOS and BSD backends (UnixBackends.tla), for any     *)
(* number of handles, transfers, interfaces and descriptors, while nothing *)
(* named in Faults happens.                                                *)
(***************************************************************************)
EXTENDS UnixBackends, FiniteSetTheorems, WellFoundedInduction, TLAPS

----------------------------------------------------------------------------
(* The inductive invariant.                                                *)

\* macOS: the handles are counted, and the first has the event source until the
\* last is closed. BSD: there is one handle.
OpenInv ==
    /\ \A h \in Handle : h \notin open => claimed[h] = {}
    /\ Darwin =>
        /\ IsFiniteSet(open) /\ count = Cardinality(open)
        /\ isOpen \subseteq source
        /\ open = {} => source = {}
        /\ open # {} => \E h \in open : source = {h}
    /\ ~Darwin =>
        /\ \A g, h \in open : g = h
        /\ count = 0 /\ isOpen = {} /\ source = {}
        /\ \A i \in Interface : owner[i] = None

\* The settings and the configuration are what the program and the backend hold
\* them to be.
ConfigInv == told = alt /\ active = config

\* macOS: a handle has the interfaces that it has claimed, and no others.
OwnerInv ==
    /\ harm = {}
    /\ Darwin => \A h \in Handle :
        /\ claimed[h] \subseteq Has[config]
        /\ \A i \in Interface : /\ i \in claimed[h] <=> owner[i] = h
                                /\ itf[h][i] = IF i \in claimed[h] THEN "ready" ELSE "none"

\* BSD: the files that are open are the device's and those of endpoints of the
\* interface that is claimed, where they are looked for.
FileInv ==
    /\ file[0] = Stdin
    /\ Darwin => \A k \in Fd \ {0} : file[k] = NoFile
    /\ backend # "openbsd" => ugen
    /\ ~Darwin =>
        /\ open # {} /\ ugen <=> fd # -1
        /\ fd # -1 => fd # 0 /\ \A h \in open : file[fd] = DeviceFile(h)
        /\ \A h \in open : \A i, j \in claimed[h] : i = j
        /\ \A k \in Fd \ {0} : file[k] # NoFile /\ k # fd =>
              \E h \in open : \E i \in claimed[h] : endpoints[h][i] = k
        /\ \A h \in open, i \in Interface : claimed[h] # {} /\ endpoints[h][i] # -1 =>
              i \in claimed[h] /\ file[endpoints[h][i]] = EndpointFile(h, i)

\* A transfer is one of an open handle and of a claimed interface.
BusyInv ==
    /\ \A t \in Transfer : tr[t].pc # "idle" =>
        /\ tr[t].h \in open
        /\ ~Control(t) => Kind[t].itf \in claimed[tr[t].h]
        /\ Darwin => Kind[t].type # "stream" /\ ~(Control(t) /\ Kind[t].zero)
    /\ ~Darwin => \A t, u \in Transfer :
        tr[t].pc # "idle" /\ tr[u].pc # "idle" /\ Kind[t].itf = Kind[u].itf => t = u

\* The system has a request only for a transfer that is flying.
IoInv ==
    /\ \A t \in Transfer : tr[t].pc # "idle" <=> result[t] = "flying"
    /\ \A t \in Transfer : tr[t].pc \in {"idle", "listed", "timeout"} => io[t] = "none"
    /\ Darwin => \A t \in Transfer : tr[t].pc \notin {"timeout", "request"}
    /\ ~Darwin => \A t \in Transfer : tr[t].pc # "started" /\ (io[t] = "pending" => tr[t].pc = "request")

\* BSD: a request is made of the transfer's own file, with its own timeout.
FileOf(t) == IF Control(t) THEN DeviceFile(tr[t].h) ELSE EndpointFile(tr[t].h, Kind[t].itf)

RequestInv ==
    /\ \A t \in Transfer : tr[t].pc = "timeout" => ugen
    /\ \A t \in Transfer : tr[t].pc \in {"timeout", "request"} /\ ugen =>
        /\ tr[t].fd # -1 /\ file[tr[t].fd] = FileOf(t)
        /\ tr[t].pc = "request" => limit[tr[t].fd] = t

IInv == TypeOK /\ OpenInv /\ ConfigInv /\ OwnerInv /\ FileInv /\ BusyInv /\ IoInv /\ RequestInv

----------------------------------------------------------------------------
(* What the definitions of the model come to.                              *)

LEMMA Constants ==
    /\ LastInterface \in Nat /\ 0 \in Interface /\ Interface \subseteq Int
    /\ 0 \in Fd /\ Fd \subseteq Nat /\ -1 \notin Fd
    /\ \A t \in Transfer : Kind[t].itf \in -1..LastInterface /\ Kind[t].type \in Types
                           /\ Kind[t].out \in BOOLEAN /\ Kind[t].zero \in BOOLEAN
                           /\ (~Control(t) => Kind[t].itf \in Interface)
                           /\ (Control(t) <=> Kind[t].itf = -1)
    /\ None \notin Handle /\ None \notin Transfer
    /\ \A c \in 0..2 : Has[c] \subseteq Interface
    /\ Has[0] = {} /\ Has[1] # {}
    /\ Backends \subseteq {"darwin", "openbsd", "netbsd"}
<1>1. LastInterface \in Nat /\ 0 \in Interface /\ Interface \subseteq Int
      /\ 0 \in Fd /\ Fd \subseteq Nat /\ -1 \notin Fd
  BY ConstantsAssumption DEF ConstantsAssumption, Interface, Fd
<1>2. ASSUME NEW t \in Transfer
      PROVE  /\ Kind[t].itf \in -1..LastInterface /\ Kind[t].type \in Types
             /\ Kind[t].out \in BOOLEAN /\ Kind[t].zero \in BOOLEAN
             /\ (Control(t) <=> Kind[t].itf = -1)
  BY ConstantsAssumption DEF ConstantsAssumption, Control
<1>3. ASSUME NEW t \in Transfer PROVE ~Control(t) => Kind[t].itf \in Interface
  BY <1>1, <1>2 DEF Interface
<1> QED BY <1>1, <1>2, <1>3, ConstantsAssumption DEF ConstantsAssumption

\* The fields of a transfer.
LEMMA TransferType ==
    ASSUME TypeOK, NEW t \in Transfer
    PROVE  /\ tr[t] \in TransferState
           /\ tr[t].h \in Handle \cup {None} /\ tr[t].fd \in Fd \cup {-1}
           /\ io[t] \in Requests
BY DEF TypeOK, TransferState

\* An updated transfer.
LEMMA SetTransfer ==
    ASSUME TypeOK, NEW t \in Transfer, NEW r \in TransferState, SetTr(t, r)
    PROVE  /\ tr' \in [Transfer -> TransferState]
           /\ tr'[t] = r
           /\ \A u \in Transfer \ {t} : tr'[u] = tr[u]
BY DEF TypeOK, SetTr

\* A set of natural numbers has a least one, so the CHOOSEs of the model do.
LEMMA Least ==
    ASSUME NEW S, S \subseteq Nat, S # {}
    PROVE  \E x \in S : \A y \in S : x <= y
<1> DEFINE R == {ss \in Nat \X Nat : ss[1] < ss[2]}
<1>1. IsWellFoundedOn(R, Nat)
  BY NatLessThanWellFounded DEF OpToRel
<1>2. \E x \in S : \A y \in S : <<y, x>> \notin R
  <2> HIDE DEF R
  <2> QED BY <1>1, WFMin
<1>3. PICK x \in S : \A y \in S : <<y, x>> \notin R
  BY <1>2
<1>4. ASSUME NEW y \in S PROVE x <= y
  <2>1. x \in Nat /\ y \in Nat /\ <<y, x>> \notin R
    BY <1>3
  <2>2. ~(y < x)
    BY <2>1
  <2> QED BY <2>1, <2>2
<1> QED BY <1>4

\* The first free descriptor is one, and free: it is not the one of the terminal.
LEMMA FirstFreeIsFree ==
    ASSUME FreeFds # {}, file[0] = Stdin
    PROVE  FirstFree \in Fd \ {0} /\ file[FirstFree] = NoFile
<1>1. FreeFds \subseteq Nat
  BY Constants DEF FreeFds
<1>2. FirstFree \in FreeFds
  <2> HIDE DEF FreeFds
  <2> QED BY <1>1, Least DEF FirstFree
<1>3. Stdin # NoFile
  BY DEF Stdin, NoFile, File
<1> QED BY <1>2, <1>3 DEF FreeFds

\* Files of different kinds, handles and interfaces are different ones.
LEMMA Files ==
    ASSUME NEW g, NEW h, NEW i, NEW j
    PROVE  /\ Stdin # NoFile /\ DeviceFile(h) # NoFile /\ EndpointFile(h, i) # NoFile
           /\ DeviceFile(h) # Stdin /\ EndpointFile(h, i) # Stdin
           /\ DeviceFile(g) # EndpointFile(h, i)
           /\ DeviceFile(g) = DeviceFile(h) => g = h
           /\ EndpointFile(g, j) = EndpointFile(h, i) => g = h /\ i = j
BY DEF Stdin, NoFile, DeviceFile, EndpointFile, File

LEMMA FileType ==
    ASSUME NEW h \in Handle \cup {None}, NEW i \in -1..LastInterface
    PROVE  {Stdin, NoFile, DeviceFile(h), EndpointFile(h, i)} \subseteq FileState
<1>1. -1 \in -1..LastInterface /\ None \in Handle \cup {None}
  BY Constants
<1> QED BY <1>1 DEF Stdin, NoFile, DeviceFile, EndpointFile, File, FileState

\* Each backend is Darwin's or one of the BSDs'.
LEMMA BackendIs ==
    ASSUME TypeOK
    PROVE  Darwin \/ backend = "openbsd" \/ backend = "netbsd"
BY Constants DEF TypeOK, Darwin

----------------------------------------------------------------------------
(* Handles, settings and configurations.                                   *)

\* What leaves the transfers alone, and the files of the claimed endpoints.
LEMMA TransferFrame ==
    ASSUME IInv, UNCHANGED <<backend, ugen, tr, io, asked, result>>
    PROVE  IoInv'
BY DEF IInv, IoInv, Darwin

LEMMA RequestFrame ==
    ASSUME IInv, UNCHANGED <<backend, ugen, tr, io, asked, result, limit, file>>
    PROVE  RequestInv'
BY DEF IInv, RequestInv, FileOf, Control

\* macOS makes none of the requests that RequestInv is about.
LEMMA RequestsOfTheBsds ==
    ASSUME UNCHANGED tr, \A t \in Transfer : tr[t].pc \notin {"timeout", "request"}
    PROVE  RequestInv'
BY DEF RequestInv

LEMMA OpenHandleStep ==
    ASSUME IInv, Faults = {}, NEW h \in Handle, OpenHandle(h)
    PROVE  IInv'
<1> USE DEF IInv
<1>1. UNCHANGED <<backend, ugen, claimed, alt, told, config, active, limit, itf, freed, owner, harm,
                  tr, io, asked, result>> /\ h \notin open
  BY DEF OpenHandle, transfers, settings
<1>2. ConfigInv' /\ OwnerInv' /\ IoInv'
  BY <1>1, TransferFrame DEF ConfigInv, OwnerInv, Darwin
<1>3. CASE Darwin
  <2>1. /\ UNCHANGED <<fd, file, endpoints>>
        /\ \/ count' = count + 1 /\ open' = open \cup {h}
              /\ \/ count > 0 /\ UNCHANGED <<isOpen, source>>
                 \/ ~(count > 0) /\ source' = source \cup {h} /\ (isOpen' = isOpen \/ isOpen' = isOpen \cup {h})
           \/ UNCHANGED <<count, open, isOpen, source>>
    <3>1. PICK r \in DarwinOpen(h) :
            /\ isOpen' = r.isOpen /\ source' = r.source
            /\ count' = IF r.ok THEN count + 1 ELSE count
            /\ open' = IF r.ok THEN open \cup {h} ELSE open
            /\ UNCHANGED <<fd, file, endpoints>>
      BY <1>3 DEF OpenHandle
    <3>2. CASE count > 0
      BY <3>1, <3>2 DEF DarwinOpen
    <3>3. CASE ~(count > 0)
      <4>1. \/ \E s \in {{}, {h}} : r = [ok |-> TRUE, isOpen |-> isOpen \cup s, source |-> source \cup {h}]
            \/ r = [ok |-> FALSE, isOpen |-> isOpen, source |-> source]
        BY <3>1, <3>3 DEF DarwinOpen
      <4>2. CASE r = [ok |-> FALSE, isOpen |-> isOpen, source |-> source]
        BY <3>1, <4>2
      <4>3. ASSUME NEW s \in {{}, {h}}, r = [ok |-> TRUE, isOpen |-> isOpen \cup s, source |-> source \cup {h}]
            PROVE  /\ count' = count + 1 /\ open' = open \cup {h} /\ source' = source \cup {h}
                   /\ isOpen' = isOpen \/ isOpen' = isOpen \cup {h}
        BY <3>1, <4>3
      <4> QED BY <3>1, <3>3, <4>1, <4>2, <4>3
    <3> QED BY <3>2, <3>3
  <2>2. TypeOK'
    BY <1>1, <2>1 DEF TypeOK
  <2>3. OpenInv'
    <3>1. IsFiniteSet(open) /\ count = Cardinality(open)
      BY <1>3 DEF OpenInv
    <3>2. IsFiniteSet(open \cup {h}) /\ Cardinality(open \cup {h}) = Cardinality(open) + 1
      BY <1>1, <3>1, FS_AddElement
    <3>3. count > 0 <=> open # {}
      <4>1. Cardinality(open) \in Nat /\ (Cardinality(open) = 0 <=> open = {})
        BY <3>1, FS_EmptySet, FS_CardinalityType
      <4> QED BY <3>1, <4>1
    <3>4. IsFiniteSet(open') /\ count' = Cardinality(open')
      BY <2>1, <3>1, <3>2
    <3>5. isOpen' \subseteq source' /\ (open' = {} => source' = {})
          /\ (open' # {} => \E g \in open' : source' = {g})
      BY <1>3, <2>1, <3>3 DEF OpenInv
    <3> QED BY <1>1, <1>3, <2>1, <3>4, <3>5 DEF OpenInv, Darwin
  <2>4. FileInv'
    BY <1>1, <1>3, <2>1 DEF FileInv, Darwin
  <2>5. BusyInv' /\ RequestInv'
    BY <1>1, <1>3, <2>1, RequestsOfTheBsds DEF BusyInv, IoInv, Control, Darwin
  <2> QED BY <1>2, <2>2, <2>3, <2>4, <2>5
<1>4. CASE ~Darwin
  <2>1. /\ open = {} /\ FreeFds # {} /\ open' = {h}
        /\ endpoints' = [endpoints EXCEPT ![h] = [i \in Interface |-> 0]]
        /\ UNCHANGED <<count, isOpen, source>>
    BY <1>4 DEF OpenHandle
  <2>2. \/ ugen /\ fd' = FirstFree /\ file' = [file EXCEPT ![FirstFree] = DeviceFile(h)]
        \/ ~ugen /\ UNCHANGED <<fd, file>>
    BY <1>4, BackendIs DEF OpenHandle, ObsdOpen, NetbsdOpen, FileInv
  <2>3. FirstFree \in Fd \ {0} /\ file[FirstFree] = NoFile
    BY <2>1, FirstFreeIsFree DEF FileInv
  <2>4. TypeOK'
    <3>1. file' \in [Fd -> FileState] /\ fd' \in Fd \cup {-1}
      <4>1. file \in [Fd -> FileState] /\ fd \in Fd \cup {-1}
        BY DEF TypeOK
      <4>2. DeviceFile(h) \in FileState
        BY FileType, Constants
      <4>3. CASE ugen /\ fd' = FirstFree /\ file' = [file EXCEPT ![FirstFree] = DeviceFile(h)]
        BY <2>3, <4>1, <4>2, <4>3
      <4> QED BY <2>2, <4>1, <4>3
    <3>2. endpoints' \in [Handle -> [Interface -> Fd \cup {-1}]]
      BY <2>1, Constants DEF TypeOK
    <3> QED BY <1>1, <2>1, <3>1, <3>2 DEF TypeOK
  <2>5. OpenInv'
    BY <1>1, <1>4, <2>1 DEF OpenInv, Darwin
  <2>6. fd = -1 /\ \A k \in Fd \ {0} : file[k] = NoFile
    BY <1>4, <2>1, Constants DEF FileInv, TypeOK
  <2>7. claimed'[h] = {}
    BY <1>1 DEF OpenInv
  <2>8. FileInv'
    <3>1. CASE ugen
      <4>1. fd' = FirstFree /\ file'[FirstFree] = DeviceFile(h) /\ FirstFree # -1
            /\ \A k \in Fd \ {FirstFree} : file'[k] = file[k]
        BY <2>2, <2>3, <3>1, Constants DEF TypeOK
      <4>2. file'[0] = Stdin
        BY <2>3, <4>1, Constants DEF FileInv
      <4>3. (open' # {} /\ ugen' <=> fd' # -1) /\ fd' # 0 /\ \A g \in open' : file'[fd'] = DeviceFile(g)
        BY <1>1, <2>1, <2>3, <3>1, <4>1
      <4>4. \A k \in Fd \ {0} : file'[k] # NoFile => k = fd'
        BY <2>6, <4>1
      <4> QED BY <1>1, <1>4, <2>1, <2>7, <4>2, <4>3, <4>4 DEF FileInv, Darwin
    <3>2. CASE ~ugen
      BY <1>1, <1>4, <2>1, <2>2, <2>6, <2>7, <3>2 DEF FileInv, Darwin
    <3> QED BY <3>1, <3>2
  <2>9. BusyInv' /\ RequestInv'
    <3>1. \A t \in Transfer : tr[t].pc = "idle"
      BY <2>1 DEF BusyInv
    <3> QED BY <1>1, <3>1, RequestsOfTheBsds DEF BusyInv
  <2> QED BY <1>2, <2>4, <2>5, <2>8, <2>9
<1> QED BY <1>3, <1>4

\* A handle's objects are its claims, and each is ready.
LEMMA NothingFreedTwice ==
    ASSUME IInv, Darwin, NEW h \in Handle, NEW S, S \subseteq Interface
    PROVE  Twice(h, S) = {} /\ Objects(h, S) = S \cap claimed[h]
           /\ Disowned(h, S) = [i \in Interface |-> IF i \in S /\ owner[i] = h THEN None ELSE owner[i]]
<1>1. \A i \in Interface : /\ i \in claimed[h] <=> owner[i] = h
                           /\ itf[h][i] = IF i \in claimed[h] THEN "ready" ELSE "none"
  BY DEF IInv, OwnerInv
<1>2. \A i \in S : itf[h][i] # "object" /\ (itf[h][i] # "none" <=> i \in claimed[h])
  BY <1>1
<1> QED BY <1>1, <1>2 DEF Twice, Objects, Disowned

LEMMA CloseHandleStep ==
    ASSUME IInv, Faults = {}, NEW h \in Handle, CloseHandle(h)
    PROVE  IInv'
<1> USE DEF IInv
<1>1. /\ UNCHANGED <<backend, ugen, alt, told, config, active, limit, endpoints, tr, io, asked, result>>
      /\ h \in open /\ open' = open \ {h} /\ claimed' = [claimed EXCEPT ![h] = {}]
      /\ \A t \in Transfer : tr[t].pc # "idle" => tr[t].h # h
  BY DEF CloseHandle, transfers, settings, Busy
<1>2. claimed'[h] = {} /\ \A g \in Handle \ {h} : claimed'[g] = claimed[g]
  BY <1>1 DEF TypeOK
<1>3. ConfigInv' /\ IoInv'
  BY <1>1, TransferFrame DEF ConfigInv
<1>4. BusyInv'
  <2>1. \A t \in Transfer : tr[t].pc # "idle" => tr[t].h \in open \ {h} /\ claimed'[tr[t].h] = claimed[tr[t].h]
    BY <1>1, <1>2 DEF BusyInv, TypeOK
  <2> QED BY <1>1, <2>1 DEF BusyInv, Control, Darwin
<1>5. CASE Darwin
  <2>1. /\ UNCHANGED <<fd, file>> /\ (count = 1 \/ h \notin source)
        /\ count' = count - 1
        /\ itf' = [itf EXCEPT ![h] = [i \in Interface |-> "none"]]
        /\ owner' = Disowned(h, claimed[h])
        /\ freed' = [freed EXCEPT ![h] = {}]
        /\ IF count = 1 THEN source' = source \ {h} /\ isOpen' = isOpen \ {h}
                        ELSE UNCHANGED <<source, isOpen>>
        /\ harm' = harm \cup Twice(h, claimed[h]) \cup
               IF h \in source' \/ Objects(h, Interface \ claimed[h]) # {} THEN {"leak"} ELSE {}
    BY <1>5 DEF CloseHandle, DarwinClose, LastCloses
  <2>2. claimed[h] \subseteq Interface
    BY DEF TypeOK
  <2>3. Twice(h, claimed[h]) = {} /\ Objects(h, Interface \ claimed[h]) = {}
        /\ Disowned(h, claimed[h]) = [i \in Interface |-> IF i \in claimed[h] /\ owner[i] = h THEN None ELSE owner[i]]
    BY <1>5, <2>2, NothingFreedTwice
  <2>4. h \notin source'
    BY <2>1
  <2>5. harm' = {}
    BY <2>1, <2>3, <2>4 DEF OwnerInv
  <2>6. \A i \in Interface : owner'[i] = IF i \in claimed[h] THEN None ELSE owner[i]
    BY <1>5, <2>1, <2>3 DEF OwnerInv
  <2>7. IsFiniteSet(open) /\ count = Cardinality(open) /\ count \in Nat
    BY <1>5 DEF OpenInv, TypeOK
  <2>8. IsFiniteSet(open') /\ count' = Cardinality(open')
    BY <1>1, <2>1, <2>7, FS_RemoveElement
  <2>9. count # 0
    BY <1>1, <2>7, FS_EmptySet
  <2>10. TypeOK'
    <3>1. count' \in Nat
      BY <2>1, <2>7, <2>9
    <3>2. owner' \in [Interface -> Handle \cup {None}]
      BY <2>1, <2>3 DEF TypeOK
    <3>3. itf' \in [Handle -> [Interface -> {"none", "object", "ready"}]] /\ freed' \in [Handle -> SUBSET Interface]
          /\ claimed' \in [Handle -> SUBSET Interface]
      BY <1>1, <2>1 DEF TypeOK
    <3>4. open' \subseteq Handle /\ isOpen' \subseteq Handle /\ source' \subseteq Handle
      BY <1>1, <2>1 DEF TypeOK
    <3>5. UNCHANGED <<fd, file>>
      BY <2>1
    <3> QED BY <1>1, <2>5, <3>1, <3>2, <3>3, <3>4, <3>5 DEF TypeOK
  <2>11. OpenInv'
    <3>1. isOpen' \subseteq source'
      BY <1>5, <2>1 DEF OpenInv
    <3>2. open' = {} => source' = {}
      <4>1. PICK g \in open : source = {g}
        BY <1>1, <1>5 DEF OpenInv
      <4>2. open' = {} => g = h /\ count = 1
        BY <1>1, <2>7, FS_Singleton
      <4> QED BY <2>1, <4>1, <4>2
    <3>3. open' # {} => \E g \in open' : source' = {g}
      <4>1. PICK g \in open : source = {g}
        BY <1>1, <1>5 DEF OpenInv
      <4>2. count = 1 => open' = {}
        <5>1. count = 1 => \E x : open = {x}
          BY <2>7, FS_Singleton
        <5> QED BY <1>1, <5>1
      <4> QED BY <1>1, <2>1, <4>1, <4>2
    <3> QED BY <1>1, <1>2, <1>5, <2>8, <3>1, <3>2, <3>3 DEF OpenInv, Darwin
  <2>12. OwnerInv'
    <3>1. ASSUME NEW g \in Handle, NEW i \in Interface
          PROVE  /\ i \in claimed'[g] <=> owner'[i] = g
                 /\ itf'[g][i] = IF i \in claimed'[g] THEN "ready" ELSE "none"
      <4>1. CASE g = h
        BY <1>2, <1>5, <2>1, <2>6, <4>1, Constants DEF OwnerInv, TypeOK
      <4>2. CASE g # h
        BY <1>2, <1>5, <2>1, <2>6, <4>2, Constants DEF OwnerInv, TypeOK
      <4> QED BY <4>1, <4>2
    <3>2. \A g \in Handle : claimed'[g] \subseteq Has[config']
      BY <1>1, <1>2, <1>5 DEF OwnerInv
    <3> QED BY <2>5, <3>1, <3>2 DEF OwnerInv
  <2>13. FileInv' /\ RequestInv'
    <3>1. \A t \in Transfer : tr[t].pc \notin {"timeout", "request"}
      BY <1>5 DEF IoInv
    <3>2. UNCHANGED <<fd, file>>
      BY <2>1
    <3> QED BY <1>1, <1>5, <3>1, <3>2, RequestsOfTheBsds DEF FileInv, Darwin
  <2> QED BY <1>3, <1>4, <2>10, <2>11, <2>12, <2>13
<1>6. CASE ~Darwin
  <2>1. /\ UNCHANGED <<count, isOpen, source, itf, freed, owner, harm>> /\ claimed[h] = {}
        /\ \/ ugen /\ file' = [k \in Fd |-> IF k = fd THEN NoFile ELSE file[k]] /\ fd' = -1
           \/ ~ugen /\ UNCHANGED <<fd, file>>
    BY <1>6, BackendIs DEF CloseHandle, darwin, ObsdClose, NetbsdClose, FileInv
  <2>2. open = {h} /\ open' = {}
    BY <1>1, <1>6 DEF OpenInv
  <2>3. TypeOK'
    <3>1. NoFile \in FileState
      BY FileType, Constants
    <3>2. file' \in [Fd -> FileState] /\ fd' \in Fd \cup {-1}
      BY <2>1, <3>1 DEF TypeOK
    <3> QED BY <1>1, <2>1, <2>2, <3>2 DEF TypeOK
  <2>4. OpenInv' /\ OwnerInv'
    <3>1. \A g \in Handle : g \notin open' => claimed'[g] = {}
      BY <1>2, <2>2 DEF OpenInv
    <3> QED BY <1>1, <1>6, <2>1, <2>2, <3>1 DEF OpenInv, OwnerInv, Darwin
  <2>5. FileInv'
    <3>1. \A k \in Fd \ {0} : file[k] # NoFile => k = fd
      BY <1>6, <2>1, <2>2 DEF FileInv
    <3>2. ugen <=> fd # -1
      BY <1>6, <2>2 DEF FileInv
    <3>3. (fd # -1 => fd # 0) /\ 0 \in Fd
      BY <1>6, Constants DEF FileInv
    <3>4. file'[0] = Stdin /\ \A k \in Fd \ {0} : file'[k] = NoFile
      BY <2>1, <3>1, <3>2, <3>3, Constants DEF FileInv
    <3>5. fd' = -1
      BY <2>1, <3>2
    <3> QED BY <1>1, <1>6, <2>2, <3>4, <3>5 DEF FileInv, Darwin
  <2>6. RequestInv'
    <3>1. \A t \in Transfer : tr[t].pc = "idle"
      BY <1>1, <2>2 DEF BusyInv
    <3> QED BY <1>1, <3>1, RequestsOfTheBsds
  <2> QED BY <1>3, <1>4, <2>3, <2>4, <2>5, <2>6
<1> QED BY <1>5, <1>6

LEMMA SetConfigurationStep ==
    ASSUME IInv, Faults = {}, NEW h \in Handle, NEW c \in 1..2, SetConfiguration(h, c)
    PROVE  IInv'
<1> USE DEF IInv
<1>1. /\ UNCHANGED <<backend, ugen, open, claimed, fd, file, limit, endpoints, tr, io, asked, result>>
      /\ UNCHANGED <<count, isOpen, source>>
      /\ h \in open /\ \A g \in Handle \ {h} : claimed[g] = {}
      /\ alt' = IF config' # config THEN {} ELSE alt
      /\ told' = IF config' # config THEN {} ELSE told
  BY DEF SetConfiguration, bsd, darwin, transfers, OpenInv
<1>2. config' \in 0..2 /\ active' = config'
      /\ itf' \in [Handle -> [Interface -> {"none", "object", "ready"}]]
      /\ freed' \in [Handle -> SUBSET Interface]
      /\ owner' \in [Interface -> Handle \cup {None}]
      /\ OwnerInv' /\ (Darwin \/ UNCHANGED owner)
  <2>1. CASE ~Darwin
    <3>1. config' = c /\ active' = c /\ UNCHANGED darwin
      BY <1>1, <2>1, BackendIs DEF SetConfiguration, ObsdSetConfiguration, NetbsdSetConfiguration,
                                    CacheActive, Cached
    <3>2. OwnerInv'
      BY <1>1, <2>1, <3>1 DEF OwnerInv, Darwin, darwin
    <3>3. c \in 0..2
      OBVIOUS
    <3> QED BY <3>1, <3>2, <3>3 DEF TypeOK, darwin
  <2>2. CASE Darwin
    <3> DEFINE C == claimed[h]
    <3>1. /\ C \subseteq Interface /\ C \subseteq Has[config] /\ harm = {}
          /\ \A i \in Interface : /\ i \in C <=> owner[i] = h
                                  /\ itf[h][i] = IF i \in C THEN "ready" ELSE "none"
      BY <2>2 DEF OwnerInv, TypeOK
    <3>2. Twice(h, C) = {} /\ Twice(h, {}) = {} /\ Objects(h, {}) = {}
      BY <2>2, <3>1, NothingFreedTwice DEF Twice, Objects
    <3>3. DarwinSetConfiguration(h, c)
      BY <2>2 DEF SetConfiguration
    <3>4. \/ /\ config' = c /\ active' = c /\ C \subseteq Has[c]
             /\ itf' = [itf EXCEPT ![h] = [i \in Interface |-> IF i \in C THEN "ready" ELSE itf[h][i]]]
             /\ harm' = {}
             /\ owner' = [i \in Interface |-> IF i \in C THEN h ELSE OthersGone(h)[i]]
             /\ freed' = [freed EXCEPT ![h] = @ \ C]
          \/ C = {} /\ DarwinRelease(h, C) /\ UNCHANGED <<config, active>>
      BY <3>1, <3>2, <3>3, <1>1 DEF DarwinSetConfiguration, Reclaimed, Cached
    <3>5. \/ /\ config' = c /\ active' = c /\ C \subseteq Has[c]
             /\ harm' = {}
             /\ freed' = [freed EXCEPT ![h] = @ \ C]
          \/ /\ C = {} /\ UNCHANGED <<config, active>>
             /\ harm' = {} /\ freed' = [freed EXCEPT ![h] = @]
      BY <3>1, <3>2, <3>4 DEF DarwinRelease
    <3>6. /\ owner' \in [Interface -> Handle \cup {None}]
          /\ \A i \in Interface : owner'[i] = IF i \in C THEN h ELSE IF C = {} /\ owner'[i] = owner[i] THEN owner[i] ELSE None
      <4>1. CASE owner' = [i \in Interface |-> IF i \in C THEN h ELSE OthersGone(h)[i]]
        <5>1. \A i \in Interface : OthersGone(h)[i] = IF owner[i] = h THEN h ELSE None
          BY DEF OthersGone
        <5>2. \A i \in Interface : owner'[i] = IF i \in C THEN h ELSE None
          BY <3>1, <4>1, <5>1
        <5>3. DOMAIN owner' = Interface /\ owner' = [i \in Interface |-> owner'[i]]
          BY <4>1
        <5> HIDE DEF C
        <5> QED BY <5>2, <5>3
      <4>2. CASE C = {} /\ DarwinRelease(h, C)
        <5>1. owner' = [i \in Interface |-> owner[i]]
          BY <3>2, <4>2 DEF DarwinRelease, Disowned
        <5> QED BY <3>1, <4>2, <5>1 DEF TypeOK
      <4> QED BY <3>4, <4>1, <4>2
    <3>7. /\ itf' = [itf EXCEPT ![h] = itf'[h]]
          /\ \A i \in Interface : itf'[h][i] = IF i \in C THEN "ready" ELSE "none"
          /\ itf' \in [Handle -> [Interface -> {"none", "object", "ready"}]]
      <4>1. CASE itf' = [itf EXCEPT ![h] = [i \in Interface |-> IF i \in C THEN "ready" ELSE itf[h][i]]]
        BY <3>1, <4>1 DEF TypeOK
      <4>2. CASE C = {} /\ DarwinRelease(h, C)
        <5>1. itf' = [itf EXCEPT ![h] = [i \in Interface |-> IF i \in {} THEN "none" ELSE itf[h][i]]]
          BY <4>2 DEF DarwinRelease
        <5> QED BY <3>1, <4>2, <5>1 DEF TypeOK
      <4> QED BY <3>4, <4>1, <4>2
    <3>8. OwnerInv'
      <4>1. \A g \in Handle, i \in Interface : owner'[i] = g <=> i \in claimed[g]
        <5>1. ASSUME NEW i \in Interface PROVE owner'[i] = h <=> i \in C
          BY <3>1, <3>6, Constants
        <5>2. ASSUME NEW g \in Handle \ {h}, NEW i \in Interface PROVE owner'[i] # g
          <6>1. owner[i] # g
            BY <1>1, <2>2 DEF OwnerInv
          <6> QED BY <3>6, <6>1, Constants
        <5> QED BY <1>1, <5>1, <5>2
      <4>2. \A g \in Handle \ {h} : itf'[g] = itf[g]
        BY <3>7 DEF TypeOK
      <4>3. \A g \in Handle, i \in Interface : itf'[g][i] = IF i \in claimed[g] THEN "ready" ELSE "none"
        BY <2>2, <3>7, <4>2 DEF OwnerInv
      <4>4. \A g \in Handle : claimed[g] \subseteq Has[config']
        BY <1>1, <3>1, <3>5
      <4> QED BY <1>1, <3>5, <4>1, <4>3, <4>4 DEF OwnerInv
    <3>9. config' \in 0..2 /\ active' = config' /\ freed' \in [Handle -> SUBSET Interface]
      <4>1. config \in 0..2 /\ active = config /\ c \in 0..2
        BY DEF TypeOK, ConfigInv
      <4>2. freed \in [Handle -> SUBSET Interface]
        BY DEF TypeOK
      <4>3. freed' = [freed EXCEPT ![h] = @ \ C] \/ freed' = [freed EXCEPT ![h] = @]
        BY <3>5
      <4>4. freed' \in [Handle -> SUBSET Interface]
        BY <4>2, <4>3
      <4> HIDE DEF C
      <4> QED BY <3>5, <4>1, <4>4
    <3> QED BY <2>2, <3>6, <3>7, <3>8, <3>9
  <2> QED BY <2>1, <2>2
<1>3. harm' = {}
  BY <1>2 DEF OwnerInv
<1>4. told' = alt' /\ alt' \subseteq Interface
  BY <1>1 DEF ConfigInv, TypeOK
<1>5. TypeOK'
  BY <1>1, <1>2, <1>3, <1>4 DEF TypeOK
<1>6. OpenInv'
  BY <1>1, <1>2 DEF OpenInv, Darwin
<1>7. ConfigInv' /\ IoInv' /\ RequestInv'
  BY <1>1, <1>2, <1>4, TransferFrame, RequestFrame DEF ConfigInv
<1>8. FileInv' /\ BusyInv'
  BY <1>1 DEF FileInv, BusyInv, Control, Darwin
<1> QED BY <1>2, <1>5, <1>6, <1>7, <1>8

LEMMA ClaimStep ==
    ASSUME IInv, Faults = {}, NEW h \in Handle, NEW i \in Interface, Claim(h, i)
    PROVE  IInv'
<1> USE DEF IInv
<1>1. /\ UNCHANGED <<backend, ugen, open, alt, told, fd, file, limit, tr, io, asked, result>>
      /\ UNCHANGED <<count, isOpen, source>>
      /\ h \in open /\ i \notin claimed[h]
  BY DEF Claim, darwin, transfers, settings
<1>2. CASE Darwin
  <2>1. UNCHANGED endpoints /\ Found(h, i) /\ i \in Has[config'] /\ Opened(h, i)
    BY <1>2 DEF Claim, DarwinClaim, NotOpened
  <2>2. harm = {} /\ itf[h][i] = "none" /\ owner[i] = None
    BY <1>1, <1>2, <2>1 DEF OwnerInv, Opened
  <2>3. config' \in 0..2 /\ active' = config' /\ Has[config] \subseteq Has[config']
    BY <2>1, Constants DEF Found, TypeOK, ConfigInv
  <2>4. PICK ok \in BOOLEAN :
          /\ itf' = [itf EXCEPT ![h][i] = IF ok THEN "ready" ELSE "none"]
          /\ owner' = IF ok THEN [owner EXCEPT ![i] = h] ELSE owner
          /\ claimed' = IF ok THEN [claimed EXCEPT ![h] = @ \cup {i}] ELSE claimed
    BY <2>1 DEF Opened
  <2>5. harm' = {} /\ freed' = [freed EXCEPT ![h] = @ \ {i}]
    BY <2>1, <2>2 DEF Opened, GetEndpoints
  <2>6. TypeOK'
    <3>1. /\ itf' \in [Handle -> [Interface -> {"none", "object", "ready"}]]
          /\ owner' \in [Interface -> Handle \cup {None}]
          /\ claimed' \in [Handle -> SUBSET Interface] /\ freed' \in [Handle -> SUBSET Interface]
      BY <2>4, <2>5 DEF TypeOK
    <3> QED BY <1>1, <2>1, <2>3, <2>5, <3>1 DEF TypeOK
  <2>7. \A g \in Handle \ {h} : claimed'[g] = claimed[g] /\ itf'[g] = itf[g]
    BY <2>4 DEF TypeOK
  <2>8. claimed'[h] = IF ok THEN claimed[h] \cup {i} ELSE claimed[h]
    BY <2>4 DEF TypeOK
  <2>9. OwnerInv'
    <3>1. ASSUME NEW g \in Handle, NEW j \in Interface
          PROVE  /\ j \in claimed'[g] <=> owner'[j] = g
                 /\ itf'[g][j] = IF j \in claimed'[g] THEN "ready" ELSE "none"
      <4>0. /\ j \in claimed[g] <=> owner[j] = g
            /\ itf[g][j] = IF j \in claimed[g] THEN "ready" ELSE "none"
        BY <1>2 DEF OwnerInv
      <4>1. CASE ~ok
        <5>1. itf' = itf
          BY <2>2, <2>4, <4>1 DEF TypeOK
        <5> QED BY <2>4, <4>0, <4>1, <5>1
      <4>2. CASE ok
        <5>1. owner'[j] = IF j = i THEN h ELSE owner[j]
          BY <2>4, <4>2 DEF TypeOK
        <5>2. itf'[h][j] = IF j = i THEN "ready" ELSE itf[h][j]
          BY <2>4, <4>2 DEF TypeOK
        <5>3. CASE g = h
          BY <2>8, <4>0, <4>2, <5>1, <5>2, <5>3
        <5>4. CASE g # h
          BY <2>2, <2>7, <4>0, <5>1, <5>4, Constants
        <5> QED BY <5>3, <5>4
      <4> QED BY <4>1, <4>2
    <3>2. \A g \in Handle : claimed'[g] \subseteq Has[config']
      BY <1>2, <2>1, <2>3, <2>7, <2>8 DEF OwnerInv
    <3> QED BY <2>5, <3>1, <3>2 DEF OwnerInv
  <2>10. OpenInv'
    BY <1>1, <1>2, <2>7 DEF OpenInv, Darwin
  <2>11. ConfigInv' /\ IoInv' /\ RequestInv'
    BY <1>1, <2>3, TransferFrame, RequestFrame DEF ConfigInv
  <2>12. FileInv'
    BY <1>1, <1>2 DEF FileInv, Darwin
  <2>13. BusyInv'
    <3>1. \A g \in Handle : claimed[g] \subseteq claimed'[g]
      BY <2>7, <2>8
    <3>2. \A t \in Transfer : tr[t].pc # "idle" => tr[t].h \in Handle
      BY DEF BusyInv, TypeOK
    <3> QED BY <1>1, <1>2, <3>1, <3>2 DEF BusyInv, Control, Darwin
  <2> QED BY <2>6, <2>9, <2>10, <2>11, <2>12, <2>13
<1>3. CASE ~Darwin
  <2>1. /\ claimed[h] = {} /\ claimed' = [claimed EXCEPT ![h] = {i}]
        /\ endpoints' = [endpoints EXCEPT ![h] = [j \in Interface |-> -1]]
        /\ UNCHANGED <<config, active, itf, freed, owner, harm>>
    BY <1>3, BackendIs DEF Claim, ObsdClaim, NetbsdClaim, darwin
  <2>2. claimed'[h] = {i} /\ open = {h}
    BY <1>1, <1>3, <2>1 DEF TypeOK, OpenInv
  <2>3. TypeOK'
    <3>1. /\ endpoints' \in [Handle -> [Interface -> Fd \cup {-1}]]
          /\ claimed' \in [Handle -> SUBSET Interface]
      BY <2>1, Constants DEF TypeOK
    <3> QED BY <1>1, <2>1, <3>1 DEF TypeOK
  <2>4. OpenInv' /\ OwnerInv' /\ ConfigInv' /\ IoInv' /\ RequestInv'
    BY <1>1, <1>3, <2>1, TransferFrame, RequestFrame DEF OpenInv, OwnerInv, ConfigInv, Darwin, TypeOK
  <2>5. FileInv'
    <3>1. endpoints'[h] = [j \in Interface |-> -1]
      BY <2>1 DEF TypeOK
    <3>2. \A k \in Fd \ {0} : file[k] # NoFile => k = fd
      BY <1>3, <2>1, <2>2 DEF FileInv
    <3>3. \A g \in open : \A j, k \in claimed'[g] : j = k
      BY <2>2
    <3>4. \A g \in open, j \in Interface : endpoints'[g][j] = -1
      BY <2>2, <3>1
    <3> QED BY <1>1, <1>3, <3>2, <3>3, <3>4 DEF FileInv, Darwin
  <2>6. BusyInv'
    BY <1>1, <1>3, <2>1, <2>2 DEF BusyInv, Control, Darwin
  <2> QED BY <2>3, <2>4, <2>5, <2>6
<1> QED BY <1>2, <1>3

LEMMA ReleaseStep ==
    ASSUME IInv, Faults = {}, NEW h \in Handle, NEW i \in Interface, Release(h, i)
    PROVE  IInv'
<1> USE DEF IInv
<1>1. /\ UNCHANGED <<backend, ugen, open, alt, told, config, active, fd, limit, endpoints, tr, io, asked, result>>
      /\ UNCHANGED <<count, isOpen, source>>
      /\ h \in open /\ i \in claimed[h] /\ claimed' = [claimed EXCEPT ![h] = @ \ {i}]
      /\ \A t \in Transfer : tr[t].pc # "idle" /\ tr[t].h = h => Kind[t].itf # i
  BY DEF Release, darwin, transfers, settings, Busy
<1>2. claimed' \in [Handle -> SUBSET Interface] /\ claimed'[h] = claimed[h] \ {i}
      /\ \A g \in Handle \ {h} : claimed'[g] = claimed[g]
  BY <1>1 DEF TypeOK
<1>3. BusyInv'
  <2>1. \A t \in Transfer : tr[t].pc # "idle" =>
          tr[t].h \in open /\ tr[t].h \in Handle /\ (~Control(t) => Kind[t].itf \in claimed'[tr[t].h])
    BY <1>1, <1>2 DEF BusyInv, TypeOK
  <2> QED BY <1>1, <2>1 DEF BusyInv, Control, Darwin
<1>4. ConfigInv' /\ IoInv'
  BY <1>1, TransferFrame DEF ConfigInv
<1>5. CASE Darwin
  <2>1. /\ file' = file
        /\ itf' = [itf EXCEPT ![h] = [j \in Interface |-> IF j \in {i} THEN "none" ELSE itf[h][j]]]
        /\ owner' = Disowned(h, {i}) /\ harm' = harm \cup Twice(h, {i})
        /\ freed' = [freed EXCEPT ![h] = @ \cup Objects(h, {i})]
    BY <1>5 DEF Release, DarwinRelease
  <2>2. Twice(h, {i}) = {} /\ Objects(h, {i}) \subseteq Interface
        /\ Disowned(h, {i}) = [j \in Interface |-> IF j \in {i} /\ owner[j] = h THEN None ELSE owner[j]]
    <3>1. {i} \subseteq Interface
      OBVIOUS
    <3>2. /\ Twice(h, {i}) = {} /\ Objects(h, {i}) = {i} \cap claimed[h]
          /\ Disowned(h, {i}) = [j \in Interface |-> IF j \in {i} /\ owner[j] = h THEN None ELSE owner[j]]
      BY <1>5, <3>1, NothingFreedTwice
    <3> QED BY <3>1, <3>2
  <2>3. harm' = {}
    BY <2>1, <2>2 DEF OwnerInv
  <2>4. TypeOK'
    <3>1. /\ itf' \in [Handle -> [Interface -> {"none", "object", "ready"}]]
          /\ freed' \in [Handle -> SUBSET Interface]
      BY <2>1, <2>2, ZenonT(60) DEF TypeOK
    <3>2. owner' \in [Interface -> Handle \cup {None}]
      BY <2>1, <2>2 DEF TypeOK
    <3> QED BY <1>1, <1>2, <2>1, <2>3, <3>1, <3>2 DEF TypeOK
  <2>5. OwnerInv'
    <3>1. ASSUME NEW g \in Handle, NEW j \in Interface
          PROVE  /\ j \in claimed'[g] <=> owner'[j] = g
                 /\ itf'[g][j] = IF j \in claimed'[g] THEN "ready" ELSE "none"
      <4>0. /\ j \in claimed[g] <=> owner[j] = g
            /\ i \in claimed[h] <=> owner[i] = h
            /\ itf[g][j] = IF j \in claimed[g] THEN "ready" ELSE "none"
        BY <1>5 DEF OwnerInv
      <4>1. owner'[j] = IF j = i THEN None ELSE owner[j]
        BY <1>1, <2>1, <2>2, <4>0
      <4>2. CASE g = h
        <5>1. itf'[h][j] = IF j = i THEN "none" ELSE itf[h][j]
          BY <2>1 DEF TypeOK
        <5> QED BY <1>2, <4>0, <4>1, <4>2, <5>1, Constants
      <4>3. CASE g # h
        <5>1. itf'[g] = itf[g] /\ claimed'[g] = claimed[g]
          BY <1>2, <2>1, <4>3 DEF TypeOK
        <5> QED BY <1>1, <4>0, <4>1, <4>3, <5>1, Constants
      <4> QED BY <4>2, <4>3
    <3>2. \A g \in Handle : claimed'[g] \subseteq Has[config']
      BY <1>1, <1>2, <1>5 DEF OwnerInv
    <3> QED BY <2>3, <3>1, <3>2 DEF OwnerInv
  <2>6. OpenInv'
    BY <1>1, <1>2, <1>5 DEF OpenInv, Darwin
  <2>7. FileInv'
    BY <1>1, <1>5, <2>1 DEF FileInv, Darwin
  <2>8. RequestInv'
    BY <1>1, <2>1, RequestFrame
  <2> QED BY <1>3, <1>4, <2>4, <2>5, <2>6, <2>7, <2>8
<1>6. CASE ~Darwin
  <2>1. file' = Closed(h) /\ UNCHANGED <<itf, freed, owner, harm>>
    BY <1>6, BackendIs DEF Release, ObsdRelease, NetbsdRelease, darwin
  <2>2. open = {h} /\ claimed[h] = {i} /\ claimed'[h] = {}
    <3>1. open = {h}
      BY <1>1, <1>6 DEF OpenInv
    <3>2. \A j, k \in claimed[h] : j = k
      BY <1>1, <1>6 DEF FileInv
    <3> QED BY <1>1, <1>2, <3>1, <3>2
  <2>3. \A k \in Fd : file'[k] = IF k \in Numbers(h) THEN NoFile ELSE file[k]
    BY <2>1 DEF Closed
  <2>4. ASSUME NEW k \in Numbers(h) PROVE file[k] = EndpointFile(h, i)
    <3>1. PICK j \in Interface : k = endpoints[h][j] /\ k # -1
      BY <2>4 DEF Numbers
    <3> QED BY <1>1, <1>6, <2>2, <3>1 DEF FileInv
  <2>5. TypeOK'
    <3>1. file' \in [Fd -> FileState]
      BY <2>1, FileType, Constants DEF Closed, TypeOK
    <3> QED BY <1>1, <1>2, <2>1, <3>1 DEF TypeOK
  <2>6. OpenInv' /\ OwnerInv'
    <3>1. \A g \in Handle : g \notin open' => claimed'[g] = {}
      BY <1>1, <1>2 DEF OpenInv
    <3> QED BY <1>1, <1>6, <2>1, <3>1 DEF OpenInv, OwnerInv, Darwin
  <2>7. FileInv'
    <3>1. file'[0] = Stdin
      BY <2>3, <2>4, Files, Constants DEF FileInv
    <3>2. fd # -1 => fd # 0 /\ file'[fd] = DeviceFile(h)
      <4>1. fd # -1 => fd \in Fd /\ fd # 0 /\ file[fd] = DeviceFile(h)
        BY <1>1, <1>6 DEF FileInv, TypeOK
      <4> QED BY <2>3, <2>4, <4>1, Files
    <3>3. ASSUME NEW k \in Fd \ {0}, file'[k] # NoFile PROVE k = fd
      <4>1. k \notin Numbers(h) /\ file[k] # NoFile
        BY <2>3, <3>3
      <4>2. SUFFICES ASSUME k # fd PROVE FALSE
        OBVIOUS
      <4>3. endpoints[h][i] = k /\ k # -1
        BY <1>6, <2>2, <4>1, <4>2, Constants DEF FileInv
      <4> QED BY <4>1, <4>3 DEF Numbers
    <3> QED BY <1>1, <1>6, <2>2, <3>1, <3>2, <3>3 DEF FileInv, Darwin
  <2>8. RequestInv'
    <3>1. ASSUME NEW t \in Transfer, tr[t].pc \in {"timeout", "request"}, ugen
          PROVE  /\ tr[t].fd # -1 /\ file'[tr[t].fd] = FileOf(t)
                 /\ tr[t].pc = "request" => limit[tr[t].fd] = t
      <4>1. tr[t].fd # -1 /\ file[tr[t].fd] = FileOf(t) /\ (tr[t].pc = "request" => limit[tr[t].fd] = t)
        BY <3>1 DEF RequestInv
      <4>2. tr[t].fd \in Fd
        BY <4>1, TransferType
      <4>3. Control(t)
        BY <1>1, <2>2, <3>1 DEF BusyInv
      <4>4. FileOf(t) = DeviceFile(tr[t].h)
        BY <4>3 DEF FileOf
      <4> QED BY <2>3, <2>4, <4>1, <4>2, <4>4, Files
    <3>2. \A t \in Transfer : FileOf(t)' = FileOf(t)
      BY <1>1 DEF FileOf, Control
    <3> QED BY <1>1, <3>1, <3>2 DEF RequestInv
  <2> QED BY <1>3, <1>4, <2>5, <2>6, <2>7, <2>8
<1> QED BY <1>5, <1>6

LEMMA SetAltSettingStep ==
    ASSUME IInv, Faults = {}, NEW h \in Handle, NEW i \in Interface, NEW second \in BOOLEAN,
           SetAltSetting(h, i, second)
    PROVE  IInv'
<1> USE DEF IInv
<1>1. /\ UNCHANGED <<backend, ugen, open, claimed, config, active, fd, file, limit, endpoints,
                     count, isOpen, source, itf, freed, owner, harm, tr, io, asked, result>>
  BY DEF SetAltSetting, bsd, darwin, transfers
<1>2. \/ alt' = alt /\ told' = told
      \/ alt' = Selected(alt, i, second) /\ told' = Selected(told, i, second)
  <2>1. PICK r \in CASE Darwin -> DarwinSetAlt(i, second)
                     [] backend = "openbsd" -> ObsdSetAlt(i, second)
                     [] backend = "netbsd" -> NetbsdSetAlt(i, second) : alt' = r.alt /\ told' = r.told
    BY DEF SetAltSetting
  <2> DEFINE same == [alt |-> alt, told |-> told]
             new == [alt |-> Selected(alt, i, second), told |-> Selected(told, i, second)]
  <2>2. DarwinSetAlt(i, second) \subseteq {same, new} /\ ObsdSetAlt(i, second) \subseteq {same, new}
        /\ NetbsdSetAlt(i, second) \subseteq {same, new}
    BY DEF DarwinSetAlt, ObsdSetAlt, NetbsdSetAlt, Honest
  <2>3. r \in {same, new}
    <3> HIDE DEF same, new
    <3>1. CASE Darwin
      BY <2>1, <2>2, <3>1
    <3>2. CASE ~Darwin /\ backend = "openbsd"
      BY <2>1, <2>2, <3>2
    <3>3. CASE ~Darwin /\ backend = "netbsd"
      BY <2>1, <2>2, <3>3 DEF Darwin
    <3> QED BY <3>1, <3>2, <3>3, BackendIs
  <2> QED BY <2>1, <2>3
<1>3. told' = alt' /\ alt' \subseteq Interface
  BY <1>2 DEF Selected, ConfigInv, TypeOK
<1>4. TypeOK' /\ ConfigInv'
  BY <1>1, <1>3 DEF TypeOK, ConfigInv
<1>5. OpenInv' /\ OwnerInv' /\ FileInv' /\ BusyInv'
  BY <1>1 DEF OpenInv, OwnerInv, FileInv, BusyInv, Control, Darwin
<1> QED BY <1>1, <1>4, <1>5, TransferFrame, RequestFrame

----------------------------------------------------------------------------
(* Transfers.                                                              *)

\* What goes on with a transfer leaves the handles alone, ...
LEMMA HandleFrame ==
    ASSUME IInv, NotTransfers
    PROVE  OpenInv' /\ ConfigInv' /\ OwnerInv' /\ UNCHANGED <<backend, ugen, open, claimed>>
BY DEF IInv, OpenInv, ConfigInv, OwnerInv, NotTransfers, darwin, settings, Darwin

\* ... and the files, but for the first use of an endpoint.
LEMMA FileFrame ==
    ASSUME IInv, NotTransfers, UNCHANGED <<fd, file, endpoints>>
    PROVE  FileInv'
BY DEF IInv, FileInv, NotTransfers, Darwin

\* The types of what changes.
LEMMA TransferTypes ==
    ASSUME IInv, NotTransfers, UNCHANGED fd,
           file' \in [Fd -> FileState], limit' \in [Fd -> Transfer \cup {None}],
           endpoints' \in [Handle -> [Interface -> Fd \cup {-1}]],
           tr' \in [Transfer -> TransferState], io' \in [Transfer -> Requests],
           asked' \subseteq Transfer, result' \in [Transfer -> {"idle", "flying"} \cup Statuses]
    PROVE  TypeOK'
BY DEF IInv, TypeOK, NotTransfers, darwin, settings

\* A step of one transfer: it ends, or goes on for the same handle; the others keep
\* their requests, files and limits, and its own parts of IoInv and RequestInv hold.
LEMMA OneTransfer ==
    ASSUME IInv, NotTransfers, TypeOK', FileInv', NEW t \in Transfer,
           tr'[t].pc # "idle" => tr[t].pc # "idle" /\ tr'[t].h = tr[t].h,
           \A u \in Transfer \ {t} :
              /\ tr'[u] = tr[u] /\ result'[u] = result[u] /\ io'[u] = io[u]
              /\ ugen /\ tr[u].pc \in {"timeout", "request"} =>
                    file'[tr[u].fd] = file[tr[u].fd] /\ limit'[tr[u].fd] = limit[tr[u].fd],
           tr'[t].pc # "idle" <=> result'[t] = "flying",
           tr'[t].pc \in {"idle", "listed", "timeout"} => io'[t] = "none",
           Darwin => tr'[t].pc \notin {"timeout", "request"},
           ~Darwin => tr'[t].pc # "started" /\ (io'[t] = "pending" => tr'[t].pc = "request"),
           tr'[t].pc = "timeout" => ugen,
           tr'[t].pc \in {"timeout", "request"} /\ ugen =>
              /\ tr'[t].fd # -1 /\ file'[tr'[t].fd] = FileOf(t)
              /\ tr'[t].pc = "request" => limit'[tr'[t].fd] = t
    PROVE  IInv'
<1> USE DEF IInv
<1>1. OpenInv' /\ ConfigInv' /\ OwnerInv' /\ UNCHANGED <<backend, ugen, open, claimed>>
  BY HandleFrame
<1>2. BusyInv'
  <2>1. \A u \in Transfer : tr'[u].pc # "idle" => tr[u].pc # "idle" /\ tr'[u].h = tr[u].h
    OBVIOUS
  <2> QED BY <1>1, <2>1 DEF BusyInv, Control, Darwin
<1>3. IoInv'
  <2>1. \A u \in Transfer : /\ tr'[u].pc # "idle" <=> result'[u] = "flying"
                            /\ tr'[u].pc \in {"idle", "listed", "timeout"} => io'[u] = "none"
                            /\ Darwin => tr'[u].pc \notin {"timeout", "request"}
                            /\ ~Darwin => tr'[u].pc # "started" /\ (io'[u] = "pending" => tr'[u].pc = "request")
    BY DEF IoInv
  <2> QED BY <1>1, <2>1 DEF IoInv, Darwin
<1>4. RequestInv'
  <2>1. \A u \in Transfer : tr'[u].pc = "timeout" => ugen
    BY DEF RequestInv
  <2>2. \A u \in Transfer : tr'[u].pc # "idle" => FileOf(u)' = FileOf(u)
    BY DEF FileOf, Control
  <2>3. ASSUME NEW u \in Transfer, tr'[u].pc \in {"timeout", "request"}, ugen
        PROVE  /\ tr'[u].fd # -1 /\ file'[tr'[u].fd] = FileOf(u)
               /\ tr'[u].pc = "request" => limit'[tr'[u].fd] = u
    <3>1. CASE u = t
      BY <2>3, <3>1
    <3>2. CASE u # t
      BY <2>3, <3>2 DEF RequestInv
    <3> QED BY <3>1, <3>2
  <2> QED BY <1>1, <2>1, <2>2, <2>3 DEF RequestInv
<1> QED BY <1>1, <1>2, <1>3, <1>4

\* A transfer that the system refuses, or that has ended.
LEMMA EndStep ==
    ASSUME IInv, NotTransfers, UNCHANGED <<bsd, asked>>, NEW t \in Transfer, SetTr(t, Unused),
           NEW s \in {"idle"} \cup Statuses, result' = [result EXCEPT ![t] = s],
           io' = [io EXCEPT ![t] = "none"]
    PROVE  IInv'
<1> USE DEF IInv
<1>1. Unused \in TransferState
  BY Constants DEF Unused, TransferState
<1>2. tr' \in [Transfer -> TransferState] /\ tr'[t] = Unused /\ \A u \in Transfer \ {t} : tr'[u] = tr[u]
  BY <1>1, SetTransfer
<1>3. /\ result'[t] = s /\ io'[t] = "none"
      /\ \A u \in Transfer \ {t} : result'[u] = result[u] /\ io'[u] = io[u]
      /\ result' \in [Transfer -> {"idle", "flying"} \cup Statuses] /\ io' \in [Transfer -> Requests]
  BY DEF TypeOK, Requests
<1>4. TypeOK'
  BY <1>2, <1>3, TransferTypes DEF bsd, TypeOK
<1>5. FileInv'
  BY FileFrame DEF bsd
<1>6. Unused.pc = "idle" /\ s # "flying"
  BY DEF Unused, Statuses
<1> QED BY <1>2, <1>3, <1>4, <1>5, <1>6, OneTransfer DEF bsd

LEMMA SubmitStartStep ==
    ASSUME IInv, Faults = {}, NEW t \in Transfer, NEW h \in Handle, SubmitStart(t, h)
    PROVE  IInv'
<1> USE DEF IInv
<1> DEFINE r == [Unused EXCEPT !.pc = "listed", !.h = h]
<1>1. /\ tr[t].pc = "idle" /\ h \in open
      /\ Control(t) \/ Kind[t].itf \in claimed[h]
      /\ Darwin => Kind[t].type # "stream" /\ ~(Control(t) /\ Kind[t].zero)
      /\ Darwin \/ \A u \in Transfer : tr[u].pc # "idle" /\ tr[u].h = h => Kind[u].itf # Kind[t].itf
      /\ SetTr(t, r)
      /\ asked' = asked \ {t} /\ result' = [result EXCEPT ![t] = "flying"]
      /\ UNCHANGED <<fd, file, limit, endpoints, io>> /\ NotTransfers
  BY DEF SubmitStart, Busy, bsd
<1>2. r \in TransferState /\ r.pc = "listed" /\ r.h = h
  BY Constants DEF Unused, TransferState
<1> HIDE DEF r
<1>3. tr' \in [Transfer -> TransferState] /\ tr'[t] = r /\ \A u \in Transfer \ {t} : tr'[u] = tr[u]
  BY <1>1, <1>2, SetTransfer
<1>4. /\ result'[t] = "flying" /\ \A u \in Transfer \ {t} : result'[u] = result[u]
      /\ result' \in [Transfer -> {"idle", "flying"} \cup Statuses]
  BY <1>1 DEF TypeOK
<1>5. TypeOK'
  BY <1>1, <1>3, <1>4, TransferTypes DEF TypeOK
<1>6. OpenInv' /\ ConfigInv' /\ OwnerInv' /\ FileInv' /\ UNCHANGED <<backend, ugen, open, claimed>>
  BY <1>1, HandleFrame, FileFrame
<1>7. BusyInv'
  <2>1. ASSUME NEW u \in Transfer, tr'[u].pc # "idle"
        PROVE  /\ tr'[u].h \in open
               /\ ~Control(u) => Kind[u].itf \in claimed[tr'[u].h]
               /\ Darwin => Kind[u].type # "stream" /\ ~(Control(u) /\ Kind[u].zero)
    <3>1. CASE u = t
      BY <1>1, <1>2, <1>3, <3>1
    <3>2. CASE u # t
      BY <1>3, <2>1, <3>2 DEF BusyInv
    <3> QED BY <3>1, <3>2
  <2>2. ASSUME ~Darwin, NEW u \in Transfer, tr'[u].pc # "idle", Kind[u].itf = Kind[t].itf
        PROVE  u = t
    <3>1. u # t => tr[u].pc # "idle" /\ tr[u].h \in open
      BY <1>3, <2>2 DEF BusyInv
    <3>2. u # t => tr[u].h = h
      BY <1>1, <2>2, <3>1 DEF OpenInv
    <3> QED BY <1>1, <2>2, <3>1, <3>2
  <2>3. ASSUME ~Darwin, NEW u \in Transfer, NEW v \in Transfer,
               tr'[u].pc # "idle", tr'[v].pc # "idle", Kind[u].itf = Kind[v].itf
        PROVE  u = v
    <3>1. CASE u = t \/ v = t
      BY <2>2, <2>3, <3>1
    <3>2. CASE u # t /\ v # t
      BY <1>3, <2>3, <3>2 DEF BusyInv
    <3> QED BY <3>1, <3>2
  <2> QED BY <1>6, <2>1, <2>3 DEF BusyInv, Control, Darwin
<1>8. IoInv'
  <2>1. io'[t] = "none"
    BY <1>1 DEF IoInv
  <2> QED BY <1>1, <1>2, <1>3, <1>4, <1>6, <2>1 DEF IoInv, Darwin
<1>9. RequestInv'
  <2>1. \A u \in Transfer : tr'[u].pc \in {"timeout", "request"} => u # t /\ tr'[u] = tr[u]
    BY <1>2, <1>3
  <2>2. \A u \in Transfer : u # t => FileOf(u)' = FileOf(u)
    BY <1>3 DEF FileOf, Control
  <2> QED BY <1>1, <1>6, <2>1, <2>2 DEF RequestInv
<1> QED BY <1>5, <1>6, <1>7, <1>8, <1>9

LEMMA DarwinSubmitStep ==
    ASSUME IInv, Faults = {}, NEW t \in Transfer, DarwinSubmit(t)
    PROVE  IInv'
<1> USE DEF IInv
<1>1. Darwin /\ tr[t].pc = "listed" /\ UNCHANGED bsd /\ NotTransfers /\ io[t] = "none" /\ io = [io EXCEPT ![t] = "none"]
  BY DEF DarwinSubmit, IoInv, TypeOK
<1>2. CASE Refused(t)
  BY <1>1, <1>2, EndStep DEF Refused
<1>3. CASE /\ io' = [io EXCEPT ![t] = "pending"]
           /\ SetTr(t, [tr[t] EXCEPT !.pc = "started"]) /\ UNCHANGED <<result, asked>>
  <2> DEFINE r == [tr[t] EXCEPT !.pc = "started"]
  <2>1. r \in TransferState /\ r.pc = "started" /\ r.h = tr[t].h /\ SetTr(t, r)
    BY <1>3, TransferType DEF TransferState
  <2> HIDE DEF r
  <2>2. tr' \in [Transfer -> TransferState] /\ tr'[t] = r /\ \A u \in Transfer \ {t} : tr'[u] = tr[u]
    BY <2>1, SetTransfer
  <2>3. /\ \A u \in Transfer \ {t} : result'[u] = result[u] /\ io'[u] = io[u]
        /\ io' \in [Transfer -> Requests] /\ result'[t] = "flying"
    BY <1>1, <1>3 DEF TypeOK, IoInv, Requests
  <2>4. TypeOK'
    BY <1>1, <1>3, <2>2, <2>3, TransferTypes DEF TypeOK, bsd
  <2>5. FileInv'
    BY <1>1, FileFrame DEF bsd
  <2> QED BY <1>1, <2>1, <2>2, <2>3, <2>4, <2>5, OneTransfer DEF bsd
<1> QED BY <1>2, <1>3 DEF DarwinSubmit

LEMMA StartedStep ==
    ASSUME IInv, Faults = {}, NEW t \in Transfer, Started(t)
    PROVE  IInv'
<1> USE DEF IInv
<1> DEFINE r == [tr[t] EXCEPT !.pc = "in_flight"]
<1>1. tr[t].pc = "started" /\ SetTr(t, r) /\ UNCHANGED <<io, asked, result, bsd>> /\ NotTransfers
  BY DEF Started
<1>2. r \in TransferState /\ r.pc = "in_flight" /\ r.h = tr[t].h
  BY TransferType DEF TransferState
<1> HIDE DEF r
<1>3. tr' \in [Transfer -> TransferState] /\ tr'[t] = r /\ \A u \in Transfer \ {t} : tr'[u] = tr[u]
  BY <1>1, <1>2, SetTransfer
<1>4. Darwin /\ result[t] = "flying"
  BY <1>1 DEF IoInv
<1>5. TypeOK' /\ FileInv'
  BY <1>1, <1>3, TransferTypes, FileFrame DEF TypeOK, bsd
<1> QED BY <1>1, <1>2, <1>3, <1>4, <1>5, OneTransfer DEF bsd

\* The first transfer of an endpoint opens its file, at a number that nobody uses.
LEMMA EndpointOpened ==
    ASSUME IInv, ~Darwin, NotTransfers, UNCHANGED fd, NEW t \in Transfer, ~Control(t),
           tr[t].pc # "idle", Endpoint(t) < 0, FreeFds # {},
           file' = [file EXCEPT ![FirstFree] = EndpointFile(tr[t].h, Kind[t].itf)],
           endpoints' = [endpoints EXCEPT ![tr[t].h][Kind[t].itf] = FirstFree]
    PROVE  /\ FileInv' /\ FirstFree \in Fd /\ file'[FirstFree] = EndpointFile(tr[t].h, Kind[t].itf)
           /\ \A k \in Fd : file[k] # NoFile => file'[k] = file[k]
           /\ file' \in [Fd -> FileState] /\ endpoints' \in [Handle -> [Interface -> Fd \cup {-1}]]
<1> USE DEF IInv
<1> DEFINE h == tr[t].h  i == Kind[t].itf  n == FirstFree
<1>1. n \in Fd \ {0} /\ file[n] = NoFile
  BY FirstFreeIsFree DEF FileInv
<1>2. /\ h \in Handle /\ i \in Interface /\ open = {h} /\ claimed[h] = {i}
      /\ UNCHANGED <<backend, ugen, open, claimed>>
  <2>1. h \in open /\ i \in claimed[h] /\ h \in Handle /\ i \in Interface
    BY Constants DEF BusyInv, TypeOK
  <2>2. open = {h}
    BY <2>1 DEF OpenInv
  <2>3. claimed[h] = {i}
    BY <2>1, <2>2 DEF FileInv
  <2> QED BY <2>1, <2>2, <2>3 DEF NotTransfers
<1>3. i \in -1..LastInterface
  BY Constants
<1> HIDE DEF n
<1>4. /\ file'[n] = EndpointFile(h, i) /\ \A k \in Fd \ {n} : file'[k] = file[k]
      /\ file' \in [Fd -> FileState]
  <2>1. EndpointFile(h, i) \in FileState
    BY <1>2, <1>3, FileType
  <2>2. file' = [file EXCEPT ![n] = EndpointFile(h, i)]
    BY DEF n
  <2> HIDE DEF h, i
  <2> QED BY <1>1, <2>1, <2>2, ZenonT(60) DEF TypeOK
<1>5. /\ endpoints'[h][i] = n /\ \A j \in Interface \ {i} : endpoints'[h][j] = endpoints[h][j]
      /\ endpoints' \in [Handle -> [Interface -> Fd \cup {-1}]]
  <2>1. endpoints' = [endpoints EXCEPT ![h][i] = n]
    BY DEF n
  <2> HIDE DEF h, i
  <2>2. /\ endpoints \in [Handle -> [Interface -> Fd \cup {-1}]] /\ n \in Fd \cup {-1}
        /\ endpoints[h] \in [Interface -> Fd \cup {-1}]
    BY <1>1, <1>2 DEF TypeOK
  <2>3. endpoints' = [endpoints EXCEPT ![h] = [endpoints[h] EXCEPT ![i] = n]]
    BY <2>1
  <2>4. [endpoints[h] EXCEPT ![i] = n] \in [Interface -> Fd \cup {-1}]
    BY <2>2
  <2>5. endpoints'[h] = [endpoints[h] EXCEPT ![i] = n]
    BY <1>2, <2>2, <2>3
  <2>6. \A g \in Handle \ {h} : endpoints'[g] = endpoints[g]
    BY <2>2, <2>3
  <2>7. endpoints' \in [Handle -> [Interface -> Fd \cup {-1}]]
    <3>1. PICK q \in [Interface -> Fd \cup {-1}] : q = [endpoints[h] EXCEPT ![i] = n]
      BY <2>4
    <3>2. endpoints' = [endpoints EXCEPT ![h] = q]
      BY <2>3, <3>1
    <3> QED BY <2>2, <3>2
  <2>8. /\ [endpoints[h] EXCEPT ![i] = n][i] = n
        /\ \A j \in Interface \ {i} : [endpoints[h] EXCEPT ![i] = n][j] = endpoints[h][j]
    BY <1>2, <2>2
  <2> QED BY <2>5, <2>7, <2>8
<1>6. endpoints[h][i] = -1
  <2>1. endpoints[h][i] \in Fd \cup {-1} /\ endpoints[h][i] < 0
    BY <1>2 DEF TypeOK, Endpoint
  <2> QED BY <2>1, Constants
<1> HIDE DEF h, i
<1>7. \A j \in Interface \ {i} : endpoints[h][j] = -1
  BY <1>2 DEF FileInv
<1>8. fd # -1 => fd \in Fd /\ fd # n /\ fd # 0 /\ file'[fd] = DeviceFile(h)
  <2>1. fd # -1 => fd \in Fd /\ fd # 0 /\ file[fd] = DeviceFile(h)
    BY <1>2 DEF FileInv, TypeOK
  <2> QED BY <1>1, <1>4, <2>1, Files
<1>9. file'[0] = Stdin
  BY <1>1, <1>4, Constants DEF FileInv
<1>10. \A k \in Fd \ {0} : file'[k] # NoFile /\ k # fd => k = n
  <2> SUFFICES ASSUME NEW k \in Fd \ {0}, k # n, file[k] # NoFile, k # fd PROVE FALSE
    BY <1>4
  <2>1. endpoints[h][i] = k
    BY <1>2 DEF FileInv
  <2> QED BY <1>6, <2>1, Constants
<1>11. FileInv'
  <2>1. (open' # {} /\ ugen' <=> fd' # -1)
    BY <1>2 DEF FileInv
  <2>2. \A g \in open' : \A j, k \in claimed'[g] : j = k
    BY <1>2
  <2>3. \A k \in Fd \ {0} : file'[k] # NoFile /\ k # fd' =>
              \E g \in open' : \E j \in claimed'[g] : endpoints'[g][j] = k
    BY <1>2, <1>5, <1>10
  <2>4. \A g \in open', j \in Interface : endpoints'[g][j] # -1 =>
              j \in claimed'[g] /\ file'[endpoints'[g][j]] = EndpointFile(g, j)
    BY <1>2, <1>4, <1>5, <1>7
  <2>5. fd' # -1 => fd' # 0 /\ \A g \in open' : file'[fd'] = DeviceFile(g)
    BY <1>2, <1>8
  <2>6. backend' # "openbsd" => ugen'
    BY <1>2 DEF FileInv
  <2> QED BY <1>2, <1>9, <2>1, <2>2, <2>3, <2>4, <2>5, <2>6 DEF FileInv, Darwin
<1> QED BY <1>1, <1>4, <1>5, <1>11 DEF h, i, n

LEMMA BsdSubmitStep ==
    ASSUME IInv, Faults = {}, NEW t \in Transfer, BsdSubmit(t)
    PROVE  IInv'
<1> USE DEF IInv
<1>1. /\ ~Darwin /\ tr[t].pc = "listed" /\ UNCHANGED <<fd, limit>> /\ NotTransfers
      /\ io[t] = "none" /\ io = [io EXCEPT ![t] = "none"] /\ result[t] = "flying"
      /\ tr[t].h \in open /\ tr[t].h \in Handle
  BY DEF BsdSubmit, IoInv, BusyInv, TypeOK
<1>2. CASE Refused(t) /\ UNCHANGED <<file, endpoints>>
  <2>1. UNCHANGED bsd
    BY <1>1, <1>2 DEF bsd
  <2> QED BY <1>1, <1>2, <2>1, EndStep DEF Refused
<1>3. ASSUME UNCHANGED <<result, asked, io>>, FileInv', file' \in [Fd -> FileState],
             endpoints' \in [Handle -> [Interface -> Fd \cup {-1}]], ugen,
             \A k \in Fd : file[k] # NoFile => file'[k] = file[k],
             NEW n \in Fd, file'[n] = FileOf(t), SetTr(t, [tr[t] EXCEPT !.pc = "timeout", !.fd = n])
      PROVE  IInv'
  <2> DEFINE r == [tr[t] EXCEPT !.pc = "timeout", !.fd = n]
  <2>1. r \in TransferState /\ r.pc = "timeout" /\ r.h = tr[t].h /\ r.fd = n /\ SetTr(t, r)
    BY <1>3, TransferType DEF TransferState
  <2> HIDE DEF r
  <2>2. tr' \in [Transfer -> TransferState] /\ tr'[t] = r /\ \A u \in Transfer \ {t} : tr'[u] = tr[u]
    BY <2>1, SetTransfer
  <2>3. TypeOK'
    BY <1>1, <1>3, <2>2, TransferTypes DEF TypeOK
  <2>4. \A u \in Transfer : ugen /\ tr[u].pc \in {"timeout", "request"} => file'[tr[u].fd] = file[tr[u].fd]
    <3>1. \A u \in Transfer : ugen /\ tr[u].pc \in {"timeout", "request"} =>
            tr[u].fd \in Fd /\ file[tr[u].fd] # NoFile
      BY TransferType, Files DEF RequestInv, FileOf
    <3> QED BY <1>3, <3>1
  <2>5. n # -1
    BY Constants
  <2> QED BY <1>1, <1>3, <2>1, <2>2, <2>3, <2>4, <2>5, OneTransfer
<1>4. CASE Control(t) /\ UNCHANGED <<result, asked, file, endpoints>> /\ ugen /\ UNCHANGED io
           /\ SetTr(t, [tr[t] EXCEPT !.pc = "timeout", !.fd = fd])
  <2>1. fd \in Fd /\ file[fd] = DeviceFile(tr[t].h)
    BY <1>1, <1>4 DEF FileInv, TypeOK
  <2>2. FileInv'
    BY <1>1, <1>4, FileFrame
  <2> QED BY <1>3, <1>4, <2>1, <2>2 DEF FileOf, TypeOK
<1>5. CASE Control(t) /\ UNCHANGED <<result, asked, file, endpoints>> /\ ~ugen
           /\ SetTr(t, [tr[t] EXCEPT !.pc = "request"]) /\ io' = [io EXCEPT ![t] = "pending"]
  <2> DEFINE r == [tr[t] EXCEPT !.pc = "request"]
  <2>1. r \in TransferState /\ r.pc = "request" /\ r.h = tr[t].h /\ SetTr(t, r)
    BY <1>5, TransferType DEF TransferState
  <2> HIDE DEF r
  <2>2. tr' \in [Transfer -> TransferState] /\ tr'[t] = r /\ \A u \in Transfer \ {t} : tr'[u] = tr[u]
    BY <2>1, SetTransfer
  <2>3. io' \in [Transfer -> Requests] /\ io'[t] = "pending" /\ \A u \in Transfer \ {t} : io'[u] = io[u]
    BY <1>5 DEF TypeOK, Requests
  <2>4. TypeOK'
    BY <1>1, <1>5, <2>2, <2>3, TransferTypes DEF TypeOK
  <2>5. FileInv'
    BY <1>1, <1>5, FileFrame
  <2> QED BY <1>1, <1>5, <2>1, <2>2, <2>3, <2>4, <2>5, OneTransfer
<1>6. CASE ~Control(t) /\ UNCHANGED <<result, asked, io>> /\ ugen /\ ObsdAccess(t)
  <2>1. Kind[t].itf \in claimed[tr[t].h] /\ Kind[t].itf \in Interface
    BY <1>1, <1>6, Constants DEF BusyInv
  <2>2. Endpoint(t) \in Fd \cup {-1}
    BY <1>1, <2>1, SMTT(30) DEF Endpoint, TypeOK
  <2>3. CASE Endpoint(t) >= 0
    <3>1. /\ SetTr(t, [tr[t] EXCEPT !.pc = "timeout", !.fd = Endpoint(t)]) /\ UNCHANGED <<file, endpoints>>
          /\ Endpoint(t) \in Fd /\ Endpoint(t) # -1
      BY <1>6, <2>2, <2>3 DEF ObsdAccess
    <3>2. file[Endpoint(t)] = EndpointFile(tr[t].h, Kind[t].itf)
      BY <1>1, <2>1, <3>1 DEF FileInv, Endpoint
    <3>3. FileInv'
      BY <1>1, <3>1, FileFrame, SMTT(30)
    <3> QED BY <1>3, <1>6, <3>1, <3>2, <3>3 DEF FileOf, TypeOK
  <2>4. CASE ~(Endpoint(t) >= 0)
    <3>1. /\ FreeFds # {}
          /\ file' = [file EXCEPT ![FirstFree] = EndpointFile(tr[t].h, Kind[t].itf)]
          /\ endpoints' = [endpoints EXCEPT ![tr[t].h][Kind[t].itf] = FirstFree]
          /\ SetTr(t, [tr[t] EXCEPT !.pc = "timeout", !.fd = FirstFree])
      BY <1>6, <2>4 DEF ObsdAccess
    <3>2. Endpoint(t) < 0
      BY <2>2, <2>4, Constants
    <3>3. /\ FileInv' /\ FirstFree \in Fd /\ file'[FirstFree] = EndpointFile(tr[t].h, Kind[t].itf)
          /\ \A k \in Fd : file[k] # NoFile => file'[k] = file[k]
          /\ file' \in [Fd -> FileState] /\ endpoints' \in [Handle -> [Interface -> Fd \cup {-1}]]
      BY <1>1, <1>6, <3>1, <3>2, EndpointOpened
    <3> QED BY <1>3, <1>6, <3>1, <3>3 DEF FileOf
  <2> QED BY <2>3, <2>4
<1>7. backend = "openbsd" \/ (backend = "netbsd" /\ ugen)
  <2>1. backend = "openbsd" \/ backend = "netbsd"
    BY <1>1, BackendIs
  <2>2. backend # "openbsd" => ugen
    BY DEF FileInv
  <2> QED BY <2>1, <2>2
<1> QED BY <1>2, <1>4, <1>5, <1>6, <1>7
        DEF BsdSubmit, ObsdUnsupported, ObsdControl, NetbsdControl, NetbsdAccess

LEMMA SetTimeoutStep ==
    ASSUME IInv, Faults = {}, NEW t \in Transfer, SetTimeout(t)
    PROVE  IInv'
<1> USE DEF IInv
<1>1. /\ tr[t].pc = "timeout" /\ UNCHANGED <<fd, file, endpoints>> /\ NotTransfers
      /\ ~Darwin /\ ugen /\ io[t] = "none" /\ result[t] = "flying" /\ io = [io EXCEPT ![t] = "none"]
      /\ tr[t].fd \in Fd /\ file[tr[t].fd] = FileOf(t)
  BY TransferType DEF SetTimeout, IoInv, RequestInv, TypeOK
<1>2. CASE Refused(t) /\ UNCHANGED limit
  <2>1. UNCHANGED bsd
    BY <1>1, <1>2 DEF bsd
  <2> QED BY <1>1, <1>2, <2>1, EndStep DEF Refused
<1>3. CASE /\ limit' = [limit EXCEPT ![tr[t].fd] = t] /\ io' = [io EXCEPT ![t] = "pending"]
           /\ SetTr(t, [tr[t] EXCEPT !.pc = "request"]) /\ UNCHANGED <<result, asked>>
  <2> DEFINE r == [tr[t] EXCEPT !.pc = "request"]
  <2>1. r \in TransferState /\ r.pc = "request" /\ r.h = tr[t].h /\ r.fd = tr[t].fd /\ SetTr(t, r)
    BY <1>3, TransferType DEF TransferState
  <2> HIDE DEF r
  <2>2. tr' \in [Transfer -> TransferState] /\ tr'[t] = r /\ \A u \in Transfer \ {t} : tr'[u] = tr[u]
    BY <2>1, SetTransfer
  <2>3. io' \in [Transfer -> Requests] /\ io'[t] = "pending" /\ \A u \in Transfer \ {t} : io'[u] = io[u]
    BY <1>3 DEF TypeOK, Requests
  <2>4. /\ limit' \in [Fd -> Transfer \cup {None}] /\ limit'[tr[t].fd] = t
        /\ \A k \in Fd \ {tr[t].fd} : limit'[k] = limit[k]
    BY <1>1, <1>3 DEF TypeOK
  <2>5. TypeOK'
    BY <1>1, <1>3, <2>2, <2>3, <2>4, TransferTypes DEF TypeOK
  <2>6. FileInv'
    BY <1>1, FileFrame
  <2>7. ASSUME NEW u \in Transfer \ {t}, tr[u].pc \in {"timeout", "request"}
        PROVE  limit'[tr[u].fd] = limit[tr[u].fd]
    <3>1. tr[u].fd \in Fd /\ file[tr[u].fd] = FileOf(u)
      BY <1>1, <2>7, TransferType DEF RequestInv
    <3>2. Kind[u].itf # Kind[t].itf
      BY <1>1, <2>7 DEF BusyInv
    <3>3. FileOf(u) # FileOf(t)
      BY <3>2, Files, Constants DEF FileOf
    <3> QED BY <1>1, <2>4, <3>1, <3>3
  <2>8. \A u \in Transfer \ {t} :
          /\ tr'[u] = tr[u] /\ result'[u] = result[u] /\ io'[u] = io[u]
          /\ ugen /\ tr[u].pc \in {"timeout", "request"} =>
                file'[tr[u].fd] = file[tr[u].fd] /\ limit'[tr[u].fd] = limit[tr[u].fd]
    BY <1>1, <1>3, <2>2, <2>3, <2>7
  <2>9. tr'[t].fd # -1 /\ file'[tr'[t].fd] = FileOf(t) /\ limit'[tr'[t].fd] = t /\ result'[t] = "flying"
    BY <1>1, <1>3, <2>1, <2>2, <2>4, Constants
  <2> QED BY <1>1, <2>1, <2>2, <2>3, <2>5, <2>6, <2>8, <2>9, OneTransfer
<1> QED BY <1>2, <1>3 DEF SetTimeout

LEMMA RequestStep ==
    ASSUME IInv, Faults = {}, NEW t \in Transfer, Request(t)
    PROVE  IInv'
<1> USE DEF IInv
<1>1. tr[t].pc = "request" /\ UNCHANGED bsd /\ NotTransfers /\ ~Darwin /\ result[t] = "flying"
  BY DEF Request, IoInv
<1>2. CASE /\ io' = [io EXCEPT ![t] = "none"] /\ SetTr(t, Unused)
           /\ result' = [result EXCEPT ![t] = "idle"] /\ UNCHANGED asked
  BY <1>1, <1>2, EndStep
<1>3. CASE io' = [io EXCEPT ![t] = "ok"] /\ SetTr(t, [tr[t] EXCEPT !.pc = "in_flight"])
           /\ UNCHANGED <<result, asked>>
  <2> DEFINE r == [tr[t] EXCEPT !.pc = "in_flight"]
  <2>1. r \in TransferState /\ r.pc = "in_flight" /\ r.h = tr[t].h /\ SetTr(t, r)
    BY <1>3, TransferType DEF TransferState
  <2> HIDE DEF r
  <2>2. tr' \in [Transfer -> TransferState] /\ tr'[t] = r /\ \A u \in Transfer \ {t} : tr'[u] = tr[u]
    BY <2>1, SetTransfer
  <2>3. io' \in [Transfer -> Requests] /\ io'[t] = "ok" /\ \A u \in Transfer \ {t} : io'[u] = io[u]
    BY <1>3 DEF TypeOK, Requests
  <2>4. TypeOK'
    BY <1>1, <1>3, <2>2, <2>3, TransferTypes DEF TypeOK, bsd
  <2>5. FileInv'
    BY <1>1, FileFrame DEF bsd
  <2> QED BY <1>1, <1>3, <2>1, <2>2, <2>3, <2>4, <2>5, OneTransfer DEF bsd
<1> QED BY <1>2, <1>3 DEF Request

\* The system's requests may end at any time: a transfer has one only while it flies.
LEMMA RequestsEnd ==
    ASSUME IInv, NotTransfers, UNCHANGED <<bsd, tr, result>>, asked' \subseteq Transfer,
           io' \in [Transfer -> Requests],
           \A u \in Transfer : io'[u] = io[u] \/ (io[u] = "pending" /\ io'[u] \notin {"none", "pending"})
    PROVE  IInv'
<1> USE DEF IInv
<1>1. OpenInv' /\ ConfigInv' /\ OwnerInv' /\ FileInv' /\ UNCHANGED <<backend, ugen, open, claimed>>
  BY HandleFrame, FileFrame DEF bsd
<1>2. TypeOK'
  BY TransferTypes DEF TypeOK, bsd
<1>3. BusyInv' /\ RequestInv'
  BY <1>1 DEF BusyInv, RequestInv, FileOf, Control, Darwin, bsd
<1>4. IoInv'
  BY <1>1 DEF IoInv, Darwin
<1> QED BY <1>1, <1>2, <1>3, <1>4

LEMMA AbortEnds ==
    ASSUME IInv, NEW S, Abort(S)
    PROVE  /\ io' \in [Transfer -> Requests]
           /\ \A u \in Transfer : io'[u] = io[u] \/ (io[u] = "pending" /\ io'[u] = "aborted")
BY DEF IInv, TypeOK, Abort, Pending, Requests

LEMMA ResetStep ==
    ASSUME IInv, Faults = {}, NEW h \in Handle, Reset(h)
    PROVE  IInv'
<1>1. PICK S \in SUBSET Pending : Abort(S)
  BY DEF Reset, DarwinReset
<1>2. UNCHANGED <<bsd, tr, asked, result>> /\ NotTransfers /\ asked \subseteq Transfer
  BY DEF Reset, IInv, TypeOK
<1>3. /\ io' \in [Transfer -> Requests]
      /\ \A u \in Transfer : io'[u] = io[u] \/ (io[u] = "pending" /\ io'[u] = "aborted")
  BY <1>1, AbortEnds
<1> QED BY <1>2, <1>3, RequestsEnd

LEMMA AsyncIoCallbackStep ==
    ASSUME IInv, Faults = {}, NEW t \in Transfer, AsyncIoCallback(t)
    PROVE  IInv'
<1>1. PICK r \in {"ok", "failed", "stalled", "timeout"} : io' = [io EXCEPT ![t] = r]
  BY DEF AsyncIoCallback
<1>2. io[t] = "pending" /\ UNCHANGED <<bsd, tr, asked, result>> /\ NotTransfers /\ asked \subseteq Transfer
  BY DEF AsyncIoCallback, IInv, TypeOK
<1>3. /\ io' \in [Transfer -> Requests] /\ io'[t] = r
      /\ \A u \in Transfer \ {t} : io'[u] = io[u]
  BY <1>1 DEF IInv, TypeOK, Requests
<1> QED BY <1>2, <1>3, RequestsEnd

LEMMA CancelStep ==
    ASSUME IInv, Faults = {}, NEW t \in Transfer, Cancel(t)
    PROVE  IInv'
<1>1. UNCHANGED io \/ \E S : Abort(S)
  <2>1. Darwin \/ backend = "openbsd" \/ backend = "netbsd"
    BY BackendIs DEF IInv
  <2>2. CASE Darwin
    <3>1. DarwinCancel(t)
      BY <2>2 DEF Cancel, Darwin
    <3> QED BY <3>1 DEF DarwinCancel, CancelControl, AbortTransfers
  <2>3. CASE ~Darwin
    BY <2>1, <2>3 DEF Cancel, ObsdCancel, NetbsdCancel
  <2> QED BY <2>2, <2>3
<1>2. UNCHANGED <<bsd, tr, result>> /\ NotTransfers /\ asked' \subseteq Transfer
  BY DEF Cancel, IInv, TypeOK
<1>3. /\ io' \in [Transfer -> Requests]
      /\ \A u \in Transfer : io'[u] = io[u] \/ (io[u] = "pending" /\ io'[u] = "aborted")
  <2>1. CASE UNCHANGED io
    BY <2>1 DEF IInv, TypeOK
  <2> QED BY <1>1, <2>1, AbortEnds
<1> QED BY <1>2, <1>3, RequestsEnd

\* What a completion reports is a status.
LEMMA StatusIs ==
    ASSUME TypeOK, NEW t \in Transfer, io[t] \notin {"none", "pending"}
    PROVE  Status(t) \in Statuses
<1>1. io[t] \in {"aborted", "ok", "failed", "stalled", "timeout"}
  BY DEF TypeOK, Requests
<1>2. CASE Darwin
  <2>1. Status(t) = DarwinStatus[io[t]]
    BY <1>2 DEF Status, Darwin
  <2>2. /\ DarwinStatus["ok"] = "completed" /\ DarwinStatus["aborted"] = "cancelled"
        /\ DarwinStatus["stalled"] = "stall" /\ DarwinStatus["timeout"] = "timed_out"
        /\ DarwinStatus["failed"] = "error"
    BY DEF DarwinStatus
  <2> QED BY <1>1, <2>1, <2>2 DEF Statuses
<1>3. CASE ~Darwin
  <2>1. backend = "openbsd" \/ backend = "netbsd"
    BY <1>3, BackendIs
  <2>2. Status(t) = "completed"
    BY <1>3, <2>1 DEF Status, ObsdStatus, NetbsdStatus
  <2> QED BY <2>2 DEF Statuses
<1> QED BY <1>2, <1>3

LEMMA HandleCompletionStep ==
    ASSUME IInv, Faults = {}, NEW t \in Transfer, HandleCompletion(t)
    PROVE  /\ IInv' /\ io' = [io EXCEPT ![t] = "none"] /\ UNCHANGED asked
           /\ \E s \in Statuses : result' = [result EXCEPT ![t] = s]
<1>1. /\ tr[t].pc = "in_flight" /\ io[t] \notin {"none", "pending"} /\ UNCHANGED <<bsd, asked>> /\ NotTransfers
      /\ ~(Darwin /\ Kind[t].type = "stream")
  BY DEF HandleCompletion, Done, IInv, BusyInv
<1>2. SetTr(t, Unused) /\ result' = [result EXCEPT ![t] = Status(t)] /\ io' = [io EXCEPT ![t] = "none"]
  BY <1>1 DEF HandleCompletion
<1>3. Status(t) \in Statuses
  BY <1>1, StatusIs DEF IInv
<1>4. IInv'
  <2> DEFINE s == Status(t)
  <2>1. s \in {"idle"} \cup Statuses /\ result' = [result EXCEPT ![t] = s]
    BY <1>2, <1>3
  <2> HIDE DEF s
  <2> QED BY <1>1, <1>2, <2>1, EndStep
<1> QED BY <1>1, <1>2, <1>3, <1>4

----------------------------------------------------------------------------
(* The theorems.                                                           *)

LEMMA InitInv == Init => IInv
<1> SUFFICES ASSUME Init PROVE IInv
  OBVIOUS
<1>1. /\ backend \in Backends /\ ugen \in BOOLEAN /\ open = {} /\ claimed = [h \in Handle |-> {}]
      /\ alt = {} /\ told = {} /\ config \in {0, 1} /\ (~Darwin => config = 1)
      /\ active = config
      /\ backend # "openbsd" => ugen
  BY Constants DEF Init, Darwin, Configured
<1>2. TypeOK
  <2>1. /\ limit \in [Fd -> Transfer \cup {None}] /\ endpoints \in [Handle -> [Interface -> Fd \cup {-1}]]
        /\ fd \in Fd \cup {-1} /\ count = 0 /\ isOpen = {} /\ source = {} /\ harm = {}
    BY Constants DEF Init
  <2>2. file \in [Fd -> FileState]
    BY FileType, Constants DEF Init
  <2>3. /\ itf \in [Handle -> [Interface -> {"none", "object", "ready"}]]
        /\ freed \in [Handle -> SUBSET Interface] /\ owner \in [Interface -> Handle \cup {None}]
    BY DEF Init
  <2>4. Unused \in TransferState
    BY Constants DEF Unused, TransferState
  <2>5. /\ tr \in [Transfer -> TransferState] /\ io \in [Transfer -> Requests] /\ asked = {}
        /\ result \in [Transfer -> {"idle", "flying"} \cup Statuses]
    BY <2>4 DEF Init, Requests
  <2> QED BY <1>1, <2>1, <2>2, <2>3, <2>5 DEF TypeOK
<1>3. OpenInv
  BY <1>1, FS_EmptySet DEF Init, OpenInv
<1>4. ConfigInv /\ OwnerInv
  BY <1>1, Constants DEF Init, ConfigInv, OwnerInv
<1>5. FileInv
  BY <1>1, Constants DEF Init, FileInv
<1>6. \A t \in Transfer : tr[t].pc = "idle" /\ io[t] = "none" /\ result[t] = "idle"
  BY DEF Init, Unused
<1>7. BusyInv /\ IoInv /\ RequestInv
  BY <1>6 DEF BusyInv, IoInv, RequestInv
<1> QED BY <1>2, <1>3, <1>4, <1>5, <1>7 DEF IInv

LEMMA NextInv ==
    ASSUME IInv, Faults = {}, [Next]_vars
    PROVE  IInv'
<1>1. CASE UNCHANGED vars
  BY <1>1 DEF vars, bsd, darwin, transfers, settings, IInv, TypeOK, OpenInv, ConfigInv, OwnerInv, FileInv,
              BusyInv, IoInv, RequestInv, FileOf, Control, Darwin
<1>2. ASSUME NEW h \in Handle, OpenHandle(h) \/ CloseHandle(h) \/ Reset(h) PROVE IInv'
  BY <1>2, OpenHandleStep, CloseHandleStep, ResetStep
<1>3. ASSUME NEW h \in Handle, NEW i \in Interface, NEW second \in BOOLEAN, SetAltSetting(h, i, second)
      PROVE  IInv'
  BY <1>3, SetAltSettingStep
<1>4. ASSUME NEW h \in Handle, NEW c \in 1..2, SetConfiguration(h, c) PROVE IInv'
  BY <1>4, SetConfigurationStep
<1>5. ASSUME NEW h \in Handle, NEW i \in Interface, Claim(h, i) \/ Release(h, i) PROVE IInv'
  BY <1>5, ClaimStep, ReleaseStep
<1>6. ASSUME NEW t \in Transfer, NEW h \in Handle, SubmitStart(t, h) PROVE IInv'
  BY <1>6, SubmitStartStep
<1>7. ASSUME NEW t \in Transfer, Submission(t) \/ Request(t) PROVE IInv'
  BY <1>7, DarwinSubmitStep, StartedStep, BsdSubmitStep, SetTimeoutStep, RequestStep DEF Submission
<1>8. ASSUME NEW t \in Transfer, AsyncIoCallback(t) \/ Cancel(t) \/ HandleCompletion(t) PROVE IInv'
  BY <1>8, AsyncIoCallbackStep, CancelStep, HandleCompletionStep
<1> QED BY <1>1, <1>2, <1>3, <1>4, <1>5, <1>6, <1>7, <1>8 DEF Next

\* The inductive invariant, of which the safety properties are consequences.
THEOREM Invariance == Faults = {} => (Spec => []IInv)
<1> SUFFICES ASSUME Faults = {} PROVE Spec => []IInv
  OBVIOUS
<1> QED BY InitInv, NextInv, PTL DEF Spec

\* A request of a transfer goes to its own file or pipe and, on the BSDs, under its
\* own timeout, whatever was claimed, released and opened again since.
THEOREM RequestsGoWhereTheyShould == Faults = {} => (Spec => []RequestsGoRight)
<1> SUFFICES ASSUME Faults = {} PROVE Spec => []RequestsGoRight
  OBVIOUS
<1>1. IInv => RequestsGoRight
  <2> SUFFICES ASSUME IInv, NEW t \in Transfer, io[t] = "pending"
               PROVE  LET h == tr[t].h
                          i == Kind[t].itf
                      IN IF Darwin
                         THEN ~Control(t) \/ (Kind[t].out /\ Kind[t].zero)
                                 => EpToPipeRef(h, i) /\ owner[i] = h
                         ELSE ~ugen \/ /\ limit[tr[t].fd] = t
                                       /\ file[tr[t].fd] = IF Control(t) THEN DeviceFile(h)
                                                           ELSE EndpointFile(h, i)
    BY DEF RequestsGoRight
  <2>1. tr[t].pc # "idle"
    BY DEF IInv, IoInv
  <2>2. tr[t].h \in Handle /\ (~Control(t) => Kind[t].itf \in claimed[tr[t].h] /\ Kind[t].itf \in Interface)
    BY <2>1, Constants DEF IInv, BusyInv, TypeOK
  <2>3. CASE Darwin
    <3>1. ~(Control(t) /\ Kind[t].zero)
      BY <2>1, <2>3 DEF IInv, BusyInv
    <3>2. ~Control(t) => owner[Kind[t].itf] = tr[t].h /\ itf[tr[t].h][Kind[t].itf] = "ready"
      BY <2>2, <2>3 DEF IInv, OwnerInv
    <3> QED BY <2>2, <2>3, <3>1, <3>2 DEF EpToPipeRef
  <2>4. CASE ~Darwin
    <3>1. tr[t].pc = "request"
      BY <2>4 DEF IInv, IoInv
    <3>2. ~ugen \/ (limit[tr[t].fd] = t /\ file[tr[t].fd] = FileOf(t))
      BY <3>1 DEF IInv, RequestInv
    <3> QED BY <2>4, <3>2 DEF FileOf
  <2> QED BY <2>3, <2>4
<1> QED BY <1>1, Invariance, PTL

\* A handle has what it claimed, in the configuration and the settings that the
\* program was told of, and when the last is closed nothing of the device is left.
THEOREM HandlesAreSound == Faults = {} => (Spec => []HandlesSound)
<1> SUFFICES ASSUME Faults = {} PROVE Spec => []HandlesSound
  OBVIOUS
<1>1. IInv => HandlesSound
  <2> SUFFICES ASSUME IInv PROVE ClaimsKnown /\ NothingLeft
    BY DEF HandlesSound
  <2>1. GetConfiguration = config /\ ActiveConfig = config
    <3>1. active = config
      BY DEF IInv, ConfigInv
    <3>2. CASE backend = "darwin"
      BY <3>1, <3>2 DEF GetConfiguration, ActiveConfig, DarwinConfiguration, DarwinActive
    <3>3. CASE backend = "openbsd"
      BY <3>1, <3>3 DEF GetConfiguration, ActiveConfig, ObsdConfiguration, ObsdActive
    <3>4. CASE backend = "netbsd"
      BY <3>1, <3>4 DEF GetConfiguration, ActiveConfig, NetbsdConfiguration, NetbsdActive
    <3> QED BY <3>2, <3>3, <3>4, BackendIs DEF IInv, Darwin
  <2>2. ClaimsKnown
    <3>1. told = alt
      BY DEF IInv, ConfigInv
    <3>2. Darwin => \A h \in open, i \in Interface :
            /\ i \in claimed[h] <=> owner[i] = h
            /\ i \in claimed[h] => itf[h][i] = "ready" /\ i \in Has[config]
      BY DEF IInv, OwnerInv, TypeOK
    <3> QED BY <2>1, <3>1, <3>2 DEF ClaimsKnown
  <2>3. harm = {} /\ file[0] = Stdin
    BY DEF IInv, OwnerInv, FileInv
  <2>4. ASSUME open = {}
        PROVE  /\ \A k \in Fd \ {0} : file[k] = NoFile
               /\ source = {} /\ isOpen = {} /\ count = 0 /\ \A i \in Interface : owner[i] = None
    <3>1. CASE Darwin
      <4>1. source = {} /\ isOpen = {}
        BY <2>4, <3>1 DEF IInv, OpenInv
      <4>2. count = 0
        BY <2>4, <3>1, FS_EmptySet DEF IInv, OpenInv
      <4>3. \A h \in Handle, i \in Interface : owner[i] # h
        BY <2>4, <3>1 DEF IInv, OpenInv, OwnerInv
      <4>4. \A i \in Interface : owner[i] = None
        BY <4>3 DEF IInv, TypeOK
      <4> QED BY <3>1, <4>1, <4>2, <4>4 DEF IInv, FileInv
    <3>2. CASE ~Darwin
      <4>1. source = {} /\ isOpen = {} /\ count = 0 /\ \A i \in Interface : owner[i] = None
        BY <3>2 DEF IInv, OpenInv
      <4>2. fd = -1
        BY <2>4, <3>2 DEF IInv, FileInv
      <4>3. \A k \in Fd \ {0} : file[k] = NoFile
        BY <2>4, <3>2, <4>2, Constants DEF IInv, FileInv
      <4> QED BY <4>1, <4>3
    <3> QED BY <3>1, <3>2
  <2> QED BY <2>2, <2>3, <2>4 DEF NothingLeft
<1> QED BY <1>1, Invariance, PTL

----------------------------------------------------------------------------
(* The refinement of TransferBackend.                                      *)

\* A step begins a flight, ends one, or leaves all as they were.
Launches(t) == result[t] # "flying" /\ io[t] = "none" /\ io' = io /\ result' = [result EXCEPT ![t] = "flying"]
Ends(t, s) == result[t] = "flying" /\ result' = [result EXCEPT ![t] = s]
              /\ io' = [io EXCEPT ![t] = "none"]

LEMMA RefusalEnds ==
    ASSUME IInv, NEW t \in Transfer, tr[t].pc \in {"listed", "timeout"}, Refused(t)
    PROVE  Ends(t, "idle")
BY DEF Refused, Ends, IInv, TypeOK, IoInv

LEMMA OutcomeStep ==
    ASSUME IInv, Faults = {}, [Next]_vars
    PROVE  UNCHANGED result \/ (\E t \in Transfer : Launches(t))
           \/ (\E t \in Transfer, s \in Statuses \cup {"idle"} : Ends(t, s))
<1>1. CASE UNCHANGED vars
  BY <1>1 DEF vars, transfers
<1>2. ASSUME NEW h \in Handle, OpenHandle(h) \/ CloseHandle(h) \/ Reset(h) PROVE UNCHANGED result
  BY <1>2 DEF OpenHandle, CloseHandle, Reset, transfers
<1>3. ASSUME NEW h \in Handle, NEW i \in Interface, NEW second \in BOOLEAN, NEW c \in 1..2,
             SetAltSetting(h, i, second) \/ SetConfiguration(h, c) \/ Claim(h, i) \/ Release(h, i)
      PROVE  UNCHANGED result
  BY <1>3 DEF SetAltSetting, SetConfiguration, Claim, Release, transfers
<1>4. ASSUME NEW t \in Transfer, NEW h \in Handle, SubmitStart(t, h) PROVE Launches(t)
  BY <1>4 DEF SubmitStart, Launches, IInv, IoInv
<1>5. ASSUME NEW t \in Transfer, Submission(t) PROVE UNCHANGED result \/ Ends(t, "idle")
  <2>1. CASE DarwinSubmit(t) \/ BsdSubmit(t) \/ SetTimeout(t)
    <3>1. tr[t].pc \in {"listed", "timeout"} /\ (UNCHANGED result \/ Refused(t))
      BY <2>1 DEF DarwinSubmit, BsdSubmit, SetTimeout
    <3> QED BY <3>1, RefusalEnds
  <2>2. CASE Started(t)
    BY <2>2 DEF Started
  <2> QED BY <1>5, <2>1, <2>2 DEF Submission
<1>6. ASSUME NEW t \in Transfer, Request(t) PROVE UNCHANGED result \/ Ends(t, "idle")
  BY <1>6 DEF Request, Ends, IInv, IoInv
<1>7. ASSUME NEW t \in Transfer, AsyncIoCallback(t) \/ Cancel(t) PROVE UNCHANGED result
  BY <1>7 DEF AsyncIoCallback, Cancel
<1>8. ASSUME NEW t \in Transfer, HandleCompletion(t) PROVE \E s \in Statuses : Ends(t, s)
  <2>1. result[t] = "flying"
    BY <1>8 DEF HandleCompletion, IInv, IoInv
  <2>2. io' = [io EXCEPT ![t] = "none"] /\ \E s \in Statuses : result' = [result EXCEPT ![t] = s]
    BY <1>8, HandleCompletionStep
  <2> QED BY <2>1, <2>2 DEF Ends
<1>9. 1 \in 1..2 /\ 0 \in Interface /\ TRUE \in BOOLEAN
  BY Constants
<1> QED BY <1>1, <1>2, <1>3, <1>4, <1>5, <1>6, <1>7, <1>8, <1>9 DEF Next

\* The macOS and BSD backends implement TransferBackend, what io.c relies on: a
\* transfer is reported once, when the system has let go of its buffer.
THEOREM BackendImplemented == Faults = {} => (Spec => ImplementsBackend)
<1> SUFFICES ASSUME Faults = {} PROVE Spec => ImplementsBackend
  OBVIOUS
<1>1. Init => Backend!Init
  BY DEF Init, Backend!Init, Pending
<1>2. IInv /\ IInv' /\ [Next]_vars => [Backend!Next]_<<result, Pending>>
  <2> SUFFICES ASSUME IInv, IInv', [Next]_vars PROVE Backend!Next
    OBVIOUS
  <2>1. Pending' \subseteq {x \in Transfer : result'[x] = "flying"}
    BY DEF IInv, IoInv, Pending
  <2>2. CASE UNCHANGED result
    <3>1. Backend!Exchange
      BY <2>1, <2>2 DEF Backend!Exchange
    <3> QED BY <3>1 DEF Backend!Next
  <2>3. ASSUME NEW t \in Transfer, Launches(t) PROVE Backend!Next
    <3>1. t \notin Pending /\ Pending' = Pending
      BY <2>3 DEF Launches, Pending
    <3>2. Backend!Submit(t)
      BY <2>3, <3>1 DEF Launches, Backend!Submit
    <3> QED BY <3>2 DEF Backend!Next
  <2>4. ASSUME NEW t \in Transfer, NEW s \in Statuses \cup {"idle"}, Ends(t, s) PROVE Backend!Next
    <3>1. Pending' = Pending \ {t}
      BY <2>4 DEF Ends, Pending, IInv, TypeOK
    <3>2. Backend!End(t)
      BY <2>4, <3>1 DEF Ends, Backend!End
    <3> QED BY <3>2 DEF Backend!Next
  <2> QED BY <2>2, <2>3, <2>4, OutcomeStep
<1> QED BY <1>1, <1>2, Invariance, PTL DEF Spec, ImplementsBackend, Backend!Spec
=============================================================================
