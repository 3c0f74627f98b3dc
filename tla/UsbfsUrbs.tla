----------------------------- MODULE UsbfsUrbs -----------------------------
(***************************************************************************)
(* One transfer of several URBs over usbfs (src/libusb/libusb/os/          *)
(* linux_usbfs.c): a bulk or interrupt transfer split into blocks, an      *)
(* isochronous one split into groups of packets, or a control transfer.    *)
(*                                                                         *)
(* Each ioctl is a step, for the kernel completes URBs between them;       *)
(* itransfer->lock is held over a whole submission and over each loop of   *)
(* discard_urbs, and work says which of them holds it. The names are other *)
(* than those of UsbfsDevice: UsbfsProofs has the proofs about both.       *)
(***************************************************************************)
EXTENDS Naturals, Sequences

CONSTANTS
    MaxUrbs,       \* bound: URBs of a transfer
    Block,         \* bytes in an URB
    MaxSubmits,    \* bound: submissions in a behaviour
    Kinds,         \* types of transfer: of "bulk", "interrupt", "iso", "control"
    Errors,        \* what may go wrong with an URB: of "EPIPE", "EPROTO", "EOVERFLOW"
    UnplugAnytime  \* may the device go away between two discards?

ASSUME UrbsAssumption ==
    /\ MaxUrbs \in Nat \ {0} /\ Block \in Nat \ {0} /\ MaxSubmits \in Nat
    /\ Kinds \subseteq {"bulk", "interrupt", "iso", "control"}
    /\ Errors \subseteq {"EPIPE", "EPROTO", "EOVERFLOW"} /\ UnplugAnytime \in BOOLEAN

VARIABLES
    kind,          \* transfer->type
    isIn,          \* its direction
    cont,          \* use_bulk_continuation
    canReap,       \* USBFS_CAP_REAP_AFTER_DISCONNECT
    priv,          \* struct linux_transfer_priv
    work,          \* what the holder of itransfer->lock is doing
    cancelling,    \* USBI_TRANSFER_CANCELLING
    outcome,       \* "idle", "flying", or the status reported last
    buffer,        \* transfer->buffer: which received byte is where
    transferred,   \* itransfer->transferred
    packets,       \* of which URB each iso_packet_desc has the result
    urb,           \* the kernel: what it has of each URB,
    queue,         \*   URBs ready to be reaped,
    refused,       \*   a continued transfer that takes no more URBs,
    received,      \*   bytes received from the device,
    unplugged,     \*   the device is unplugged
    submitsLeft

setupVars == <<kind, isIn, cont, canReap>>
dataVars  == <<buffer, transferred, packets>>
urbVars == <<urb, queue, refused, received>>
urbsVars == <<setupVars, priv, work, cancelling, outcome, dataVars, urbVars, unplugged,
          submitsLeft>>

Urb == 1..MaxUrbs
Statuses == {"COMPLETED", "ERROR", "CANCELLED", "STALL", "OVERFLOW", "NO_DEVICE"}
UrbErrors == {"EPIPE", "EPROTO", "EOVERFLOW", "EREMOTEIO", "ENOENT",
              "ECONNRESET", "ESHUTDOWN"}
Actions == {"NORMAL", "SUBMIT_FAILED", "CANCELLED", "COMPLETED_EARLY", "ERROR"}
Bytes == MaxUrbs * Block

NoOp == [do |-> "none"]
Discarding(first, last, then) ==
    [do |-> "discard", i |-> last, first |-> first, last |-> last,
     then |-> then, r |-> "SUCCESS"]

UrbsTypeOK ==
    /\ kind \in Kinds /\ isIn \in BOOLEAN /\ cont \in BOOLEAN /\ canReap \in BOOLEAN
    /\ priv \in [urbs : BOOLEAN, num : Urb, retired : 0..MaxUrbs,
                 action : Actions, status : Statuses, offset : 0..MaxUrbs]
    /\ work.do \in {"none", "submit", "discard"}
    /\ cancelling \in BOOLEAN /\ unplugged \in BOOLEAN /\ refused \in BOOLEAN
    /\ outcome \in {"idle", "flying"} \cup Statuses
    /\ buffer \in [1..Bytes -> 0..Bytes]
    /\ transferred \in 0..Bytes /\ received \in 0..Bytes
    /\ packets \in [Urb -> 0..MaxUrbs]
    /\ urb \in [Urb -> {"none", "pending", "done"}]
    /\ \A k \in DOMAIN queue : queue[k].i \in Urb /\ queue[k].len \in 0..Block
    /\ submitsLeft \in 0..MaxSubmits

UrbsInit ==
    /\ kind \in Kinds /\ isIn \in BOOLEAN /\ canReap \in BOOLEAN
    /\ cont \in (IF kind \in {"bulk", "interrupt"} THEN BOOLEAN ELSE {FALSE})
    /\ priv = [urbs |-> FALSE, num |-> 1, retired |-> 0, action |-> "NORMAL",
               status |-> "COMPLETED", offset |-> 0]
    /\ work = NoOp
    /\ cancelling = FALSE /\ unplugged = FALSE /\ refused = FALSE
    /\ outcome = "idle"
    /\ buffer = [b \in 1..Bytes |-> 0]
    /\ transferred = 0 /\ received = 0
    /\ packets = [j \in Urb |-> 0]
    /\ urb = [i \in Urb |-> "none"]
    /\ queue = <<>>
    /\ submitsLeft = MaxSubmits

----------------------------------------------------------------------------
(* The kernel and the device.                                              *)

Pending == {i \in Urb : urb[i] = "pending"}
Oldest == CHOOSE i \in Pending : \A j \in Pending : i <= j

Done(i, status, len) == [i |-> i, status |-> status, len |-> len]

\* The URBs of S, a set of consecutive ones, come back in order.
GiveBack(S, status) ==
    LET lo == CHOOSE i \in S : \A j \in S : i <= j
        n  == IF S = {} THEN 0 ELSE (CHOOSE i \in S : \A j \in S : j <= i) - lo + 1
    IN [k \in 1..n |-> Done(lo + k - 1, status, 0)]

\* len bytes arrive in the block of URB i.
Receive(i, len) ==
    /\ received' = received + len
    /\ buffer' = IF isIn THEN [b \in 1..Bytes |->
                                 LET o == b - (i - 1) * Block
                                 IN IF o \in 1..len THEN received + o ELSE buffer[b]]
                         ELSE buffer

\* SHORT_NOT_OK is set on all URBs of a continued IN transfer but the last.
ShortNotOk(i) == cont /\ isIn /\ i < priv.num

\* What becomes of an URB with len bytes, when nothing else is wrong.
Transferred(i, len) == IF len < Block /\ ShortNotOk(i) THEN "EREMOTEIO" ELSE "ok"

\* The device completes the oldest URB, well or with an error; an error ends
\* all URBs of a continued transfer.
UrbCompletes(len, status) ==
    /\ ~unplugged /\ Pending # {}
    /\ \/ status = Transferred(Oldest, len) /\ (len < Block => isIn)
       \/ status \in Errors /\ len < Block
    /\ status = "EOVERFLOW" => Oldest = priv.num
    /\ Receive(Oldest, len)
    /\ LET rest == IF cont /\ status # "ok" THEN Pending \ {Oldest} ELSE {}
       IN /\ queue' = Append(queue, Done(Oldest, status, len))
                        \o GiveBack(rest, "ECONNRESET")
          /\ urb' = [i \in Urb |-> IF i = Oldest \/ i \in rest THEN "done" ELSE urb[i]]
    /\ refused' = (refused \/ (cont /\ status # "ok"))
    /\ UNCHANGED <<setupVars, priv, work, cancelling, outcome, transferred, packets,
                   unplugged, submitsLeft>>

\* Unplugging gives every URB back.
UnplugUrbs ==
    /\ ~unplugged /\ (UnplugAnytime \/ work.do # "discard")
    /\ unplugged' = TRUE
    /\ queue' = queue \o GiveBack(Pending, "ESHUTDOWN")
    /\ urb' = [i \in Urb |-> IF i \in Pending THEN "done" ELSE urb[i]]
    /\ UNCHANGED <<setupVars, priv, work, cancelling, outcome, dataVars, refused,
                   received, submitsLeft>>

----------------------------------------------------------------------------
(* Submission: libusb_submit_transfer and op_submit_transfer.              *)

\* The private part of a transfer that is to have n URBs: a control transfer
\* has one, a bulk one as many as its length takes, an isochronous one as many
\* as its packets take. Each resets what its completion handler uses.
PreparedControl == [priv EXCEPT !.urbs = TRUE, !.num = 1, !.action = "NORMAL"]

\* Mutation: the count of an earlier submission is kept.
PreparedBulk_kept(n) == [priv EXCEPT !.urbs = TRUE, !.num = n, !.action = "NORMAL",
                                     !.status = "COMPLETED"]

PreparedBulk(n) == [priv EXCEPT !.urbs = TRUE, !.num = n, !.retired = 0,
                                !.action = "NORMAL", !.status = "COMPLETED"]

PreparedIso(n) == [priv EXCEPT !.urbs = TRUE, !.num = n, !.retired = 0,
                               !.action = "NORMAL", !.offset = 0]

Prepared(n) ==
    CASE kind = "control" -> PreparedControl
      [] kind = "iso"     -> PreparedIso(n)
      [] OTHER            -> PreparedBulk(n)

Submit ==
    /\ work = NoOp /\ outcome # "flying"
    /\ submitsLeft > 0
    /\ submitsLeft' = submitsLeft - 1
    /\ \E n \in (IF kind = "control" THEN {1} ELSE Urb) : priv' = Prepared(n)
    /\ work' = [do |-> "submit", i |-> 1]
    /\ outcome' = "flying"
    /\ cancelling' = FALSE
    /\ transferred' = 0 /\ received' = 0
    /\ buffer' = [b \in 1..Bytes |-> 0]
    /\ packets' = [j \in Urb |-> 0]
    /\ refused' = FALSE
    /\ UNCHANGED <<setupVars, urb, queue, unplugged>>

\* The kernel takes the next URB.
SubmitUrb ==
    /\ work.do = "submit"
    /\ ~unplugged /\ ~refused
    /\ urb' = [urb EXCEPT ![work.i] = "pending"]
    /\ work' = IF work.i = priv.num THEN NoOp ELSE [work EXCEPT !.i = @ + 1]
    /\ UNCHANGED <<setupVars, priv, cancelling, outcome, dataVars, queue, refused,
                   received, unplugged, submitsLeft>>

\* It refuses the first one: the submission fails.
FirstUrbFails ==
    /\ work.do = "submit" /\ work.i = 1
    /\ priv' = [priv EXCEPT !.urbs = FALSE]
    /\ work' = NoOp
    /\ outcome' = "idle"
    /\ UNCHANGED <<setupVars, cancelling, dataVars, urbVars, unplugged, submitsLeft>>

\* Mutations: one too many, and one too few.
Unsubmitted_more(i) == priv.num - i + 2
Unsubmitted_less(i) == priv.num - i

\* URBs not submitted when the i-th one failed.
Unsubmitted(i) == priv.num - i + 1

\* It refuses a later one: the submission succeeds, URBs not submitted count
\* as retired, and those submitted are discarded, unless the kernel says that
\* the transfer needed no more of them.
LaterUrbFails ==
    /\ work.do = "submit" /\ work.i > 1
    /\ LET early == refused /\ ~unplugged
       IN /\ priv' = [priv EXCEPT !.action = IF early THEN "COMPLETED_EARLY"
                                                      ELSE "SUBMIT_FAILED",
                                  !.retired = Unsubmitted(work.i)]
          /\ work' = IF early THEN NoOp ELSE Discarding(1, work.i - 1, "submitted")
    /\ UNCHANGED <<setupVars, cancelling, outcome, dataVars, urbVars, unplugged,
                   submitsLeft>>

----------------------------------------------------------------------------
(* discard_urbs, from last to first, and what follows it.                  *)

DiscardUrb(len) ==
    /\ work.do = "discard" /\ work.i >= work.first
    /\ IF ~unplugged /\ urb[work.i] = "pending"
       THEN /\ len > 0 => isIn /\ work.i = Oldest
            /\ Receive(work.i, len)
            /\ urb' = [urb EXCEPT ![work.i] = "done"]
            /\ queue' = Append(queue, Done(work.i, "ENOENT", len))
            /\ work' = [work EXCEPT !.i = @ - 1]
       ELSE /\ len = 0
            /\ work' = [work EXCEPT !.i = @ - 1,
                                    !.r = IF unplugged THEN "NO_DEVICE"
                                          ELSE IF work.i = work.last THEN "NOT_FOUND" ELSE @]
            /\ UNCHANGED <<buffer, urb, queue, received>>
    /\ UNCHANGED <<setupVars, priv, cancelling, outcome, transferred, packets,
                   refused, unplugged, submitsLeft>>

\* op_cancel_transfer marks the transfer only when the discards went well.
DiscardsDone ==
    /\ work.do = "discard" /\ work.i < work.first
    /\ work' = NoOp
    /\ priv' = IF work.then = "cancelled" /\ work.r = "SUCCESS"
                  /\ ~(kind = "bulk" /\ priv.action = "ERROR")
               THEN [priv EXCEPT !.action = "CANCELLED"] ELSE priv
    /\ UNCHANGED <<setupVars, cancelling, outcome, dataVars, urbVars, unplugged,
                   submitsLeft>>

\* libusb_cancel_transfer, also for a timeout.
Cancel ==
    /\ work = NoOp
    /\ outcome = "flying" /\ ~cancelling
    /\ cancelling' = TRUE
    /\ work' = Discarding(1, priv.num, "cancelled")
    /\ UNCHANGED <<setupVars, priv, outcome, dataVars, urbVars, unplugged, submitsLeft>>

----------------------------------------------------------------------------
(* reap_for_handle and the completion handlers.                            *)

\* IOCTL_USBFS_REAPURBNDELAY, which fails for an unplugged device unless the
\* kernel can reap after a disconnection.
ReapUrb ==
    /\ work = NoOp /\ queue # <<>> /\ priv.urbs
    /\ unplugged => canReap
    /\ queue' = Tail(queue)
    /\ urb' = [urb EXCEPT ![Head(queue).i] = "none"]
    /\ UNCHANGED <<setupVars, cancelling, refused, received, unplugged, submitsLeft>>

\* The transfer ends: its URBs are freed and the status is reported.
Report(p, s) ==
    /\ priv' = [p EXCEPT !.urbs = FALSE]
    /\ outcome' = s
    /\ work' = NoOp

\* The transfer goes on.
Wait(p) == priv' = p /\ work' = NoOp /\ UNCHANGED outcome

\* libusb's status for the status of a single URB.
StatusOf(st) == CASE st = "ok"        -> "COMPLETED"
                  [] st = "ENOENT"    -> "CANCELLED"
                  [] st = "ESHUTDOWN" -> "NO_DEVICE"
                  [] st = "EPIPE"     -> "STALL"
                  [] st = "EOVERFLOW" -> "OVERFLOW"
                  [] OTHER            -> "ERROR"

HandleControl ==
    /\ kind = "control"
    /\ ReapUrb
    /\ transferred' = transferred + Head(queue).len
    /\ Report(priv, IF priv.action = "CANCELLED" THEN "CANCELLED"
                                                 ELSE StatusOf(Head(queue).status))
    /\ UNCHANGED <<buffer, packets>>

BulkReport(p) == Report(p, IF p.action = "CANCELLED" THEN "CANCELLED" ELSE p.status)

\* Mutation: it stays where it came in.
MoveSurplus_left(u) == u.i \in Urb /\ UNCHANGED buffer

\* What came in after the transfer was cut short is moved behind the rest.
MoveSurplus(u) ==
    buffer' = IF isIn THEN [b \in 1..Bytes |->
                              IF b - transferred \in 1..u.len
                              THEN buffer[(u.i - 1) * Block + b - transferred]
                              ELSE buffer[b]]
                      ELSE buffer

\* The transfer is cancelled, failed to submit, or completed early.
HandleBulkAbnormal ==
    LET u == Head(queue)
        p == [priv EXCEPT !.retired = @ + 1]
    IN /\ kind \in {"bulk", "interrupt"} /\ priv.action # "NORMAL"
       /\ ReapUrb
       /\ MoveSurplus(u)
       /\ transferred' = transferred + u.len
       /\ IF p.retired = p.num
          THEN BulkReport([p EXCEPT !.status = IF p.action # "COMPLETED_EARLY"
                                                  /\ p.status = "COMPLETED"
                                               THEN "ERROR" ELSE @])
          ELSE Wait(p)
       /\ UNCHANGED packets

\* The URB's status, as it changes reap_action and reap_status.
Judge(p, u) ==
    LET first(s) == [p EXCEPT !.status = IF @ = "COMPLETED" THEN s ELSE @]
    IN CASE u.status \in {"ok", "EREMOTEIO", "ENOENT", "ECONNRESET"} ->
              IF u.len < Block /\ u.i < p.num
              THEN [p EXCEPT !.action = "COMPLETED_EARLY"] ELSE p
         [] u.status = "ESHUTDOWN" -> [p EXCEPT !.status = "NO_DEVICE"]
         [] u.status = "EPIPE"     -> first("STALL")
         [] u.status = "EOVERFLOW" -> first("OVERFLOW")
         [] OTHER                  -> [first("ERROR") EXCEPT !.action = "ERROR"]

\* Nothing was wrong so far: the last URB or an overflow completes the
\* transfer, a full URB is followed by more, and after anything else the
\* remaining URBs are discarded.
HandleBulkNormal ==
    LET u == Head(queue)
        p == Judge([priv EXCEPT !.retired = @ + 1], u)
        good == u.status \in {"ok", "EREMOTEIO", "ENOENT", "ECONNRESET"}
    IN /\ kind \in {"bulk", "interrupt"} /\ priv.action = "NORMAL"
       /\ ReapUrb
       /\ transferred' = transferred + u.len
       /\ IF \/ u.status = "EOVERFLOW"
             \/ good /\ u.i = p.num
          THEN BulkReport(p)
          ELSE IF good /\ u.len = Block THEN Wait(p)
          ELSE IF p.retired = p.num THEN BulkReport(p)
          ELSE /\ priv' = p
               /\ work' = Discarding(u.i + 1, p.num, "reaped")
               /\ UNCHANGED outcome
       /\ UNCHANGED <<buffer, packets>>

\* The results of the URB's packets go to the next packets of the transfer.
HandleIso ==
    LET u == Head(queue)
        p == [priv EXCEPT !.retired = @ + 1, !.offset = @ + 1]
    IN /\ kind = "iso"
       /\ ReapUrb
       /\ packets' = [packets EXCEPT ![p.offset] = u.i]
       /\ IF p.action # "NORMAL"
          THEN IF p.retired = p.num
               THEN Report(p, IF p.action = "CANCELLED" THEN "CANCELLED" ELSE "ERROR")
               ELSE Wait(p)
          ELSE IF u.i = p.num
               THEN Report(p, CASE u.status \in {"ok", "ENOENT", "ECONNRESET"} -> "COMPLETED"
                                [] u.status = "ESHUTDOWN" -> "NO_DEVICE"
                                [] OTHER -> "ERROR")
               ELSE Wait(p)
       /\ UNCHANGED <<buffer, transferred>>

\* op_handle_events and usbi_handle_disconnect: what is still in flight when
\* all has been reaped loses its URBs and is completed.
HandleDisconnect ==
    /\ unplugged /\ work = NoOp /\ outcome = "flying"
    /\ canReap => queue = <<>>
    /\ Report(priv, "NO_DEVICE")
    /\ queue' = <<>>
    /\ urb' = [i \in Urb |-> "none"]
    /\ UNCHANGED <<setupVars, cancelling, dataVars, refused, received, unplugged,
                   submitsLeft>>

----------------------------------------------------------------------------
CallSteps == SubmitUrb \/ FirstUrbFails \/ LaterUrbFails
              \/ \E len \in 0..(Block - 1) : DiscardUrb(len)
              \/ DiscardsDone

Handler == HandleControl \/ HandleBulkAbnormal \/ HandleBulkNormal \/ HandleIso
              \/ HandleDisconnect

UrbsNext ==
    \/ Submit \/ Cancel \/ CallSteps \/ Handler \/ UnplugUrbs
    \/ \E len \in 0..Block, st \in Errors \cup {"ok", "EREMOTEIO"} :
          UrbCompletes(len, st)

UrbsSpec == UrbsInit /\ [][UrbsNext]_urbsVars

\* Calls run on and the handler reaps what the kernel gives back; the device
\* does not have to answer.
UrbsLiveSpec == UrbsSpec /\ WF_urbsVars(CallSteps) /\ WF_urbsVars(Handler)

----------------------------------------------------------------------------
(* Properties.                                                             *)

InKernel == \E i \in Urb : urb[i] # "none"

\* Each submission is reported once, when all URBs of the transfer are back:
\* submit_bulk_transfer warns that otherwise "libusb will be using freed
\* memory", and handle_bulk_completion means to "cancel remaining urbs and
\* wait for their completion before reporting results".
Backend == INSTANCE TransferBackend WITH
    Transfer <- {"x"},
    outcome  <- [x \in {"x"} |-> outcome],
    held     <- IF InKernel THEN {"x"} ELSE {}

\* As an invariant: results are reported when nothing is left to wait for.
ReportedWhenAllBack == outcome # "flying" => ~InKernel

\* An IN transfer reports all bytes that came in, in order and with no hole,
\* however URBs failed, were discarded or came back with surplus data.
NoDataLost ==
    kind \in {"bulk", "interrupt"} /\ isIn /\ outcome \in Statuses \ {"NO_DEVICE"} =>
        /\ transferred = received
        /\ \A b \in 1..transferred : buffer[b] = b

\* The result of each packet is stored with that packet (libusb.h: "Status
\* code for this packet").
PacketsInPlace == \A j \in Urb : packets[j] \in {0, j}

\* A transfer that is being torn down, by a cancellation, a failed or short
\* URB, a failed submission or an unplugged device, is reported.
TornDownEnds ==
    outcome = "flying" /\ work = NoOp /\ (priv.action # "NORMAL" \/ unplugged)
        ~> outcome # "flying"

\* Both together: reported once, when nothing is left, and in the end.
ImplementsBackend == Backend!Spec /\ TornDownEnds
============================================================================
