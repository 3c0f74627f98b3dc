---------------------------- MODULE SyncService ----------------------------
(***************************************************************************)
(* What the blocking transfers of src/libusb/libusb/sync.c promise their   *)
(* callers, whatever threads handle events: every call has one transfer of *)
(* its own, is answered at most once, and returns only after that.         *)
(***************************************************************************)

CONSTANT Caller         \* threads that make blocking calls

VARIABLE request        \* what has become of each caller's transfer

Init == request = [c \in Caller |-> "idle"]

Move(c, from, to) ==
    /\ request[c] = from
    /\ request' = [request EXCEPT ![c] = to]

\* The call submits its transfer.
Submit(c) == Move(c, "idle", "pending")

\* Some thread completes the transfer: sync_transfer_cb sets *completed.
Answer(c) == Move(c, "pending", "answered")

\* The call frees the transfer and returns.
Return(c) == Move(c, "answered", "idle")

Next == \E c \in Caller : Submit(c) \/ Answer(c) \/ Return(c)

Spec == Init /\ [][Next]_request
============================================================================
