--------------------------- MODULE AsyncTransfer ---------------------------
(***************************************************************************)
(* What libusb promises of an asynchronous transfer (src/libusb/libusb/    *)
(* io.c, "asynchronous device I/O"): a submitted transfer gets one         *)
(* callback, and the status it reports tells what ended the transfer.      *)
(***************************************************************************)
CONSTANTS Transfer

VARIABLES
    pending,   \* submitted, the callback not called yet
    cause,     \* whose cancellation succeeded, if any
    outcome    \* the status in the callback; "none" while pending

vars == <<pending, cause, outcome>>

\* The statuses a transfer may end with.
Reasons(x) == {"NO_DEVICE"} \cup (CASE cause[x] = "none"    -> {"COMPLETED"}
                                    [] cause[x] = "user"    -> {"CANCELLED"}
                                    [] cause[x] = "timeout" -> {"TIMED_OUT"})

Init ==
    /\ pending = {}
    /\ cause = [x \in Transfer |-> "none"]
    /\ outcome = [x \in Transfer |-> "none"]

Submit(x) ==
    /\ x \notin pending
    /\ pending' = pending \cup {x}
    /\ cause' = [cause EXCEPT ![x] = "none"]
    /\ outcome' = [outcome EXCEPT ![x] = "none"]

\* At most one cancellation succeeds.
Cancel(x, who) ==
    /\ x \in pending /\ cause[x] = "none"
    /\ cause' = [cause EXCEPT ![x] = who]
    /\ UNCHANGED <<pending, outcome>>

Callback(x) ==
    /\ x \in pending
    /\ pending' = pending \ {x}
    /\ \E s \in Reasons(x) : outcome' = [outcome EXCEPT ![x] = s]
    /\ UNCHANGED cause

Next == \E x \in Transfer :
            \/ Submit(x) \/ Cancel(x, "user") \/ Cancel(x, "timeout") \/ Callback(x)

Spec == Init /\ [][Next]_vars
============================================================================
