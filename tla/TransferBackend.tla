-------------------------- MODULE TransferBackend --------------------------
(***************************************************************************)
(* What io.c relies on from the submit_transfer, cancel_transfer and       *)
(* completion functions of any backend (struct usbi_os_backend): a         *)
(* transfer that was accepted is reported once, and only when the system   *)
(* below has let go of its buffer.                                         *)
(***************************************************************************)
CONSTANTS
    Transfer,  \* libusb_transfer structures
    Statuses   \* the statuses a completion may report

VARIABLES
    outcome,   \* "idle", "flying", or what the last completion reported
    held       \* transfers of which the system below holds a request

Init ==
    /\ outcome = [x \in Transfer |-> "idle"]
    /\ held = {}

\* A transfer may be submitted once it is idle or reported, ...
Submit(x) ==
    /\ outcome[x] # "flying" /\ x \notin held
    /\ outcome' = [outcome EXCEPT ![x] = "flying"]
    /\ held' \in {held, held \cup {x}}

\* ... be given to the system and come back, as often as it takes, ...
Exchange ==
    /\ held' \in SUBSET {x \in Transfer : outcome[x] = "flying"}
    /\ UNCHANGED outcome

\* ... and ends once: refused, or reported.
End(x) ==
    /\ outcome[x] = "flying"
    /\ \E s \in Statuses \cup {"idle"} : outcome' = [outcome EXCEPT ![x] = s]
    /\ held' = held \ {x}

Next == Exchange \/ \E x \in Transfer : Submit(x) \/ End(x)

Spec == Init /\ [][Next]_<<outcome, held>>
============================================================================
