------------------------------- MODULE Hotplug -------------------------------
(***************************************************************************)
(* The hotplug callbacks of a context (src/libusb/libusb/hotplug.c) and    *)
(* the delivery of messages to them by usbi_handle_events (io.c).          *)
(*                                                                         *)
(* hotplug_cbs_lock is given back between the test of a callback's mark    *)
(* and its call, and is not held while the callback runs, so whatever      *)
(* another thread or the callback itself does with the callbacks is a step *)
(* between the test, the call and the return. Only the event handler frees *)
(* callbacks, and new ones go to the head of the list, so that the list is *)
(* ordered by the number of their registration, newest first: the loop     *)
(* over it goes on through those that were there when it began.            *)
(***************************************************************************)
EXTENDS Naturals, Sequences, FiniteSets

CONSTANTS
    Cb,          \* libusb_hotplug_callback structures
    Device,      \* libusb_device structures, each plugged in once
    Descriptor,  \* [Device -> [vendor, product, class]]
    Filter,      \* what callbacks ask for: such records, with MatchAny
    MatchAny,    \* LIBUSB_HOTPLUG_MATCH_ANY
    MaxHandle,   \* INT_MAX
    MaxRegs,     \* bound: registrations
    MaxDeregs,   \* bound: deregistrations at a time
    DoneEarly    \* may a callback end itself while its registration runs?

None == "none"

ASSUME ConstantsAssumption ==
    /\ IsFiniteSet(Cb) /\ IsFiniteSet(Device) /\ DoneEarly \in BOOLEAN
    /\ MaxHandle \in Nat \ {0} /\ MaxRegs \in Nat /\ MaxDeregs \in Nat
    /\ DOMAIN Descriptor = Device /\ Filter # {} /\ None \notin Cb

VARIABLES
    attached,    \* ctx->usb_devs
    fresh,       \* devices that were never plugged in
    refs,        \* refcnt of a device
    cbs,         \* ctx->hotplug_cbs
    cb,          \* the callback structures, nr: the number of the registration
    nextHandle,  \* ctx->next_hotplug_cb_handle
    regs,        \* how many registrations there have been
    reg,         \* the call of libusb_hotplug_register_callback that runs
    posting,     \* calls of libusb_hotplug_deregister_callback that have marked
                 \* a callback and are to tell the handler
    msgs,        \* ctx->hotplug_msgs
    deregFlag,   \* USBI_EVENT_HOTPLUG_CB_DEREGISTERED
    readable,    \* the event pipe is
    hnd,         \* the event handler
    told         \* events the handler has called a callback for

devVars == <<attached, fresh, refs>>
cbVars == <<cbs, cb, nextHandle, regs>>
eventVars == <<msgs, deregFlag, readable, posting>>
vars == <<devVars, cbVars, reg, eventVars, hnd, told>>

Events == {"arrived", "left"}
Message == [event : Events, d : Device]
On(list) == {list[k] : k \in DOMAIN list}
NoReg == [do |-> "none"]
Waiting == [do |-> "wait", msgs |-> <<>>, todo |-> {}, cb |-> None]
Callback == [events : SUBSET Events, filter : Filter, handle : 0..MaxHandle,
             nr : 0..MaxRegs, dead : BOOLEAN]
Freed == [events |-> {}, filter |-> CHOOSE f \in Filter : TRUE, handle |-> 0,
          nr |-> 0, dead |-> FALSE]
InMatch == {"match", "chosen", "callback"}
Registration == [do : {"list", "call", "callback"}, c : Cb,
                 devs : SUBSET Device, left : SUBSET Device]
EventHandler == [do : {"wait", "free", "message"} \cup InMatch, msgs : Seq(Message),
                 todo : SUBSET Cb, cb : Cb \cup {None}]

TypeOK ==
    /\ attached \subseteq Device /\ fresh \subseteq Device
    /\ refs \in [Device -> Nat]
    /\ cbs \subseteq Cb /\ cb \in [Cb -> Callback]
    /\ nextHandle \in 1..MaxHandle /\ regs \in 0..MaxRegs
    /\ reg \in {NoReg} \cup Registration
    /\ msgs \in Seq(Message)
    /\ deregFlag \in BOOLEAN /\ readable \in BOOLEAN /\ posting \in 0..MaxDeregs
    /\ hnd \in EventHandler
    /\ told \in [Cb -> SUBSET Message]

Init ==
    /\ attached = {} /\ fresh = Device /\ refs = [d \in Device |-> 0]
    /\ cbs = {}
    /\ cb = [c \in Cb |-> Freed]
    /\ nextHandle = 1 /\ regs = 0
    /\ reg = NoReg
    /\ msgs = <<>> /\ deregFlag = FALSE /\ readable = FALSE /\ posting = 0
    /\ hnd = Waiting
    /\ told = [c \in Cb |-> {}]

----------------------------------------------------------------------------
(* Messages.                                                               *)

\* usbi_pending_events
Pending == msgs # <<>> \/ deregFlag

\* Mutant: pending events are counted when the new one is among them.
Signal_late == UNCHANGED readable

\* The pipe is written to for the first of the pending events.
Signal == readable' = (readable \/ ~Pending)

\* usbi_hotplug_notification
Notify(event, d) ==
    /\ msgs' = Append(msgs, [event |-> event, d |-> d])
    /\ Signal
    /\ UNCHANGED <<deregFlag, posting>>

\* usbi_connect_device and usbi_disconnect_device: the reference of the list
\* passes to the message that the device left.
Arrive(d) ==
    /\ d \in fresh
    /\ fresh' = fresh \ {d}
    /\ attached' = attached \cup {d}
    /\ refs' = [refs EXCEPT ![d] = 1]
    /\ Notify("arrived", d)
    /\ UNCHANGED <<cbVars, reg, hnd, told>>

Leave(d) ==
    /\ d \in attached
    /\ attached' = attached \ {d}
    /\ Notify("left", d)
    /\ UNCHANGED <<fresh, refs, cbVars, reg, hnd, told>>

----------------------------------------------------------------------------
(* Registration and deregistration.                                        *)

Field(asked, is) == asked \in {MatchAny, is}

\* usbi_hotplug_match_cb, but for the call
Matches(c, event, d) ==
    /\ event \in cb[c].events
    /\ Field(cb[c].filter.vendor, Descriptor[d].vendor)
    /\ Field(cb[c].filter.product, Descriptor[d].product)
    /\ Field(cb[c].filter.class, Descriptor[d].class)

\* Mutant: the counter stays.
HandleAfter_same(h) == h

\* The handle of the next registration; the counter of handles wraps to 1.
HandleAfter(h) == IF h = MaxHandle THEN 1 ELSE h + 1

\* libusb_hotplug_register_callback as far as it holds hotplug_cbs_lock; with
\* LIBUSB_HOTPLUG_ENUMERATE it goes on without the lock.
Register(c, events, filter, enumerate) ==
    /\ reg = NoReg /\ c \notin cbs \cup hnd.todo
    /\ events # {}
    /\ regs < MaxRegs
    /\ regs' = regs + 1
    /\ cb' = [cb EXCEPT ![c] = [events |-> events, filter |-> filter,
                                handle |-> nextHandle, nr |-> regs', dead |-> FALSE]]
    /\ nextHandle' = HandleAfter(nextHandle)
    /\ cbs' = cbs \cup {c}
    /\ reg' = IF enumerate /\ "arrived" \in events
              THEN [do |-> "list", c |-> c, devs |-> {}, left |-> {}] ELSE NoReg
    /\ UNCHANGED <<devVars, eventVars, hnd, told>>

\* libusb_get_device_list takes a reference of each device, ...
RegisterLists ==
    /\ reg.do = "list"
    /\ reg' = [reg EXCEPT !.do = "call", !.devs = attached, !.left = attached]
    /\ refs' = [d \in Device |-> IF d \in attached THEN refs[d] + 1 ELSE refs[d]]
    /\ UNCHANGED <<attached, fresh, cbVars, eventVars, hnd, told>>

\* ... the callback is called for those that match, what it returns is
\* ignored, ...
RegisterCalls ==
    /\ reg.do = "call"
    /\ \E d \in reg.left :
          reg' = [reg EXCEPT !.left = @ \ {d},
                             !.do = IF Matches(reg.c, "arrived", d) THEN "callback"
                                                                    ELSE @]
    /\ UNCHANGED <<devVars, cbVars, eventVars, hnd, told>>

RegisterCallReturns ==
    /\ reg.do = "callback"
    /\ reg' = [reg EXCEPT !.do = "call"]
    /\ UNCHANGED <<devVars, cbVars, eventVars, hnd, told>>

\* ... and the list is freed and the handle returned.
RegisterReturns ==
    /\ reg.do = "call" /\ reg.left = {}
    /\ refs' = [d \in Device |-> IF d \in reg.devs THEN refs[d] - 1 ELSE refs[d]]
    /\ reg' = NoReg
    /\ UNCHANGED <<attached, fresh, cbVars, eventVars, hnd, told>>

\* libusb_hotplug_deregister_callback as far as it holds hotplug_cbs_lock: the
\* callbacks with handle h are marked.
Mark(h) ==
    LET marked == {c \in cbs : cb[c].handle = h}
    IN /\ posting < MaxDeregs
       /\ cb' = [c \in Cb |-> IF c \in marked THEN [cb[c] EXCEPT !.dead = TRUE]
                                              ELSE cb[c]]
       /\ posting' = IF marked = {} THEN posting ELSE posting + 1
       /\ UNCHANGED <<cbs, told, msgs, deregFlag, readable>>

\* Then it tells the handler, under event_data_lock, and returns.
PostDeregistration ==
    /\ posting > 0
    /\ posting' = posting - 1
    /\ deregFlag' = TRUE
    /\ Signal
    /\ UNCHANGED <<devVars, cbVars, reg, msgs, hnd, told>>

\* The callback's registration has returned.
Deregister(c) ==
    /\ c \in cbs /\ (reg # NoReg => reg.c # c)
    /\ Mark(cb[c].handle)
    /\ UNCHANGED <<devVars, nextHandle, regs, reg, hnd>>

\* There is no memory for the list of devices: the registration is undone.
RegisterFails ==
    /\ reg.do = "list"
    /\ Mark(cb[reg.c].handle)
    /\ reg' = NoReg
    /\ UNCHANGED <<devVars, nextHandle, regs, hnd>>

----------------------------------------------------------------------------
(* The event handler.                                                      *)

\* Pending events are taken and the pipe is cleared.
TakeEvents ==
    /\ hnd.do = "wait" /\ readable
    /\ hnd' = [hnd EXCEPT !.do = IF deregFlag THEN "free" ELSE "message", !.msgs = msgs]
    /\ msgs' = <<>> /\ deregFlag' = FALSE /\ readable' = FALSE
    /\ UNCHANGED <<devVars, cbVars, reg, posting, told>>

\* list_del and free
Free(S) ==
    /\ cbs' = cbs \ S
    /\ cb' = [c \in Cb |-> IF c \in S THEN Freed ELSE cb[c]]
    /\ told' = [c \in Cb |-> IF c \in S THEN {} ELSE told[c]]

\* usbi_hotplug_deregister
FreeMarked ==
    /\ hnd.do = "free"
    /\ Free({c \in cbs : cb[c].dead})
    /\ hnd' = [hnd EXCEPT !.do = "message"]
    /\ UNCHANGED <<devVars, nextHandle, regs, reg, eventVars>>

\* usbi_hotplug_match begins its loop, ...
MatchBegin ==
    /\ hnd.do = "message" /\ hnd.msgs # <<>>
    /\ hnd' = [hnd EXCEPT !.do = "match", !.todo = cbs]
    /\ UNCHANGED <<devVars, cbVars, reg, eventVars, told>>

\* Mutant: callbacks that are marked are called all the same.
Armed_all(c) == TRUE

\* Callbacks marked for deregistration are passed over.
Armed(c) == ~cb[c].dead

\* ... looks at the next callback and, unless it is marked, gives back the lock, ...
MatchNext ==
    /\ hnd.do = "match"
    /\ \E c \in hnd.todo :
          /\ \A k \in hnd.todo : cb[k].nr <= cb[c].nr
          /\ hnd' = IF Armed(c) THEN [hnd EXCEPT !.do = "chosen", !.todo = @ \ {c}, !.cb = c]
                                ELSE [hnd EXCEPT !.todo = @ \ {c}]
    /\ UNCHANGED <<devVars, cbVars, reg, eventVars, told>>

\* ... calls it when it matches, whatever became of it since, ...
MatchCalls ==
    /\ hnd.do = "chosen"
    /\ LET c == hnd.cb
           m == Head(hnd.msgs)
       IN IF Matches(c, m.event, m.d)
          THEN /\ hnd' = [hnd EXCEPT !.do = "callback"]
               /\ told' = [told EXCEPT ![c] = @ \cup {m}]
          ELSE /\ hnd' = [hnd EXCEPT !.do = "match", !.cb = None]
               /\ UNCHANGED told
    /\ UNCHANGED <<devVars, cbVars, reg, eventVars>>

\* ... and frees it when it returned 1, ...
CallbackReturns(r) ==
    /\ hnd.do = "callback"
    /\ r = 1 /\ reg # NoReg => DoneEarly \/ reg.c # hnd.cb
    /\ Free(IF r = 1 THEN {hnd.cb} ELSE {})
    /\ hnd' = [hnd EXCEPT !.do = "match", !.cb = None]
    /\ UNCHANGED <<devVars, nextHandle, regs, reg, eventVars>>

\* Only the message that a device left holds a reference.
Drops(event) == event = "left"

\* The messages behind the first
Rest(list) == Tail(list)

\* ... then the message is done with.
MatchEnds ==
    /\ hnd.do = "match" /\ hnd.todo = {}
    /\ LET m == Head(hnd.msgs)
       IN refs' = IF Drops(m.event) THEN [refs EXCEPT ![m.d] = @ - 1] ELSE refs
    /\ hnd' = [hnd EXCEPT !.do = "message", !.msgs = Rest(@)]
    /\ UNCHANGED <<attached, fresh, cbVars, reg, eventVars, told>>

HandlerWaits ==
    /\ hnd.do = "message" /\ hnd.msgs = <<>>
    /\ hnd' = Waiting
    /\ UNCHANGED <<devVars, cbVars, reg, eventVars, told>>

----------------------------------------------------------------------------
Registering ==
    RegisterLists \/ RegisterCalls \/ RegisterCallReturns \/ RegisterReturns
       \/ RegisterFails

Handler == TakeEvents \/ FreeMarked \/ MatchBegin \/ MatchNext \/ MatchCalls
              \/ MatchEnds \/ HandlerWaits \/ \E r \in {0, 1} : CallbackReturns(r)

Next ==
    \/ \E d \in Device : Arrive(d) \/ Leave(d)
    \/ \E c \in Cb, events \in SUBSET Events, f \in Filter, e \in BOOLEAN :
          Register(c, events, f, e)
    \/ \E c \in Cb : Deregister(c)
    \/ PostDeregistration
    \/ Registering \/ Handler

Spec == Init /\ [][Next]_vars

\* Callbacks return, calls go on, and the application handles events.
LiveSpec == Spec /\ WF_vars(Registering) /\ WF_vars(PostDeregistration) /\ WF_vars(Handler)

----------------------------------------------------------------------------
(* Properties.                                                             *)

\* Nobody uses a callback or a device that was freed, although callbacks
\* run, end themselves and are deregistered while lists are walked without
\* the lock.
NoUseAfterFree ==
    /\ hnd.do \in {"chosen", "callback"} => hnd.cb \in cbs
    /\ hnd.do \in InMatch => hnd.todo \subseteq cbs /\ refs[Head(hnd.msgs).d] > 0
    /\ reg # NoReg => reg.c \in cbs /\ \A d \in reg.devs : refs[d] > 0

\* "Callback handles are unique per libusb_context" (libusb.h): a
\* deregistration ends one callback.
HandlesUnique ==
    \A c, k \in cbs : cb[c].handle = cb[k].handle => c = k

\* The handler calls a callback for an event at most once and never for the
\* arrival of a device after its departure. A deregistration does not stop the
\* call the handler has chosen the callback for, the lock is not held any more;
\* but the handler chooses a callback that is deregistered for no other.
OnceInOrder ==
    [][/\ hnd.do = "chosen" /\ hnd'.do = "callback" =>
             LET m == Head(hnd.msgs)
                 c == hnd'.cb
             IN /\ c \in cbs /\ m \notin told[c]
                /\ m.event = "arrived" => [event |-> "left", d |-> m.d] \notin told[c]
       /\ \A c \in cbs : cb[c].dead /\ hnd.cb # c => hnd'.cb # c]_vars

\* "The callback will fire when a matching event occurs on a matching
\* device" (libusb.h), unless it ended before.
EventsReachAll ==
    \A c \in Cb, m \in Message :
        m \in On(msgs) /\ c \in cbs /\ ~cb[c].dead /\ Matches(c, m.event, m.d)
            ~> m \in told[c] \/ c \notin cbs \/ cb[c].dead

\* A deregistered callback is freed by the handler, also when nothing else
\* happens.
DeregisteredFreed ==
    \A c \in Cb : c \in cbs /\ cb[c].dead ~> c \notin cbs

\* No message and no deregistration is left behind.
HandlerFinishes == EventsReachAll /\ DeregisteredFreed
==============================================================================
