---------------------------- MODULE MCEventLoop ----------------------------
(* Instances of EventLoop for TLC.                                         *)
EXTENDS EventLoop, TLC

CONSTANTS t1, t2, t3, h1, h2

Threads == {t1, t2, t3}
Handles == {h1, h2}

\* Two threads in blocking transfers, one with a timeout, and a third that
\* closes a device.
Blocking ==
    [queueBackend |-> FALSE, hasTimeout |-> {t1},
     mayCall |-> (t1 :> {"sync"}) @@ (t2 :> {"sync"}) @@ (t3 :> {"close"}),
     mayUse |-> (t1 :> {h1}) @@ (t2 :> {h1}) @@ (t3 :> {h2}),
     maxCalls |-> [t \in Threads |-> 1], maxMessages |-> 0, maxFailures |-> 0,
     transferCallbackDoes |-> {}, hotplugCallbackDoes |-> {}]

\* Without the close, but the event handler may fail once.
Failing == [Blocking EXCEPT !.mayCall[t3] = {}, !.maxFailures = 1]

\* One transfer and a close on a backend with a thread of its own, which may
\* fail as well.
QueuedBlocking ==
    [Blocking EXCEPT !.queueBackend = TRUE, !.mayCall[t2] = {}, !.maxFailures = 1]

\* On usbfs one thread handles events, with a hotplug message whose callback
\* closes, while others open, close, interrupt and deregister.
Handling ==
    [queueBackend |-> FALSE, hasTimeout |-> {},
     mayCall |-> (t1 :> {"handle_events", "async"}) @@ (t2 :> {"close", "deregister"})
                    @@ (t3 :> {"open", "close", "interrupt"}),
     mayUse |-> [t \in Threads |-> Handles],
     maxCalls |-> (t1 :> 1) @@ (t2 :> 1) @@ (t3 :> 2), maxMessages |-> 1, maxFailures |-> 0,
     transferCallbackDoes |-> {}, hotplugCallbackDoes |-> {"close"}]

\* On a backend with a thread of its own, transfers that complete through
\* callbacks, which close handles and handle events; the event handler may fail.
Queued ==
    [queueBackend |-> TRUE, hasTimeout |-> {},
     mayCall |-> (t1 :> {"sync"}) @@ (t2 :> {"async", "handle_events"})
                    @@ (t3 :> {"close", "interrupt"}),
     mayUse |-> (t1 :> {h1}) @@ (t2 :> Handles) @@ (t3 :> {h2}),
     maxCalls |-> [t \in Threads |-> 1], maxMessages |-> 0, maxFailures |-> 1,
     transferCallbackDoes |-> CallbackCalls,
     hotplugCallbackDoes |-> CallbackCalls]

\* The same with a hotplug message, and no thread that waits for its transfer.
QueuedHotplug ==
    [Queued EXCEPT !.maxCalls = (t1 :> 0) @@ (t2 :> 2) @@ (t3 :> 1), !.maxMessages = 1]

AllApplications == {Blocking, Failing, QueuedBlocking, Handling, Queued, QueuedHotplug}
============================================================================
