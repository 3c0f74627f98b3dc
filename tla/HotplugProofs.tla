---------------------------- MODULE HotplugProofs ----------------------------
(***************************************************************************)
(* Proofs about the hotplug callbacks (Hotplug.tla), for any number of     *)
(* callbacks, devices and registrations: each callback is called at most   *)
(* once for an event and never for an arrival after the departure, the     *)
(* handler is told of what there is to do, and until the counter of        *)
(* handles wraps handles are unique and nothing is used after it was freed.*)
(*                                                                         *)
(* And about the device lists without hotplug (Enumeration.tla), for any   *)
(* device tree and any number of threads and lists: each device has the    *)
(* references that somebody holds and each is known once, and a list that  *)
(* nothing disturbed is the bus.                                           *)
(***************************************************************************)
EXTENDS Hotplug, Enumeration, SequenceTheorems, FiniteSetTheorems, WellFoundedInduction, TLAPS

----------------------------------------------------------------------------
(* The inductive invariant.                                                *)

\* The messages that are not done with, those the handler took before those
\* that it will take.
Queue == hnd.msgs \o msgs

LeftMsg(d) == [event |-> "left", d |-> d]

\* Where the event handler is.
ControlInv ==
    /\ hnd.do = "wait" => hnd.msgs = <<>>
    /\ hnd.do \in InMatch => hnd.msgs # <<>>
    /\ hnd.do \notin InMatch => hnd.todo = {}
    /\ hnd.todo \subseteq cbs
    /\ hnd.do \in {"chosen", "callback"} => hnd.cb \in cbs \ hnd.todo

\* A device arrives once and then leaves once.
QueueInv ==
    /\ attached \cap fresh = {}
    /\ \A i \in 1..Len(Queue) :
          LET m == Queue[i]
          IN /\ m.d \notin fresh
             /\ m.event = "left" => m.d \notin attached
             /\ m.d \notin attached =>
                   \E j \in 1..Len(Queue) : Queue[j] = LeftMsg(m.d)
    /\ \A i, j \in 1..Len(Queue) :
          i < j /\ Queue[i].d = Queue[j].d =>
              Queue[i].event = "arrived" /\ Queue[j].event = "left"

\* The callbacks that the loop may still call for the message it handles
Ahead == hnd.todo \cup (IF hnd.do = "chosen" THEN {hnd.cb} ELSE {})

\* Callbacks were told of no message that is still to come; the message being
\* handled is known to those the loop has passed.
ToldInv ==
    /\ \A c \in Cb : \A m \in told[c] :
          m.d \notin fresh /\ (m.event = "left" => m.d \notin attached)
    /\ \A c \in Cb, i \in 1..Len(Queue) :
          /\ Queue[i] \in told[c] => i = 1 /\ hnd.do \in InMatch /\ c \notin Ahead
          /\ Queue[i].event = "arrived" => LeftMsg(Queue[i].d) \notin told[c]

\* The devices whose message that they left is still to come, and those on
\* the list of a registration.
Going == {d \in Device : \E i \in 1..Len(Queue) : Queue[i] = LeftMsg(d)}
Handed == IF reg = NoReg THEN {} ELSE reg.devs

Among(d, S) == IF d \in S THEN 1 ELSE 0

\* References are those of the list of devices or of the message that takes
\* its place, and those of a registration.
RefsInv ==
    /\ Handed \cap fresh = {}
    /\ reg.do = "list" => reg.devs = {}
    /\ \A d \in Device : refs[d] = Among(d, attached) + Among(d, Going) + Among(d, Handed)

\* Registrations are numbered, and until the counter wraps their numbers are
\* their handles.
HandleInv ==
    /\ \A c \in cbs : cb[c].nr \in 1..regs
    /\ \A c, k \in cbs : cb[c].nr = cb[k].nr => c = k
    /\ regs <= MaxHandle => \A c \in cbs : cb[c].handle = cb[c].nr
    /\ regs < MaxHandle => nextHandle = regs + 1

\* The callback being registered stays.
RegInv ==
    regs <= MaxHandle /\ reg # NoReg => reg.c \in cbs /\ ~cb[reg.c].dead

\* The handler is told of what it is to do: the pipe is readable while an event
\* is pending, and while a callback is marked the handler is freeing the marked
\* ones, their deregistration is pending, or somebody is about to post it.
AwakeInv ==
    /\ Pending => readable
    /\ \A c \in cbs : cb[c].dead => deregFlag \/ posting > 0 \/ hnd.do = "free"

IInv == /\ TypeOK /\ ControlInv /\ QueueInv /\ ToldInv /\ RefsInv /\ HandleInv
        /\ AwakeInv

USE DEF devVars, cbVars, eventVars, InMatch, Events

----------------------------------------------------------------------------
(* Each part of the invariant is kept by every step.                       *)

LEMMA MessageType ==
    ASSUME NEW event \in Events, NEW d \in Device
    PROVE  [event |-> event, d |-> d] \in Message
BY DEF Message

LEMMA NoRegType == NoReg.do = "none"
BY DEF NoReg

LEMMA FreedType == ASSUME ConstantsAssumption PROVE Freed \in Callback
<1>1. (CHOOSE f \in Filter : TRUE) \in Filter
      BY DEF ConstantsAssumption
<1> QED BY <1>1 DEF ConstantsAssumption, Freed, Callback

\* What the type of the handler says of its parts
LEMMA HandlerType ==
    ASSUME TypeOK
    PROVE  /\ hnd.do \in {"wait", "free", "message"} \cup InMatch
           /\ hnd.msgs \in Seq(Message) /\ hnd.todo \subseteq Cb
           /\ hnd.cb \in Cb \cup {None}
           /\ hnd.msgs # <<>> => Head(hnd.msgs) \in Message /\ Tail(hnd.msgs) \in Seq(Message)
           /\ reg # NoReg => reg \in Registration
           /\ reg.do \in {"list", "call", "callback"} => reg # NoReg
<1>1. /\ hnd.do \in {"wait", "free", "message"} \cup InMatch
      /\ hnd.msgs \in Seq(Message) /\ hnd.todo \subseteq Cb
      /\ hnd.cb \in Cb \cup {None}
      BY DEF TypeOK, EventHandler
<1>2. hnd.msgs # <<>> => Head(hnd.msgs) \in Message /\ Tail(hnd.msgs) \in Seq(Message)
      BY <1>1
<1>3. /\ reg # NoReg => reg \in Registration
      /\ reg.do \in {"list", "call", "callback"} => reg # NoReg
      BY NoRegType DEF TypeOK
<1> QED BY <1>1, <1>2, <1>3

\* The messages in the order they are handled
LEMMA QueueType ==
    ASSUME TypeOK
    PROVE  /\ Queue \in Seq(Message)
           /\ Len(Queue) = Len(hnd.msgs) + Len(msgs)
           /\ hnd.msgs # <<>> => Len(Queue) >= 1 /\ Queue[1] = Head(hnd.msgs)
           /\ \A i \in 1..Len(Queue) : Queue[i] \in Message /\ Queue[i].d \in Device
                                          /\ Queue[i].event \in Events
<1>1. hnd.msgs \in Seq(Message) /\ msgs \in Seq(Message)
      BY DEF TypeOK, EventHandler
<1>2. /\ Queue \in Seq(Message) /\ Len(Queue) = Len(hnd.msgs) + Len(msgs)
      /\ \A i \in 1..Len(Queue) :
            Queue[i] = IF i <= Len(hnd.msgs) THEN hnd.msgs[i]
                                             ELSE msgs[i - Len(hnd.msgs)]
      BY <1>1, ConcatProperties DEF Queue
<1>3. hnd.msgs # <<>> => Len(Queue) >= 1 /\ Queue[1] = Head(hnd.msgs)
      BY <1>1, <1>2
<1>4. ASSUME NEW i \in 1..Len(Queue)
      PROVE  Queue[i] \in Message /\ Queue[i].d \in Device /\ Queue[i].event \in Events
  <2>1. Queue[i] \in Message
        BY <1>2
  <2> QED BY <2>1 DEF Message
<1> QED BY <1>2, <1>3, <1>4

LEMMA LeftMsgType ==
    /\ \A d \in Device : LeftMsg(d) \in Message /\ LeftMsg(d).event = "left"
                            /\ LeftMsg(d).d = d
    /\ \A m \in Message : m.event = "left" => m = LeftMsg(m.d)
BY DEF Message, LeftMsg

LEMMA HeadGoing ==
    ASSUME TypeOK, hnd.msgs # <<>>, Head(hnd.msgs).event = "left"
    PROVE  Head(hnd.msgs).d \in Going
<1> DEFINE m == Head(hnd.msgs)
<1>1. m \in Message
      BY HandlerType
<1>2. m = LeftMsg(m.d) /\ m.d \in Device
      BY <1>1 DEF Message, LeftMsg
<1> QED BY <1>2, QueueType DEF Going

LEMMA TypePreserved ==
    ASSUME ConstantsAssumption, TypeOK, ControlInv, RefsInv, [Next]_vars
    PROVE  TypeOK'
<1> USE HandlerType DEF TypeOK, ControlInv, ConstantsAssumption
<1>1. Freed \in Callback
      BY FreedType
<1>2. ASSUME NEW d \in Device, Arrive(d) \/ Leave(d) PROVE TypeOK'
  <2>1. PICK m \in Message : msgs' = Append(msgs, m)
        BY <1>2, MessageType DEF Arrive, Leave, Notify
  <2>2. msgs' \in Seq(Message)
        BY <2>1
  <2>3. CASE Arrive(d)
        BY <2>2, <2>3 DEF Arrive, Notify, Signal
  <2>4. CASE Leave(d)
        BY <2>2, <2>4 DEF Leave, Notify, Signal
  <2> QED BY <1>2, <2>3, <2>4
<1>3. ASSUME NEW c \in Cb, NEW events \in SUBSET Events, NEW f \in Filter,
             NEW e \in BOOLEAN, Register(c, events, f, e)
      PROVE  TypeOK'
  <2>1. cb' \in [Cb -> Callback]
        BY <1>3 DEF Register, Callback
  <2>2. nextHandle' \in 1..MaxHandle /\ regs' \in 0..MaxRegs
        BY <1>3 DEF Register, HandleAfter
  <2>3. reg' \in {NoReg} \cup Registration
        BY <1>3 DEF Register, Registration
  <2> QED BY <1>3, <2>1, <2>2, <2>3 DEF Register
<1>4. ASSUME NEW h, Mark(h)
      PROVE  /\ cb' \in [Cb -> Callback] /\ cbs' \subseteq Cb
             /\ posting' \in 0..MaxDeregs
  <2>1. ASSUME NEW c \in Cb PROVE [cb[c] EXCEPT !.dead = TRUE] \in Callback
    <3>1. PICK r \in Callback : r = cb[c]
          OBVIOUS
    <3>2. [r EXCEPT !.dead = TRUE] \in Callback
          BY DEF Callback
    <3> QED BY <3>1, <3>2
  <2>2. cb' \in [Cb -> Callback]
        BY <1>4, <2>1 DEF Mark
  <2> QED BY <1>4, <2>2 DEF Mark
<1>5. ASSUME NEW c \in Cb, Deregister(c) PROVE TypeOK'
      BY <1>5, <1>4 DEF Deregister, Mark
<1>6. CASE RegisterFails
      BY <1>6, <1>4 DEF RegisterFails, Mark
<1>7. CASE RegisterLists
  <2>1. reg' \in Registration
        BY <1>7 DEF RegisterLists, Registration
  <2> QED BY <1>7, <2>1 DEF RegisterLists
<1>8. CASE RegisterCalls \/ RegisterCallReturns
  <2>1. reg' \in Registration
    <3>1. reg \in Registration
          BY <1>8 DEF RegisterCalls, RegisterCallReturns
    <3>2. CASE RegisterCalls
      <4>1. PICK d \in reg.left, do \in {"call", "callback"} :
                  reg' = [reg EXCEPT !.left = @ \ {d}, !.do = do]
            BY <3>1, <3>2 DEF RegisterCalls
      <4> QED BY <3>1, <4>1 DEF Registration
    <3>3. CASE RegisterCallReturns
          BY <3>1, <3>3 DEF RegisterCallReturns, Registration
    <3> QED BY <1>8, <3>2, <3>3
  <2> QED BY <1>8, <2>1 DEF RegisterCalls, RegisterCallReturns
<1>9. CASE RegisterReturns
  <2>1. reg # NoReg
        BY <1>9 DEF RegisterReturns
  <2>2. ASSUME NEW d \in Device, d \in reg.devs PROVE refs[d] - 1 \in Nat
    <3>1. refs[d] = Among(d, attached) + Among(d, Going) + 1
          BY <2>1, <2>2 DEF RefsInv, Handed, Among
    <3> QED BY <3>1 DEF Among
  <2> QED BY <1>9, <2>2 DEF RegisterReturns
<1>10. CASE TakeEvents \/ MatchBegin
  <2>1. hnd' \in EventHandler
        BY <1>10, ZenonT(60) DEF TakeEvents, MatchBegin, EventHandler
  <2> QED BY <1>10, <2>1 DEF TakeEvents, MatchBegin
<1>11. CASE HandlerWaits
  <2>1. Waiting \in EventHandler
        BY DEF Waiting, EventHandler
  <2> QED BY <1>11, <2>1 DEF HandlerWaits
<1>12. ASSUME NEW S, Free(S)
       PROVE  /\ cbs' \subseteq Cb /\ cb' \in [Cb -> Callback]
              /\ told' \in [Cb -> SUBSET Message]
       BY <1>12, <1>1 DEF Free
<1>13. CASE FreeMarked
  <2>1. hnd' \in EventHandler
        BY <1>13 DEF FreeMarked, EventHandler
  <2> QED BY <1>12, <1>13, <2>1 DEF FreeMarked
<1>14. ASSUME NEW r, CallbackReturns(r) PROVE TypeOK'
  <2>1. hnd' \in EventHandler
        BY <1>14 DEF CallbackReturns, EventHandler
  <2> QED BY <1>12, <1>14, <2>1 DEF CallbackReturns
<1>15. CASE MatchNext
  <2>1. PICK c \in hnd.todo :
              \/ hnd' = [hnd EXCEPT !.do = "chosen", !.todo = @ \ {c}, !.cb = c]
              \/ hnd' = [hnd EXCEPT !.todo = @ \ {c}]
        BY <1>15 DEF MatchNext
  <2>2. hnd' \in EventHandler
    <3>1. PICK h \in EventHandler : h = hnd
          OBVIOUS
    <3>2. [h EXCEPT !.todo = @ \ {c}] \in EventHandler
          BY DEF EventHandler
    <3>3. c \in Cb
          BY <2>1 DEF EventHandler
    <3>4. [h EXCEPT !.do = "chosen", !.todo = @ \ {c}, !.cb = c] \in EventHandler
          BY <3>3 DEF EventHandler
    <3> QED BY <2>1, <3>1, <3>2, <3>4
  <2> QED BY <1>15, <2>2 DEF MatchNext
<1>16. CASE MatchCalls
  <2>1. /\ \/ hnd' = [hnd EXCEPT !.do = "callback"]
           \/ hnd' = [hnd EXCEPT !.do = "match", !.cb = None]
        /\ told' = [told EXCEPT ![hnd.cb] = @ \cup {Head(hnd.msgs)}] \/ told' = told
        BY <1>16 DEF MatchCalls
  <2>2. hnd' \in EventHandler
        BY <2>1 DEF EventHandler
  <2>3. hnd.cb \in Cb /\ Head(hnd.msgs) \in Message
        BY <1>16 DEF MatchCalls
  <2>4. told' \in [Cb -> SUBSET Message]
        BY <2>1, <2>3
  <2> QED BY <1>16, <2>2, <2>4 DEF MatchCalls
<1>17. CASE MatchEnds
  <2>1. hnd' \in EventHandler
        BY <1>17 DEF MatchEnds, EventHandler, Rest
  <2> DEFINE m == Head(hnd.msgs)
  <2>2. m \in Message /\ m.d \in Device
        BY <1>17 DEF MatchEnds, Message
  <2>3. m.event = "left" => refs[m.d] - 1 \in Nat
    <3>1. ASSUME m.event = "left" PROVE refs[m.d] = Among(m.d, attached) + 1 + Among(m.d, Handed)
          BY <1>17, <2>2, <3>1, HeadGoing DEF MatchEnds, RefsInv, Among
    <3> QED BY <3>1, <2>2 DEF Among
  <2>4. refs' \in [Device -> Nat]
        BY <1>17, <2>2, <2>3 DEF MatchEnds, Drops
  <2> QED BY <1>17, <2>1, <2>4 DEF MatchEnds
<1>18. CASE UNCHANGED vars
      BY <1>18 DEF vars
<1>19. CASE Registering
      BY <1>6, <1>7, <1>8, <1>9, <1>19 DEF Registering
<1>20. CASE Handler
      BY <1>10, <1>11, <1>13, <1>14, <1>15, <1>16, <1>17, <1>20 DEF Handler
<1>21. CASE PostDeregistration
      BY <1>21 DEF PostDeregistration, Signal
<1> HIDE HandlerType DEF TypeOK, ControlInv, ConstantsAssumption
<1> QED BY <1>2, <1>3, <1>5, <1>18, <1>19, <1>20, <1>21 DEF Next

LEMMA ControlPreserved ==
    ASSUME ConstantsAssumption, TypeOK, ControlInv, [Next]_vars
    PROVE  ControlInv'
<1> USE HandlerType DEF TypeOK, ControlInv
<1>1. ASSUME NEW d \in Device, Arrive(d) \/ Leave(d) PROVE ControlInv'
      BY <1>1 DEF Arrive, Leave
<1>2. ASSUME NEW c \in Cb, NEW events \in SUBSET Events, NEW f \in Filter,
             NEW e \in BOOLEAN, Register(c, events, f, e)
      PROVE  ControlInv'
      BY <1>2 DEF Register
<1>3. ASSUME NEW c \in Cb, Deregister(c) PROVE ControlInv'
      BY <1>3, SMTT(30) DEF Deregister, Mark
<1>4. CASE Registering
      BY <1>4 DEF Registering, RegisterLists, RegisterCalls, RegisterCallReturns,
                  RegisterReturns, RegisterFails, Mark
<1>5. CASE TakeEvents \/ MatchBegin \/ HandlerWaits
  <2>1. CASE TakeEvents
        BY <2>1 DEF TakeEvents, EventHandler
  <2>2. CASE MatchBegin
        BY <2>2 DEF MatchBegin, EventHandler
  <2>3. CASE HandlerWaits
        BY <2>3 DEF HandlerWaits, Waiting
  <2> QED BY <1>5, <2>1, <2>2, <2>3
<1>6. CASE FreeMarked
      BY <1>6 DEF FreeMarked, Free
<1>7. CASE MatchNext
  <2>1. PICK c \in hnd.todo :
              \/ hnd' = [hnd EXCEPT !.do = "chosen", !.todo = @ \ {c}, !.cb = c]
              \/ hnd' = [hnd EXCEPT !.todo = @ \ {c}]
        BY <1>7 DEF MatchNext
  <2>2. /\ hnd'.do \in InMatch /\ hnd'.msgs = hnd.msgs /\ hnd'.todo = hnd.todo \ {c}
        /\ hnd'.do = "chosen" => hnd'.cb = c
        /\ hnd'.do # "callback"
        BY <1>7, <2>1 DEF MatchNext, EventHandler
  <2> QED BY <1>7, <2>2 DEF MatchNext
<1>8. ASSUME NEW r, CallbackReturns(r) PROVE ControlInv'
      BY <1>8 DEF CallbackReturns, Free
<1>9. CASE MatchEnds
      BY <1>9 DEF MatchEnds
<1>10. CASE UNCHANGED vars
      BY <1>10 DEF vars
<1>11. CASE MatchCalls
  <2>1. /\ hnd'.do \in {"match", "callback"} /\ hnd'.msgs = hnd.msgs
        /\ hnd'.todo = hnd.todo /\ (hnd'.do = "callback" => hnd'.cb = hnd.cb)
        BY <1>11 DEF MatchCalls, EventHandler
  <2> QED BY <1>11, <2>1 DEF MatchCalls
<1>12. CASE Handler
      BY <1>5, <1>6, <1>7, <1>8, <1>9, <1>11, <1>12 DEF Handler
<1>13. CASE PostDeregistration
      BY <1>13 DEF PostDeregistration
<1> HIDE HandlerType DEF TypeOK, ControlInv
<1> QED BY <1>1, <1>2, <1>3, <1>4, <1>10, <1>12, <1>13 DEF Next

LEMMA AppendConcat ==
    ASSUME NEW S, NEW s \in Seq(S), NEW t \in Seq(S), NEW e \in S
    PROVE  s \o Append(t, e) = Append(s \o t, e)
<1>1. s \o t \in Seq(S) /\ <<e>> \in Seq(S)
      OBVIOUS
<1>2. Append(t, e) = t \o <<e>> /\ Append(s \o t, e) = (s \o t) \o <<e>>
      BY <1>1, AppendIsConcat
<1>3. (s \o t) \o <<e>> = s \o (t \o <<e>>)
      BY <1>1, ConcatAssociative
<1> QED BY <1>2, <1>3

\* Of the steps, only those that post a message or are done with one change
\* the queue.
LEMMA QueueArrive ==
    ASSUME TypeOK, NEW event \in Events, NEW d \in Device, Notify(event, d), hnd' = hnd
    PROVE  Queue' = Append(Queue, [event |-> event, d |-> d])
<1> DEFINE taken == hnd.msgs
<1>1. PICK m \in Message : m = [event |-> event, d |-> d] /\ msgs' = Append(msgs, m)
      BY MessageType DEF Notify
<1>2. taken \in Seq(Message) /\ msgs \in Seq(Message)
      BY DEF TypeOK, EventHandler
<1> HIDE DEF taken
<1>3. taken \o Append(msgs, m) = Append(taken \o msgs, m)
      BY <1>2, AppendConcat
<1>4. Queue' = Append(Queue, m)
      BY <1>1, <1>3 DEF Queue, taken
<1> QED BY <1>1, <1>4

LEMMA QueueEnds ==
    ASSUME TypeOK, ControlInv, MatchEnds
    PROVE  /\ Len(Queue) \in Nat \ {0} /\ Len(Queue') = Len(Queue) - 1
           /\ Queue[1] = Head(hnd.msgs)
           /\ \A i \in 1..Len(Queue') : Queue'[i] = Queue[i + 1]
<1>1. /\ hnd.msgs \in Seq(Message) /\ msgs \in Seq(Message) /\ hnd.msgs # <<>>
      /\ hnd'.msgs = Tail(hnd.msgs) /\ msgs' = msgs
      BY DEF TypeOK, ControlInv, EventHandler, MatchEnds, Rest
<1>2. Tail(hnd.msgs) \o msgs = Tail(hnd.msgs \o msgs) /\ Queue \in Seq(Message)
      /\ Queue # <<>>
      BY <1>1, SMTT(30) DEF Queue
<1>3. Queue' = Tail(Queue)
      BY <1>1, <1>2 DEF Queue
<1> QED BY <1>2, <1>3, <1>1, QueueType

LEMMA QueueStays ==
    ASSUME TypeOK, ControlInv, [Next]_vars, \A d \in Device : ~Arrive(d) /\ ~Leave(d),
           ~MatchEnds
    PROVE  Queue' = Queue
<1> USE HandlerType DEF TypeOK, ControlInv, Queue
<1>1. ASSUME NEW c \in Cb, NEW events \in SUBSET Events, NEW f \in Filter,
             NEW e \in BOOLEAN, Register(c, events, f, e)
      PROVE  Queue' = Queue
      BY <1>1 DEF Register
<1>2. ASSUME NEW c \in Cb, Deregister(c) PROVE Queue' = Queue
      BY <1>2 DEF Deregister, Mark
<1>3. CASE Registering
      BY <1>3 DEF Registering, RegisterLists, RegisterCalls, RegisterCallReturns,
                  RegisterReturns, RegisterFails, Mark
<1>4. CASE TakeEvents
  <2>1. /\ hnd.msgs = <<>> /\ hnd'.msgs = msgs /\ msgs' = <<>>
        BY <1>4 DEF TakeEvents, EventHandler
  <2>2. msgs \o <<>> = msgs /\ <<>> \o msgs = msgs
        OBVIOUS
  <2> QED BY <2>1, <2>2
<1>5. CASE HandlerWaits
      BY <1>5 DEF HandlerWaits, Waiting
<1>6. CASE MatchBegin \/ FreeMarked \/ MatchNext \/ MatchCalls
      BY <1>6 DEF MatchBegin, FreeMarked, MatchNext, MatchCalls, EventHandler
<1>7. ASSUME NEW r, CallbackReturns(r) PROVE Queue' = Queue
      BY <1>7 DEF CallbackReturns, EventHandler
<1>8. CASE UNCHANGED vars
      BY <1>8 DEF vars
<1>9. CASE Handler
      BY <1>4, <1>5, <1>6, <1>7, <1>9 DEF Handler
<1>10. CASE PostDeregistration
      BY <1>10 DEF PostDeregistration
<1> HIDE HandlerType DEF TypeOK, ControlInv, Queue
<1> QED BY <1>1, <1>2, <1>3, <1>8, <1>9, <1>10 DEF Next

\* Devices come and go with the messages about them only.
LEMMA DevicesStay ==
    ASSUME [Next]_vars, \A d \in Device : ~Arrive(d) /\ ~Leave(d)
    PROVE  attached' = attached /\ fresh' = fresh
<1>1. ASSUME NEW c \in Cb, NEW events \in SUBSET Events, NEW f \in Filter,
             NEW e \in BOOLEAN, Register(c, events, f, e)
      PROVE  attached' = attached /\ fresh' = fresh
      BY <1>1 DEF Register
<1>2. ASSUME NEW c \in Cb, Deregister(c) PROVE attached' = attached /\ fresh' = fresh
      BY <1>2 DEF Deregister
<1>3. CASE Registering
      BY <1>3, ZenonT(60) DEF Registering, RegisterLists, RegisterCalls, RegisterCallReturns,
                  RegisterReturns, RegisterFails
<1>4. CASE Handler
      BY <1>4 DEF Handler, TakeEvents, FreeMarked, MatchBegin, MatchNext, MatchCalls,
                  MatchEnds, HandlerWaits, CallbackReturns
<1>5. CASE UNCHANGED vars
      BY <1>5 DEF vars
<1>6. CASE PostDeregistration
      BY <1>6 DEF PostDeregistration
<1> QED BY <1>1, <1>2, <1>3, <1>4, <1>5, <1>6 DEF Next

LEMMA QueuePreserved ==
    ASSUME ConstantsAssumption, TypeOK, ControlInv, QueueInv, [Next]_vars
    PROVE  QueueInv'
<1> USE DEF QueueInv
<1>1. ASSUME NEW d \in Device, Arrive(d) PROVE QueueInv'
  <2> DEFINE m == [event |-> "arrived", d |-> d]
             n == Len(Queue)
  <2>1. Queue' = Append(Queue, m)
        BY <1>1, QueueArrive DEF Arrive
  <2>2. /\ m \in Message /\ m.event = "arrived" /\ m.d = d
        /\ Queue \in Seq(Message) /\ n \in Nat
        BY MessageType, QueueType
  <2> HIDE DEF m, n
  <2>3. /\ Len(Queue') = n + 1 /\ Queue'[n + 1] = m
        /\ \A i \in 1..n : Queue'[i] = Queue[i]
        BY <2>1, <2>2 DEF n
  <2>4. /\ d \in fresh /\ fresh' = fresh \ {d} /\ attached' = attached \cup {d}
        BY <1>1 DEF Arrive
  <2>5. \A i \in 1..n : Queue[i].d # d
        BY <2>4 DEF n
  <2>6. ASSUME NEW i \in 1..(n + 1)
        PROVE  /\ Queue'[i].d \notin fresh'
               /\ Queue'[i].event = "left" => Queue'[i].d \notin attached'
               /\ Queue'[i].d \notin attached' =>
                     \E j \in 1..(n + 1) : Queue'[j] = LeftMsg(Queue'[i].d)
    <3>1. CASE i = n + 1
          BY <2>2, <2>3, <2>4, <3>1
    <3>2. CASE i \in 1..n
          BY <2>2, <2>3, <2>4, <2>5, <3>2 DEF n
    <3> QED BY <2>2, <3>1, <3>2
  <2>7. ASSUME NEW i \in 1..(n + 1), NEW j \in 1..(n + 1), i < j,
               Queue'[i].d = Queue'[j].d
        PROVE  Queue'[i].event = "arrived" /\ Queue'[j].event = "left"
    <3>1. i \in 1..n /\ j # n + 1
          BY <2>2, <2>3, <2>5, <2>7, SMTT(30)
    <3> QED BY <2>2, <2>3, <2>7, <3>1, SMTT(30) DEF n
  <2> QED BY <2>3, <2>4, <2>6, <2>7 DEF n
<1>2. ASSUME NEW d \in Device, Leave(d) PROVE QueueInv'
  <2> DEFINE n == Len(Queue)
  <2>1. Queue' = Append(Queue, LeftMsg(d))
        BY <1>2, QueueArrive DEF Leave, LeftMsg
  <2>2. /\ LeftMsg(d) \in Message /\ LeftMsg(d).event = "left" /\ LeftMsg(d).d = d
        /\ Queue \in Seq(Message) /\ n \in Nat
        /\ \A i \in 1..n : Queue[i].event \in {"arrived", "left"}
        BY LeftMsgType, QueueType
  <2> HIDE DEF n
  <2>3. /\ Len(Queue') = n + 1 /\ Queue'[n + 1] = LeftMsg(d)
        /\ \A i \in 1..n : Queue'[i] = Queue[i]
        BY <2>1, <2>2 DEF n
  <2>4. /\ d \in attached /\ fresh' = fresh /\ attached' = attached \ {d}
        BY <1>2 DEF Leave
  <2>5. \A i \in 1..n : Queue[i].d = d => Queue[i].event = "arrived"
        BY <2>2, <2>4 DEF n
  <2>6. ASSUME NEW i \in 1..(n + 1)
        PROVE  /\ Queue'[i].d \notin fresh'
               /\ Queue'[i].event = "left" => Queue'[i].d \notin attached'
               /\ Queue'[i].d \notin attached' =>
                     \E j \in 1..(n + 1) : Queue'[j] = LeftMsg(Queue'[i].d)
    <3>1. CASE i = n + 1
          BY <2>2, <2>3, <2>4, <3>1
    <3>2. CASE i \in 1..n
          BY <2>2, <2>3, <2>4, <2>5, <3>2 DEF n
    <3> QED BY <2>2, <3>1, <3>2
  <2>7. ASSUME NEW i \in 1..(n + 1), NEW j \in 1..(n + 1), i < j,
               Queue'[i].d = Queue'[j].d
        PROVE  Queue'[i].event = "arrived" /\ Queue'[j].event = "left"
    <3>1. i \in 1..n
          BY <2>2, <2>7
    <3>2. CASE j = n + 1
          BY <2>2, <2>3, <2>5, <2>7, <3>1, <3>2
    <3>3. CASE j \in 1..n
          BY <2>2, <2>3, <2>7, <3>1, <3>3 DEF n
    <3> QED BY <2>2, <3>2, <3>3
  <2> QED BY <2>3, <2>4, <2>6, <2>7 DEF n
<1>3. CASE MatchEnds
  <2> DEFINE n == Len(Queue')
  <2>1. /\ n \in Nat /\ Len(Queue) = n + 1
        /\ \A i \in 1..n : Queue'[i] = Queue[i + 1] /\ i + 1 \in 1..(n + 1)
        BY <1>3, QueueEnds
  <2>2. attached' = attached /\ fresh' = fresh
        BY <1>3 DEF MatchEnds
  <2> HIDE DEF n
  <2>3. ASSUME NEW i \in 1..n, Queue'[i].d \notin attached
        PROVE  \E j \in 1..n : Queue'[j] = LeftMsg(Queue'[i].d)
    <3>1. PICK j \in 1..(n + 1) : Queue[j] = LeftMsg(Queue[i + 1].d)
          BY <2>1, <2>3
    <3>2. Queue[j].event = "left" /\ Queue[j].d = Queue[i + 1].d
          BY <3>1, <2>1, LeftMsgType, QueueType
    <3>3. j # 1
      <4>1. i + 1 \in 1..(n + 1) /\ 1 \in 1..(n + 1) /\ 1 < i + 1
            BY <2>1
      <4>2. j = 1 => Queue[1].event = "arrived"
            BY <2>1, <3>2, <4>1
      <4> QED BY <3>2, <4>2
    <3>4. j - 1 \in 1..n /\ Queue'[j - 1] = Queue[j]
      <4>1. j - 1 \in 1..n /\ (j - 1) + 1 = j
            BY <3>3, <2>1
      <4>2. Queue'[j - 1] = Queue[(j - 1) + 1]
            BY <4>1, <2>1
      <4> QED BY <4>1, <4>2
    <3> QED BY <3>1, <3>4, <2>1
  <2>4. ASSUME NEW i \in 1..n, NEW j \in 1..n, i < j, Queue'[i].d = Queue'[j].d
        PROVE  Queue'[i].event = "arrived" /\ Queue'[j].event = "left"
        BY <2>1, <2>4
  <2>5. \A i \in 1..n : /\ Queue'[i].d \notin fresh
                        /\ Queue'[i].event = "left" => Queue'[i].d \notin attached
        BY <2>1
  <2> QED BY <2>2, <2>3, <2>4, <2>5 DEF n
<1>4. CASE ~MatchEnds /\ \A d \in Device : ~Arrive(d) /\ ~Leave(d)
      BY <1>4, QueueStays, DevicesStay
<1> QED BY <1>1, <1>2, <1>3, <1>4

\* Only the loop over the callbacks tells them, and freeing them forgets.
LEMMA ToldStays ==
    ASSUME TypeOK, [Next]_vars, ~MatchCalls
    PROVE  /\ \A c \in Cb : told'[c] \subseteq told[c]
           /\ hnd.do \in InMatch /\ ~MatchEnds =>
                 hnd'.do \in InMatch /\ Ahead' \subseteq Ahead
<1> DEFINE P == /\ \A c \in Cb : told'[c] \subseteq told[c]
                /\ hnd.do \in InMatch /\ ~MatchEnds =>
                      hnd'.do \in InMatch /\ Ahead' \subseteq Ahead
<1> USE DEF TypeOK, Ahead
<1>1. ASSUME NEW d \in Device, Arrive(d) \/ Leave(d) PROVE P
      BY <1>1 DEF Arrive, Leave
<1>2. ASSUME NEW c \in Cb, NEW events \in SUBSET Events, NEW f \in Filter,
             NEW e \in BOOLEAN, Register(c, events, f, e)
      PROVE  P
      BY <1>2 DEF Register
<1>3. ASSUME NEW c \in Cb, Deregister(c) PROVE P
      BY <1>3 DEF Deregister, Mark
<1>4. CASE Registering
      BY <1>4 DEF Registering, RegisterLists, RegisterCalls, RegisterCallReturns,
                  RegisterReturns, RegisterFails, Mark
<1>5. CASE TakeEvents \/ MatchBegin \/ HandlerWaits \/ MatchEnds
      BY <1>5 DEF TakeEvents, MatchBegin, HandlerWaits, MatchEnds
<1>6. CASE FreeMarked
      BY <1>6 DEF FreeMarked, Free
<1>7. ASSUME NEW r, CallbackReturns(r) PROVE P
  <2>1. \A c \in Cb : told'[c] \subseteq told[c]
        BY <1>7 DEF CallbackReturns, Free
  <2>2. hnd'.do = "match" /\ hnd'.todo = hnd.todo
        BY <1>7 DEF CallbackReturns, EventHandler
  <2> QED BY <2>1, <2>2
<1>8. CASE UNCHANGED vars
      BY <1>8 DEF vars
<1>9. CASE Handler
  <2>1. CASE MatchNext
    <3>1. PICK c \in hnd.todo :
                \/ hnd' = [hnd EXCEPT !.do = "chosen", !.todo = @ \ {c}, !.cb = c]
                \/ hnd' = [hnd EXCEPT !.todo = @ \ {c}]
          BY <2>1 DEF MatchNext
    <3>2. /\ told' = told /\ hnd.do = "match" /\ hnd'.todo = hnd.todo \ {c}
          /\ hnd'.do = "match" \/ (hnd'.do = "chosen" /\ hnd'.cb = c)
          BY <2>1, <3>1 DEF MatchNext, EventHandler
    <3> QED BY <3>1, <3>2
  <2> QED BY <1>5, <1>6, <1>7, <1>9, <2>1 DEF Handler
<1>10. CASE PostDeregistration
      BY <1>10 DEF PostDeregistration
<1> HIDE DEF TypeOK, Ahead
<1> QED BY <1>1, <1>2, <1>3, <1>4, <1>8, <1>9, <1>10 DEF Next

LEMMA ToldPreserved ==
    ASSUME ConstantsAssumption, TypeOK, ControlInv, QueueInv, ToldInv, [Next]_vars
    PROVE  ToldInv'
<1> USE DEF ToldInv
<1>1. ASSUME NEW d \in Device, Arrive(d) PROVE ToldInv'
  <2> DEFINE m == [event |-> "arrived", d |-> d]
             n == Len(Queue)
  <2>1. Queue' = Append(Queue, m) /\ told' = told /\ hnd' = hnd
        BY <1>1, QueueArrive DEF Arrive
  <2>2. /\ m \in Message /\ m.event = "arrived" /\ m.d = d
        /\ Queue \in Seq(Message) /\ n \in Nat
        BY MessageType, QueueType
  <2> HIDE DEF m, n
  <2>3. /\ Len(Queue') = n + 1 /\ Queue'[n + 1] = m
        /\ \A i \in 1..n : Queue'[i] = Queue[i]
        BY <2>1, <2>2 DEF n
  <2>4. /\ d \in fresh /\ fresh' = fresh \ {d} /\ attached' = attached \cup {d}
        BY <1>1 DEF Arrive
  <2>5. \A c \in Cb : m \notin told[c] /\ LeftMsg(d) \notin told[c]
        BY <2>2, <2>4, LeftMsgType
  <2>6. \A c \in Cb, i \in 1..(n + 1) :
          /\ Queue'[i] \in told[c] => i = 1 /\ hnd.do \in InMatch /\ c \notin Ahead
          /\ Queue'[i].event = "arrived" => LeftMsg(Queue'[i].d) \notin told[c]
    <3> TAKE c \in Cb, i \in 1..(n + 1)
    <3>1. CASE i = n + 1
          BY <2>2, <2>3, <2>5, <3>1
    <3>2. CASE i \in 1..n
          BY <2>2, <2>3, <3>2 DEF n
    <3> QED BY <2>2, <3>1, <3>2
  <2>7. \A c \in Cb : \A x \in told[c] :
           x.d \notin fresh' /\ (x.event = "left" => x.d \notin attached')
        BY <2>4
  <2> QED BY <2>1, <2>3, <2>6, <2>7 DEF Ahead
<1>2. ASSUME NEW d \in Device, Leave(d) PROVE ToldInv'
  <2> DEFINE n == Len(Queue)
  <2>1. Queue' = Append(Queue, LeftMsg(d)) /\ told' = told /\ hnd' = hnd
        BY <1>2, QueueArrive DEF Leave, LeftMsg
  <2>2. /\ LeftMsg(d) \in Message /\ LeftMsg(d).event = "left" /\ LeftMsg(d).d = d
        /\ Queue \in Seq(Message) /\ n \in Nat
        BY LeftMsgType, QueueType
  <2> HIDE DEF n
  <2>3. /\ Len(Queue') = n + 1 /\ Queue'[n + 1] = LeftMsg(d)
        /\ \A i \in 1..n : Queue'[i] = Queue[i]
        BY <2>1, <2>2 DEF n
  <2>4. /\ d \in attached /\ fresh' = fresh /\ attached' = attached \ {d}
        BY <1>2 DEF Leave
  <2>5. \A c \in Cb : LeftMsg(d) \notin told[c]
        BY <2>2, <2>4
  <2>6. \A c \in Cb, i \in 1..(n + 1) :
          /\ Queue'[i] \in told[c] => i = 1 /\ hnd.do \in InMatch /\ c \notin Ahead
          /\ Queue'[i].event = "arrived" => LeftMsg(Queue'[i].d) \notin told[c]
    <3> TAKE c \in Cb, i \in 1..(n + 1)
    <3>1. CASE i = n + 1
          BY <2>2, <2>3, <2>5, <3>1
    <3>2. CASE i \in 1..n
          BY <2>2, <2>3, <3>2 DEF n
    <3> QED BY <2>2, <3>1, <3>2
  <2>7. \A c \in Cb : \A x \in told[c] :
           x.d \notin fresh' /\ (x.event = "left" => x.d \notin attached')
        BY <2>4
  <2> QED BY <2>1, <2>3, <2>6, <2>7 DEF Ahead
<1>3. CASE MatchEnds
  <2> DEFINE n == Len(Queue')
  <2>1. /\ n \in Nat /\ Len(Queue) = n + 1
        /\ \A i \in 1..n : Queue'[i] = Queue[i + 1] /\ i + 1 \in 1..(n + 1) /\ i + 1 # 1
        BY <1>3, QueueEnds
  <2>2. attached' = attached /\ fresh' = fresh /\ told' = told
        BY <1>3 DEF MatchEnds
  <2> HIDE DEF n
  <2> QED BY <2>1, <2>2 DEF n
<1>4. CASE MatchCalls
  <2> DEFINE m == Head(hnd.msgs)
  <2>1. /\ Queue' = Queue /\ attached' = attached /\ fresh' = fresh
        BY <1>4, QueueStays, DevicesStay
        DEF MatchCalls, MatchEnds, Arrive, Leave, devVars
  <2>2. m = Queue[1] /\ Len(Queue) \in Nat \ {0}
        BY <1>4, QueueType DEF MatchCalls, ControlInv
  <2> DEFINE c == hnd.cb
  <2>3. /\ hnd'.do \in {"match", "callback"} /\ hnd'.todo = hnd.todo
        /\ told' = [told EXCEPT ![c] = @ \cup {m}] \/ told' = told
        BY <1>4 DEF MatchCalls, TypeOK, EventHandler
  <2>4. /\ hnd.do = "chosen" /\ told \in [Cb -> SUBSET Message]
        /\ c \in Cb \ hnd.todo /\ Ahead' = hnd.todo /\ Ahead = hnd.todo \cup {c}
        BY <1>4, <2>3 DEF MatchCalls, TypeOK, ControlInv, Ahead
  <2> HIDE DEF m, c
  <2>5. ASSUME NEW k \in Cb, NEW x \in told'[k]
        PROVE  x \in told[k] \/ (k = c /\ x = m)
        BY <2>3, <2>4
  <2>6. ASSUME NEW k \in Cb, NEW x \in told'[k]
        PROVE  x.d \notin fresh' /\ (x.event = "left" => x.d \notin attached')
        BY <2>1, <2>2, <2>5 DEF QueueInv
  <2>7. ASSUME NEW k \in Cb, NEW i \in 1..Len(Queue), Queue[i] \in told'[k]
        PROVE  i = 1 /\ hnd'.do \in InMatch /\ k \notin Ahead'
    <3>1. CASE Queue[i] \in told[k]
          BY <2>3, <2>4, <3>1
    <3>2. CASE k = c /\ Queue[i] = m
      <4>1. i = 1
            BY <2>2, <3>2 DEF QueueInv
      <4> QED BY <2>3, <2>4, <3>2, <4>1
    <3> QED BY <2>5, <2>7, <3>1, <3>2
  <2>8. ASSUME NEW k \in Cb, NEW i \in 1..Len(Queue), Queue[i].event = "arrived"
        PROVE  LeftMsg(Queue[i].d) \notin told'[k]
    <3>1. Queue[i].d \in Device
          BY QueueType
    <3>2. LeftMsg(Queue[i].d) # m
          BY <2>2, <2>8, <3>1, LeftMsgType DEF QueueInv
    <3> QED BY <2>5, <2>8, <3>2
  <2> QED BY <2>1, <2>6, <2>7, <2>8
<1>5. CASE /\ ~MatchEnds /\ ~MatchCalls
           /\ \A d \in Device : ~Arrive(d) /\ ~Leave(d)
  <2>1. Queue' = Queue /\ attached' = attached /\ fresh' = fresh
        BY <1>5, QueueStays, DevicesStay
  <2>2. /\ \A c \in Cb : told'[c] \subseteq told[c]
        /\ hnd.do \in InMatch => hnd'.do \in InMatch /\ Ahead' \subseteq Ahead
        BY <1>5, ToldStays
  <2> QED BY <2>1, <2>2
<1> QED BY <1>1, <1>2, <1>3, <1>4, <1>5

\* The list of a registration changes with the registration alone, references
\* with it and with the messages.
LEMMA RefsStay ==
    ASSUME TypeOK, [Next]_vars, ~MatchEnds, ~RegisterLists, ~RegisterReturns,
           \A d \in Device : ~Arrive(d) /\ ~Leave(d),
           reg.do = "list" => reg.devs = {}
    PROVE  /\ refs' = refs /\ Handed' = Handed
           /\ reg'.do = "list" => reg'.devs = {}
<1> DEFINE P == /\ refs' = refs /\ Handed' = Handed
                /\ reg'.do = "list" => reg'.devs = {}
<1> USE NoRegType
<1>1. ASSUME NEW c \in Cb, NEW events \in SUBSET Events, NEW f \in Filter,
             NEW e \in BOOLEAN, Register(c, events, f, e)
      PROVE  P
      BY <1>1 DEF Register, Handed
<1>2. ASSUME NEW c \in Cb, Deregister(c) PROVE P
      BY <1>2 DEF Deregister, Handed
<1>3. CASE RegisterFails
      BY <1>3 DEF RegisterFails, Handed
<1>4. CASE RegisterCalls \/ RegisterCallReturns
  <2>1. reg \in Registration
        BY <1>4, HandlerType DEF RegisterCalls, RegisterCallReturns
  <2>2. /\ refs' = refs /\ reg'.devs = reg.devs
        /\ reg'.do \in {"call", "callback"}
        BY <1>4, <2>1 DEF RegisterCalls, RegisterCallReturns, Registration
  <2>3. reg # NoReg /\ reg' # NoReg
        BY <1>4, <2>2, ZenonT(60) DEF RegisterCalls, RegisterCallReturns
  <2> QED BY <2>2, <2>3 DEF Handed
<1>5. CASE Handler
      BY <1>5 DEF Handler, TakeEvents, FreeMarked, MatchBegin, MatchNext,
                  MatchCalls, HandlerWaits, CallbackReturns, Handed
<1>6. CASE UNCHANGED vars
      BY <1>6 DEF vars, Handed
<1>7. CASE Registering
      BY <1>3, <1>4, <1>7 DEF Registering
<1>8. CASE PostDeregistration
      BY <1>8 DEF PostDeregistration, Handed
<1> QED BY <1>1, <1>2, <1>5, <1>6, <1>7, <1>8 DEF Next

LEMMA RefsPreserved ==
    ASSUME ConstantsAssumption, TypeOK, ControlInv, QueueInv, RefsInv, [Next]_vars
    PROVE  RefsInv'
<1> USE DEF RefsInv
<1>1. ASSUME NEW d \in Device, Arrive(d) PROVE RefsInv'
  <2> DEFINE m == [event |-> "arrived", d |-> d]
             n == Len(Queue)
  <2>1. Queue' = Append(Queue, m) /\ reg' = reg
        BY <1>1, QueueArrive DEF Arrive
  <2>2. /\ m \in Message /\ m.event = "arrived" /\ m.d = d
        /\ Queue \in Seq(Message) /\ n \in Nat
        BY MessageType, QueueType
  <2> HIDE DEF m, n
  <2>3. /\ Len(Queue') = n + 1 /\ Queue'[n + 1] = m
        /\ \A i \in 1..n : Queue'[i] = Queue[i]
        BY <2>1, <2>2 DEF n
  <2>4. /\ d \in fresh /\ fresh' = fresh \ {d} /\ attached' = attached \cup {d}
        /\ refs' = [refs EXCEPT ![d] = 1]
        BY <1>1 DEF Arrive
  <2>5. \A x \in Device : m # LeftMsg(x)
        BY <2>2, LeftMsgType
  <2>6. Going' = Going
    <3>1. ASSUME NEW x \in Device, NEW i \in 1..(n + 1), Queue'[i] = LeftMsg(x)
          PROVE  x \in Going
          BY <2>2, <2>3, <2>5, <3>1 DEF Going, n
    <3>2. ASSUME NEW x \in Device, NEW i \in 1..n, Queue[i] = LeftMsg(x)
          PROVE  x \in Going'
          BY <2>2, <2>3, <3>2 DEF Going, n
    <3> QED BY <2>2, <2>3, <3>1, <3>2 DEF Going, n
  <2>7. d \notin Going
        BY <2>4, LeftMsgType DEF Going, QueueInv
  <2>8. Handed' = Handed /\ d \notin Handed /\ d \notin attached
        BY <2>1, <2>4 DEF Handed, QueueInv
  <2>9. refs \in [Device -> Nat]
        BY DEF TypeOK
  <2> QED BY <2>1, <2>4, <2>6, <2>7, <2>8, <2>9 DEF Among
<1>2. ASSUME NEW d \in Device, Leave(d) PROVE RefsInv'
  <2> DEFINE n == Len(Queue)
  <2>1. Queue' = Append(Queue, LeftMsg(d)) /\ reg' = reg
        BY <1>2, QueueArrive DEF Leave, LeftMsg
  <2>2. /\ LeftMsg(d) \in Message /\ LeftMsg(d).event = "left" /\ LeftMsg(d).d = d
        /\ Queue \in Seq(Message) /\ n \in Nat
        BY LeftMsgType, QueueType
  <2> HIDE DEF n
  <2>3. /\ Len(Queue') = n + 1 /\ Queue'[n + 1] = LeftMsg(d)
        /\ \A i \in 1..n : Queue'[i] = Queue[i]
        BY <2>1, <2>2 DEF n
  <2>4. /\ d \in attached /\ fresh' = fresh /\ attached' = attached \ {d}
        /\ refs' = refs
        BY <1>2 DEF Leave
  <2>5. \A x \in Device : LeftMsg(x) = LeftMsg(d) => x = d
        BY LeftMsgType
  <2>6. Going' = Going \cup {d}
    <3>1. ASSUME NEW x \in Device, NEW i \in 1..(n + 1), Queue'[i] = LeftMsg(x)
          PROVE  x \in Going \cup {d}
      <4>1. CASE i = n + 1
            BY <2>3, <2>5, <3>1, <4>1
      <4>2. CASE i \in 1..n
            BY <2>3, <3>1, <4>2 DEF Going, n
      <4> QED BY <2>2, <4>1, <4>2
    <3>2. ASSUME NEW x \in Device, NEW i \in 1..n, Queue[i] = LeftMsg(x)
          PROVE  x \in Going'
          BY <2>2, <2>3, <3>2 DEF Going, n
    <3>3. d \in Going'
          BY <2>2, <2>3 DEF Going
    <3> QED BY <2>2, <2>3, <3>1, <3>2, <3>3 DEF Going, n
  <2>7. d \notin Going
        BY <2>4, LeftMsgType DEF Going, QueueInv
  <2>8. Handed' = Handed
        BY <2>1 DEF Handed
  <2> QED BY <2>1, <2>4, <2>6, <2>7, <2>8 DEF Among
<1>3. CASE MatchEnds
  <2> DEFINE n == Len(Queue')
             m == Head(hnd.msgs)
  <2>1. /\ n \in Nat /\ Len(Queue) = n + 1 /\ Queue[1] = m
        /\ \A i \in 1..n : Queue'[i] = Queue[i + 1] /\ i + 1 \in 1..(n + 1) /\ i + 1 # 1
        BY <1>3, QueueEnds
  <2>2. /\ attached' = attached /\ fresh' = fresh /\ reg' = reg /\ m.d \in Device
        /\ m \in Message /\ refs' = IF m.event = "left" THEN [refs EXCEPT ![m.d] = @ - 1] ELSE refs
        BY <1>3, HandlerType DEF MatchEnds, Message, ControlInv, Drops
  <2> HIDE DEF n, m
  <2>3. Going = Going' \cup (IF m.event = "left" THEN {m.d} ELSE {})
    <3>1. ASSUME NEW x \in Device, NEW i \in 1..(n + 1), Queue[i] = LeftMsg(x)
          PROVE  x \in Going' \/ (m.event = "left" /\ x = m.d)
      <4>1. CASE i = 1
            BY <2>1, <3>1, <4>1, LeftMsgType
      <4>2. CASE i # 1
        <5>1. i - 1 \in 1..n /\ Queue'[i - 1] = Queue[i]
              BY <2>1, <4>2
        <5> QED BY <3>1, <5>1 DEF Going, n
      <4> QED BY <4>1, <4>2
    <3>2. ASSUME NEW x \in Device, NEW i \in 1..n, Queue'[i] = LeftMsg(x)
          PROVE  x \in Going
          BY <2>1, <3>2 DEF Going
    <3>3. m.event = "left" => m.d \in Going
      <4>1. ASSUME m.event = "left" PROVE Queue[1] = LeftMsg(m.d) /\ 1 \in 1..(n + 1)
            BY <2>1, <2>2, <4>1, LeftMsgType
      <4> QED BY <2>1, <2>2, <4>1 DEF Going
    <3> QED BY <2>1, <2>2, <3>1, <3>2, <3>3 DEF Going, n
  <2>4. m.event = "left" => m.d \notin Going'
    <3>1. ASSUME m.event = "left", NEW i \in 1..n, Queue'[i] = LeftMsg(m.d) PROVE FALSE
      <4>1. /\ Queue[1].d = Queue[i + 1].d /\ 1 < i + 1 /\ i + 1 \in 1..(n + 1)
            /\ 1 \in 1..(n + 1)
            BY <2>1, <2>2, <3>1, LeftMsgType
      <4>2. Queue[1].event = "arrived"
            BY <2>1, <4>1 DEF QueueInv
      <4> QED BY <2>1, <3>1, <4>2
    <3> QED BY <3>1 DEF Going, n
  <2>5. Handed' = Handed
        BY <2>2 DEF Handed
  <2>6. refs \in [Device -> Nat]
        BY DEF TypeOK
  <2> QED BY <2>2, <2>3, <2>4, <2>5, <2>6 DEF Among
<1>4. CASE RegisterLists \/ RegisterReturns
  <2>1. /\ attached' = attached /\ fresh' = fresh /\ Queue' = Queue
        BY <1>4 DEF RegisterLists, RegisterReturns, Queue
  <2>2. Going' = Going
        BY <2>1 DEF Going
  <2>3. reg \in Registration /\ reg # NoReg /\ refs \in [Device -> Nat]
        BY <1>4, HandlerType DEF RegisterLists, RegisterReturns, TypeOK
  <2>4. CASE RegisterLists
    <3>1. /\ Handed = {} /\ reg'.do = "call" /\ reg'.devs = attached
          /\ refs' = [d \in Device |-> IF d \in attached THEN refs[d] + 1 ELSE refs[d]]
          BY <2>3, <2>4 DEF RegisterLists, Handed, Registration
    <3>2. Handed' = attached
          BY <3>1, NoRegType DEF Handed
    <3> QED BY <2>1, <2>2, <3>1, <3>2 DEF Among, QueueInv
  <2>5. CASE RegisterReturns
    <3>1. /\ Handed = reg.devs /\ reg' = NoReg /\ Handed' = {}
          /\ refs' = [d \in Device |-> IF d \in reg.devs THEN refs[d] - 1 ELSE refs[d]]
          BY <2>3, <2>5 DEF RegisterReturns, Handed
    <3> QED BY <2>1, <2>2, <3>1, NoRegType DEF Among
  <2> QED BY <1>4, <2>4, <2>5
<1>5. CASE /\ ~MatchEnds /\ ~RegisterLists /\ ~RegisterReturns
           /\ \A d \in Device : ~Arrive(d) /\ ~Leave(d)
  <2>1. /\ Queue' = Queue /\ attached' = attached /\ fresh' = fresh
        BY <1>5, QueueStays, DevicesStay
  <2>2. /\ refs' = refs /\ Handed' = Handed
        /\ reg'.do = "list" => reg'.devs = {}
        BY <1>5, RefsStay
  <2>3. Going' = Going
        BY <2>1 DEF Going
  <2> QED BY <2>1, <2>2, <2>3
<1> QED BY <1>1, <1>2, <1>3, <1>4, <1>5

\* Nothing but a registration numbers callbacks.
LEMMA NumbersStay ==
    ASSUME TypeOK, [Next]_vars, regs' = regs
    PROVE  /\ nextHandle' = nextHandle /\ cbs' \subseteq cbs
           /\ \A c \in cbs' : cb'[c].nr = cb[c].nr /\ cb'[c].handle = cb[c].handle
<1> DEFINE P == /\ nextHandle' = nextHandle /\ cbs' \subseteq cbs
                /\ \A c \in cbs' : cb'[c].nr = cb[c].nr /\ cb'[c].handle = cb[c].handle
<1> USE DEF TypeOK
<1>1. ASSUME NEW c \in Cb, NEW events \in SUBSET Events, NEW f \in Filter,
             NEW e \in BOOLEAN, Register(c, events, f, e)
      PROVE  P
      BY <1>1 DEF Register
<1>2. ASSUME NEW h, Mark(h), nextHandle' = nextHandle PROVE P
      BY <1>2 DEF Mark, Callback
<1>3. ASSUME NEW S, Free(S), nextHandle' = nextHandle PROVE P
      BY <1>3 DEF Free
<1>4. ASSUME NEW d \in Device, Arrive(d) \/ Leave(d) PROVE P
      BY <1>4 DEF Arrive, Leave
<1>5. ASSUME NEW c \in Cb, Deregister(c) PROVE P
      BY <1>2, <1>5 DEF Deregister
<1>6. CASE RegisterFails
      BY <1>2, <1>6 DEF RegisterFails
<1>7. CASE RegisterLists \/ RegisterCalls \/ RegisterCallReturns \/ RegisterReturns
      BY <1>7, ZenonT(60)
         DEF RegisterLists, RegisterCalls, RegisterCallReturns, RegisterReturns
<1>8. CASE TakeEvents \/ MatchBegin \/ MatchNext \/ MatchCalls \/ MatchEnds
              \/ HandlerWaits \/ PostDeregistration
      BY <1>8 DEF TakeEvents, MatchBegin, MatchNext, MatchCalls, MatchEnds,
                  HandlerWaits, PostDeregistration
<1>9. CASE FreeMarked
      BY <1>3, <1>9 DEF FreeMarked
<1>10. ASSUME NEW r, CallbackReturns(r) PROVE P
      BY <1>3, <1>10 DEF CallbackReturns
<1>11. CASE UNCHANGED vars
      BY <1>11 DEF vars
<1>12. CASE Registering
      BY <1>6, <1>7, <1>12 DEF Registering
<1>13. CASE Handler
      BY <1>8, <1>9, <1>10, <1>13 DEF Handler
<1> HIDE DEF TypeOK
<1> QED BY <1>1, <1>4, <1>5, <1>8, <1>11, <1>12, <1>13 DEF Next

LEMMA HandlePreserved ==
    ASSUME ConstantsAssumption, TypeOK, HandleInv, [Next]_vars
    PROVE  HandleInv'
<1>1. ASSUME NEW c \in Cb, NEW events \in SUBSET Events, NEW f \in Filter,
             NEW e \in BOOLEAN, Register(c, events, f, e)
      PROVE  HandleInv'
  <2>1. /\ c \notin cbs /\ cbs' = cbs \cup {c} /\ regs' = regs + 1 /\ regs \in Nat
        /\ cb'[c].nr = regs + 1 /\ cb'[c].handle = nextHandle
        /\ \A k \in cbs : cb'[k] = cb[k]
        /\ nextHandle' = HandleAfter(nextHandle)
        BY <1>1 DEF Register, TypeOK, ConstantsAssumption
  <2>2. \A k \in cbs' : cb'[k].nr \in 1..regs'
        BY <2>1 DEF HandleInv
  <2>3. \A k, l \in cbs' : cb'[k].nr = cb'[l].nr => k = l
        BY <2>1 DEF HandleInv
  <2>4. regs' <= MaxHandle => \A k \in cbs' : cb'[k].handle = cb'[k].nr
        BY <2>1 DEF HandleInv, ConstantsAssumption
  <2>5. regs' < MaxHandle => nextHandle' = regs' + 1
        BY <2>1 DEF HandleInv, HandleAfter, ConstantsAssumption
  <2> QED BY <2>2, <2>3, <2>4, <2>5 DEF HandleInv
<1>2. CASE \A c \in Cb, events \in SUBSET Events, f \in Filter, e \in BOOLEAN :
              ~Register(c, events, f, e)
  <2>1. regs' = regs
        BY <1>2
        DEF Next, Registering, Handler, Arrive, Leave, Deregister, RegisterLists,
            RegisterCalls, RegisterCallReturns, RegisterReturns, RegisterFails,
            TakeEvents, FreeMarked, MatchBegin, MatchNext, MatchCalls,
            CallbackReturns, MatchEnds, HandlerWaits, PostDeregistration, vars
  <2> QED BY <2>1, NumbersStay, SMTT(30) DEF HandleInv
<1> QED BY <1>1, <1>2

\* Only the handler takes what is pending, all of it, and clears the pipe; whoever
\* marks a callback is to post its deregistration.
LEMMA AwakePreserved ==
    ASSUME ConstantsAssumption, TypeOK, AwakeInv, [Next]_vars
    PROVE  AwakeInv'
<1> USE DEF TypeOK, AwakeInv, Pending
<1>1. ASSUME NEW event, NEW d, Notify(event, d), UNCHANGED <<cbs, cb, hnd>>
      PROVE  AwakeInv'
      BY <1>1 DEF Notify, Signal
<1>2. ASSUME NEW d \in Device, Arrive(d) \/ Leave(d) PROVE AwakeInv'
      BY <1>1, <1>2 DEF Arrive, Leave
<1>3. ASSUME NEW c \in Cb, NEW events \in SUBSET Events, NEW f \in Filter,
             NEW e \in BOOLEAN, Register(c, events, f, e)
      PROVE  AwakeInv'
      BY <1>3 DEF Register
<1>4. ASSUME NEW h, Mark(h), hnd' = hnd PROVE AwakeInv'
  <2>1. CASE {c \in cbs : cb[c].handle = h} = {}
        BY <1>4, <2>1 DEF Mark
  <2>2. CASE {c \in cbs : cb[c].handle = h} # {}
        BY <1>4, <2>2 DEF Mark
  <2> QED BY <2>1, <2>2
<1>5. ASSUME NEW c \in Cb, Deregister(c) PROVE AwakeInv'
      BY <1>4, <1>5 DEF Deregister
<1>6. CASE RegisterFails
      BY <1>4, <1>6 DEF RegisterFails
<1>7. CASE RegisterLists \/ RegisterCalls \/ RegisterCallReturns \/ RegisterReturns
  <2>1. UNCHANGED <<cbVars, eventVars, hnd>>
        BY <1>7, ZenonT(60)
           DEF RegisterLists, RegisterCalls, RegisterCallReturns, RegisterReturns
  <2> QED BY <2>1
<1>8. CASE PostDeregistration
      BY <1>8 DEF PostDeregistration, Signal
<1>9. CASE TakeEvents
  <2>1. /\ deregFlag => hnd'.do = "free"
        /\ hnd.do # "free" /\ cbs' = cbs /\ cb' = cb /\ posting' = posting
        /\ msgs' = <<>> /\ ~deregFlag'
        BY <1>9 DEF TakeEvents, EventHandler
  <2> QED BY <2>1
<1>10. CASE FreeMarked
      BY <1>10 DEF FreeMarked, Free
<1>11. CASE MatchBegin \/ MatchNext \/ MatchCalls \/ MatchEnds \/ HandlerWaits
  <2>1. hnd.do # "free" /\ UNCHANGED <<cbs, cb, eventVars>>
        BY <1>11, ZenonT(60) DEF MatchBegin, MatchNext, MatchCalls, MatchEnds, HandlerWaits
  <2> QED BY <2>1
<1>12. ASSUME NEW r, CallbackReturns(r) PROVE AwakeInv'
  <2>1. PICK S : Free(S)
        BY <1>12 DEF CallbackReturns
  <2>2. cbs' \subseteq cbs /\ \A c \in cbs' : cb'[c] = cb[c]
        BY <2>1 DEF Free
  <2>3. hnd.do # "free" /\ UNCHANGED eventVars
        BY <1>12 DEF CallbackReturns
  <2> QED BY <2>2, <2>3
<1>13. CASE UNCHANGED vars
      BY <1>13 DEF vars
<1>14. CASE Registering
      BY <1>6, <1>7, <1>14 DEF Registering
<1>15. CASE Handler
      BY <1>9, <1>10, <1>11, <1>12, <1>15 DEF Handler
<1> HIDE DEF TypeOK, AwakeInv, Pending
<1> QED BY <1>2, <1>3, <1>5, <1>8, <1>13, <1>14, <1>15 DEF Next

LEMMA InitIInv == ASSUME ConstantsAssumption, Init PROVE IInv
<1> USE DEF Init
<1>1. Queue = <<>> /\ Going = {} /\ Handed = {}
  <2>1. Queue = <<>>
        BY DEF Queue, Waiting
  <2> QED BY <2>1 DEF Going, Handed
<1>2. TypeOK
  <2>1. Waiting \in EventHandler
        BY DEF Waiting, EventHandler
  <2>2. cb \in [Cb -> Callback] /\ told \in [Cb -> SUBSET Message]
        BY FreedType
  <2>3. msgs \in Seq(Message)
        OBVIOUS
  <2>4. refs \in [Device -> Nat] /\ nextHandle \in 1..MaxHandle /\ regs \in 0..MaxRegs
        /\ posting \in 0..MaxDeregs
        BY DEF ConstantsAssumption
  <2>5. attached \subseteq Device /\ fresh \subseteq Device /\ cbs \subseteq Cb
        OBVIOUS
  <2> QED BY <2>1, <2>2, <2>3, <2>4, <2>5 DEF TypeOK
<1>3. ControlInv
      BY DEF ControlInv, Waiting
<1>4. QueueInv /\ ToldInv
      BY <1>1 DEF QueueInv, ToldInv
<1>5. RefsInv
      BY <1>1, NoRegType DEF RefsInv, Among
<1>6. HandleInv
      BY DEF HandleInv
<1>7. AwakeInv
      BY DEF AwakeInv, Pending
<1> QED BY <1>2, <1>3, <1>4, <1>5, <1>6, <1>7 DEF IInv

\* The inductive invariant holds in every behaviour: the properties of hotplug.c
\* below are consequences, and as its last clause says no deregistration is
\* forgotten, the handler has been told of each marked callback or will be.
THEOREM Invariance == Spec => []IInv
<1>1. Init => IInv
      BY InitIInv, ConstantsAssumption
<1>2. IInv /\ [Next]_vars => IInv'
      BY ConstantsAssumption, TypePreserved, ControlPreserved, QueuePreserved,
         ToldPreserved, RefsPreserved, HandlePreserved, AwakePreserved DEF IInv
<1> QED BY <1>1, <1>2, PTL DEF Spec

----------------------------------------------------------------------------
(* Theorems.                                                               *)

\* The handler chooses callbacks in MatchNext and not those that are marked, and
\* drops them when they return.
LEMMA HandlerKeeps ==
    ASSUME TypeOK, [Next]_vars
    PROVE  /\ hnd.do = "chosen" /\ hnd'.do = "callback" => hnd'.cb = hnd.cb
           /\ hnd'.cb \in {hnd.cb, None} \/ ~cb[hnd'.cb].dead
<1> DEFINE P == /\ hnd.do = "chosen" /\ hnd'.do = "callback" => hnd'.cb = hnd.cb
                /\ hnd'.cb \in {hnd.cb, None} \/ ~cb[hnd'.cb].dead
<1> USE DEF TypeOK
<1>1. ASSUME hnd' = hnd PROVE P
      BY <1>1
<1>2. CASE TakeEvents \/ FreeMarked \/ MatchBegin \/ MatchEnds \/ HandlerWaits
  <2>1. CASE HandlerWaits
        BY <2>1 DEF HandlerWaits, Waiting
  <2>2. CASE TakeEvents \/ FreeMarked \/ MatchBegin \/ MatchEnds
    <3>1. hnd.do # "chosen" /\ hnd'.cb = hnd.cb
          BY <2>2 DEF TakeEvents, FreeMarked, MatchBegin, MatchEnds, EventHandler
    <3> QED BY <3>1
  <2> QED BY <1>2, <2>1, <2>2
<1>3. CASE MatchNext
  <2>1. PICK c \in hnd.todo :
              \/ ~cb[c].dead /\ hnd' = [hnd EXCEPT !.do = "chosen", !.todo = @ \ {c}, !.cb = c]
              \/ hnd' = [hnd EXCEPT !.todo = @ \ {c}]
        BY <1>3 DEF MatchNext, Armed
  <2>2. hnd.do = "match" /\ (hnd'.cb = hnd.cb \/ (hnd'.cb = c /\ ~cb[c].dead))
        BY <1>3, <2>1 DEF MatchNext, EventHandler
  <2> QED BY <2>2
<1>4. CASE MatchCalls
  <2>1. hnd'.cb = hnd.cb \/ (hnd'.cb = None /\ hnd'.do = "match")
        BY <1>4 DEF MatchCalls, EventHandler
  <2> QED BY <2>1
<1>5. ASSUME NEW r, CallbackReturns(r) PROVE P
  <2>1. hnd'.cb = None /\ hnd.do = "callback"
        BY <1>5 DEF CallbackReturns, EventHandler
  <2> QED BY <2>1
<1>6. CASE Handler
      BY <1>2, <1>3, <1>4, <1>5, <1>6 DEF Handler
<1>7. ASSUME \/ \E d \in Device : Arrive(d) \/ Leave(d)
             \/ \E c \in Cb, events \in SUBSET Events, f \in Filter, e \in BOOLEAN :
                   Register(c, events, f, e)
             \/ \E c \in Cb : Deregister(c)
             \/ PostDeregistration \/ UNCHANGED vars
      PROVE  P
      BY <1>1, <1>7 DEF Arrive, Leave, Register, Deregister, PostDeregistration, vars
<1>8. CASE Registering
      BY <1>1, <1>8 DEF Registering, RegisterLists, RegisterCalls, RegisterCallReturns,
                        RegisterReturns, RegisterFails
<1> HIDE DEF TypeOK
<1> QED BY <1>6, <1>7, <1>8 DEF Next

\* The handler calls a callback at most once for an event and never for the
\* arrival of a device after its departure, although usbi_hotplug_match drops the
\* lock around callbacks; a callback that is marked gets the call it was chosen
\* for, and is chosen for no other (hotplug.c:191-203).
THEOREM CalledOnceInOrder == Spec => OnceInOrder
<1> DEFINE Once == hnd.do = "chosen" /\ hnd'.do = "callback" =>
                      LET m == Head(hnd.msgs)
                          c == hnd'.cb
                      IN /\ c \in cbs /\ m \notin told[c]
                         /\ m.event = "arrived" => [event |-> "left", d |-> m.d] \notin told[c]
           Latest == \A c \in cbs : cb[c].dead /\ hnd.cb # c => hnd'.cb # c
<1>1. IInv /\ [Next]_vars => Once
  <2> SUFFICES ASSUME IInv, [Next]_vars, hnd.do = "chosen", hnd'.do = "callback"
               PROVE  Once
      OBVIOUS
  <2> USE DEF IInv
  <2> DEFINE m == Head(hnd.msgs)
  <2>1. m = Queue[1] /\ Len(Queue) \in Nat \ {0} /\ m \in Message /\ m.d \in Device
        BY QueueType, HandlerType DEF ControlInv, Message
  <2>2. hnd'.cb = hnd.cb
        BY HandlerKeeps
  <2>3. hnd.cb \in Cb /\ hnd.cb \in cbs /\ hnd.cb \in Ahead
        BY DEF TypeOK, ControlInv, Ahead
  <2>4. m \notin told[hnd.cb] /\ (m.event = "arrived" => LeftMsg(m.d) \notin told[hnd.cb])
        BY <2>1, <2>3 DEF ToldInv
  <2> QED BY <2>2, <2>3, <2>4 DEF LeftMsg
<1>2. IInv /\ [Next]_vars => Latest
  <2> SUFFICES ASSUME IInv, [Next]_vars, NEW c \in cbs, cb[c].dead, hnd.cb # c
               PROVE  hnd'.cb # c
      OBVIOUS
  <2>1. c \in Cb
        BY DEF IInv, TypeOK
  <2> QED BY <2>1, HandlerKeeps, ConstantsAssumption DEF IInv, ConstantsAssumption
<1> QED BY <1>1, <1>2, Invariance, PTL DEF Spec, OnceInOrder

\* Until the counter of handles wraps, a handle names one callback.
THEOREM HandlesUniqueUntilWrap == Spec => [](regs <= MaxHandle => HandlesUnique)
<1>1. IInv => (regs <= MaxHandle => HandlesUnique)
      BY DEF IInv, HandleInv, HandlesUnique
<1> QED BY <1>1, Invariance, PTL

\* The callback whose registration is under way is not freed.
LEMMA RegPreserved ==
    ASSUME ConstantsAssumption, ~DoneEarly, IInv, RegInv, [Next]_vars
    PROVE  RegInv'
<1> USE HandlerType, NoRegType DEF IInv, RegInv
<1>1. ASSUME NEW d \in Device, Arrive(d) \/ Leave(d) PROVE RegInv'
      BY <1>1 DEF Arrive, Leave
<1>2. ASSUME NEW c \in Cb, NEW events \in SUBSET Events, NEW f \in Filter,
             NEW e \in BOOLEAN, Register(c, events, f, e)
      PROVE  RegInv'
      BY <1>2 DEF Register, TypeOK
<1>3. ASSUME NEW c \in Cb, Deregister(c) PROVE RegInv'
  <2>1. /\ c \in cbs /\ (reg # NoReg => reg.c # c) /\ reg' = reg /\ regs' = regs
        /\ cbs' = cbs
        /\ cb' = [k \in Cb |-> IF k \in cbs /\ cb[k].handle = cb[c].handle
                               THEN [cb[k] EXCEPT !.dead = TRUE] ELSE cb[k]]
        BY <1>3 DEF Deregister, Mark
  <2>2. ASSUME regs <= MaxHandle, reg # NoReg
        PROVE  reg.c \in cbs /\ cb'[reg.c] = cb[reg.c]
    <3>1. reg.c \in cbs /\ cb[reg.c].handle # cb[c].handle
          BY <2>1, <2>2 DEF HandleInv
    <3> QED BY <2>1, <3>1 DEF TypeOK
  <2> QED BY <2>1, <2>2
<1>4. CASE RegisterLists \/ RegisterCalls \/ RegisterCallReturns
  <2>1. reg \in Registration /\ reg # NoReg
        BY <1>4 DEF RegisterLists, RegisterCalls, RegisterCallReturns
  <2>2. reg'.c = reg.c /\ cbs' = cbs /\ cb' = cb /\ regs' = regs
        BY <1>4, <2>1 DEF RegisterLists, RegisterCalls, RegisterCallReturns, Registration
  <2> QED BY <2>1, <2>2
<1>5. CASE RegisterReturns \/ RegisterFails
      BY <1>5 DEF RegisterReturns, RegisterFails
<1>6. CASE TakeEvents \/ MatchBegin \/ MatchNext \/ MatchCalls \/ MatchEnds
              \/ HandlerWaits \/ PostDeregistration
  <2>1. reg' = reg /\ regs' = regs /\ cbs' = cbs /\ cb' = cb
        BY <1>6 DEF TakeEvents, MatchBegin, MatchNext, MatchCalls, MatchEnds,
                    HandlerWaits, PostDeregistration
  <2> QED BY <2>1, SMTT(30)
<1>7. CASE FreeMarked
      BY <1>7 DEF FreeMarked, Free, TypeOK
<1>8. ASSUME NEW r, CallbackReturns(r) PROVE RegInv'
  <2>1. r = 1 /\ reg # NoReg => reg.c # hnd.cb
        BY <1>8 DEF CallbackReturns
  <2>2. /\ reg' = reg /\ regs' = regs
        /\ cbs' = cbs \ (IF r = 1 THEN {hnd.cb} ELSE {})
        /\ \A k \in Cb : k \notin (IF r = 1 THEN {hnd.cb} ELSE {}) => cb'[k] = cb[k]
        BY <1>8 DEF CallbackReturns, Free
  <2> QED BY <2>1, <2>2 DEF TypeOK
<1>9. CASE UNCHANGED vars
      BY <1>9 DEF vars
<1>10. CASE Registering
      BY <1>4, <1>5, <1>10 DEF Registering
<1>11. CASE Handler
      BY <1>6, <1>7, <1>8, <1>11 DEF Handler
<1> HIDE HandlerType, NoRegType DEF IInv, RegInv
<1> QED BY <1>1, <1>2, <1>3, <1>6, <1>9, <1>10, <1>11 DEF Next

\* Until the counter of handles wraps, and unless a callback ends itself while
\* libusb_hotplug_register_callback is calling it, nothing that was freed is
\* used: callbacks, what the loop over them holds, and devices.
THEOREM NothingFreedIsUsed ==
    ~DoneEarly => (Spec => [](regs <= MaxHandle => NoUseAfterFree))
<1> SUFFICES ASSUME ~DoneEarly PROVE Spec => [](regs <= MaxHandle => NoUseAfterFree)
    OBVIOUS
<1>1. Init => RegInv
      BY DEF Init, RegInv
<1>2. IInv /\ RegInv /\ [Next]_vars => RegInv'
      BY RegPreserved, ConstantsAssumption
<1>3. IInv /\ RegInv => (regs <= MaxHandle => NoUseAfterFree)
  <2> SUFFICES ASSUME IInv, RegInv, regs <= MaxHandle PROVE NoUseAfterFree
      OBVIOUS
  <2> USE DEF IInv
  <2>1. hnd.do \in {"chosen", "callback"} => hnd.cb \in cbs
        BY DEF ControlInv
  <2>2. ASSUME hnd.do \in InMatch
        PROVE  hnd.todo \subseteq cbs /\ refs[Head(hnd.msgs).d] > 0
    <3> DEFINE m == Head(hnd.msgs)
    <3>1. /\ m = Queue[1] /\ m \in Message /\ m.d \in Device /\ hnd.todo \subseteq cbs
          /\ Len(Queue) \in Nat \ {0}
          BY <2>2, QueueType, HandlerType DEF ControlInv, Message
    <3>2. m.d \in attached \/ m.d \in Going
          BY <3>1 DEF QueueInv, Going
    <3>3. refs[m.d] = Among(m.d, attached) + Among(m.d, Going) + Among(m.d, Handed)
          BY <3>1 DEF RefsInv
    <3> HIDE DEF m
    <3>4. refs[m.d] > 0
          BY <3>2, <3>3 DEF Among
    <3> QED BY <3>1, <3>4 DEF m
  <2>3. ASSUME reg # NoReg
        PROVE  reg.c \in cbs /\ \A d \in reg.devs : refs[d] > 0
    <3>1. reg.devs \subseteq Device /\ Handed = reg.devs
          BY <2>3, HandlerType DEF Registration, Handed
    <3>2. ASSUME NEW d \in reg.devs PROVE refs[d] > 0
          BY <3>1 DEF RefsInv, Among
    <3> QED BY <2>3, <3>2 DEF RegInv
  <2> QED BY <2>1, <2>2, <2>3 DEF NoUseAfterFree
<1> QED BY <1>1, <1>2, <1>3, Invariance, PTL DEF Spec

----------------------------------------------------------------------------
(* The device lists. First their inductive invariant.                      *)

\* The states of a structure, of a listing, and of what a thread is to drop.
Sessions == Node \cup Nat \cup {NoNode}
DevRec == [node : Node \cup {NoNode}, id : Nat, session : Sessions, refs : Nat,
           parent : 0..MaxSlots, paths : SUBSET Node, rootHub : BOOLEAN, ready : BOOLEAN]
JobRec == [pc : {"idle", "item", "ancestor", "owner", "rootHub", "find", "make", "setup",
                 "append", "failed"},
           pass : {NoNode, "hub", "dev", "hcd", "gen", "ext", "all"},
           snap : [Physical -> Nat] \cup {<<>>}, todo : SUBSET Node,
           node : Node \cup {NoNode}, dev : 0..MaxSlots, par : 0..MaxSlots]
Chore == [do : {"unref", "remove"}, s : Slot]

EnumTypes ==
    /\ system \in Systems /\ bus \in [Physical -> Nat] /\ changes \in Nat
    /\ dev \in [Slot -> DevRec]
    /\ known \in Seq(Slot) /\ hashed \in Seq(Nat)
    /\ job \in [Thread -> JobRec]
    /\ found \in [Thread -> Seq(Slot)] /\ unrefs \in [Thread -> Seq(Slot)]
    /\ list \in [Thread -> Seq(Slot)] /\ work \in [Thread -> Seq(Chore)]

Win == system = "winusb"

\* At which step of which pass a thread may be, and with which device: one that it
\* has a reference of.
JobAt(t) ==
    /\ job[t].pc = "idle" => job[t] = NoJob /\ found[t] = <<>> /\ unrefs[t] = <<>>
    /\ job[t].pc # "idle" => list[t] = <<>> /\ job[t].snap \in [Physical -> Nat]
    /\ job[t].pc \notin {"idle", "item", "failed"} => job[t].node \in Node
    /\ job[t].pc \in {"ancestor", "owner", "rootHub"} => Win
    /\ job[t].pc # "idle" => (Win <=> job[t].pass # "all") /\ job[t].pass # NoNode
    /\ ~Win /\ job[t].dev # 0 => job[t].pc \in {"setup", "append"}
    /\ job[t].pc \in {"setup", "append"} =>
          job[t].dev \in Slot /\ (Win => Count(unrefs[t], job[t].dev) > 0)
JobInv == \A t \in Thread : JobAt(t)

\* WinUSB may leave a reference of a hub behind.
HubAt(s) == Win /\ dev[s].node \in Hubs
HubInv ==
    /\ \A t \in Thread : job[t].par # 0 => HubAt(job[t].par)
    /\ \A c \in Slot : dev[c].parent # 0 /\ dev[c].refs > 0 => HubAt(dev[c].parent)

Balanced(s) == IF HubAt(s) THEN dev[s].refs >= Holders(s) ELSE dev[s].refs = Holders(s)
BalanceInv == \A s \in Slot : Balanced(s)

\* A structure without references is about to be destroyed, once, and no other is.
Doomed(s) == Live(s) /\ dev[s].refs = 0
Removals(s) == Total([t \in Thread |-> Count(work[t], Removal(s))])
DoomInv == \A s \in Slot : Removals(s) = IF Doomed(s) THEN 1 ELSE 0

LiveInv == \A s \in Slot : Live(s) => dev[s].node \in Node

\* The list of known devices has structures that are there, each once.
KnownInv ==
    /\ \A k \in 1..Len(known) : Live(known[k])
    /\ \A k, l \in 1..Len(known) : known[k] = known[l] => k = l

EnumInv ==
    EnumTypes /\ JobInv /\ HubInv /\ BalanceInv /\ DoomInv /\ LiveInv /\ KnownInv

----------------------------------------------------------------------------
(* The device tree.                                                        *)

LEMMA TreeIs ==
    ASSUME EnumAssumption
    PROVE  /\ \A n \in Node : Kind[n] \in {"hub", "device", "interface"}
           /\ \A n \in Node : Above[n] \in Seq(Node)
           /\ \A n \in Node : \A k \in 1..Len(Above[n]) :
                 Kind[Above[n][k]] = IF k = 1 /\ Kind[n] = "interface" THEN "device" ELSE "hub"
           /\ \A n \in Node : IF Above[n] = <<>> THEN Kind[n] = "hub" /\ Parent[n] = "hcd"
                              ELSE Len(Above[n]) >= 1 /\ Parent[n] = Above[n][1]
           /\ \A n \in Node : Kind[n] = "interface" =>
                 Parent[n] \in Physical /\ Kind[Parent[n]] = "device"
           /\ \A n \in Node : Kind[n] = "device" => Parent[n] \in Hubs
<1>1. DeviceTree
      BY DEF EnumAssumption
<1>2. /\ \A n \in Node : Kind[n] \in {"hub", "device", "interface"}
      /\ \A n \in Node : Above[n] \in Seq(Node)
      /\ \A n \in Node : Above[n] = <<>> => Kind[n] = "hub"
      BY <1>1 DEF DeviceTree
<1>3. \A n \in Node : \A k \in 1..Len(Above[n]) :
          Kind[Above[n][k]] = IF k = 1 /\ Kind[n] = "interface" THEN "device" ELSE "hub"
      BY <1>1, <1>2 DEF DeviceTree
<1>4. ASSUME NEW n \in Node
      PROVE  IF Above[n] = <<>> THEN Parent[n] = "hcd"
             ELSE Len(Above[n]) >= 1 /\ Parent[n] = Above[n][1] /\ Above[n][1] \in Node
      BY <1>2 DEF Parent
<1>5. \A n \in Node : Above[n] # <<>> =>
          /\ Parent[n] \in Node
          /\ Kind[Parent[n]] = IF Kind[n] = "interface" THEN "device" ELSE "hub"
      BY <1>2, <1>3, <1>4
<1>6. \A n \in Node : Kind[n] = "interface" =>
          Parent[n] \in Physical /\ Kind[Parent[n]] = "device"
      BY <1>2, <1>5 DEF Physical
<1>7. \A n \in Node : Kind[n] = "device" => Parent[n] \in Hubs
      BY <1>2, <1>5 DEF Hubs
<1> QED BY <1>2, <1>3, <1>4, <1>6, <1>7

----------------------------------------------------------------------------
(* Counting.                                                               *)

\* What is counted in a sequence is finite, and none when it is not there
LEMMA CountType ==
    ASSUME NEW T, NEW q \in Seq(T), NEW x
    PROVE  /\ IsFiniteSet({k \in DOMAIN q : q[k] = x})
           /\ Count(q, x) \in Nat
           /\ Count(q, x) > 0 <=> \E k \in 1..Len(q) : q[k] = x
<1> DEFINE A == {k \in DOMAIN q : q[k] = x}
<1>1. DOMAIN q = 1..Len(q) /\ Len(q) \in Nat
      OBVIOUS
<1>2. IsFiniteSet(A)
  <2>1. IsFiniteSet(1..Len(q))
        BY <1>1, FS_Interval
  <2> QED BY <1>1, <2>1, FS_Subset
<1>3. Cardinality(A) \in Nat /\ (Cardinality(A) = 0 <=> A = {})
      BY <1>2, FS_CardinalityType, FS_EmptySet
<1> QED BY <1>1, <1>2, <1>3 DEF Count

LEMMA CountPositive ==
    ASSUME NEW T, NEW q \in Seq(T), NEW x, Count(q, x) > 0
    PROVE  \E k \in 1..Len(q) : q[k] = x
<1>1. Count(q, x) > 0 <=> \E k \in 1..Len(q) : q[k] = x
      BY CountType, Zenon
<1> QED BY <1>1

LEMMA CountOfNone == \A x : Count(<<>>, x) = 0
<1> SUFFICES ASSUME NEW x PROVE Count(<<>>, x) = 0
    OBVIOUS
<1>1. {k \in DOMAIN <<>> : <<>>[k] = x} = {}
      OBVIOUS
<1> QED BY <1>1, FS_EmptySet DEF Count

LEMMA CountOfOne ==
    ASSUME NEW x, NEW y
    PROVE  Count(<<y>>, x) = IF y = x THEN 1 ELSE 0
<1>1. {k \in DOMAIN <<y>> : <<y>>[k] = x} = IF y = x THEN {1} ELSE {}
      OBVIOUS
<1> QED BY <1>1, FS_EmptySet, FS_Singleton DEF Count

LEMMA CountConcat ==
    ASSUME NEW T, NEW q \in Seq(T), NEW r \in Seq(T), NEW x
    PROVE  Count(q \o r, x) = Count(q, x) + Count(r, x)
<1> DEFINE A == {k \in DOMAIN q : q[k] = x}
           B == {k \in DOMAIN r : r[k] = x}
           C == {k \in Len(q) + 1 .. Len(q) + Len(r) : r[k - Len(q)] = x}
           f == [k \in B |-> k + Len(q)]
<1>1. /\ DOMAIN q = 1..Len(q) /\ Len(q) \in Nat /\ DOMAIN r = 1..Len(r) /\ Len(r) \in Nat
      /\ q \o r \in Seq(T) /\ Len(q \o r) = Len(q) + Len(r)
      /\ \A k \in 1..Len(q) + Len(r) :
            (q \o r)[k] = IF k <= Len(q) THEN q[k] ELSE r[k - Len(q)]
      BY ConcatProperties
<1>2. {k \in DOMAIN (q \o r) : (q \o r)[k] = x} = A \cup C
      BY <1>1
<1>3. A \cap C = {}
      BY <1>1
<1>4. IsFiniteSet(A) /\ IsFiniteSet(B)
      BY CountType
<1>5. f \in Bijection(B, C)
  <2>1. f \in [B -> C]
        BY <1>1
  <2>2. \A a, b \in B : f[a] = f[b] => a = b
        BY <1>1
  <2>3. \A c \in C : \E b \in B : f[b] = c
    <3> SUFFICES ASSUME NEW c \in C PROVE c - Len(q) \in B /\ f[c - Len(q)] = c
        OBVIOUS
    <3> QED BY <1>1
  <2> QED BY <2>1, <2>2, <2>3 DEF Bijection, Injection, Surjection, IsInjective
<1>6. IsFiniteSet(C) /\ Cardinality(C) = Cardinality(B)
      BY <1>4, <1>5, FS_Bijection DEF ExistsBijection
<1>7. Cardinality(A \cup C) = Cardinality(A) + Cardinality(C) - Cardinality(A \cap C)
      BY <1>4, <1>6, FS_Union
<1>8. Cardinality(A) \in Nat /\ Cardinality(C) \in Nat
      BY <1>4, <1>6, FS_CardinalityType
<1>9. Cardinality(A \cap C) = 0
      BY <1>3, FS_EmptySet
<1>10. Count(q, x) = Cardinality(A) /\ Count(r, x) = Cardinality(B)
       BY DEF Count
<1>11. Count(q \o r, x) = Cardinality(A \cup C)
       BY <1>2 DEF Count
<1> HIDE DEF A, B, C
<1> QED BY <1>6, <1>7, <1>8, <1>9, <1>10, <1>11

LEMMA CountAppend ==
    ASSUME NEW T, NEW q \in Seq(T), NEW y \in T, NEW x
    PROVE  Count(Append(q, y), x) = Count(q, x) + IF y = x THEN 1 ELSE 0
<1>1. Append(q, y) = q \o <<y>> /\ <<y>> \in Seq(T)
      OBVIOUS
<1>2. Count(q \o <<y>>, x) = Count(q, x) + Count(<<y>>, x)
      BY <1>1, CountConcat
<1>3. Count(q, x) \in Nat
      BY CountType
<1> QED BY <1>1, <1>2, <1>3, CountOfOne

LEMMA CountTail ==
    ASSUME NEW T, NEW q \in Seq(T), q # <<>>, NEW x
    PROVE  /\ Head(q) \in T /\ Tail(q) \in Seq(T)
           /\ Count(q, x) = Count(Tail(q), x) + IF Head(q) = x THEN 1 ELSE 0
<1>1. q = <<Head(q)>> \o Tail(q) /\ Head(q) \in T /\ Tail(q) \in Seq(T)
      OBVIOUS
<1>2. <<Head(q)>> \in Seq(T)
      BY <1>1
<1>3. Count(q, x) = Count(<<Head(q)>>, x) + Count(Tail(q), x)
  <2>1. PICK h \in Seq(T), r \in Seq(T) : h = <<Head(q)>> /\ r = Tail(q)
        BY <1>1, <1>2
  <2>2. Count(h \o r, x) = Count(h, x) + Count(r, x)
        BY CountConcat
  <2> QED BY <1>1, <2>1, <2>2
<1>4. Count(Tail(q), x) \in Nat
      BY <1>1, CountType
<1>5. Count(<<Head(q)>>, x) = IF Head(q) = x THEN 1 ELSE 0
      BY CountOfOne
<1> QED BY <1>1, <1>3, <1>4, <1>5

LEMMA ChoreTypes ==
    ASSUME NEW s \in Slot
    PROVE  /\ Unref(s) \in Chore /\ Removal(s) \in Chore
           /\ \A r : Unref(s) # Removal(r)
           /\ \A r : Unref(r) = Unref(s) <=> r = s
           /\ \A r : Removal(r) = Removal(s) <=> r = s
BY DEF Unref, Removal, Chore

\* The references of a list are dropped one by one
LEMMA CountOfUnrefs ==
    ASSUME NEW q \in Seq(Slot), NEW s \in Slot
    PROVE  /\ UnrefAll(q) \in Seq(Chore)
           /\ Count(UnrefAll(q), Unref(s)) = Count(q, s)
           /\ Count(UnrefAll(q), Removal(s)) = 0
           /\ UnrefAll(<<>>) = <<>>
<1>1. /\ DOMAIN q = 1..Len(q) /\ Len(q) \in Nat
      /\ \A k \in 1..Len(q) : q[k] \in Slot
      OBVIOUS
<1>2. /\ \A k \in 1..Len(q) : Unref(q[k]) \in Chore
      /\ \A k \in 1..Len(q) : Unref(q[k]) = Unref(s) <=> q[k] = s
      /\ \A k \in 1..Len(q) : Unref(q[k]) # Removal(s)
      BY <1>1, ChoreTypes
<1>3. UnrefAll(q) = [k \in 1..Len(q) |-> Unref(q[k])]
      BY <1>1 DEF UnrefAll
<1>4. DOMAIN UnrefAll(q) = 1..Len(q)
      BY <1>3
<1>5. \A k \in 1..Len(q) : UnrefAll(q)[k] = Unref(q[k])
      BY <1>3
<1>6. {k \in DOMAIN UnrefAll(q) : UnrefAll(q)[k] = Unref(s)} = {k \in DOMAIN q : q[k] = s}
      BY <1>1, <1>2, <1>4, <1>5
<1>7. {k \in DOMAIN UnrefAll(q) : UnrefAll(q)[k] = Removal(s)} = {}
      BY <1>2, <1>4, <1>5
<1>8. UnrefAll(q) \in [1..Len(q) -> Chore]
      BY <1>2, <1>3
<1>9. UnrefAll(q) \in Seq(Chore)
      BY <1>1, <1>8
<1>10. UnrefAll(<<>>) = <<>>
      BY DEF UnrefAll
<1> QED BY <1>6, <1>7, <1>9, <1>10, FS_EmptySet DEF Count

\* The first of some places
LEMMA MinOfPlaces ==
    ASSUME NEW S \in SUBSET Nat, S # {}
    PROVE  Min(S) \in S /\ \A k \in S : Min(S) <= k
<1> DEFINE R == {ss \in Nat \X Nat : ss[1] < ss[2]}
<1>1. IsWellFoundedOn(R, Nat)
      BY NatLessThanWellFounded DEF OpToRel
<1>2. PICK k \in S : \A j \in S : <<j, k>> \notin R
  <2> HIDE DEF R
  <2> QED BY <1>1, WFMin
<1>3. \A j \in S : k <= j
  <2> SUFFICES ASSUME NEW j \in S PROVE k <= j
      OBVIOUS
  <2>1. k \in Nat /\ j \in Nat /\ <<j, k>> \notin R
        BY <1>2
  <2> QED BY <2>1
<1> QED BY <1>3 DEF Min

\* The sum over the threads when one of them changes
LEMMA TotalStep ==
    ASSUME EnumAssumption, NEW t \in Thread, NEW h \in [Thread -> Nat], NEW g \in [Thread -> Nat],
           \A u \in Thread \ {t} : g[u] = h[u]
    PROVE  /\ Total(h) \in Nat /\ Total(g) \in Nat
           /\ Total(g) + h[t] = Total(h) + g[t]
           /\ h[t] <= Total(h)
<1> DEFINE Part(e, u) == {u} \X (1..e[u])
           Others(e) == {Part(e, u) : u \in Thread \ {t}}
<1>1. \A e \in [Thread -> Nat], u \in Thread :
          IsFiniteSet(Part(e, u)) /\ Cardinality(Part(e, u)) = e[u]
  <2> SUFFICES ASSUME NEW e \in [Thread -> Nat], NEW u \in Thread
               PROVE  IsFiniteSet(Part(e, u)) /\ Cardinality(Part(e, u)) = e[u]
      OBVIOUS
  <2>1. IsFiniteSet({u}) /\ Cardinality({u}) = 1
        BY FS_Singleton
  <2>2. IsFiniteSet(1..e[u]) /\ Cardinality(1..e[u]) = e[u]
    <3>1. e[u] \in Nat
          OBVIOUS
    <3>2. PICK n \in Nat : n = e[u]
          BY <3>1
    <3>3. 1 \in Int /\ n \in Int
          OBVIOUS
    <3>4. IsFiniteSet(1..n) /\ Cardinality(1..n) = IF 1 > n THEN 0 ELSE n - 1 + 1
          BY <3>3, FS_Interval
    <3> QED BY <3>2, <3>4
  <2>3. /\ IsFiniteSet({u} \X (1..e[u]))
        /\ Cardinality({u} \X (1..e[u])) = Cardinality({u}) * Cardinality(1..e[u])
        BY <2>1, <2>2, FS_Product
  <2> QED BY <2>1, <2>2, <2>3
<1>2. \A e \in [Thread -> Nat] : IsFiniteSet(UNION Others(e))
  <2> SUFFICES ASSUME NEW e \in [Thread -> Nat] PROVE IsFiniteSet(UNION Others(e))
      OBVIOUS
  <2> DEFINE f == [u \in Thread \ {t} |-> Part(e, u)]
  <2>1. IsFiniteSet(Thread \ {t})
        BY FS_RemoveElement DEF EnumAssumption
  <2>2. f \in Surjection(Thread \ {t}, Others(e))
    <3>1. f \in [Thread \ {t} -> Others(e)]
          OBVIOUS
    <3>2. \A P \in Others(e) : \E u \in Thread \ {t} : f[u] = P
          OBVIOUS
    <3> QED BY <3>1, <3>2 DEF Surjection
  <2>3. IsFiniteSet(Others(e))
        BY <2>1, <2>2, FS_Surjection
  <2>4. \A P \in Others(e) : IsFiniteSet(P)
        BY <1>1
  <2> QED BY <2>3, <2>4, FS_UNION
<1>3. \A e \in [Thread -> Nat] :
          /\ Total(e) = e[t] + Cardinality(UNION Others(e))
          /\ Cardinality(UNION Others(e)) \in Nat
  <2> SUFFICES ASSUME NEW e \in [Thread -> Nat]
               PROVE  /\ Total(e) = e[t] + Cardinality(UNION Others(e))
                      /\ Cardinality(UNION Others(e)) \in Nat
      OBVIOUS
  <2>1. UNION {{u} \X (1..e[u]) : u \in Thread} = Part(e, t) \cup UNION Others(e)
        OBVIOUS
  <2>2. Part(e, t) \cap UNION Others(e) = {}
        OBVIOUS
  <2>3. /\ IsFiniteSet(Part(e, t)) /\ Cardinality(Part(e, t)) = e[t]
        /\ IsFiniteSet(UNION Others(e))
        BY <1>1, <1>2
  <2>4. Cardinality(Part(e, t) \cup UNION Others(e))
        = Cardinality(Part(e, t)) + Cardinality(UNION Others(e))
          - Cardinality(Part(e, t) \cap UNION Others(e))
        BY <2>3, FS_Union
  <2>5. Cardinality(UNION Others(e)) \in Nat /\ Cardinality(Part(e, t) \cap UNION Others(e)) = 0
        BY <2>2, <2>3, FS_CardinalityType, FS_EmptySet
  <2>6. Total(e) = Cardinality(Part(e, t) \cup UNION Others(e))
        BY <2>1 DEF Total
  <2>7. e[t] \in Nat
        OBVIOUS
  <2> HIDE DEF Part, Others
  <2> QED BY <2>3, <2>4, <2>5, <2>6, <2>7
<1>4. Others(g) = Others(h)
  <2>1. \A u \in Thread \ {t} : Part(g, u) = Part(h, u)
        OBVIOUS
  <2> HIDE DEF Part
  <2> QED BY <2>1
<1>5. h[t] \in Nat /\ g[t] \in Nat
      OBVIOUS
<1> HIDE DEF Part, Others
<1>6. /\ Total(h) = h[t] + Cardinality(UNION Others(h)) /\ Cardinality(UNION Others(h)) \in Nat
      /\ Total(g) = g[t] + Cardinality(UNION Others(g))
      BY <1>3
<1> QED BY <1>4, <1>5, <1>6

\* A sum that is positive has a part that is
LEMMA TotalPositive ==
    ASSUME NEW h \in [Thread -> Nat], Total(h) # 0
    PROVE  \E t \in Thread : h[t] > 0
<1> SUFFICES ASSUME \A t \in Thread : h[t] = 0 PROVE FALSE
    OBVIOUS
<1>1. \A t \in Thread : {t} \X (1..h[t]) = {}
      OBVIOUS
<1>2. UNION {{t} \X (1..h[t]) : t \in Thread} = {}
      BY <1>1
<1> QED BY <1>2, FS_EmptySet DEF Total

----------------------------------------------------------------------------
(* The accounts of the references.                                         *)

\* Only this thread takes or drops references.
Alone(t) ==
    /\ system' = system
    /\ \A u \in Thread \ {t} :
          /\ job'[u] = job[u] /\ found'[u] = found[u] /\ unrefs'[u] = unrefs[u]
          /\ list'[u] = list[u] /\ work'[u] = work[u]

LEMMA SlotsFinite == ASSUME EnumAssumption PROVE IsFiniteSet(Slot)
<1>1. MaxSlots \in Int /\ 1 \in Int
      BY DEF EnumAssumption
<1> QED BY <1>1, FS_Interval DEF Slot

LEMMA DevType ==
    ASSUME EnumTypes, NEW s \in Slot
    PROVE  /\ dev[s] \in DevRec /\ dev[s].node \in Node \cup {NoNode} /\ dev[s].id \in Nat
           /\ dev[s].session \in Sessions /\ dev[s].refs \in Nat
           /\ dev[s].parent \in 0..MaxSlots /\ dev[s].paths \subseteq Node
           /\ dev[s].rootHub \in BOOLEAN /\ dev[s].ready \in BOOLEAN
BY DEF EnumTypes, DevRec

LEMMA JobType ==
    ASSUME EnumTypes, NEW t \in Thread
    PROVE  /\ job[t] \in JobRec /\ job[t].todo \subseteq Node
           /\ job[t].node \in Node \cup {NoNode}
           /\ job[t].dev \in 0..MaxSlots /\ job[t].par \in 0..MaxSlots
           /\ job[t].pass \in {NoNode, "hub", "dev", "hcd", "gen", "ext", "all"}
           /\ found[t] \in Seq(Slot) /\ unrefs[t] \in Seq(Slot) /\ list[t] \in Seq(Slot)
           /\ work[t] \in Seq(Chore)
BY DEF EnumTypes, JobRec

LEMMA HeldType ==
    ASSUME EnumAssumption, EnumTypes, NEW t \in Thread, NEW s \in Slot
    PROVE  /\ Count(found[t], s) \in Nat /\ Count(unrefs[t], s) \in Nat
           /\ Count(list[t], s) \in Nat /\ Count(work[t], Unref(s)) \in Nat
           /\ Count(work[t], Removal(s)) \in Nat /\ HeldBy(t, s) \in Nat
<1>1. /\ found[t] \in Seq(Slot) /\ unrefs[t] \in Seq(Slot) /\ list[t] \in Seq(Slot)
      /\ work[t] \in Seq(Chore)
      BY JobType
<1>2. /\ Count(found[t], s) \in Nat /\ Count(unrefs[t], s) \in Nat
      /\ Count(list[t], s) \in Nat /\ Count(work[t], Unref(s)) \in Nat
      /\ Count(work[t], Removal(s)) \in Nat
      BY <1>1, CountType
<1> QED BY <1>2 DEF HeldBy

LEMMA ChildrenType ==
    ASSUME EnumAssumption, NEW s
    PROVE  IsFiniteSet(Children(s)) /\ Cardinality(Children(s)) \in Nat
<1>1. Children(s) \subseteq Slot
      BY DEF Children
<1>2. IsFiniteSet(Children(s))
      BY <1>1, SlotsFinite, FS_Subset
<1> QED BY <1>2, FS_CardinalityType

\* What a thread holds is part of what there is
LEMMA HoldersType ==
    ASSUME EnumAssumption, EnumTypes, NEW s \in Slot
    PROVE  /\ Holders(s) \in Nat /\ Removals(s) \in Nat
           /\ \A t \in Thread : HeldBy(t, s) + Cardinality(Children(s)) <= Holders(s)
           /\ \A t \in Thread : Count(work[t], Removal(s)) <= Removals(s)
           /\ Cardinality(Children(s)) <= Holders(s)
<1> DEFINE h == [t \in Thread |-> HeldBy(t, s)]
           r == [t \in Thread |-> Count(work[t], Removal(s))]
<1>1. h \in [Thread -> Nat] /\ r \in [Thread -> Nat]
      BY HeldType
<1>2. Total(h) \in Nat /\ Total(r) \in Nat
  <2>1. CASE Thread = {}
    <3>1. UNION {{t} \X (1..h[t]) : t \in Thread} = {}
          BY <2>1
    <3>2. UNION {{t} \X (1..r[t]) : t \in Thread} = {}
          BY <2>1
    <3> QED BY <3>1, <3>2, FS_EmptySet DEF Total
  <2>2. CASE Thread # {}
    <3>1. PICK t \in Thread : TRUE
          BY <2>2
    <3> QED BY <1>1, <3>1, TotalStep
  <2> QED BY <2>1, <2>2
<1>3. \A t \in Thread : h[t] <= Total(h) /\ r[t] <= Total(r)
      BY <1>1, TotalStep
<1>4. Cardinality(Children(s)) \in Nat
      BY ChildrenType
<1>5. Holders(s) = Total(h) + Cardinality(Children(s)) /\ Removals(s) = Total(r)
      BY DEF Holders, Removals
<1>6. \A t \in Thread : h[t] = HeldBy(t, s) /\ r[t] = Count(work[t], Removal(s))
      OBVIOUS
<1>7. \A t \in Thread : h[t] \in Nat /\ r[t] \in Nat
      BY <1>1
<1> HIDE DEF h, r
<1> QED BY <1>2, <1>3, <1>4, <1>5, <1>6, <1>7

LEMMA NextTypes ==
    ASSUME EnumAssumption, EnumTypes', NEW t \in Thread, NEW s \in Slot
    PROVE  /\ found'[t] \in Seq(Slot) /\ unrefs'[t] \in Seq(Slot) /\ list'[t] \in Seq(Slot)
           /\ work'[t] \in Seq(Chore) /\ dev'[s] \in DevRec /\ dev'[s].refs \in Nat
           /\ HeldBy(t, s)' \in Nat /\ Cardinality(Children(s)') \in Nat
           /\ Count(work'[t], Removal(s)) \in Nat
<1>1. /\ found'[t] \in Seq(Slot) /\ unrefs'[t] \in Seq(Slot) /\ list'[t] \in Seq(Slot)
      /\ work'[t] \in Seq(Chore) /\ dev'[s] \in DevRec /\ dev'[s].refs \in Nat
      BY DEF EnumTypes, DevRec
<1>2. /\ Count(found'[t], s) \in Nat /\ Count(unrefs'[t], s) \in Nat
      /\ Count(list'[t], s) \in Nat /\ Count(work'[t], Unref(s)) \in Nat
      /\ Count(work'[t], Removal(s)) \in Nat
      BY <1>1, CountType
<1>3. HeldBy(t, s)' \in Nat
      BY <1>2 DEF HeldBy
<1>4. Children(s)' \subseteq Slot
      BY DEF Children
<1>5. IsFiniteSet(Children(s)')
      BY <1>4, SlotsFinite, FS_Subset
<1> QED BY <1>1, <1>2, <1>3, <1>5, FS_CardinalityType

\* How the accounts change with what one thread holds
LEMMA HoldersStep ==
    ASSUME EnumAssumption, EnumTypes, EnumTypes', NEW t \in Thread, Alone(t), NEW s \in Slot
    PROVE  /\ Holders(s)' + HeldBy(t, s) + Cardinality(Children(s))
              = Holders(s) + HeldBy(t, s)' + Cardinality(Children(s)')
           /\ Holders(s)' \in Nat /\ HeldBy(t, s)' \in Nat
           /\ Cardinality(Children(s)') \in Nat
<1> DEFINE h == [u \in Thread |-> HeldBy(u, s)]
           g == [u \in Thread |-> HeldBy(u, s)']
<1>1. h \in [Thread -> Nat]
      BY HeldType
<1>2. \A u \in Thread : HeldBy(u, s)' \in Nat
      BY NextTypes
<1>3. g \in [Thread -> Nat]
      BY <1>2
<1>4. \A u \in Thread \ {t} : g[u] = h[u]
  <2> SUFFICES ASSUME NEW u \in Thread \ {t} PROVE HeldBy(u, s)' = HeldBy(u, s)
      OBVIOUS
  <2> QED BY DEF Alone, HeldBy
<1>5. Total(g) + h[t] = Total(h) + g[t] /\ Total(g) \in Nat /\ Total(h) \in Nat
      BY <1>1, <1>3, <1>4, TotalStep
<1>6. Cardinality(Children(s)') \in Nat /\ Cardinality(Children(s)) \in Nat
      BY ChildrenType, NextTypes
<1>7. Holders(s) = Total(h) + Cardinality(Children(s))
      BY DEF Holders
<1>8. Holders(s)' = Total(g) + Cardinality(Children(s)')
      BY DEF Holders
<1>9. h[t] = HeldBy(t, s) /\ g[t] = HeldBy(t, s)' /\ h[t] \in Nat /\ g[t] \in Nat
      BY <1>1, <1>3
<1> HIDE DEF h, g
<1> QED BY <1>5, <1>6, <1>7, <1>8, <1>9

LEMMA RemovalsStep ==
    ASSUME EnumAssumption, EnumTypes, EnumTypes', NEW t \in Thread, Alone(t), NEW s \in Slot
    PROVE  /\ Removals(s)' + Count(work[t], Removal(s))
              = Removals(s) + Count(work'[t], Removal(s))
           /\ Removals(s)' \in Nat
<1> DEFINE h == [u \in Thread |-> Count(work[u], Removal(s))]
           g == [u \in Thread |-> Count(work'[u], Removal(s))]
<1>1. h \in [Thread -> Nat]
      BY HeldType
<1>2. g \in [Thread -> Nat]
      BY NextTypes
<1>3. \A u \in Thread \ {t} : g[u] = h[u]
      BY DEF Alone
<1>4. Total(g) + h[t] = Total(h) + g[t] /\ Total(g) \in Nat /\ Total(h) \in Nat
      BY <1>1, <1>2, <1>3, TotalStep
<1>5. Removals(s) = Total(h) /\ Removals(s)' = Total(g)
      BY DEF Removals
<1>6. h[t] = Count(work[t], Removal(s)) /\ g[t] = Count(work'[t], Removal(s))
      OBVIOUS
<1> HIDE DEF h, g
<1> QED BY <1>4, <1>5, <1>6

\* The balance is kept when what a thread takes and drops is counted
Settled(t, s) ==
    /\ HubAt(s)' <=> HubAt(s)
    /\ IF HubAt(s)
       THEN dev'[s].refs + HeldBy(t, s) + Cardinality(Children(s))
            >= dev[s].refs + HeldBy(t, s)' + Cardinality(Children(s)')
       ELSE dev'[s].refs + HeldBy(t, s) + Cardinality(Children(s))
            = dev[s].refs + HeldBy(t, s)' + Cardinality(Children(s)')

LEMMA BalanceStep ==
    ASSUME EnumAssumption, EnumTypes, EnumTypes', NEW t \in Thread, Alone(t), NEW s \in Slot,
           Balanced(s), Settled(t, s)
    PROVE  Balanced(s)'
<1>1. /\ Holders(s)' + HeldBy(t, s) + Cardinality(Children(s))
         = Holders(s) + HeldBy(t, s)' + Cardinality(Children(s)')
      /\ Holders(s)' \in Nat /\ HeldBy(t, s)' \in Nat
      /\ Cardinality(Children(s)') \in Nat
      BY HoldersStep
<1>2. /\ Holders(s) \in Nat /\ HeldBy(t, s) \in Nat /\ Cardinality(Children(s)) \in Nat
      /\ dev[s].refs \in Nat /\ dev'[s].refs \in Nat
      BY HoldersType, HeldType, ChildrenType, DevType, NextTypes
<1>3. CASE HubAt(s)
  <2>1. /\ HubAt(s)' /\ dev[s].refs >= Holders(s)
        /\ dev'[s].refs + HeldBy(t, s) + Cardinality(Children(s))
            >= dev[s].refs + HeldBy(t, s)' + Cardinality(Children(s)')
        BY <1>3 DEF Settled, Balanced
  <2>2. dev'[s].refs >= Holders(s)'
        BY <1>1, <1>2, <2>1
  <2> QED BY <2>1, <2>2 DEF Balanced
<1>4. CASE ~HubAt(s)
  <2>1. /\ ~HubAt(s)' /\ dev[s].refs = Holders(s)
        /\ dev'[s].refs + HeldBy(t, s) + Cardinality(Children(s))
            = dev[s].refs + HeldBy(t, s)' + Cardinality(Children(s)')
        BY <1>4 DEF Settled, Balanced
  <2>2. dev'[s].refs = Holders(s)'
        BY <1>1, <1>2, <2>1
  <2> QED BY <2>1, <2>2 DEF Balanced
<1> QED BY <1>3, <1>4

\* What somebody refers to is there
LEMMA HeldIsCounted ==
    ASSUME EnumAssumption, EnumTypes, BalanceInv, NEW s \in Slot,
           NEW t \in Thread, HeldBy(t, s) > 0 \/ Children(s) # {}
    PROVE  dev[s].refs > 0 /\ Live(s)
<1>1. /\ Holders(s) \in Nat /\ HeldBy(t, s) \in Nat /\ Cardinality(Children(s)) \in Nat
      /\ HeldBy(t, s) + Cardinality(Children(s)) <= Holders(s) /\ dev[s].refs \in Nat
      BY HoldersType, HeldType, ChildrenType, DevType
<1>2. Children(s) # {} => Cardinality(Children(s)) # 0
      BY ChildrenType, FS_EmptySet
<1>3. dev[s].refs >= Holders(s)
      BY <1>1 DEF BalanceInv, Balanced
<1>4. dev[s].refs > 0
      BY <1>1, <1>2, <1>3
<1> QED BY <1>4 DEF Live, NoDev

\* Where a device is that its thread holds
LEMMA Held ==
    ASSUME EnumAssumption, EnumTypes, NEW t \in Thread, NEW s \in Slot,
           \/ Count(found[t], s) > 0 \/ Count(unrefs[t], s) > 0 \/ Count(list[t], s) > 0
           \/ Count(work[t], Unref(s)) > 0 \/ job[t].par = s
           \/ job[t].dev = s /\ ~Win
    PROVE  HeldBy(t, s) > 0
BY HeldType DEF HeldBy, Win

LEMMA ChildrenSame ==
    ASSUME NEW s,
           \A c \in Slot : dev'[c].parent = dev[c].parent
                          /\ (dev'[c].refs > 0 <=> dev[c].refs > 0)
    PROVE  Children(s)' = Children(s)
<1>1. ASSUME NEW c \in Slot
      PROVE  (dev'[c].parent = s /\ dev'[c].refs > 0)
             <=> (dev[c].parent = s /\ dev[c].refs > 0)
  <2>1. dev'[c].parent = dev[c].parent /\ (dev'[c].refs > 0 <=> dev[c].refs > 0)
        OBVIOUS
  <2> QED BY <2>1
<1> QED BY <1>1 DEF Children

\* What is looked up is there, and does not go before it is referenced
LEMMA FoundIs ==
    ASSUME EnumAssumption, EnumInv, "dying" \notin Faults, MayLookUp, NEW x, Found(x) # 0
    PROVE  /\ Found(x) \in Slot /\ Live(Found(x)) /\ dev[Found(x)].refs > 0
           /\ dev[Found(x)].node \in Node /\ dev[Found(x)].session = x
           /\ Contains(known, Found(x))
<1> DEFINE S == {k \in 1..Len(known) : dev[known[k]].session = x}
<1>1. FoundAt(x) = IF S # {} THEN Min(S) ELSE 0
      BY DEF FoundAt, SelectInSeq
<1>2. FoundAt(x) # 0 /\ Found(x) = known[FoundAt(x)]
      BY DEF Found
<1>3. S \subseteq Nat /\ known \in Seq(Slot)
      BY DEF EnumInv, EnumTypes
<1>4. FoundAt(x) \in S
  <2>1. S # {} /\ FoundAt(x) = Min(S)
        BY <1>1, <1>2
  <2> HIDE DEF S
  <2> QED BY <1>3, <2>1, MinOfPlaces
<1>5. PICK s \in Slot : s = Found(x) /\ dev[s].session = x /\ Contains(known, s) /\ Live(s)
  <2>1. FoundAt(x) \in 1..Len(known) /\ dev[known[FoundAt(x)]].session = x
        BY <1>4
  <2>2. Live(known[FoundAt(x)])
        BY <2>1 DEF EnumInv, KnownInv
  <2>3. Contains(known, known[FoundAt(x)])
        BY <2>1 DEF Contains
  <2> QED BY <1>2, <1>3, <2>1, <2>2, <2>3
<1>6. dev[s].refs > 0
  <2> SUFFICES ASSUME dev[s].refs = 0 PROVE FALSE
      BY DevType DEF EnumInv
  <2> DEFINE r == [t \in Thread |-> Count(work[t], Removal(s))]
  <2>1. r \in [Thread -> Nat]
        BY HeldType DEF EnumInv
  <2>2. Total(r) = 1
        BY <1>5 DEF EnumInv, DoomInv, Doomed, Removals
  <2>3. PICK t \in Thread : r[t] > 0
        BY <2>1, <2>2, TotalPositive
  <2>4. work[t] \in Seq(Chore) /\ Count(work[t], Removal(s)) > 0
        BY <2>3, JobType DEF EnumInv
  <2>5. \E k \in 1..Len(work[t]) : work[t][k] = Removal(s)
    <3>1. PICK q \in Seq(Chore) : q = work[t]
          BY <2>4
    <3>2. PICK y : y = Removal(s)
          OBVIOUS
    <3>3. Count(q, y) > 0
          BY <2>4, <3>1, <3>2
    <3>4. \E k \in 1..Len(q) : q[k] = y
          BY <3>3, CountPositive
    <3> QED BY <3>1, <3>2, <3>4
  <2>6. PICK k \in 1..Len(work[t]) : work[t][k] = Removal(s)
        BY <2>5
  <2>7. k \in DOMAIN work[t] /\ work[t][k].do = "remove"
        BY <2>4, <2>6 DEF Removal
  <2> QED BY <2>7 DEF MayLookUp
<1> QED BY <1>5, <1>6 DEF EnumInv, LiveInv

----------------------------------------------------------------------------
(* Steps that keep the structures: a reference more of one of them at most. *)

LEMMA JobsStep ==
    ASSUME JobInv, NEW t \in Thread, Alone(t), JobAt(t)'
    PROVE  JobInv'
<1> SUFFICES ASSUME NEW u \in Thread, u # t PROVE JobAt(u)'
    BY DEF JobInv
<1>1. /\ job'[u] = job[u] /\ found'[u] = found[u] /\ unrefs'[u] = unrefs[u]
      /\ list'[u] = list[u] /\ (Win' <=> Win)
      BY DEF Alone, Win
<1>2. JobAt(u)
      BY DEF JobInv
<1> QED BY <1>1, <1>2 DEF JobAt

One(b) == IF b THEN 1 ELSE 0

\* The devices are as before, but for a reference more of r, when r is one.
SameDevices(r) ==
    \A s \in Slot :
        /\ dev'[s].node = dev[s].node /\ dev'[s].parent = dev[s].parent
        /\ dev'[s].refs = dev[s].refs + One(s = r)
        /\ Live(s) <=> Live(s)'

\* ... that the thread holds.
Holds(t, r) ==
    \A s \in Slot : IF HubAt(s) THEN HeldBy(t, s)' <= HeldBy(t, s) + One(s = r)
                                ELSE HeldBy(t, s)' = HeldBy(t, s) + One(s = r)

SameRemovals(t) ==
    \A s \in Slot : Count(work'[t], Removal(s)) = Count(work[t], Removal(s))

LEMMA Referenced ==
    ASSUME EnumAssumption, EnumInv, EnumTypes', NEW t \in Thread, Alone(t), JobAt(t)',
           NEW r \in 0..MaxSlots, r # 0 => dev[r].refs > 0,
           SameDevices(r), Holds(t, r), SameRemovals(t),
           job'[t].par # 0 => HubAt(job'[t].par), KnownInv'
    PROVE  EnumInv'
<1> USE DEF EnumInv
<1>1. JobInv'
      BY JobsStep
<1>2. ASSUME NEW s \in Slot
      PROVE  /\ HubAt(s)' <=> HubAt(s)
             /\ dev[s].refs \in Nat /\ (dev'[s].refs > 0 <=> dev[s].refs > 0)
             /\ dev'[s].refs = dev[s].refs + One(s = r)
             /\ dev'[s].parent = dev[s].parent
  <2>1. dev[s].refs \in Nat
        BY DevType
  <2>2. dev'[s].refs > 0 <=> dev[s].refs > 0
    <3>1. CASE s = r
          BY <2>1, <3>1 DEF SameDevices, One, Slot
    <3>2. CASE s # r
          BY <2>1, <3>2 DEF SameDevices, One
    <3> QED BY <3>1, <3>2
  <2> QED BY <2>1, <2>2 DEF SameDevices, HubAt, Win, Alone
<1>3. ASSUME NEW s \in Slot PROVE Children(s)' = Children(s)
      BY <1>2, ChildrenSame
<1>4. HubInv'
  <2>1. ASSUME NEW u \in Thread, job'[u].par # 0 PROVE HubAt(job[u].par)'
    <3>1. HubAt(job'[u].par)
      <4>1. CASE u = t
            BY <2>1, <4>1
      <4>2. CASE u # t
            BY <2>1, <4>2 DEF Alone, HubInv
      <4> QED BY <4>1, <4>2
    <3>2. job'[u].par \in Slot
      <4>1. job'[u].par \in 0..MaxSlots /\ MaxSlots \in Nat
            BY DEF EnumTypes, JobRec, EnumAssumption
      <4> QED BY <2>1, <4>1 DEF Slot
    <3>3. PICK p \in Slot : p = job'[u].par
          BY <3>2
    <3>4. HubAt(p)
          BY <3>1, <3>3
    <3> QED BY <1>2, <3>3, <3>4
  <2>2. ASSUME NEW c \in Slot, dev'[c].parent # 0, dev'[c].refs > 0
        PROVE  HubAt(dev[c].parent)'
    <3>1. HubAt(dev[c].parent) /\ dev[c].parent # 0
          BY <1>2, <2>2 DEF HubInv
    <3>2. dev[c].parent \in Slot
          BY <3>1, DevType DEF Slot
    <3>3. PICK p \in Slot : p = dev[c].parent
          BY <3>2
    <3>4. dev'[c].parent = p /\ HubAt(p)
          BY <1>2, <3>1, <3>3
    <3> QED BY <1>2, <3>4
  <2> QED BY <2>1, <2>2 DEF HubInv
<1>5. BalanceInv'
  <2> SUFFICES ASSUME NEW s \in Slot PROVE Balanced(s)'
      BY DEF BalanceInv
  <2>1. Settled(t, s)
    <3>1. IF HubAt(s) THEN HeldBy(t, s)' <= HeldBy(t, s) + One(s = r)
                      ELSE HeldBy(t, s)' = HeldBy(t, s) + One(s = r)
          BY DEF Holds
    <3>2. /\ HeldBy(t, s) \in Nat /\ HeldBy(t, s)' \in Nat
          /\ Cardinality(Children(s)) \in Nat /\ One(s = r) \in Nat
          BY HeldType, NextTypes, ChildrenType DEF One
    <3>3. Cardinality(Children(s)') = Cardinality(Children(s))
          BY <1>3
    <3>4. HubAt(s)' <=> HubAt(s)
          BY <1>2
    <3>5. dev[s].refs \in Nat /\ dev'[s].refs = dev[s].refs + One(s = r)
          BY <1>2
    <3> QED BY <3>1, <3>2, <3>3, <3>4, <3>5 DEF Settled
  <2>2. Balanced(s)
        BY DEF BalanceInv
  <2> QED BY <2>1, <2>2, BalanceStep
<1>6. DoomInv'
  <2> SUFFICES ASSUME NEW s \in Slot PROVE (Removals(s) = IF Doomed(s) THEN 1 ELSE 0)'
      BY DEF DoomInv
  <2>1. Removals(s)' = Removals(s)
    <3>1. /\ Removals(s)' + Count(work[t], Removal(s))
             = Removals(s) + Count(work'[t], Removal(s))
          /\ Removals(s)' \in Nat
          BY RemovalsStep
    <3>2. Count(work'[t], Removal(s)) = Count(work[t], Removal(s))
          BY DEF SameRemovals
    <3>3. Count(work[t], Removal(s)) \in Nat /\ Removals(s) \in Nat
          BY HeldType, HoldersType
    <3> QED BY <3>1, <3>2, <3>3
  <2>2. Doomed(s)' <=> Doomed(s)
    <3>1. Live(s)' <=> Live(s)
          BY DEF SameDevices
    <3>2. dev'[s].refs = 0 <=> dev[s].refs = 0
      <4>1. dev[s].refs \in Nat /\ dev'[s].refs \in Nat
            BY DevType, NextTypes
      <4>2. dev'[s].refs > 0 <=> dev[s].refs > 0
            BY <1>2
      <4> QED BY <4>1, <4>2
    <3> QED BY <3>1, <3>2 DEF Doomed
  <2>3. Removals(s) = IF Doomed(s) THEN 1 ELSE 0
        BY DEF DoomInv
  <2> QED BY <2>1, <2>2, <2>3
<1>7. LiveInv'
  <2> SUFFICES ASSUME NEW s \in Slot, Live(s)' PROVE dev'[s].node \in Node
      BY DEF LiveInv
  <2>1. Live(s) /\ dev'[s].node = dev[s].node
        BY DEF SameDevices
  <2> QED BY <2>1 DEF LiveInv
<1> QED BY <1>1, <1>4, <1>5, <1>6, <1>7

\* ... nothing but the place in the listing
LEMMA JobOnly ==
    ASSUME EnumAssumption, EnumInv, NEW t \in Thread,
           UNCHANGED <<system, bus, changes, dev, known, found, unrefs, list, work>>,
           hashed' \in Seq(Nat), job' \in [Thread -> JobRec],
           \A u \in Thread \ {t} : job'[u] = job[u],
           JobAt(t)', job'[t].par \in {0, job[t].par}, Win \/ job'[t].dev = job[t].dev
    PROVE  EnumInv'
<1>1. EnumTypes'
      BY DEF EnumTypes, EnumInv
<1>2. Alone(t)
      BY DEF Alone
<1>3. SameDevices(0)
  <2> SUFFICES ASSUME NEW s \in Slot
               PROVE  dev[s].refs = dev[s].refs + One(s = 0) /\ (Live(s) <=> Live(s)')
      BY DEF SameDevices
  <2>1. dev[s].refs \in Nat /\ s # 0
        BY DevType DEF EnumInv, Slot
  <2> QED BY <2>1 DEF One, Live
<1>4. Holds(t, 0)
  <2> SUFFICES ASSUME NEW s \in Slot
               PROVE  IF HubAt(s) THEN HeldBy(t, s)' <= HeldBy(t, s) + One(s = 0)
                                  ELSE HeldBy(t, s)' = HeldBy(t, s) + One(s = 0)
      BY DEF Holds
  <2>1. s # 0 /\ One(s = 0) = 0
        BY DEF Slot, One
  <2>2. /\ Count(found[t], s) \in Nat /\ Count(unrefs[t], s) \in Nat
        /\ Count(list[t], s) \in Nat /\ Count(work[t], Unref(s)) \in Nat
        BY HeldType DEF EnumInv
  <2>3. job'[t].par = s => job[t].par = s
        BY <2>1
  <2>4. ~HubAt(s) => job[t].par # s
        BY <2>1 DEF EnumInv, HubInv
  <2>5. system # "winusb" => job'[t].dev = job[t].dev
        BY DEF Win
  <2>6. PICK a, b, c, d : /\ a = Count(found[t], s) /\ b = Count(unrefs[t], s)
                          /\ c = Count(list[t], s) /\ d = Count(work[t], Unref(s))
        OBVIOUS
  <2>7. HeldBy(t, s) = a + b + c + d + One(job[t].dev = s /\ system # "winusb")
                       + One(job[t].par = s)
        BY <2>6 DEF HeldBy, One
  <2>8. HeldBy(t, s)' = a + b + c + d + One(job'[t].dev = s /\ system # "winusb")
                        + One(job'[t].par = s)
        BY <2>6 DEF HeldBy, One
  <2>9. One(job'[t].dev = s /\ system # "winusb") = One(job[t].dev = s /\ system # "winusb")
        BY <2>5 DEF One
  <2>10. PICK e \in Nat, f \in Nat, g \in Nat :
             /\ e = One(job[t].dev = s /\ system # "winusb") /\ f = One(job[t].par = s)
             /\ g = One(job'[t].par = s) /\ g <= f /\ (~HubAt(s) => g = f)
         BY <2>3, <2>4 DEF One
  <2>11. HeldBy(t, s) = a + b + c + d + e + f /\ HeldBy(t, s)' = a + b + c + d + e + g
         BY <2>7, <2>8, <2>9, <2>10
  <2>12. PICK u \in Nat : u = a + b + c + d + e
         BY <2>2, <2>6, SMTT(30)
  <2>13. u + g <= u + f /\ u + f = u + f + 0
         BY <2>10
  <2>14. HeldBy(t, s) = u + f /\ HeldBy(t, s)' = u + g
         BY <2>11, <2>12
  <2> QED BY <2>1, <2>10, <2>13, <2>14
<1>5. SameRemovals(t)
      BY DEF SameRemovals
<1>6. job'[t].par # 0 => HubAt(job'[t].par)
      BY DEF EnumInv, HubInv
<1>7. KnownInv'
      BY DEF EnumInv, KnownInv, Live
<1>8. 0 \in 0..MaxSlots
      BY DEF EnumAssumption
<1> QED BY <1>1, <1>2, <1>3, <1>4, <1>5, <1>6, <1>7, <1>8, Referenced

----------------------------------------------------------------------------
(* The steps, one by one: those that only go on.                           *)

LEMMA SeenType ==
    ASSUME EnumAssumption, EnumInv, NEW t \in Thread, job[t].pc \in {"find", "make"}
    PROVE  /\ Seen(t) \in Nat /\ Session(t) \in Sessions /\ job[t].node \in Node
           /\ Hashed(Seen(t)) \in Seq(Nat)
<1>1. job[t].node \in Node /\ job[t].snap \in [Physical -> Nat]
      BY DEF EnumInv, JobInv, JobAt
<1>2. bus \in [Physical -> Nat] /\ hashed \in Seq(Nat)
      BY DEF EnumInv, EnumTypes
<1>3. PICK b \in [Physical -> Nat] : b = IF system \in Bsd THEN bus ELSE job[t].snap
      BY <1>1, <1>2
<1>4. Shown(b, job[t].node) \in Nat
  <2>1. CASE Kind[job[t].node] = "interface"
    <3>1. Parent[job[t].node] \in Physical
          BY <1>1, <2>1, TreeIs
    <3> QED BY <2>1, <3>1 DEF Shown
  <2>2. CASE Kind[job[t].node] # "interface"
    <3>1. job[t].node \in Physical
          BY <1>1, <2>2 DEF Physical
    <3> QED BY <2>2, <3>1 DEF Shown
  <2> QED BY <2>1, <2>2
<1>5. Seen(t) \in Nat
      BY <1>3, <1>4 DEF Seen
<1>6. Hashed(Seen(t)) \in Seq(Nat)
  <2>1. Append(hashed, Seen(t)) \in Seq(Nat)
        BY <1>2, <1>5
  <2> QED BY <1>2, <2>1 DEF Hashed
<1>7. Place(Seen(t)) \in Nat
  <2>1. PICK q \in Seq(Nat) : q = Hashed(Seen(t))
        BY <1>6
  <2>2. CASE Contains(q, Seen(t))
    <3>1. \E k \in DOMAIN q : q[k] = Seen(t)
          BY <2>2 DEF Contains
    <3>2. (CHOOSE k \in DOMAIN q : q[k] = Seen(t)) \in DOMAIN q
          BY <3>1
    <3> QED BY <2>1, <2>2, <3>2 DEF Place
  <2>3. CASE ~Contains(q, Seen(t))
        BY <2>1, <2>3 DEF Place
  <2> QED BY <2>2, <2>3
<1> QED BY <1>1, <1>5, <1>6, <1>7 DEF Session, Sessions

\* A thread goes on with its job and keeps all but where it is
LEMMA GoesType ==
    ASSUME EnumInv, NEW t \in Thread, NEW pc \in {"item", "append", "failed"}, Goes(t, pc)
    PROVE  /\ job' \in [Thread -> JobRec] /\ \A u \in Thread \ {t} : job'[u] = job[u]
           /\ job'[t].pc = pc /\ job'[t].dev = job[t].dev /\ job'[t].par = job[t].par
           /\ job'[t].node = job[t].node /\ job'[t].pass = job[t].pass
           /\ job'[t].snap = job[t].snap /\ job'[t].todo = job[t].todo
<1>1. job \in [Thread -> JobRec]
      BY DEF EnumInv, EnumTypes
<1>2. PICK j \in JobRec : j = job[t]
      BY <1>1
<1>3. [j EXCEPT !.pc = pc] \in JobRec
      BY DEF JobRec
<1>4. job' = [job EXCEPT ![t] = [j EXCEPT !.pc = pc]]
      BY <1>1, <1>2 DEF Goes
<1>5. job' \in [Thread -> JobRec] /\ \A u \in Thread \ {t} : job'[u] = job[u]
      BY <1>1, <1>3, <1>4
<1> QED BY <1>1, <1>2, <1>4, <1>5 DEF JobRec

\* ... and looks at another device
Sets(t, pc, d) == job' = [job EXCEPT ![t].pc = pc, ![t].dev = d]

LEMMA JobSets ==
    ASSUME EnumInv, NEW t \in Thread,
           NEW pc \in {"item", "make", "setup", "append", "failed"}, NEW d \in 0..MaxSlots,
           Sets(t, pc, d)
    PROVE  /\ job' \in [Thread -> JobRec] /\ \A u \in Thread \ {t} : job'[u] = job[u]
           /\ job'[t].pc = pc /\ job'[t].dev = d /\ job'[t].par = job[t].par
           /\ job'[t].node = job[t].node /\ job'[t].pass = job[t].pass
           /\ job'[t].snap = job[t].snap /\ job'[t].todo = job[t].todo
<1>1. job \in [Thread -> JobRec]
      BY DEF EnumInv, EnumTypes
<1>2. PICK j \in JobRec : j = job[t]
      BY <1>1
<1>3. [j EXCEPT !.pc = pc, !.dev = d] \in JobRec
      BY DEF JobRec
<1>4. job' = [job EXCEPT ![t] = [j EXCEPT !.pc = pc, !.dev = d]]
      BY <1>1, <1>2 DEF Sets
<1>5. job' \in [Thread -> JobRec] /\ \A u \in Thread \ {t} : job'[u] = job[u]
      BY <1>1, <1>3, <1>4
<1> QED BY <1>1, <1>2, <1>4, <1>5 DEF JobRec

LEMMA GoesStep ==
    ASSUME EnumAssumption, EnumInv, NEW t \in Thread,
           NEW pc \in {"item", "append", "failed"}, Goes(t, pc),
           UNCHANGED <<system, bus, changes, dev, known, hashed, found, unrefs, list, work>>,
           job[t].pc # "idle", ~Win /\ job[t].dev # 0 => pc = "append",
           pc = "append" => job[t].pc \in {"setup", "append"}
    PROVE  EnumInv'
<1>1. JobAt(t) /\ hashed' \in Seq(Nat)
      BY DEF EnumInv, EnumTypes, JobInv
<1>2. /\ job' \in [Thread -> JobRec] /\ \A u \in Thread \ {t} : job'[u] = job[u]
      /\ job'[t].pc = pc /\ job'[t].dev = job[t].dev /\ job'[t].par = job[t].par
      /\ job'[t].node = job[t].node /\ job'[t].pass = job[t].pass /\ job'[t].snap = job[t].snap
  <2>1. CASE pc = "item"
        BY <2>1, GoesType
  <2>2. CASE pc = "append"
        BY <2>2, GoesType
  <2>3. CASE pc = "failed"
        BY <2>3, GoesType
  <2> QED BY <2>1, <2>2, <2>3
<1>3. JobAt(t)'
      BY <1>1, <1>2 DEF JobAt, Win
<1> QED BY <1>1, <1>2, <1>3, JobOnly

LEMMA NothingStep ==
    ASSUME EnumAssumption, EnumInv, NEW t \in Thread, Nothing(t)
    PROVE  EnumInv'
<1>1. ~Win => job[t].dev = 0
      BY DEF Nothing, At, EnumInv, JobInv, JobAt
<1> QED BY <1>1, GoesStep DEF Nothing, At

LEMMA MakeFailsStep ==
    ASSUME EnumAssumption, EnumInv, NEW t \in Thread, MakeFails(t)
    PROVE  EnumInv'
<1>1. ~Win => job[t].dev = 0
      BY DEF MakeFails, At, EnumInv, JobInv, JobAt
<1>2. PICK pc \in {"item", "failed"} : Goes(t, pc)
      BY DEF MakeFails
<1> QED BY <1>1, <1>2, GoesStep DEF MakeFails, At

LEMMA SetupPathStep ==
    ASSUME EnumAssumption, EnumInv, NEW t \in Thread, SetupPath(t)
    PROVE  EnumInv'
<1>1. Win
      BY DEF SetupPath, At, EnumInv, JobInv, JobAt
<1> QED BY <1>1, GoesStep DEF SetupPath, At

LEMMA ReadDescriptorsStep ==
    ASSUME EnumAssumption, EnumInv, NEW t \in Thread, ReadDescriptors(t)
    PROVE  EnumInv'
BY GoesStep DEF ReadDescriptors, At

LEMMA ItemStep ==
    ASSUME EnumAssumption, EnumInv, NEW t \in Thread, NEW n \in Node, Item(t, n)
    PROVE  EnumInv'
<1>1. /\ job \in [Thread -> JobRec] /\ JobAt(t) /\ job[t].pc = "item"
      BY DEF EnumInv, EnumTypes, JobInv, Item, At
<1>2. PICK pc \in {"ancestor", "owner", "rootHub", "find"} :
          /\ job' = [job EXCEPT ![t].pc = pc, ![t].node = n, ![t].todo = @ \ {n}]
          /\ pc # "find" => job[t].pass \in {"gen", "ext", "hcd"}
      BY DEF Item
<1>3. [job[t] EXCEPT !.pc = pc, !.node = n, !.todo = @ \ {n}] \in JobRec
  <2>1. PICK j \in JobRec : j = job[t]
        BY <1>1
  <2>2. [j EXCEPT !.pc = pc, !.node = n, !.todo = @ \ {n}] \in JobRec
        BY DEF JobRec
  <2> QED BY <2>1, <2>2
<1>4. job' = [job EXCEPT ![t] = [job[t] EXCEPT !.pc = pc, !.node = n, !.todo = @ \ {n}]]
      BY <1>1, <1>2
<1>5. job' \in [Thread -> JobRec] /\ \A u \in Thread \ {t} : job'[u] = job[u]
      BY <1>1, <1>3, <1>4
<1>6. /\ job'[t].pc = pc /\ job'[t].dev = job[t].dev /\ job'[t].par = job[t].par
      /\ job'[t].node = n /\ job'[t].pass = job[t].pass /\ job'[t].snap = job[t].snap
      BY <1>1, <1>4 DEF JobRec
<1>7. UNCHANGED <<system, bus, changes, dev, known, hashed, found, unrefs, list, work>>
      BY DEF Item
<1>8. JobAt(t)'
      BY <1>1, <1>2, <1>6, <1>7 DEF JobAt, Win
<1>9. hashed' \in Seq(Nat)
      BY <1>7 DEF EnumInv, EnumTypes
<1> QED BY <1>5, <1>6, <1>7, <1>8, <1>9, JobOnly

LEMMA EnterType ==
    ASSUME EnumAssumption, EnumInv, NEW pass \in {"hub", "dev", "hcd", "gen", "ext", "all"},
           NEW b
    PROVE  /\ NodesOf(pass, b) \subseteq Node
           /\ Enter(pass, b) = [pc |-> "item", pass |-> pass, snap |-> b,
                                todo |-> NodesOf(pass, b), node |-> NoNode, dev |-> 0, par |-> 0]
<1>1. NodesOf(pass, b) \subseteq Node
      BY Zenon DEF NodesOf
<1>2. PICK todo : todo = NodesOf(pass, b)
      OBVIOUS
<1>3. Enter(pass, b) = [NoJob EXCEPT !.pc = "item", !.pass = pass, !.snap = b, !.todo = todo]
      BY <1>2 DEF Enter
<1> QED BY <1>1, <1>2, <1>3 DEF NoJob

LEMMA BeginStep ==
    ASSUME EnumAssumption, EnumInv, NEW t \in Thread, Begin(t)
    PROVE  EnumInv'
<1>1. /\ job \in [Thread -> JobRec] /\ JobAt(t) /\ job[t].pc = "idle" /\ list[t] = <<>>
      /\ bus \in [Physical -> Nat]
      BY DEF EnumInv, EnumTypes, JobInv, Begin, At
<1>2. job[t].dev = 0 /\ job[t].par = 0
      BY <1>1 DEF JobAt, NoJob
<1>3. PICK p \in {"hub", "all"} : p = Head(Passes) /\ (p = "hub" <=> Win)
      BY DEF Passes, Win
<1> DEFINE j == [pc |-> "item", pass |-> p, snap |-> bus, todo |-> NodesOf(p, bus),
                 node |-> NoNode, dev |-> 0, par |-> 0]
<1>4. j \in JobRec /\ job' = [job EXCEPT ![t] = j]
  <2>1. NodesOf(p, bus) \subseteq Node /\ Enter(p, bus) = j
        BY EnterType
  <2>2. j \in JobRec
        BY <1>1, <2>1, EnumAssumption DEF JobRec, EnumAssumption
  <2>3. job' = [job EXCEPT ![t] = Enter(p, bus)]
        BY <1>3 DEF Begin
  <2> QED BY <2>1, <2>2, <2>3
<1>5. job'[t] = j /\ job' \in [Thread -> JobRec] /\ \A u \in Thread \ {t} : job'[u] = job[u]
      BY <1>1, <1>4
<1>6. /\ job'[t].pc = "item" /\ job'[t].dev = 0 /\ job'[t].par = 0
      /\ job'[t].pass = p /\ job'[t].snap = bus
      BY <1>5
<1>7. UNCHANGED <<system, bus, changes, dev, known, hashed, found, unrefs, list, work>>
      BY DEF Begin
<1>8. JobAt(t)'
      BY <1>1, <1>3, <1>6, <1>7 DEF JobAt, Win, NoNode
<1>9. hashed' \in Seq(Nat)
      BY <1>7 DEF EnumInv, EnumTypes
<1> QED BY <1>2, <1>5, <1>6, <1>7, <1>8, <1>9, JobOnly

LEMMA NextPassStep ==
    ASSUME EnumAssumption, EnumInv, NEW t \in Thread, NextPass(t)
    PROVE  EnumInv'
<1>1. /\ job \in [Thread -> JobRec] /\ JobAt(t) /\ job[t].pc = "item"
      BY DEF EnumInv, EnumTypes, JobInv, NextPass, At
<1> DEFINE i == CHOOSE k \in DOMAIN Passes : Passes[k] = job[t].pass
<1>2. /\ i < Len(Passes)
      /\ job' = [job EXCEPT
           ![t] = [Enter(Passes[i + 1], IF Passes[i + 1] = "gen" THEN bus ELSE @.snap)
                     EXCEPT !.snap = job[t].snap]]
      BY DEF NextPass
<1>3. Win
  <2> SUFFICES ASSUME ~Win PROVE FALSE
      OBVIOUS
  <2>1. Passes = <<"all">> /\ job[t].pass = "all"
        BY <1>1 DEF Passes, JobAt, Win
  <2>2. i = 1
        BY <2>1
  <2> QED BY <1>2, <2>1, <2>2
<1>4. Passes = <<"hub", "dev", "hcd", "gen", "ext">>
      BY <1>3 DEF Passes, Win
<1>5. i \in 1..5
  <2>1. job[t].pass \in {"hub", "dev", "hcd", "gen", "ext"}
        BY <1>1, <1>3, JobType DEF JobAt, EnumInv
  <2>2. DOMAIN Passes = 1..5
        BY <1>4
  <2>3. \E k \in 1..5 : Passes[k] = job[t].pass
        BY <1>4, <2>1
  <2> QED BY <2>2, <2>3
<1>6. PICK p \in {"dev", "hcd", "gen", "ext"} : p = Passes[i + 1]
  <2>1. i \in 1..4
        BY <1>2, <1>4, <1>5
  <2> HIDE DEF i
  <2> QED BY <1>4, <2>1
<1>7. PICK b : b = IF p = "gen" THEN bus ELSE job[t].snap
      OBVIOUS
<1> DEFINE j == [pc |-> "item", pass |-> p, snap |-> job[t].snap, todo |-> NodesOf(p, b),
                 node |-> NoNode, dev |-> 0, par |-> 0]
<1>8. j \in JobRec /\ job' = [job EXCEPT ![t] = j]
  <2>1. NodesOf(p, b) \subseteq Node
        BY EnterType
  <2>2. [Enter(p, b) EXCEPT !.snap = job[t].snap] = j
        BY EnterType
  <2>3. j \in JobRec
        BY <1>1, <2>1, EnumAssumption DEF JobRec, EnumAssumption
  <2>4. job' = [job EXCEPT ![t] = [Enter(p, b) EXCEPT !.snap = job[t].snap]]
    <3> HIDE DEF i
    <3> QED BY <1>1, <1>2, <1>6, <1>7
  <2> QED BY <2>2, <2>3, <2>4
<1>9. job'[t] = j /\ job' \in [Thread -> JobRec] /\ \A u \in Thread \ {t} : job'[u] = job[u]
      BY <1>1, <1>8
<1>10. /\ job'[t].pc = "item" /\ job'[t].dev = 0 /\ job'[t].par = 0
       /\ job'[t].pass = p /\ job'[t].snap = job[t].snap
       BY <1>9
<1>11. UNCHANGED <<system, bus, changes, dev, known, hashed, found, unrefs, list, work>>
       BY DEF NextPass
<1>12. JobAt(t)'
       BY <1>1, <1>3, <1>10, <1>11 DEF JobAt, Win, NoNode
<1>13. hashed' \in Seq(Nat)
       BY <1>11 DEF EnumInv, EnumTypes
<1> HIDE DEF i, j
<1> QED BY <1>3, <1>9, <1>10, <1>11, <1>12, <1>13, JobOnly

----------------------------------------------------------------------------
(* The steps that move references or take one.                             *)

LEMMA DevicesUnchanged ==
    ASSUME EnumAssumption, EnumInv, dev' = dev
    PROVE  SameDevices(0) /\ 0 \in 0..MaxSlots /\ (known' = known => KnownInv')
<1>1. SameDevices(0)
  <2> SUFFICES ASSUME NEW s \in Slot
               PROVE  dev[s].refs = dev[s].refs + One(s = 0) /\ (Live(s) <=> Live(s)')
      BY DEF SameDevices
  <2>1. dev[s].refs \in Nat /\ s # 0
        BY DevType DEF EnumInv, Slot
  <2> QED BY <2>1 DEF One, Live
<1>2. 0 \in 0..MaxSlots
      BY DEF EnumAssumption
<1>3. ASSUME known' = known PROVE KnownInv'
      BY <1>3 DEF EnumInv, KnownInv, Live
<1> QED BY <1>1, <1>2, <1>3

LEMMA OneMore ==
    ASSUME EnumAssumption, EnumInv, NEW r \in Slot, dev[r].refs > 0,
           \A s \in Slot \ {r} : dev'[s] = dev[s],
           dev'[r].node = dev[r].node, dev'[r].parent = dev[r].parent,
           dev'[r].refs = dev[r].refs + 1
    PROVE  SameDevices(r) /\ r \in 0..MaxSlots /\ (known' = known => KnownInv')
<1>1. SameDevices(r)
  <2> SUFFICES ASSUME NEW s \in Slot
               PROVE  /\ dev'[s].node = dev[s].node /\ dev'[s].parent = dev[s].parent
                      /\ dev'[s].refs = dev[s].refs + One(s = r)
                      /\ Live(s) <=> Live(s)'
      BY DEF SameDevices
  <2>1. dev[s].refs \in Nat
        BY DevType DEF EnumInv
  <2>2. CASE s = r
    <3>1. dev[s].refs # 0 /\ dev'[s].refs # 0
          BY <2>1, <2>2
    <3>2. Live(s) /\ Live(s)'
          BY <3>1 DEF Live, NoDev
    <3> QED BY <2>2, <3>2 DEF One
  <2>3. CASE s # r
    <3>1. dev'[s] = dev[s]
          BY <2>3
    <3> QED BY <2>1, <2>3, <3>1 DEF One, Live
  <2> QED BY <2>2, <2>3
<1>2. r \in 0..MaxSlots
      BY DEF EnumAssumption, Slot
<1>3. ASSUME known' = known PROVE KnownInv'
  <2>1. \A k \in 1..Len(known) : known[k] \in Slot
        BY DEF EnumInv, EnumTypes
  <2>2. \A s \in Slot : Live(s) <=> Live(s)'
        BY <1>1 DEF SameDevices
  <2>3. \A k \in 1..Len(known) : Live(known[k])'
    <3> SUFFICES ASSUME NEW k \in 1..Len(known) PROVE Live(known[k])'
        OBVIOUS
    <3>1. PICK s \in Slot : s = known[k]
          BY <2>1
    <3>2. Live(s)
          BY <3>1 DEF EnumInv, KnownInv
    <3>3. Live(s)'
          BY <2>2, <3>2
    <3> QED BY <1>3, <3>1, <3>3 DEF Live
  <2> QED BY <1>3, <2>3 DEF EnumInv, KnownInv
<1> QED BY <1>1, <1>2, <1>3

\* libusb_ref_device
LEMMA RefType ==
    ASSUME EnumInv, NEW r \in Slot
    PROVE  /\ Ref(dev, r) \in [Slot -> DevRec]
           /\ Ref(dev, r)[r].node = dev[r].node /\ Ref(dev, r)[r].parent = dev[r].parent
           /\ Ref(dev, r)[r].refs = dev[r].refs + 1
           /\ \A s \in Slot \ {r} : Ref(dev, r)[s] = dev[s]
<1>1. PICK d \in DevRec : d = dev[r]
      BY DevType DEF EnumInv
<1>2. [d EXCEPT !.refs = @ + 1] \in DevRec
      BY DEF DevRec
<1>3. Ref(dev, r) = [dev EXCEPT ![r] = [d EXCEPT !.refs = @ + 1]]
      BY <1>1 DEF Ref, EnumInv, EnumTypes
<1>4. dev \in [Slot -> DevRec]
      BY DEF EnumInv, EnumTypes
<1>5. Ref(dev, r)[r] = [d EXCEPT !.refs = @ + 1]
      BY <1>3, <1>4
<1> QED BY <1>1, <1>2, <1>3, <1>4, <1>5 DEF DevRec

\* What a thread holds of the devices, when none is a special case
LEMMA HoldsOne ==
    ASSUME EnumAssumption, EnumInv, NEW t \in Thread, NEW r \in 0..MaxSlots,
           \A s \in Slot : HeldBy(t, s)' = HeldBy(t, s) + One(s = r)
    PROVE  Holds(t, r)
<1> SUFFICES ASSUME NEW s \in Slot PROVE HeldBy(t, s)' <= HeldBy(t, s) + One(s = r)
    BY DEF Holds
<1>1. HeldBy(t, s)' = HeldBy(t, s) + One(s = r)
      OBVIOUS
<1>2. HeldBy(t, s) \in Nat /\ One(s = r) \in Nat
      BY HeldType DEF EnumInv, One
<1> QED BY <1>1, <1>2

LEMMA FreeListStep ==
    ASSUME EnumAssumption, EnumInv, NEW t \in Thread, FreeList(t)
    PROVE  EnumInv'
<1>1. /\ job[t].pc = "idle" /\ work[t] = <<>>
      /\ work' = [work EXCEPT ![t] = UnrefAll(list[t])]
      /\ list' = [list EXCEPT ![t] = <<>>]
      /\ UNCHANGED <<system, bus, changes, dev, known, hashed, job, found, unrefs>>
      BY DEF FreeList
<1>2. list[t] \in Seq(Slot) /\ UnrefAll(list[t]) \in Seq(Chore)
  <2>1. list[t] \in Seq(Slot)
        BY DEF EnumInv, EnumTypes
  <2>2. \A s \in Slot : UnrefAll(list[t]) \in Seq(Chore)
        BY <2>1, CountOfUnrefs
  <2>3. 1 \in Slot
        BY DEF Slot, EnumAssumption
  <2> QED BY <2>1, <2>2, <2>3
<1>3. EnumTypes'
      BY <1>1, <1>2 DEF EnumInv, EnumTypes
<1>4. /\ work'[t] = UnrefAll(list[t]) /\ list'[t] = <<>>
      /\ \A u \in Thread \ {t} : work'[u] = work[u] /\ list'[u] = list[u]
      BY <1>1 DEF EnumInv, EnumTypes
<1>5. Alone(t)
      BY <1>1, <1>4 DEF Alone
<1>6. JobAt(t)'
      BY <1>1 DEF EnumInv, JobInv, JobAt, Win
<1>7. Holds(t, 0)
  <2> SUFFICES ASSUME NEW s \in Slot
               PROVE  HeldBy(t, s)' = HeldBy(t, s) + One(s = 0)
    <3>1. 0 \in 0..MaxSlots
          BY DEF EnumAssumption
    <3> QED BY <3>1, HoldsOne
  <2>1. One(s = 0) = 0
        BY DEF Slot, One
  <2>2. /\ Count(found[t], s) \in Nat /\ Count(unrefs[t], s) \in Nat
        /\ Count(list[t], s) \in Nat
        BY HeldType DEF EnumInv
  <2>3. Count(work[t], Unref(s)) = 0 /\ Count(list'[t], s) = 0
        BY <1>1, <1>4, CountOfNone
  <2>4. Count(work'[t], Unref(s)) = Count(list[t], s)
        BY <1>2, <1>4, CountOfUnrefs
  <2>5. HeldBy(t, s) \in Nat
        BY HeldType DEF EnumInv
  <2> QED BY <1>1, <2>1, <2>2, <2>3, <2>4, <2>5 DEF HeldBy
<1>8. SameRemovals(t)
  <2> SUFFICES ASSUME NEW s \in Slot
               PROVE  Count(work'[t], Removal(s)) = Count(work[t], Removal(s))
      BY DEF SameRemovals
  <2> QED BY <1>1, <1>2, <1>4, CountOfNone, CountOfUnrefs
<1>9. job'[t].par # 0 => HubAt(job'[t].par)
      BY <1>1 DEF EnumInv, HubInv
<1> QED BY <1>1, <1>3, <1>5, <1>6, <1>7, <1>8, <1>9, DevicesUnchanged, Referenced

LEMMA EndListingStep ==
    ASSUME EnumAssumption, EnumInv, NEW t \in Thread, NEW ok \in BOOLEAN, EndListing(t, dev, ok),
           At(t, "item") \/ At(t, "failed"),
           UNCHANGED <<system, bus, changes, known, hashed>>
    PROVE  EnumInv'
<1> DEFINE rest == IF ok THEN <<>> ELSE found[t]
           got == IF ok THEN found[t] ELSE <<>>
<1>1. /\ job' = [job EXCEPT ![t] = NoJob] /\ dev' = dev
      /\ list' = [list EXCEPT ![t] = got]
      /\ work' = [work EXCEPT ![t] = UnrefAll(unrefs[t] \o rest)]
      /\ found' = [found EXCEPT ![t] = <<>>]
      /\ unrefs' = [unrefs EXCEPT ![t] = <<>>]
      BY DEF EndListing
<1>2. /\ job[t].pc \in {"item", "failed"} /\ work[t] = <<>> /\ list[t] = <<>>
      /\ ~Win => job[t].dev = 0
      BY DEF At, EnumInv, JobInv, JobAt
<1>3. /\ found[t] \in Seq(Slot) /\ unrefs[t] \in Seq(Slot) /\ rest \in Seq(Slot)
      /\ got \in Seq(Slot) /\ unrefs[t] \o rest \in Seq(Slot)
      BY DEF EnumInv, EnumTypes
<1>4. UnrefAll(unrefs[t] \o rest) \in Seq(Chore)
  <2>1. 1 \in Slot
        BY DEF Slot, EnumAssumption
  <2> QED BY <1>3, <2>1, CountOfUnrefs
<1>5. NoJob \in JobRec
      BY EnumAssumption DEF NoJob, JobRec, EnumAssumption
<1>6. EnumTypes'
      BY <1>1, <1>3, <1>4, <1>5 DEF EnumInv, EnumTypes
<1>7. /\ work'[t] = UnrefAll(unrefs[t] \o rest) /\ list'[t] = got /\ found'[t] = <<>>
      /\ unrefs'[t] = <<>> /\ job'[t] = NoJob
      /\ \A u \in Thread \ {t} :
            /\ work'[u] = work[u] /\ list'[u] = list[u] /\ found'[u] = found[u]
            /\ unrefs'[u] = unrefs[u] /\ job'[u] = job[u]
      BY <1>1 DEF EnumInv, EnumTypes
<1>8. Alone(t)
      BY <1>7 DEF Alone
<1>9. JobAt(t)'
      BY <1>7 DEF JobAt, NoJob
<1>10. Holds(t, 0)
  <2> SUFFICES ASSUME NEW s \in Slot
               PROVE  IF HubAt(s) THEN HeldBy(t, s)' <= HeldBy(t, s) + One(s = 0)
                                  ELSE HeldBy(t, s)' = HeldBy(t, s) + One(s = 0)
      BY DEF Holds
  <2>1. One(s = 0) = 0 /\ s # 0
        BY DEF Slot, One
  <2>2. /\ Count(found[t], s) \in Nat /\ Count(unrefs[t], s) \in Nat
        BY HeldType DEF EnumInv
  <2>3. /\ Count(work[t], Unref(s)) = 0 /\ Count(list[t], s) = 0
        /\ Count(found'[t], s) = 0 /\ Count(unrefs'[t], s) = 0
        BY <1>2, <1>7, CountOfNone
  <2>4. Count(work'[t], Unref(s)) = Count(unrefs[t] \o rest, s)
    <3>1. PICK q \in Seq(Slot) : q = unrefs[t] \o rest
          BY <1>3
    <3>2. Count(UnrefAll(q), Unref(s)) = Count(q, s)
          BY CountOfUnrefs
    <3> QED BY <1>7, <3>1, <3>2
  <2>5. Count(unrefs[t] \o rest, s) = Count(unrefs[t], s) + Count(rest, s)
    <3>1. PICK q \in Seq(Slot), p \in Seq(Slot) : p = unrefs[t] /\ q = rest
          BY <1>3
    <3>2. Count(p \o q, s) = Count(p, s) + Count(q, s)
          BY CountConcat
    <3> QED BY <3>1, <3>2
  <2>6. Count(rest, s) + Count(list'[t], s) = Count(found[t], s)
    <3>1. CASE ok
          BY <1>7, <2>2, <3>1, CountOfNone
    <3>2. CASE ~ok
          BY <1>7, <2>2, <3>2, CountOfNone
    <3> QED BY <3>1, <3>2
  <2>7. Count(rest, s) \in Nat /\ Count(list'[t], s) \in Nat
        BY <1>3, <1>7, CountType
  <2>8. job'[t].dev = 0 /\ job'[t].par = 0
        BY <1>7 DEF NoJob
  <2>9. ~HubAt(s) => job[t].par # s
        BY <2>1 DEF EnumInv, HubInv
  <2>10. HeldBy(t, s)' = Count(unrefs[t], s) + Count(found[t], s)
    <3> HIDE DEF rest, got
    <3> QED BY <2>1, <2>2, <2>3, <2>4, <2>5, <2>6, <2>7, <2>8 DEF HeldBy
  <2>11. HeldBy(t, s) = Count(unrefs[t], s) + Count(found[t], s)
                        + IF job[t].par = s THEN 1 ELSE 0
    <3>1. ~(job[t].dev = s /\ system # "winusb")
          BY <1>2, <2>1 DEF Win
    <3> QED BY <2>2, <2>3, <3>1 DEF HeldBy
  <2> QED BY <2>1, <2>2, <2>9, <2>10, <2>11
<1>11. SameRemovals(t)
  <2> SUFFICES ASSUME NEW s \in Slot
               PROVE  Count(work'[t], Removal(s)) = Count(work[t], Removal(s))
      BY DEF SameRemovals
  <2>1. PICK q \in Seq(Slot) : q = unrefs[t] \o rest
        BY <1>3
  <2>2. Count(UnrefAll(q), Removal(s)) = 0
        BY CountOfUnrefs
  <2> QED BY <1>2, <1>7, <2>1, <2>2, CountOfNone
<1>12. job'[t].par = 0
      BY <1>7 DEF NoJob
<1> QED BY <1>1, <1>6, <1>8, <1>9, <1>10, <1>11, <1>12, DevicesUnchanged, Referenced

LEMMA DoneStep ==
    ASSUME EnumAssumption, EnumInv, NEW t \in Thread, Done(t) \/ GiveUp(t)
    PROVE  EnumInv'
<1>1. CASE Done(t)
      BY <1>1, EndListingStep DEF Done
<1>2. CASE GiveUp(t)
      BY <1>2, EndListingStep DEF GiveUp
<1> QED BY <1>1, <1>2

\* A reference that is taken and will be dropped at once
LEMMA TakesAndDrops ==
    ASSUME EnumAssumption, EnumInv, NEW t \in Thread, NEW r \in Slot, dev[r].refs > 0,
           SameDevices(r), dev' \in [Slot -> DevRec], known' \in Seq(Slot), KnownInv',
           hashed' \in Seq(Nat), work[t] = <<>>, DropsOne(t, r), Win,
           job' \in [Thread -> JobRec], \A u \in Thread \ {t} : job'[u] = job[u], JobAt(t)',
           job'[t].par = job[t].par, UNCHANGED <<system, bus, changes, found, unrefs, list>>
    PROVE  EnumInv'
<1>1. work' = [work EXCEPT ![t] = <<Unref(r)>>] /\ <<Unref(r)>> \in Seq(Chore)
      BY ChoreTypes DEF DropsOne
<1>2. EnumTypes'
      BY <1>1 DEF EnumInv, EnumTypes
<1>3. work'[t] = <<Unref(r)>> /\ \A u \in Thread \ {t} : work'[u] = work[u]
      BY <1>1 DEF EnumInv, EnumTypes
<1>4. Alone(t)
      BY <1>3 DEF Alone
<1>5. r \in 0..MaxSlots
      BY DEF Slot, EnumAssumption
<1>6. Holds(t, r)
  <2> SUFFICES ASSUME NEW s \in Slot PROVE HeldBy(t, s)' = HeldBy(t, s) + One(s = r)
      BY <1>5, HoldsOne
  <2>1. Count(work'[t], Unref(s)) = One(s = r) /\ Count(work[t], Unref(s)) = 0
    <3>1. Unref(r) = Unref(s) <=> s = r
          BY ChoreTypes
    <3> QED BY <1>3, <3>1, CountOfOne, CountOfNone DEF One
  <2>2. /\ Count(found[t], s) \in Nat /\ Count(unrefs[t], s) \in Nat
        /\ Count(list[t], s) \in Nat /\ One(s = r) \in Nat
        BY HeldType DEF EnumInv, One
  <2> QED BY <2>1, <2>2, SMTT(30) DEF HeldBy, Win
<1>7. SameRemovals(t)
  <2> SUFFICES ASSUME NEW s \in Slot
               PROVE  Count(work'[t], Removal(s)) = Count(work[t], Removal(s))
      BY DEF SameRemovals
  <2>1. Unref(r) # Removal(s)
        BY ChoreTypes
  <2> QED BY <1>3, <2>1, CountOfOne, CountOfNone
<1>8. job'[t].par # 0 => HubAt(job'[t].par)
      BY DEF EnumInv, HubInv
<1> QED BY <1>2, <1>4, <1>5, <1>6, <1>7, <1>8, Referenced

\* A reference that is kept till the end of the listing
LEMMA TakesAndTracks ==
    ASSUME EnumAssumption, EnumInv, NEW t \in Thread, NEW r \in Slot, dev[r].refs > 0,
           SameDevices(r), dev' \in [Slot -> DevRec], known' = known, KnownInv',
           hashed' \in Seq(Nat), unrefs' = [unrefs EXCEPT ![t] = Append(@, r)], Win,
           job' \in [Thread -> JobRec], \A u \in Thread \ {t} : job'[u] = job[u], JobAt(t)',
           job'[t].par = job[t].par, UNCHANGED <<system, bus, changes, found, work, list>>
    PROVE  EnumInv'
<1>1. Append(unrefs[t], r) \in Seq(Slot)
      BY DEF EnumInv, EnumTypes
<1>2. EnumTypes'
      BY <1>1 DEF EnumInv, EnumTypes
<1>3. unrefs'[t] = Append(unrefs[t], r) /\ \A u \in Thread \ {t} : unrefs'[u] = unrefs[u]
      BY DEF EnumInv, EnumTypes
<1>4. Alone(t)
      BY <1>3 DEF Alone
<1>5. r \in 0..MaxSlots
      BY DEF Slot, EnumAssumption
<1>6. Holds(t, r)
  <2> SUFFICES ASSUME NEW s \in Slot PROVE HeldBy(t, s)' = HeldBy(t, s) + One(s = r)
      BY <1>5, HoldsOne, SMTT(30)
  <2>1. Count(unrefs'[t], s) = Count(unrefs[t], s) + One(s = r)
    <3>1. unrefs[t] \in Seq(Slot)
          BY DEF EnumInv, EnumTypes
    <3> QED BY <1>3, <3>1, CountAppend DEF One
  <2>2. /\ Count(found[t], s) \in Nat /\ Count(unrefs[t], s) \in Nat
        /\ Count(list[t], s) \in Nat /\ Count(work[t], Unref(s)) \in Nat /\ One(s = r) \in Nat
        /\ One(job[t].par = s) \in Nat
        BY HeldType DEF EnumInv, One
  <2>3. HeldBy(t, s) = Count(found[t], s) + Count(unrefs[t], s) + Count(list[t], s)
                       + Count(work[t], Unref(s)) + 0 + One(job[t].par = s)
        BY DEF HeldBy, Win, One
  <2>4. HeldBy(t, s)' = Count(found[t], s) + Count(unrefs'[t], s) + Count(list[t], s)
                        + Count(work[t], Unref(s)) + 0 + One(job[t].par = s)
        BY DEF HeldBy, Win, One
  <2>5. PICK a \in Nat, b \in Nat, c \in Nat, d \in Nat, e \in Nat, f \in Nat :
            /\ a = Count(found[t], s) /\ b = Count(unrefs[t], s) /\ c = Count(list[t], s)
            /\ d = Count(work[t], Unref(s)) /\ e = One(job[t].par = s) /\ f = One(s = r)
        BY <2>2
  <2>6. HeldBy(t, s) = a + b + c + d + 0 + e
        BY <2>3, <2>5
  <2>7. HeldBy(t, s)' = a + (b + f) + c + d + 0 + e
        BY <2>1, <2>4, <2>5
  <2>8. a + (b + f) + c + d + 0 + e = (a + b + c + d + 0 + e) + f
        OBVIOUS
  <2> QED BY <2>5, <2>6, <2>7, <2>8
<1>7. SameRemovals(t)
      BY DEF SameRemovals
<1>8. job'[t].par # 0 => HubAt(job'[t].par)
      BY DEF EnumInv, HubInv
<1> QED BY <1>2, <1>4, <1>5, <1>6, <1>7, <1>8, Referenced

LEMMA RootHubStep ==
    ASSUME EnumAssumption, EnumInv, "dying" \notin Faults, NEW t \in Thread, RootHub(t)
    PROVE  EnumInv'
<1>1. /\ At(t, "rootHub") /\ MayLookUp
      /\ UNCHANGED <<system, bus, changes, known, hashed, found, unrefs, list>>
      BY DEF RootHub
<1>2. Win /\ JobAt(t)
      BY <1>1 DEF At, EnumInv, JobInv, JobAt
<1>3. PICK r : r = Found(job[t].node)
      OBVIOUS
<1>4. CASE r = 0
  <2>1. Goes(t, "failed") /\ UNCHANGED <<dev, work>>
        BY <1>3, <1>4 DEF RootHub
  <2> QED BY <1>1, <1>2, <2>1, GoesStep DEF At
<1>5. CASE r # 0
  <2>1. /\ dev' = [Ref(dev, r) EXCEPT ![r].rootHub = TRUE]
        /\ Goes(t, "item") /\ DropsOne(t, r)
        BY <1>3, <1>5 DEF RootHub
  <2>2. r \in Slot /\ dev[r].refs > 0
        BY <1>1, <1>3, <1>5, FoundIs
  <2>3. PICK d \in [Slot -> DevRec] : d = Ref(dev, r)
        BY <2>2, RefType
  <2>4. PICK e \in DevRec : e = d[r]
        BY <2>2
  <2>5. [e EXCEPT !.rootHub = TRUE] \in DevRec
        BY DEF DevRec
  <2>6. dev' = [d EXCEPT ![r] = [e EXCEPT !.rootHub = TRUE]]
        BY <2>1, <2>2, <2>3, <2>4
  <2>7. /\ dev' \in [Slot -> DevRec] /\ \A s \in Slot \ {r} : dev'[s] = d[s]
        /\ dev'[r].node = e.node /\ dev'[r].parent = e.parent /\ dev'[r].refs = e.refs
        BY <2>2, <2>5, <2>6 DEF DevRec
  <2>8. SameDevices(r) /\ KnownInv'
        BY <1>1, <2>2, <2>3, <2>4, <2>7, RefType, OneMore
  <2>9. /\ job' \in [Thread -> JobRec] /\ \A u \in Thread \ {t} : job'[u] = job[u]
        /\ job'[t].pc = "item" /\ job'[t].dev = job[t].dev /\ job'[t].par = job[t].par
        /\ job'[t].pass = job[t].pass /\ job'[t].snap = job[t].snap
        BY <2>1, GoesType
  <2>10. JobAt(t)'
        BY <1>1, <1>2, <2>9 DEF At, JobAt, Win
  <2>11. known' \in Seq(Slot) /\ hashed' \in Seq(Nat)
        BY <1>1 DEF EnumInv, EnumTypes
  <2> QED BY <1>1, <1>2, <2>1, <2>2, <2>7, <2>8, <2>9, <2>10, <2>11, TakesAndDrops DEF At
<1> QED BY <1>4, <1>5

\* get_ancestor: what it finds is there
LEMMA AncestorIs ==
    ASSUME EnumAssumption, EnumInv, "dying" \notin Faults, MayLookUp, NEW n, Ancestor(n) # 0
    PROVE  /\ Ancestor(n) \in Slot /\ dev[Ancestor(n)].refs > 0
           /\ dev[Ancestor(n)].node \in Node
<1>1. PICK x : Ancestor(n) = Found(x)
      BY DEF Ancestor
<1> QED BY <1>1, FoundIs

LEMMA OwnerStep ==
    ASSUME EnumAssumption, EnumInv, "dying" \notin Faults, NEW t \in Thread, Owner(t)
    PROVE  EnumInv'
<1>1. /\ At(t, "owner") /\ MayLookUp /\ Goes(t, "item")
      /\ UNCHANGED <<system, bus, changes, known, hashed, found, unrefs, list>>
      BY DEF Owner
<1>2. Win /\ JobAt(t) /\ job[t].node \in Node
      BY <1>1 DEF At, EnumInv, JobInv, JobAt
<1>3. PICK n \in Node : n = job[t].node
      BY <1>2
<1> DEFINE p == Ancestor(n)
<1>4. CASE p = 0
  <2>1. UNCHANGED <<dev, work>>
        BY <1>3, <1>4 DEF Owner
  <2> QED BY <1>1, <1>2, <2>1, GoesStep DEF At
<1>5. CASE p # 0
  <2>1. /\ dev' = IF Kind[dev[p].node] = "hub" THEN Ref(dev, p)
                  ELSE SetInterface(Ref(dev, p), p, n)
        /\ DropsOne(t, p)
        BY <1>3, <1>5 DEF Owner
  <2> HIDE DEF p
  <2>2. p \in Slot /\ dev[p].refs > 0
        BY <1>1, <1>5, AncestorIs DEF p
  <2>3. PICK d \in [Slot -> DevRec] : d = Ref(dev, p)
        BY <2>2, RefType
  <2>4. PICK e \in DevRec : e = d[p]
        BY <2>2
  <2>5. [e EXCEPT !.paths = @ \cup {n}] \in DevRec
        BY DEF DevRec
  <2>6. dev' = d \/ dev' = [d EXCEPT ![p] = [e EXCEPT !.paths = @ \cup {n}]]
        BY <2>1, <2>2, <2>3, <2>4 DEF SetInterface
  <2>7. /\ dev' \in [Slot -> DevRec] /\ \A s \in Slot \ {p} : dev'[s] = d[s]
        /\ dev'[p].node = e.node /\ dev'[p].parent = e.parent /\ dev'[p].refs = e.refs
    <3>1. CASE dev' = d
          BY <2>4, <3>1
    <3>2. CASE dev' = [d EXCEPT ![p] = [e EXCEPT !.paths = @ \cup {n}]]
          BY <2>2, <2>5, <3>2 DEF DevRec
    <3> QED BY <2>6, <3>1, <3>2
  <2>8. SameDevices(p) /\ KnownInv'
        BY <1>1, <2>2, <2>3, <2>4, <2>7, RefType, OneMore
  <2>9. /\ job' \in [Thread -> JobRec] /\ \A u \in Thread \ {t} : job'[u] = job[u]
        /\ job'[t].pc = "item" /\ job'[t].dev = job[t].dev /\ job'[t].par = job[t].par
        /\ job'[t].pass = job[t].pass /\ job'[t].snap = job[t].snap
        BY <1>1, GoesType
  <2>10. JobAt(t)'
        BY <1>1, <1>2, <2>9 DEF At, JobAt, Win
  <2>11. known' \in Seq(Slot) /\ hashed' \in Seq(Nat)
        BY <1>1 DEF EnumInv, EnumTypes
  <2> QED BY <1>1, <1>2, <2>1, <2>2, <2>7, <2>8, <2>9, <2>10, <2>11, TakesAndDrops DEF At
<1> QED BY <1>4, <1>5

LEMMA BelowNothingStep ==
    ASSUME EnumAssumption, EnumInv, "dying" \notin Faults, NEW t \in Thread, BelowNothing(t)
    PROVE  EnumInv'
<1>1. /\ At(t, "ancestor") /\ MayLookUp
      /\ UNCHANGED <<system, bus, changes, known, hashed, found, work, list>>
      BY DEF BelowNothing
<1>2. Win /\ JobAt(t) /\ job \in [Thread -> JobRec]
      BY <1>1 DEF At, EnumInv, EnumTypes, JobInv, JobAt
<1>3. PICK r : r = Found(job[t].node)
      OBVIOUS
<1>4. CASE ~(r # 0 /\ dev[r].rootHub)
  <2>1. Goes(t, "item") /\ UNCHANGED <<dev, unrefs>>
        BY <1>3, <1>4 DEF BelowNothing
  <2> QED BY <1>1, <1>2, <2>1, GoesStep DEF At
<1>5. CASE r # 0 /\ dev[r].rootHub
  <2>1. /\ dev' = Ref(dev, r)
        /\ job' = [job EXCEPT ![t].pc = "setup", ![t].dev = r]
        /\ unrefs' = [unrefs EXCEPT ![t] = Append(@, r)]
        BY <1>3, <1>5 DEF BelowNothing
  <2>2. r \in Slot /\ dev[r].refs > 0 /\ r \in 0..MaxSlots
        BY <1>1, <1>3, <1>5, FoundIs, EnumAssumption DEF Slot, EnumAssumption
  <2>3. dev' \in [Slot -> DevRec] /\ SameDevices(r) /\ KnownInv'
        BY <1>1, <2>1, <2>2, RefType, OneMore
  <2>7. /\ job' \in [Thread -> JobRec] /\ \A u \in Thread \ {t} : job'[u] = job[u]
        /\ job'[t].pc = "setup" /\ job'[t].dev = r /\ job'[t].par = job[t].par
        /\ job'[t].pass = job[t].pass /\ job'[t].snap = job[t].snap
        /\ job'[t].node = job[t].node
    <3>1. Sets(t, "setup", r)
          BY <2>1 DEF Sets
    <3> QED BY <2>2, <3>1, JobSets, ZenonT(60)
  <2>8. unrefs'[t] = Append(unrefs[t], r) /\ unrefs[t] \in Seq(Slot)
        BY <2>1 DEF EnumInv, EnumTypes
  <2>9. Count(unrefs'[t], r) > 0
    <3>1. Count(unrefs[t], r) \in Nat
          BY <2>2, HeldType DEF EnumInv
    <3>2. Count(Append(unrefs[t], r), r) = Count(unrefs[t], r) + 1
          BY <2>2, <2>8, CountAppend
    <3> QED BY <2>8, <3>1, <3>2
  <2>10. JobAt(t)'
        BY <1>1, <1>2, <2>2, <2>7, <2>9 DEF At, JobAt, Win
  <2>11. hashed' \in Seq(Nat)
        BY <1>1 DEF EnumInv, EnumTypes
  <2> QED BY <1>1, <1>2, <2>1, <2>2, <2>3, <2>7, <2>10, <2>11, TakesAndTracks
<1> QED BY <1>4, <1>5

LEMMA BelowHubStep ==
    ASSUME EnumAssumption, EnumInv, "dying" \notin Faults, NEW t \in Thread, BelowHub(t)
    PROVE  EnumInv'
<1>1. /\ At(t, "ancestor") /\ MayLookUp
      /\ UNCHANGED <<system, bus, changes, known, hashed, found, unrefs, list>>
      BY DEF BelowHub
<1>2. Win /\ JobAt(t) /\ job \in [Thread -> JobRec] /\ known' \in Seq(Slot)
      BY <1>1 DEF At, EnumInv, EnumTypes, JobInv, JobAt
<1>3. PICK p : p = Ancestor(job[t].node)
      OBVIOUS
<1>4. /\ p # 0 /\ dev' = Ref(dev, p)
      /\ \/ /\ Kind[dev[p].node] = "hub"
            /\ job' = [job EXCEPT ![t].pc = "find", ![t].par = p] /\ UNCHANGED work
         \/ Goes(t, "item") /\ DropsOne(t, p)
      BY <1>3 DEF BelowHub
<1>5. p \in Slot /\ dev[p].refs > 0 /\ dev[p].node \in Node
      BY <1>1, <1>3, <1>4, AncestorIs
<1>6. p \in 0..MaxSlots
      BY <1>5 DEF Slot, EnumAssumption
<1>7. dev' \in [Slot -> DevRec] /\ SameDevices(p) /\ KnownInv'
      BY <1>1, <1>4, <1>5, RefType, OneMore
<1>8. hashed' \in Seq(Nat)
      BY <1>1 DEF EnumInv, EnumTypes
<1>9. CASE Goes(t, "item") /\ DropsOne(t, p)
  <2>1. /\ job' \in [Thread -> JobRec] /\ \A u \in Thread \ {t} : job'[u] = job[u]
        /\ job'[t].pc = "item" /\ job'[t].dev = job[t].dev /\ job'[t].par = job[t].par
        /\ job'[t].pass = job[t].pass /\ job'[t].snap = job[t].snap
        BY <1>9, GoesType
  <2>2. JobAt(t)'
        BY <1>1, <1>2, <2>1 DEF At, JobAt, Win
  <2> QED BY <1>1, <1>2, <1>5, <1>7, <1>8, <1>9, <2>1, <2>2, TakesAndDrops DEF At
<1>10. CASE /\ Kind[dev[p].node] = "hub"
            /\ job' = [job EXCEPT ![t].pc = "find", ![t].par = p] /\ UNCHANGED work
  <2>1. PICK j \in JobRec : j = job[t]
        BY <1>2
  <2>2. [j EXCEPT !.pc = "find", !.par = p] \in JobRec
        BY <1>6 DEF JobRec
  <2>3. job' = [job EXCEPT ![t] = [j EXCEPT !.pc = "find", !.par = p]]
        BY <1>2, <1>10, <2>1
  <2>4. /\ job' \in [Thread -> JobRec] /\ \A u \in Thread \ {t} : job'[u] = job[u]
        /\ job'[t].pc = "find" /\ job'[t].dev = job[t].dev /\ job'[t].par = p
        /\ job'[t].pass = job[t].pass /\ job'[t].snap = job[t].snap
        /\ job'[t].node = job[t].node
        BY <1>2, <2>1, <2>2, <2>3 DEF JobRec
  <2>5. JobAt(t)'
        BY <1>1, <1>2, <2>4 DEF At, JobAt, Win
  <2>6. EnumTypes'
        BY <1>1, <1>7, <1>10, <2>4 DEF EnumInv, EnumTypes
  <2>7. Alone(t)
        BY <1>1, <1>10, <2>4 DEF Alone
  <2>8. HubAt(p)
        BY <1>2, <1>5, <1>10 DEF HubAt, Hubs
  <2>9. Holds(t, p)
    <3> SUFFICES ASSUME NEW s \in Slot
                 PROVE  IF HubAt(s) THEN HeldBy(t, s)' <= HeldBy(t, s) + One(s = p)
                                    ELSE HeldBy(t, s)' = HeldBy(t, s) + One(s = p)
        BY DEF Holds
    <3>1. /\ Count(found[t], s) \in Nat /\ Count(unrefs[t], s) \in Nat
          /\ Count(list[t], s) \in Nat /\ Count(work[t], Unref(s)) \in Nat
          BY HeldType DEF EnumInv
    <3>2. ~HubAt(s) => job[t].par # s /\ s # p
          BY <2>8 DEF EnumInv, HubInv, Slot
    <3>3. HeldBy(t, s)' = Count(found[t], s) + Count(unrefs[t], s) + Count(list[t], s)
                          + Count(work[t], Unref(s)) + One(s = p)
          BY <1>1, <1>2, <1>10, <2>4, <3>1 DEF HeldBy, Win, One
    <3>4. HeldBy(t, s) = Count(found[t], s) + Count(unrefs[t], s) + Count(list[t], s)
                          + Count(work[t], Unref(s)) + One(s = job[t].par)
          BY <1>2, <3>1, SMTT(30) DEF HeldBy, Win, One
    <3> QED BY <3>1, <3>2, <3>3, <3>4 DEF One
  <2>10. SameRemovals(t)
        BY <1>10 DEF SameRemovals
  <2> QED BY <1>5, <1>6, <1>7, <2>4, <2>5, <2>6, <2>7, <2>8, <2>9, <2>10, Referenced
<1> QED BY <1>4, <1>9, <1>10

\* usbi_disconnect_device takes one entry off the list, the only one
LEMMA RemoveFirstIs ==
    ASSUME NEW q \in Seq(Slot), NEW s,
           \A k, l \in 1..Len(q) : q[k] = q[l] => k = l
    PROVE  /\ RemoveFirst(q, s) \in Seq(Slot)
           /\ \A k, l \in 1..Len(RemoveFirst(q, s)) :
                 RemoveFirst(q, s)[k] = RemoveFirst(q, s)[l] => k = l
           /\ \A k \in 1..Len(RemoveFirst(q, s)) :
                 Contains(q, RemoveFirst(q, s)[k]) /\ RemoveFirst(q, s)[k] # s
           /\ \A x : x # s /\ Contains(q, x) => Contains(RemoveFirst(q, s), x)
           /\ ~Contains(q, s) => RemoveFirst(q, s) = q
<1>1. CASE ~Contains(q, s)
  <2>1. RemoveFirst(q, s) = q
        BY <1>1 DEF RemoveFirst, Contains
  <2> QED BY <1>1, <2>1 DEF Contains
<1>2. CASE Contains(q, s)
  <2> DEFINE I == {i \in 1..Len(q) : q[i] = s}
  <2>1. PICK i : i = Min(I)
        OBVIOUS
  <2>2. i \in 1..Len(q) /\ q[i] = s
    <3>1. I \in SUBSET Nat /\ I # {}
          BY <1>2 DEF Contains
    <3>2. Min(I) \in I
      <4> HIDE DEF I
      <4> QED BY <3>1, MinOfPlaces
    <3> QED BY <2>1, <3>2
  <2>3. PICK r : r = RemoveFirst(q, s)
        OBVIOUS
  <2>4. r = SubSeq(q, 1, i - 1) \o SubSeq(q, i + 1, Len(q))
    <3>1. SelectInSeq(q, LAMBDA v : v = s) = Min(I)
          BY <2>2 DEF SelectInSeq
    <3> QED BY <1>2, <2>1, <2>3, <3>1 DEF RemoveFirst, RemoveAt, Contains
  <2>5. /\ Len(q) \in Nat /\ r \in Seq(Slot) /\ Len(r) = Len(q) - 1
        /\ \A k \in 1..Len(r) : r[k] = IF k < i THEN q[k] ELSE q[k + 1]
    <3> DEFINE a == SubSeq(q, 1, i - 1)
               b == SubSeq(q, i + 1, Len(q))
    <3>1. /\ a \in Seq(Slot) /\ b \in Seq(Slot) /\ Len(q) \in Nat
          /\ Len(a) = i - 1 /\ Len(b) = Len(q) - i
          /\ \A k \in 1..i - 1 : a[k] = q[k]
          /\ \A k \in 1..Len(q) - i : b[k] = q[i + k]
          BY <2>2
    <3>2. r = a \o b
          BY <2>4
    <3> HIDE DEF a, b
    <3>3. /\ a \o b \in Seq(Slot) /\ Len(a \o b) = Len(a) + Len(b)
          /\ \A k \in 1..Len(a) + Len(b) :
                (a \o b)[k] = IF k <= Len(a) THEN a[k] ELSE b[k - Len(a)]
      <4>1. PICK u \in Seq(Slot), v \in Seq(Slot) : u = a /\ v = b
            BY <3>1
      <4>2. /\ u \o v \in Seq(Slot) /\ Len(u \o v) = Len(u) + Len(v)
            /\ \A k \in 1..Len(u) + Len(v) :
                  (u \o v)[k] = IF k <= Len(u) THEN u[k] ELSE v[k - Len(u)]
            BY ConcatProperties
      <4> QED BY <4>1, <4>2
    <3>5. Len(r) = Len(q) - 1
          BY <2>2, <3>1, <3>2, <3>3
    <3>4. ASSUME NEW k \in 1..Len(r) PROVE r[k] = IF k < i THEN q[k] ELSE q[k + 1]
      <4>1. r[k] = IF k <= Len(a) THEN a[k] ELSE b[k - Len(a)]
            BY <2>2, <3>1, <3>2, <3>3, <3>5
      <4>2. CASE k < i
        <5>1. k <= Len(a) /\ k \in 1..i - 1
              BY <2>2, <3>1, <3>5, <4>2
        <5> QED BY <3>1, <4>1, <4>2, <5>1
      <4>3. CASE ~(k < i)
        <5>1. PICK m \in 1..Len(q) - i : m = k - Len(a) /\ i + m = k + 1
              BY <2>2, <3>1, <3>5, <4>3
        <5>2. ~(k <= Len(a))
              BY <2>2, <3>1, <3>5, <4>3
        <5> QED BY <3>1, <4>1, <4>3, <5>1, <5>2
      <4> QED BY <4>2, <4>3
    <3> QED BY <3>1, <3>2, <3>3, <3>4, <3>5
  <2>6. \A k, l \in 1..Len(r) : r[k] = r[l] => k = l
    <3> SUFFICES ASSUME NEW k \in 1..Len(r), NEW l \in 1..Len(r), r[k] = r[l] PROVE k = l
        OBVIOUS
    <3>1. PICK m \in 1..Len(q) : r[k] = q[m] /\ m = IF k < i THEN k ELSE k + 1
          BY <2>2, <2>5
    <3>2. PICK n \in 1..Len(q) : r[l] = q[n] /\ n = IF l < i THEN l ELSE l + 1
          BY <2>2, <2>5
    <3>3. m = n
          BY <3>1, <3>2
    <3> QED BY <2>2, <2>5, <3>1, <3>2, <3>3
  <2>7. \A k \in 1..Len(r) : Contains(q, r[k]) /\ r[k] # s
    <3> SUFFICES ASSUME NEW k \in 1..Len(r) PROVE Contains(q, r[k]) /\ r[k] # s
        OBVIOUS
    <3>1. PICK m \in 1..Len(q) : r[k] = q[m] /\ m # i
      <4>1. CASE k < i
            BY <2>2, <2>5, <4>1
      <4>2. CASE ~(k < i)
        <5>1. k + 1 \in 1..Len(q) /\ k + 1 # i /\ r[k] = q[k + 1]
              BY <2>2, <2>5, <4>2
        <5> QED BY <5>1
      <4> QED BY <4>1, <4>2
    <3> QED BY <2>2, <3>1 DEF Contains
  <2>8. \A x : x # s /\ Contains(q, x) => Contains(r, x)
    <3> SUFFICES ASSUME NEW x, x # s, Contains(q, x) PROVE Contains(r, x)
        OBVIOUS
    <3>1. PICK m \in 1..Len(q) : q[m] = x
          BY DEF Contains
    <3>2. m # i
          BY <2>2, <3>1
    <3>3. PICK k \in 1..Len(r) : k = IF m < i THEN m ELSE m - 1
          BY <2>2, <2>5, <3>2
    <3>4. r[k] = q[m]
          BY <2>2, <2>5, <3>2, <3>3
    <3> QED BY <3>1, <3>3, <3>4 DEF Contains
  <2> QED BY <1>2, <2>3, <2>5, <2>6, <2>7, <2>8
<1> QED BY <1>1, <1>2

LEMMA KnownRemoved ==
    ASSUME EnumInv, NEW s, known' = RemoveFirst(known, s),
           \A k \in 1..Len(known) : known[k] # s /\ Live(known[k]) => dev'[known[k]] # NoDev
    PROVE  known' \in Seq(Slot) /\ KnownInv'
<1>1. /\ known \in Seq(Slot) /\ \A k, l \in 1..Len(known) : known[k] = known[l] => k = l
      /\ \A k \in 1..Len(known) : Live(known[k])
      BY DEF EnumInv, EnumTypes, KnownInv
<1>2. /\ known' \in Seq(Slot)
      /\ \A k, l \in 1..Len(known') : known'[k] = known'[l] => k = l
      /\ \A k \in 1..Len(known') : Contains(known, known'[k]) /\ known'[k] # s
      BY <1>1, RemoveFirstIs
<1>3. \A k \in 1..Len(known') : dev'[known'[k]] # NoDev
      BY <1>1, <1>2 DEF Contains
<1> QED BY <1>2, <1>3 DEF KnownInv, Live

LEMMA FindStep ==
    ASSUME EnumAssumption, EnumInv, "dying" \notin Faults, NEW t \in Thread, Find(t)
    PROVE  EnumInv'
<1> DEFINE s == Found(Session(t))
           matched == s # 0 /\ ~Replaced(s, Seen(t))
<1>1. /\ At(t, "find") /\ MayLookUp
      /\ UNCHANGED <<system, bus, changes, found, list, calm>>
      BY DEF Find
<1>2. /\ JobAt(t) /\ job \in [Thread -> JobRec] /\ (~Win => job[t].dev = 0)
      /\ job[t].node \in Node /\ (Win <=> job[t].pass # "all")
      /\ work[t] = <<>> /\ list[t] = <<>> /\ job[t].pc = "find"
      BY <1>1 DEF At, EnumInv, EnumTypes, JobInv, JobAt
<1>3. hashed' \in Seq(Nat)
  <2>1. hashed' = (IF system = "usbdk" THEN Hashed(Seen(t)) ELSE hashed)
        BY DEF Find
  <2>2. Hashed(Seen(t)) \in Seq(Nat) /\ hashed \in Seq(Nat)
        BY <1>2, SeenType DEF EnumInv, EnumTypes
  <2> QED BY <2>1, <2>2
<1>4. /\ job' = [job EXCEPT ![t].pc = IF ~matched THEN "make"
                                      ELSE IF system = "winusb" THEN "setup" ELSE "append",
                            ![t].dev = IF matched THEN s ELSE 0]
      /\ dev' = IF s = 0 THEN dev ELSE Ref(dev, s)
      /\ unrefs' = IF matched THEN Tracked(t, s) ELSE unrefs
      /\ known' = IF matched THEN known ELSE RemoveFirst(known, s)
      /\ work' = IF matched \/ s = 0 THEN work ELSE [work EXCEPT ![t] = <<Unref(s)>>]
      BY DEF Find
<1>5. s # 0 => s \in Slot /\ dev[s].refs > 0 /\ s \in 0..MaxSlots
      BY <1>1, FoundIs, EnumAssumption DEF Slot, EnumAssumption
<1>6. 0 \in 0..MaxSlots
      BY DEF EnumAssumption
<1>7. CASE s = 0
  <2>1. /\ job' = [job EXCEPT ![t].pc = "make", ![t].dev = 0]
        /\ UNCHANGED <<dev, unrefs, work>> /\ known' = RemoveFirst(known, s)
    <3>1. ~matched
          BY <1>7
    <3> HIDE DEF matched
    <3> QED BY <1>4, <1>7, <3>1
  <2> HIDE DEF s
  <2>2. known' = known
    <3>1. known \in Seq(Slot) /\ \A k, l \in 1..Len(known) : known[k] = known[l] => k = l
          BY DEF EnumInv, EnumTypes, KnownInv
    <3>2. ~Contains(known, 0)
          BY <3>1 DEF Contains, Slot
    <3> QED BY <1>7, <2>1, <3>1, <3>2, RemoveFirstIs
  <2>3. /\ job' \in [Thread -> JobRec] /\ \A u \in Thread \ {t} : job'[u] = job[u]
        /\ job'[t].pc = "make" /\ job'[t].dev = 0 /\ job'[t].par = job[t].par
        /\ job'[t].node = job[t].node /\ job'[t].pass = job[t].pass
        /\ job'[t].snap = job[t].snap
    <3>1. Sets(t, "make", 0)
          BY <2>1 DEF Sets
    <3> QED BY <1>6, <3>1, JobSets, ZenonT(60)
  <2>4. JobAt(t)'
        BY <1>1, <1>2, <2>1, <2>3 DEF JobAt, Win
  <2> QED BY <1>1, <1>2, <1>3, <2>1, <2>2, <2>3, <2>4, JobOnly
<1>8. CASE matched
  <2>1. PICK pc \in {"setup", "append"} :
            /\ pc = "setup" <=> Win
            /\ job' = [job EXCEPT ![t].pc = pc, ![t].dev = s]
        BY <1>4, <1>8 DEF Win
  <2>2. dev' = Ref(dev, s) /\ UNCHANGED <<known, work>> /\ unrefs' = Tracked(t, s)
        BY <1>4, <1>8
  <2>3. s \in Slot /\ dev[s].refs > 0 /\ s \in 0..MaxSlots
        BY <1>5, <1>8
  <2> HIDE DEF s
  <2>4. dev' \in [Slot -> DevRec] /\ SameDevices(s) /\ KnownInv'
    <3>1. PICK r \in Slot : r = s
          BY <2>3
    <3> QED BY <2>2, <2>3, <3>1, RefType, OneMore
  <2>5. /\ job' \in [Thread -> JobRec] /\ \A u \in Thread \ {t} : job'[u] = job[u]
        /\ job'[t].pc = pc /\ job'[t].dev = s /\ job'[t].par = job[t].par
        /\ job'[t].node = job[t].node /\ job'[t].pass = job[t].pass
        /\ job'[t].snap = job[t].snap
    <3>1. PICK d \in 0..MaxSlots : d = s
          BY <2>3
    <3>2. Sets(t, pc, d)
          BY <2>1, <3>1 DEF Sets
    <3>3. /\ job' \in [Thread -> JobRec] /\ \A u \in Thread \ {t} : job'[u] = job[u]
          /\ job'[t].pc = pc /\ job'[t].dev = d /\ job'[t].par = job[t].par
          /\ job'[t].node = job[t].node /\ job'[t].pass = job[t].pass
          /\ job'[t].snap = job[t].snap
      <4>1. CASE pc = "setup"
        <5>1. Sets(t, "setup", d)
              BY <3>2, <4>1
        <5> QED BY <4>1, <5>1, JobSets, ZenonT(60)
      <4>2. CASE pc = "append"
        <5>1. Sets(t, "append", d)
              BY <3>2, <4>2
        <5> QED BY <4>2, <5>1, JobSets, ZenonT(60)
      <4> QED BY <2>1, <4>1, <4>2
    <3> QED BY <3>1, <3>3
  <2>6. CASE Win
    <3>1. unrefs' = [unrefs EXCEPT ![t] = Append(@, s)]
          BY <2>2, <2>6 DEF Tracked, Win
    <3>2. unrefs'[t] = Append(unrefs[t], s) /\ unrefs[t] \in Seq(Slot)
          BY <3>1 DEF EnumInv, EnumTypes
    <3>3. Count(unrefs'[t], s) > 0
      <4>1. Count(unrefs[t], s) \in Nat
            BY <2>3, HeldType DEF EnumInv
      <4>2. Count(Append(unrefs[t], s), s) = Count(unrefs[t], s) + 1
            BY <2>3, <3>2, CountAppend
      <4> QED BY <3>2, <4>1, <4>2
    <3>4. JobAt(t)'
          BY <1>1, <1>2, <2>1, <2>3, <2>5, <2>6, <3>3 DEF JobAt, Win
    <3> QED BY <1>1, <1>3, <2>2, <2>3, <2>4, <2>5, <2>6, <3>1, <3>4, TakesAndTracks
  <2>7. CASE ~Win
    <3>1. unrefs' = unrefs
          BY <2>2, <2>7 DEF Tracked, Win
    <3>2. JobAt(t)'
          BY <1>1, <1>2, <2>1, <2>3, <2>5, <2>7 DEF JobAt, Win
    <3>3. EnumTypes'
          BY <1>1, <1>3, <2>2, <2>4, <2>5, <3>1 DEF EnumInv, EnumTypes
    <3>4. Alone(t)
          BY <1>1, <2>2, <2>5, <3>1 DEF Alone
    <3>5. Holds(t, s)
      <4> SUFFICES ASSUME NEW x \in Slot PROVE HeldBy(t, x)' = HeldBy(t, x) + One(x = s)
          BY <2>3, HoldsOne
      <4>1. /\ Count(found[t], x) \in Nat /\ Count(unrefs[t], x) \in Nat
            /\ Count(list[t], x) \in Nat /\ Count(work[t], Unref(x)) \in Nat
            BY HeldType DEF EnumInv
      <4>2. job[t].dev # x
            BY <1>2, <2>7 DEF Slot
      <4> QED BY <1>1, <2>2, <2>5, <2>7, <3>1, <4>1, <4>2 DEF HeldBy, Win, One
    <3>6. SameRemovals(t)
          BY <2>2 DEF SameRemovals
    <3>7. job'[t].par # 0 => HubAt(job'[t].par)
          BY <2>5 DEF EnumInv, HubInv
    <3> QED BY <2>3, <2>4, <3>2, <3>3, <3>4, <3>5, <3>6, <3>7, Referenced
  <2> QED BY <2>6, <2>7
<1>9. CASE s # 0 /\ ~matched
  <2>1. /\ job' = [job EXCEPT ![t].pc = "make", ![t].dev = 0] /\ dev' = Ref(dev, s)
        /\ unrefs' = unrefs /\ known' = RemoveFirst(known, s)
        /\ work' = [work EXCEPT ![t] = <<Unref(s)>>]
    <3> HIDE DEF matched
    <3> QED BY <1>4, <1>9
  <2>2. Win /\ s \in Slot /\ dev[s].refs > 0
        BY <1>5, <1>9 DEF Replaced, Win
  <2> HIDE DEF s
  <2>3. dev' \in [Slot -> DevRec] /\ SameDevices(s)
        BY <2>1, <2>2, RefType, OneMore
  <2>4. known' \in Seq(Slot) /\ KnownInv'
    <3>1. ASSUME NEW k \in 1..Len(known), Live(known[k]) PROVE dev'[known[k]] # NoDev
      <4>1. PICK x \in Slot : x = known[k]
            BY DEF EnumInv, EnumTypes
      <4>2. Live(x) <=> Live(x)'
            BY <2>3 DEF SameDevices
      <4> QED BY <3>1, <4>1, <4>2 DEF Live
    <3> QED BY <2>1, <3>1, KnownRemoved
  <2>5. /\ job' \in [Thread -> JobRec] /\ \A u \in Thread \ {t} : job'[u] = job[u]
        /\ job'[t].pc = "make" /\ job'[t].dev = 0 /\ job'[t].par = job[t].par
        /\ job'[t].node = job[t].node /\ job'[t].pass = job[t].pass
        /\ job'[t].snap = job[t].snap
    <3>1. Sets(t, "make", 0)
          BY <2>1 DEF Sets
    <3> QED BY <1>6, <3>1, JobSets
  <2>6. JobAt(t)'
        BY <1>1, <1>2, <2>1, <2>2, <2>5 DEF JobAt, Win
  <2>7. DropsOne(t, s)
        BY <2>1 DEF DropsOne
  <2> QED BY <1>1, <1>2, <1>3, <2>1, <2>2, <2>3, <2>4, <2>5, <2>6, <2>7, TakesAndDrops
<1> QED BY <1>7, <1>8, <1>9

LEMMA ReadFailsStep ==
    ASSUME EnumAssumption, EnumInv, NEW t \in Thread, ReadFails(t)
    PROVE  EnumInv'
<1>1. /\ At(t, "setup") /\ job[t].pass = "all"
      /\ work' = [work EXCEPT ![t] = <<Unref(job[t].dev)>>]
      /\ UNCHANGED <<system, bus, changes, dev, known, hashed, found, unrefs, list>>
      BY DEF ReadFails, Skipped
<1>2. JobAt(t) /\ ~Win /\ work[t] = <<>> /\ job[t].pc = "setup" /\ job[t].dev \in Slot
      BY <1>1 DEF At, EnumInv, JobInv, JobAt
<1>3. PICK pc \in {"failed", "item"} : Sets(t, pc, 0)
      BY DEF ReadFails, Sets
<1>4. PICK s \in Slot : s = job[t].dev
      BY <1>2
<1>5. 0 \in 0..MaxSlots
      BY DEF EnumAssumption
<1>6. /\ job' \in [Thread -> JobRec] /\ \A u \in Thread \ {t} : job'[u] = job[u]
      /\ job'[t].pc = pc /\ job'[t].dev = 0 /\ job'[t].par = job[t].par
      /\ job'[t].node = job[t].node /\ job'[t].pass = job[t].pass
      /\ job'[t].snap = job[t].snap
  <2>1. CASE pc = "failed"
    <3>1. Sets(t, "failed", 0)
          BY <1>3, <2>1
    <3> QED BY <1>5, <2>1, <3>1, JobSets
  <2>2. CASE pc = "item"
    <3>1. Sets(t, "item", 0)
          BY <1>3, <2>2
    <3> QED BY <1>5, <2>2, <3>1, JobSets, ZenonT(60)
  <2> QED BY <2>1, <2>2
<1>7. work' = [work EXCEPT ![t] = <<Unref(s)>>] /\ <<Unref(s)>> \in Seq(Chore)
      BY <1>1, <1>4, ChoreTypes
<1>8. work'[t] = <<Unref(s)>> /\ \A u \in Thread \ {t} : work'[u] = work[u]
      BY <1>7 DEF EnumInv, EnumTypes
<1>9. EnumTypes'
  <2>1. work' \in [Thread -> Seq(Chore)]
        BY <1>7 DEF EnumInv, EnumTypes
  <2> QED BY <1>1, <1>6, <2>1 DEF EnumInv, EnumTypes
<1>10. Alone(t)
      BY <1>1, <1>6, <1>8 DEF Alone
<1>11. JobAt(t)'
      BY <1>1, <1>2, <1>6 DEF JobAt, Win
<1>12. Holds(t, 0)
  <2> SUFFICES ASSUME NEW x \in Slot PROVE HeldBy(t, x)' = HeldBy(t, x) + One(x = 0)
      BY <1>5, HoldsOne
  <2>1. Count(work'[t], Unref(x)) = One(x = s) /\ Count(work[t], Unref(x)) = 0
    <3>1. Unref(s) = Unref(x) <=> x = s
          BY ChoreTypes
    <3> QED BY <1>2, <1>8, <3>1, CountOfOne, CountOfNone DEF One
  <2>2. /\ Count(found[t], x) \in Nat /\ Count(unrefs[t], x) \in Nat
        /\ Count(list[t], x) \in Nat
        BY HeldType DEF EnumInv
  <2>3. One(x = 0) = 0 /\ x # 0
        BY DEF One, Slot
  <2>4. HeldBy(t, x)' = Count(found[t], x) + Count(unrefs[t], x) + Count(list[t], x)
                        + One(x = s) + One(job[t].par = x)
        BY <1>1, <1>2, <1>6, <2>1, <2>2, <2>3 DEF HeldBy, Win, One
  <2>5. HeldBy(t, x) = Count(found[t], x) + Count(unrefs[t], x) + Count(list[t], x)
                        + One(x = s) + One(job[t].par = x)
        BY <1>2, <1>4, <2>1, <2>2 DEF HeldBy, Win, One
  <2>6. HeldBy(t, x) \in Nat
        BY HeldType DEF EnumInv
  <2> QED BY <2>3, <2>4, <2>5, <2>6
<1>13. SameRemovals(t)
  <2> SUFFICES ASSUME NEW x \in Slot
               PROVE  Count(work'[t], Removal(x)) = Count(work[t], Removal(x))
      BY DEF SameRemovals
  <2>1. Unref(s) # Removal(x)
        BY ChoreTypes
  <2> QED BY <1>2, <1>8, <2>1, CountOfOne, CountOfNone
<1>14. job'[t].par # 0 => HubAt(job'[t].par)
      BY <1>6 DEF EnumInv, HubInv
<1> QED BY <1>1, <1>5, <1>9, <1>10, <1>11, <1>12, <1>13, <1>14, DevicesUnchanged, Referenced

\* What a thread is about to append it has a reference of
LEMMA JobDevIs ==
    ASSUME EnumAssumption, EnumInv, NEW t \in Thread, job[t].pc \in {"setup", "append"}
    PROVE  /\ job[t].dev \in Slot /\ dev[job[t].dev].refs > 0 /\ Live(job[t].dev)
           /\ dev[job[t].dev].node \in Node
<1>1. job[t].dev \in Slot /\ (Win => Count(unrefs[t], job[t].dev) > 0)
      BY DEF EnumInv, JobInv, JobAt
<1>2. PICK s \in Slot : s = job[t].dev
      BY <1>1
<1>3. HeldBy(t, s) > 0
      BY <1>1, <1>2, Held DEF EnumInv
<1>4. dev[s].refs > 0 /\ Live(s)
      BY <1>3, HeldIsCounted DEF EnumInv
<1> QED BY <1>2, <1>4 DEF EnumInv, LiveInv

LEMMA AppendDeviceStep ==
    ASSUME EnumAssumption, EnumInv, NEW t \in Thread, AppendDevice(t)
    PROVE  EnumInv'
<1>1. /\ At(t, "append")
      /\ UNCHANGED <<system, bus, changes, known, hashed, unrefs, list>>
      BY DEF AppendDevice
<1>2. JobAt(t) /\ work[t] = <<>> /\ job[t].pc = "append"
      BY <1>1 DEF At, EnumInv, JobInv
<1>3. PICK s \in Slot : s = job[t].dev /\ dev[s].refs > 0 /\ s \in 0..MaxSlots
  <2>1. job[t].dev \in Slot /\ dev[job[t].dev].refs > 0
        BY <1>2, JobDevIs
  <2>2. \A s \in Slot : s \in 0..MaxSlots
        BY DEF Slot, EnumAssumption
  <2> QED BY <2>1, <2>2
<1>4. /\ found' = [found EXCEPT ![t] = Append(@, s)] /\ dev' = Ref(dev, s)
      /\ work' = IF Win THEN work ELSE [work EXCEPT ![t] = <<Unref(s)>>]
      /\ Sets(t, "item", 0)
      BY <1>3 DEF AppendDevice, InList, Sets, Win
<1>5. 0 \in 0..MaxSlots
      BY DEF EnumAssumption
<1>6. /\ job' \in [Thread -> JobRec] /\ \A u \in Thread \ {t} : job'[u] = job[u]
      /\ job'[t].pc = "item" /\ job'[t].dev = 0 /\ job'[t].par = job[t].par
      /\ job'[t].node = job[t].node /\ job'[t].pass = job[t].pass
      /\ job'[t].snap = job[t].snap
      BY <1>4, <1>5, JobSets, ZenonT(60)
<1>7. dev' \in [Slot -> DevRec] /\ SameDevices(s) /\ KnownInv'
      BY <1>1, <1>3, <1>4, RefType, OneMore, SMTT(30)
<1>8. found[t] \in Seq(Slot) /\ Append(found[t], s) \in Seq(Slot) /\ <<Unref(s)>> \in Seq(Chore)
      BY ChoreTypes DEF EnumInv, EnumTypes
<1>9. EnumTypes'
  <2>1. work' \in [Thread -> Seq(Chore)]
        BY <1>4, <1>8 DEF EnumInv, EnumTypes
  <2>2. found' \in [Thread -> Seq(Slot)]
        BY <1>4, <1>8 DEF EnumInv, EnumTypes
  <2> QED BY <1>1, <1>6, <1>7, <2>1, <2>2 DEF EnumInv, EnumTypes
<1>10. /\ found'[t] = Append(found[t], s) /\ \A u \in Thread \ {t} : found'[u] = found[u]
       /\ work'[t] = (IF Win THEN <<>> ELSE <<Unref(s)>>)
       /\ \A u \in Thread \ {t} : work'[u] = work[u]
      BY <1>2, <1>4 DEF EnumInv, EnumTypes
<1>11. Alone(t)
      BY <1>1, <1>6, <1>10 DEF Alone
<1>12. JobAt(t)'
      BY <1>1, <1>2, <1>6 DEF JobAt, Win
<1>13. Holds(t, s)
  <2> SUFFICES ASSUME NEW x \in Slot PROVE HeldBy(t, x)' = HeldBy(t, x) + One(x = s)
      BY <1>3, HoldsOne
  <2>1. Count(work'[t], Unref(x)) = One(x = s /\ ~Win) /\ Count(work[t], Unref(x)) = 0
    <3>1. Unref(s) = Unref(x) <=> x = s
          BY ChoreTypes
    <3> QED BY <1>2, <1>10, <3>1, CountOfOne, CountOfNone DEF One
  <2>2. /\ Count(found[t], x) \in Nat /\ Count(unrefs[t], x) \in Nat
        /\ Count(list[t], x) \in Nat
        BY HeldType DEF EnumInv
  <2>3. Count(found'[t], x) = Count(found[t], x) + One(x = s)
        BY <1>8, <1>10, CountAppend DEF One
  <2>4. x # 0 /\ One(x = s) \in Nat /\ One(x = s /\ ~Win) \in Nat /\ One(job[t].par = x) \in Nat
        BY DEF One, Slot
  <2>5. HeldBy(t, x)' = Count(found[t], x) + One(x = s) + Count(unrefs[t], x)
                        + Count(list[t], x) + One(x = s /\ ~Win) + One(job[t].par = x)
    <3>1. job'[t].dev # x
          BY <1>6, <2>4
    <3>2. (IF job[t].par = x THEN 1 ELSE 0) = One(job[t].par = x)
          BY DEF One
    <3> QED BY <1>1, <1>6, <2>1, <2>2, <2>3, <2>4, <3>1, <3>2 DEF HeldBy
  <2>6. HeldBy(t, x) = Count(found[t], x) + Count(unrefs[t], x)
                        + Count(list[t], x) + One(x = s /\ ~Win) + One(job[t].par = x)
        BY <1>3, <2>1, <2>2 DEF HeldBy, Win, One
  <2> QED BY <2>2, <2>4, <2>5, <2>6
<1>14. SameRemovals(t)
  <2> SUFFICES ASSUME NEW x \in Slot
               PROVE  Count(work'[t], Removal(x)) = Count(work[t], Removal(x))
      BY DEF SameRemovals
  <2>1. Unref(s) # Removal(x)
        BY ChoreTypes
  <2> QED BY <1>2, <1>10, <2>1, CountOfOne, CountOfNone
<1>15. job'[t].par # 0 => HubAt(job'[t].par)
      BY <1>6 DEF EnumInv, HubInv
<1> QED BY <1>3, <1>7, <1>9, <1>11, <1>12, <1>13, <1>14, <1>15, Referenced

----------------------------------------------------------------------------
(* The steps that make, change and destroy a device.                       *)

LEMMA MakeStep ==
    ASSUME EnumAssumption, EnumInv, NEW t \in Thread, Make(t)
    PROVE  EnumInv'
<1> DEFINE s == CHOOSE k \in FreeSlots : \A j \in FreeSlots : k <= j
<1>1. /\ At(t, "make") /\ FreeSlots # {}
      /\ dev' = [dev EXCEPT ![s] = NewDev(job[t].node, Seen(t), Session(t))]
      /\ known' = <<s>> \o known
      /\ job' = [job EXCEPT ![t].pc = "setup", ![t].dev = s]
      /\ unrefs' = Tracked(t, s)
      /\ UNCHANGED <<system, bus, changes, lists, hashed, found, work, list>>
      BY DEF Make
<1>2. s \in FreeSlots
  <2>1. FreeSlots \in SUBSET Nat
        BY DEF FreeSlots, Slot
  <2>2. Min(FreeSlots) \in FreeSlots /\ \A j \in FreeSlots : Min(FreeSlots) <= j
        BY <1>1, <2>1, MinOfPlaces
  <2> QED BY <2>2
<1> HIDE DEF s
<1>3. s \in Slot /\ dev[s] = NoDev /\ s \in 0..MaxSlots
      BY <1>2 DEF FreeSlots, Slot, EnumAssumption
<1>4. PICK r \in Slot : r = s
      BY <1>3
<1>5. /\ JobAt(t) /\ job[t].pc = "make" /\ (~Win => job[t].dev = 0) /\ job[t].node \in Node
      BY <1>1 DEF At, EnumInv, JobInv, JobAt
<1>6. PICK e : e = NewDev(job[t].node, Seen(t), Session(t))
      OBVIOUS
<1>7. /\ e \in DevRec /\ e.refs = 1 /\ e.parent = 0 /\ e.node = job[t].node /\ e # NoDev
  <2>1. Seen(t) \in Nat /\ Session(t) \in Sessions
        BY <1>5, SeenType
  <2>2. 0 \in 0..MaxSlots
        BY DEF EnumAssumption
  <2>3. PICK n \in Node, i \in Nat, x \in Sessions :
            n = job[t].node /\ i = Seen(t) /\ x = Session(t)
        BY <1>5, <2>1
  <2>4. e = [node |-> n, id |-> i, session |-> x, refs |-> 1, parent |-> 0,
             paths |-> {}, rootHub |-> FALSE, ready |-> FALSE]
        BY <1>6, <2>3 DEF NewDev, NoDev
  <2>5. e \in DevRec
        BY <2>2, <2>4 DEF DevRec
  <2> QED BY <2>3, <2>4, <2>5 DEF NoDev
<1>8. /\ dev' = [dev EXCEPT ![r] = e] /\ known' = <<r>> \o known /\ Sets(t, "setup", r)
      /\ unrefs' = Tracked(t, r)
      BY <1>1, <1>4, <1>6 DEF Sets
<1>9. /\ job' \in [Thread -> JobRec] /\ \A u \in Thread \ {t} : job'[u] = job[u]
      /\ job'[t].pc = "setup" /\ job'[t].dev = r /\ job'[t].par = job[t].par
      /\ job'[t].node = job[t].node /\ job'[t].pass = job[t].pass
      /\ job'[t].snap = job[t].snap
      BY <1>3, <1>4, <1>8, JobSets, ZenonT(60)
<1>10. dev' \in [Slot -> DevRec] /\ dev'[r] = e /\ \A x \in Slot \ {r} : dev'[x] = dev[x]
      BY <1>7, <1>8 DEF EnumInv, EnumTypes
<1>11. /\ unrefs' \in [Thread -> Seq(Slot)]
       /\ unrefs'[t] = (IF Win THEN Append(unrefs[t], r) ELSE unrefs[t])
       /\ \A u \in Thread \ {t} : unrefs'[u] = unrefs[u]
  <2>1. Append(unrefs[t], r) \in Seq(Slot) /\ unrefs \in [Thread -> Seq(Slot)]
        BY DEF EnumInv, EnumTypes
  <2>2. CASE Win
        BY <1>8, <2>1, <2>2 DEF Tracked, Win
  <2>3. CASE ~Win
        BY <1>8, <2>1, <2>3 DEF Tracked, Win
  <2> QED BY <2>2, <2>3
<1>12. known' \in Seq(Slot)
      BY <1>8 DEF EnumInv, EnumTypes
<1>13. EnumTypes'
      BY <1>1, <1>9, <1>10, <1>11, <1>12 DEF EnumInv, EnumTypes
<1>14. Alone(t)
      BY <1>1, <1>9, <1>11 DEF Alone
\* Nobody had a reference of it.
<1>15. Holders(r) = 0 /\ ~HubAt(r) /\ Removals(r) = 0
  <2>1. dev[r].refs = 0 /\ ~HubAt(r) /\ ~Live(r)
    <3>1. NoDev.refs = 0 /\ NoDev.node = NoNode /\ NoNode \notin Hubs
          BY EnumAssumption DEF NoDev, NoNode, Hubs, EnumAssumption
    <3> QED BY <1>3, <1>4, <3>1 DEF HubAt, Live
  <2>2. Balanced(r) /\ Removals(r) = (IF Doomed(r) THEN 1 ELSE 0)
        BY DEF EnumInv, BalanceInv, DoomInv
  <2> QED BY <2>1, <2>2 DEF Balanced, Doomed
<1>16. \A u \in Thread : HeldBy(u, r) = 0 /\ Cardinality(Children(r)) = 0
  <2> SUFFICES ASSUME NEW u \in Thread PROVE HeldBy(u, r) = 0 /\ Cardinality(Children(r)) = 0
      OBVIOUS
  <2>1. HeldBy(u, r) + Cardinality(Children(r)) <= 0
        BY <1>15, HoldersType DEF EnumInv
  <2>2. HeldBy(u, r) \in Nat /\ Cardinality(Children(r)) \in Nat
        BY HeldType, ChildrenType DEF EnumInv
  <2> QED BY <2>1, <2>2
<1>17. \A x \in Slot : Children(x)' = Children(x)
  <2> SUFFICES ASSUME NEW x \in Slot, NEW c \in Slot
               PROVE  (dev'[c].parent = x /\ dev'[c].refs > 0)
                      <=> (dev[c].parent = x /\ dev[c].refs > 0)
      BY DEF Children
  <2>1. CASE c = r
    <3>1. dev'[c].parent # x
          BY <1>7, <1>10, <2>1 DEF Slot
    <3>2. ~(dev[c].refs > 0)
          BY <1>3, <1>4, <2>1 DEF NoDev
    <3> QED BY <3>1, <3>2
  <2>2. CASE c # r
        BY <1>10, <2>2
  <2> QED BY <2>1, <2>2
<1>18. \A x \in Slot : HeldBy(t, x)' = HeldBy(t, x) + One(x = r)
  <2> SUFFICES ASSUME NEW x \in Slot PROVE HeldBy(t, x)' = HeldBy(t, x) + One(x = r)
      OBVIOUS
  <2>1. /\ Count(found[t], x) \in Nat /\ Count(unrefs[t], x) \in Nat
        /\ Count(list[t], x) \in Nat /\ Count(work[t], Unref(x)) \in Nat
        BY HeldType DEF EnumInv
  <2>2. CASE Win
    <3>1. unrefs[t] \in Seq(Slot)
          BY DEF EnumInv, EnumTypes
    <3>2. Count(unrefs'[t], x) = Count(unrefs[t], x) + One(x = r)
          BY <1>11, <2>2, <3>1, CountAppend DEF One
    <3> QED BY <1>1, <1>9, <2>1, <2>2, <3>2, SMTT(30) DEF HeldBy, Win, One
  <2>3. CASE ~Win
    <3>1. job[t].dev # x
          BY <1>5, <2>3 DEF Slot
    <3>2. unrefs'[t] = unrefs[t]
          BY <1>11, <2>3
    <3> QED BY <1>1, <1>9, <2>1, <2>3, <3>1, <3>2, SMTT(30) DEF HeldBy, Win, One
  <2> QED BY <2>2, <2>3
<1>19. JobInv'
  <2>1. Win => Count(unrefs'[t], r) > 0
    <3>1. unrefs[t] \in Seq(Slot) /\ Count(unrefs[t], r) \in Nat
          BY HeldType DEF EnumInv, EnumTypes
    <3>2. Count(Append(unrefs[t], r), r) = Count(unrefs[t], r) + 1
          BY <3>1, CountAppend
    <3> QED BY <1>11, <3>1, <3>2
  <2>2. JobAt(t)'
        BY <1>1, <1>5, <1>9, <2>1 DEF JobAt, Win
  <2> QED BY <1>14, <2>2, JobsStep DEF EnumInv
<1>20. \A x \in Slot \ {r} : HubAt(x)' <=> HubAt(x)
      BY <1>1, <1>10 DEF HubAt, Win
<1>21. HubInv'
  <2>1. ASSUME NEW u \in Thread, job'[u].par # 0 PROVE HubAt(job[u].par)'
    <3>1. job'[u].par = job[u].par
          BY <1>9
    <3>2. HubAt(job[u].par) /\ job[u].par \in Slot
      <4>1. job[u].par \in 0..MaxSlots /\ MaxSlots \in Nat
            BY JobType DEF EnumInv, EnumAssumption
      <4> QED BY <2>1, <3>1, <4>1 DEF EnumInv, HubInv, Slot
    <3>3. PICK p \in Slot : p = job'[u].par /\ HubAt(p)
          BY <3>1, <3>2
    <3>4. p # r
          BY <1>15, <3>3
    <3> QED BY <1>20, <3>3, <3>4
  <2>2. ASSUME NEW c \in Slot, dev'[c].parent # 0, dev'[c].refs > 0
        PROVE  HubAt(dev[c].parent)'
    <3>1. c # r
          BY <1>7, <1>10, <2>2
    <3>2. dev'[c] = dev[c]
          BY <1>10, <3>1
    <3>3. HubAt(dev[c].parent) /\ dev[c].parent \in Slot
      <4>1. dev[c].parent \in 0..MaxSlots /\ MaxSlots \in Nat
            BY DevType DEF EnumInv, EnumAssumption
      <4> QED BY <2>2, <3>2, <4>1 DEF EnumInv, HubInv, Slot
    <3>4. PICK p \in Slot : p = dev'[c].parent /\ HubAt(p)
          BY <3>2, <3>3
    <3>5. p # r
          BY <1>15, <3>4
    <3> QED BY <1>20, <3>4, <3>5
  <2> QED BY <2>1, <2>2 DEF HubInv
<1>22. BalanceInv'
  <2> SUFFICES ASSUME NEW x \in Slot PROVE Balanced(x)'
      BY DEF BalanceInv
  <2>1. CASE x = r
    <3>1. /\ Holders(r)' + HeldBy(t, r) + Cardinality(Children(r))
             = Holders(r) + HeldBy(t, r)' + Cardinality(Children(r)')
          /\ Holders(r)' \in Nat
          BY <1>13, <1>14, HoldersStep DEF EnumInv
    <3>2. HeldBy(t, r)' = 1 /\ HeldBy(t, r) = 0
          BY <1>16, <1>18 DEF One
    <3>3. Cardinality(Children(r)') = 0 /\ Cardinality(Children(r)) = 0
          BY <1>16, <1>17
    <3>4. Holders(r)' = 1
          BY <1>15, <3>1, <3>2, <3>3
    <3>5. dev'[r].refs = 1
          BY <1>7, <1>10
    <3>6. Balanced(r)'
          BY <3>4, <3>5 DEF Balanced
    <3> QED BY <2>1, <3>6
  <2>2. CASE x # r
    <3>1. Cardinality(Children(x)') = Cardinality(Children(x))
          BY <1>17
    <3>2. HeldBy(t, x)' = HeldBy(t, x) /\ HeldBy(t, x) \in Nat
          BY <1>18, <2>2, HeldType DEF One, EnumInv
    <3>3. dev'[x].refs = dev[x].refs /\ dev[x].refs \in Nat /\ Cardinality(Children(x)) \in Nat
          BY <1>10, <2>2, DevType, ChildrenType DEF EnumInv
    <3>4. Settled(t, x)
          BY <1>20, <2>2, <3>1, <3>2, <3>3 DEF Settled
    <3>5. Balanced(x)
          BY DEF EnumInv, BalanceInv
    <3> QED BY <1>13, <1>14, <3>4, <3>5, BalanceStep DEF EnumInv
  <2> QED BY <2>1, <2>2
<1>23. DoomInv'
  <2> SUFFICES ASSUME NEW x \in Slot PROVE Removals(x)' = IF Doomed(x)' THEN 1 ELSE 0
      BY DEF DoomInv
  <2>1. Removals(x)' = Removals(x)
    <3>1. /\ Removals(x)' + Count(work[t], Removal(x))
             = Removals(x) + Count(work'[t], Removal(x))
          /\ Removals(x)' \in Nat
          BY <1>13, <1>14, RemovalsStep DEF EnumInv
    <3>2. Count(work[t], Removal(x)) \in Nat /\ Removals(x) \in Nat
          BY HeldType, HoldersType DEF EnumInv
    <3> QED BY <1>1, <3>1, <3>2
  <2>2. CASE x = r
    <3>1. ~Doomed(x)'
          BY <1>7, <1>10, <2>2 DEF Doomed
    <3> QED BY <1>15, <2>1, <2>2, <3>1
  <2>3. CASE x # r
    <3>1. Doomed(x)' <=> Doomed(x)
          BY <1>10, <2>3 DEF Doomed, Live
    <3> QED BY <2>1, <3>1 DEF EnumInv, DoomInv
  <2> QED BY <2>2, <2>3
<1>24. LiveInv'
  <2> SUFFICES ASSUME NEW x \in Slot, Live(x)' PROVE dev'[x].node \in Node
      BY DEF LiveInv
  <2>1. CASE x = r
        BY <1>5, <1>7, <1>10, <2>1
  <2>2. CASE x # r
        BY <1>10, <2>2 DEF EnumInv, LiveInv, Live
  <2> QED BY <2>1, <2>2
<1>25. KnownInv'
  <2>1. known \in Seq(Slot) /\ <<r>> \in Seq(Slot) /\ Len(known) \in Nat
        BY DEF EnumInv, EnumTypes
  <2>2. /\ Len(known') = 1 + Len(known)
        /\ \A k \in 1..Len(known') : known'[k] = IF k = 1 THEN r ELSE known[k - 1]
        BY <1>8, <2>1
  <2>3. \A k \in 1..Len(known) : known[k] # r /\ Live(known[k])
    <3>1. ~Live(r)
          BY <1>3, <1>4 DEF Live
    <3> QED BY <3>1 DEF EnumInv, KnownInv
  <2>4. \A k \in 1..Len(known') : dev'[known'[k]] # NoDev
    <3> SUFFICES ASSUME NEW k \in 1..Len(known') PROVE dev'[known'[k]] # NoDev
        OBVIOUS
    <3>1. CASE k = 1
          BY <1>7, <1>10, <2>2, <3>1
    <3>2. CASE k # 1
      <4>1. k - 1 \in 1..Len(known) /\ known'[k] = known[k - 1]
            BY <2>1, <2>2, <3>2
      <4>2. PICK x \in Slot : x = known[k - 1]
            BY <2>1, <4>1
      <4>3. x # r /\ Live(x)
            BY <2>3, <4>1, <4>2
      <4> QED BY <1>10, <4>1, <4>2, <4>3 DEF Live
    <3> QED BY <3>1, <3>2
  <2>5. \A k, l \in 1..Len(known') : known'[k] = known'[l] => k = l
    <3> SUFFICES ASSUME NEW k \in 1..Len(known'), NEW l \in 1..Len(known'),
                        known'[k] = known'[l]
                 PROVE  k = l
        OBVIOUS
    <3>1. \A m \in 1..Len(known') : m # 1 => m - 1 \in 1..Len(known) /\ known'[m] = known[m - 1]
          BY <2>1, <2>2
    <3>2. known'[1] = r
          BY <2>1, <2>2
    <3>3. CASE k = 1 \/ l = 1
      <4>1. \A m \in 1..Len(known') : m # 1 => known'[m] # r
        <5> SUFFICES ASSUME NEW m \in 1..Len(known'), m # 1 PROVE known'[m] # r
            OBVIOUS
        <5>1. PICK j \in 1..Len(known) : known'[m] = known[j]
              BY <3>1
        <5> QED BY <2>3, <5>1
      <4> QED BY <3>2, <3>3, <4>1
    <3>4. CASE k # 1 /\ l # 1
      <4>1. k - 1 = l - 1
            BY <3>1, <3>4 DEF EnumInv, KnownInv
      <4> QED BY <2>1, <2>2, <4>1
    <3> QED BY <3>3, <3>4
  <2> QED BY <2>4, <2>5 DEF KnownInv, Live
<1> QED BY <1>13, <1>19, <1>21, <1>22, <1>23, <1>24, <1>25 DEF EnumInv

\* libusb_unref_device
LEMMA DropRefStep ==
    ASSUME EnumAssumption, EnumInv, NEW t \in Thread, DropRef(t)
    PROVE  EnumInv'
<1>1. /\ work[t] # <<>> /\ work[t] \in Seq(Chore) /\ Head(work[t]).do = "unref"
      /\ UNCHANGED <<system, bus, changes, lists, known, hashed, job, found, unrefs, list>>
      BY JobType DEF DropRef, EnumInv
<1>2. Head(work[t]) \in Chore /\ Tail(work[t]) \in Seq(Chore)
      BY <1>1
<1>3. PICK s \in Slot : s = Head(work[t]).s /\ Head(work[t]) = Unref(s)
      BY <1>1, <1>2 DEF Chore, Unref
<1>4. \A y : Count(work[t], y) = Count(Tail(work[t]), y) + One(Unref(s) = y)
      BY <1>1, <1>3, CountTail DEF One
<1>5. HeldBy(t, s) > 0
  <2>1. Count(Tail(work[t]), Unref(s)) \in Nat
        BY <1>2, CountType
  <2>2. Count(work[t], Unref(s)) > 0
        BY <1>4, <2>1 DEF One
  <2> QED BY <2>2, Held DEF EnumInv
<1>6. dev[s].refs > 0 /\ Live(s) /\ dev[s].refs \in Nat
      BY <1>5, HeldIsCounted, DevType DEF EnumInv
<1>7. dev' = [dev EXCEPT ![s].refs = IF @ = 0 THEN 0 ELSE @ - 1]
      BY <1>3 DEF DropRef
<1>8. PICK e \in DevRec : e = dev[s]
      BY DevType DEF EnumInv
<1>9. PICK n \in Nat : n = e.refs - 1
      BY <1>6, <1>8
<1>10. /\ dev' = [dev EXCEPT ![s] = [e EXCEPT !.refs = n]] /\ [e EXCEPT !.refs = n] \in DevRec
       /\ [e EXCEPT !.refs = n].refs = n /\ [e EXCEPT !.refs = n].node = e.node
       /\ [e EXCEPT !.refs = n].parent = e.parent
  <2>1. [e EXCEPT !.refs = n] \in DevRec
        BY DEF DevRec
  <2>2. e.refs # 0
        BY <1>6, <1>8
  <2>3. dev' = [dev EXCEPT ![s] = [e EXCEPT !.refs = n]]
        BY <1>7, <1>8, <1>9, <2>2 DEF EnumInv, EnumTypes
  <2> QED BY <2>1, <2>3 DEF DevRec
<1>11. /\ dev' \in [Slot -> DevRec] /\ \A x \in Slot \ {s} : dev'[x] = dev[x]
       /\ dev'[s].refs = n /\ dev'[s].node = dev[s].node /\ dev'[s].parent = dev[s].parent
       BY <1>8, <1>10 DEF EnumInv, EnumTypes
<1> DEFINE p == dev[s].parent
           first == IF p # 0 THEN <<Unref(p)>> ELSE <<>>
           all == IF n = 0 THEN Destruction(s) ELSE <<>>
<1>12. p \in 0..MaxSlots /\ MaxSlots \in Nat
       BY DevType DEF EnumInv, EnumAssumption
<1>13. all \in Seq(Chore) /\ work' = [work EXCEPT ![t] = all \o Tail(@)]
  <2>1. work' = [work EXCEPT ![t] = (IF dev[s].refs = 1 THEN Destruction(s) ELSE <<>>)
                                    \o Tail(@)]
        BY <1>3 DEF DropRef
  <2>2. dev[s].refs = 1 <=> n = 0
        BY <1>6, <1>8, <1>9
  <2>3. p # 0 => p \in Slot
        BY <1>12 DEF Slot
  <2>4. <<Removal(s)>> \in Seq(Chore) /\ first \in Seq(Chore)
        BY <2>3, ChoreTypes
  <2>5. Destruction(s) = first \o <<Removal(s)>>
        BY DEF Destruction
  <2> HIDE DEF first
  <2>6. Destruction(s) \in Seq(Chore)
        BY <2>4, <2>5
  <2>7. all \in Seq(Chore)
        BY <2>6
  <2>8. all = IF dev[s].refs = 1 THEN Destruction(s) ELSE <<>>
        BY <2>2
  <2> HIDE DEF all
  <2> QED BY <2>1, <2>7, <2>8, SMTT(30)
<1>14. /\ work'[t] = all \o Tail(work[t]) /\ \A u \in Thread \ {t} : work'[u] = work[u]
       /\ work' \in [Thread -> Seq(Chore)]
  <2>1. all \o Tail(work[t]) \in Seq(Chore)
        BY <1>2, <1>13
  <2> HIDE DEF all
  <2> QED BY <1>13, <2>1 DEF EnumInv, EnumTypes
\* What is put on the list of chores
<1>15. \A x \in Slot : /\ Count(all, Unref(x)) = One(n = 0 /\ p = x)
                       /\ Count(all, Removal(x)) = One(n = 0 /\ s = x)
  <2> SUFFICES ASSUME NEW x \in Slot
               PROVE  /\ Count(all, Unref(x)) = One(n = 0 /\ p = x)
                      /\ Count(all, Removal(x)) = One(n = 0 /\ s = x)
      OBVIOUS
  <2>1. CASE n # 0
        BY <2>1, CountOfNone DEF One
  <2>2. CASE n = 0
    <3>1. <<Removal(s)>> \in Seq(Chore)
          BY ChoreTypes
    <3>2. /\ Unref(x) # Removal(s) /\ (Removal(s) = Removal(x) <=> s = x)
          BY ChoreTypes
    <3>3. CASE p = 0
      <4>1. all = <<>> \o <<Removal(s)>>
            BY <2>2, <3>3 DEF Destruction
      <4>2. all = <<Removal(s)>>
            BY <4>1
      <4>3. x # p
            BY <3>3 DEF Slot
      <4> HIDE DEF all, p
      <4> QED BY <2>2, <3>2, <4>2, <4>3, CountOfOne DEF One
    <3>4. CASE p # 0
      <4>1. p \in Slot
            BY <1>12, <3>4 DEF Slot
      <4>2. PICK q \in Slot : q = p
            BY <4>1
      <4>3. all = <<Unref(q)>> \o <<Removal(s)>>
            BY <2>2, <3>4, <4>2 DEF Destruction
      <4>4. /\ <<Unref(q)>> \in Seq(Chore) /\ Unref(q) # Removal(x)
            /\ (Unref(q) = Unref(x) <=> q = x)
            BY ChoreTypes
      <4> HIDE DEF all, p
      <4>5. \A y : Count(all, y) = Count(<<Unref(q)>>, y) + Count(<<Removal(s)>>, y)
        <5> SUFFICES ASSUME NEW y
                     PROVE  Count(all, y) = Count(<<Unref(q)>>, y) + Count(<<Removal(s)>>, y)
            OBVIOUS
        <5>1. PICK a \in Seq(Chore), b \in Seq(Chore) : a = <<Unref(q)>> /\ b = <<Removal(s)>>
              BY <3>1, <4>4
        <5>2. Count(a \o b, y) = Count(a, y) + Count(b, y)
              BY CountConcat
        <5> QED BY <4>3, <5>1, <5>2
      <4> QED BY <2>2, <3>2, <4>2, <4>4, <4>5, CountOfOne DEF One
    <3> QED BY <3>3, <3>4
  <2> QED BY <2>1, <2>2
<1>16. \A y : Count(work'[t], y) = Count(all, y) + Count(Tail(work[t]), y)
  <2> SUFFICES ASSUME NEW y
               PROVE  Count(work'[t], y) = Count(all, y) + Count(Tail(work[t]), y)
      OBVIOUS
  <2> HIDE DEF all
  <2>1. PICK a \in Seq(Chore), b \in Seq(Chore) : a = all /\ b = Tail(work[t])
        BY <1>2, <1>13
  <2>2. Count(a \o b, y) = Count(a, y) + Count(b, y)
        BY CountConcat
  <2> QED BY <1>14, <2>1, <2>2
<1>17. EnumTypes'
  <2> HIDE DEF all, first, p
  <2> QED BY <1>1, <1>11, <1>14 DEF EnumInv, EnumTypes
<1>18. Alone(t)
       BY <1>1, <1>14 DEF Alone
<1>19. JobInv'
  <2>1. JobAt(t)'
        BY <1>1 DEF EnumInv, JobInv, JobAt, Win
  <2> QED BY <1>18, <2>1, JobsStep DEF EnumInv
<1>20. \A x \in Slot : HubAt(x)' <=> HubAt(x)
       BY <1>1, <1>11 DEF HubAt, Win
<1>21. HubInv'
  <2>1. ASSUME NEW u \in Thread, job'[u].par # 0 PROVE HubAt(job[u].par)'
    <3>1. PICK q \in Slot : q = job'[u].par /\ HubAt(q)
      <4>1. job[u].par \in 0..MaxSlots
            BY JobType DEF EnumInv
      <4> QED BY <1>1, <1>12, <2>1, <4>1 DEF EnumInv, HubInv, Slot
    <3> QED BY <1>20, <3>1
  <2>2. ASSUME NEW c \in Slot, dev'[c].parent # 0, dev'[c].refs > 0
        PROVE  HubAt(dev[c].parent)'
    <3>1. dev'[c].parent = dev[c].parent /\ dev[c].refs > 0
          BY <1>6, <1>11, <2>2
    <3>2. PICK q \in Slot : q = dev'[c].parent /\ HubAt(q)
      <4>1. dev[c].parent \in 0..MaxSlots
            BY DevType DEF EnumInv
      <4> QED BY <1>12, <2>2, <3>1, <4>1 DEF EnumInv, HubInv, Slot
    <3> QED BY <1>20, <3>2
  <2> QED BY <2>1, <2>2 DEF HubInv
<1>22. BalanceInv'
  <2> SUFFICES ASSUME NEW x \in Slot PROVE Balanced(x)'
      BY DEF BalanceInv
  <2>1. HeldBy(t, x)' + One(x = s) = HeldBy(t, x) + One(n = 0 /\ p = x)
    <3>1. /\ Count(found[t], x) \in Nat /\ Count(unrefs[t], x) \in Nat
          /\ Count(list[t], x) \in Nat
          BY HeldType DEF EnumInv
    <3>2. Count(Tail(work[t]), Unref(x)) \in Nat
          BY <1>2, CountType
    <3>3. Unref(s) = Unref(x) <=> x = s
          BY ChoreTypes
    <3>4. Count(work[t], Unref(x)) = Count(Tail(work[t]), Unref(x)) + One(x = s)
          BY <1>4, <3>3 DEF One
    <3>5. Count(work'[t], Unref(x)) = One(n = 0 /\ p = x) + Count(Tail(work[t]), Unref(x))
          BY <1>15, <1>16
    <3>6. One(n = 0 /\ p = x) \in Nat /\ One(x = s) \in Nat
          BY DEF One
    <3> HIDE DEF all, first, p
    <3>7. PICK a \in Nat, b \in Nat, c \in Nat, d \in Nat, g \in Nat, m \in Nat :
              /\ a = Count(found[t], x) /\ b = Count(unrefs[t], x) /\ c = Count(list[t], x)
              /\ d = Count(Tail(work[t]), Unref(x)) /\ g = One(n = 0 /\ p = x)
              /\ m = One(x = s)
          BY <3>1, <3>2, <3>6
    <3>8. PICK k \in Nat, l \in Nat :
              /\ k = One(job[t].dev = x /\ system # "winusb") /\ l = One(job[t].par = x)
          BY DEF One
    <3>9. HeldBy(t, x) = a + b + c + (d + m) + k + l
          BY <3>4, <3>7, <3>8 DEF HeldBy, One
    <3>10. HeldBy(t, x)' = a + b + c + (g + d) + k + l
           BY <1>1, <3>5, <3>7, <3>8 DEF HeldBy, One
    <3> QED BY <3>7, <3>8, <3>9, <3>10
  <2>2. Cardinality(Children(x)') + One(n = 0 /\ p = x) = Cardinality(Children(x))
    <3>1. \A c \in Slot \ {s} : dev'[c] = dev[c]
          BY <1>11
    <3>2. CASE n = 0 /\ p = x
      <4>1. s \in Children(x) /\ Children(x)' = Children(x) \ {s}
            BY <1>6, <1>11, <3>2 DEF Children
      <4>2. /\ IsFiniteSet(Children(x)) /\ Cardinality(Children(x)) \in Nat
            BY ChildrenType
      <4>3. Cardinality(Children(x)') = Cardinality(Children(x)) - 1
        <5>1. PICK K : K = Children(x)
              OBVIOUS
        <5>2. Cardinality(K \ {s}) = Cardinality(K) - 1
              BY <4>1, <4>2, <5>1, FS_RemoveElement
        <5> QED BY <4>1, <5>1, <5>2
      <4> QED BY <3>2, <4>2, <4>3 DEF One
    <3>3. CASE ~(n = 0 /\ p = x)
      <4>1. \A c \in Slot : (dev'[c].parent = x /\ dev'[c].refs > 0)
                            <=> (dev[c].parent = x /\ dev[c].refs > 0)
        <5> SUFFICES ASSUME NEW c \in Slot
                     PROVE  (dev'[c].parent = x /\ dev'[c].refs > 0)
                            <=> (dev[c].parent = x /\ dev[c].refs > 0)
            OBVIOUS
        <5>1. CASE c # s
              BY <3>1, <5>1
        <5>2. CASE c = s
          <6>1. dev'[c].parent = p /\ dev'[c].refs = n /\ dev[c].refs > 0
                BY <1>6, <1>11, <5>2
          <6>2. CASE p # x
                BY <5>2, <6>1, <6>2
          <6>3. CASE n # 0
            <7>1. n > 0
                  BY <6>3
            <7> QED BY <5>2, <6>1, <7>1
          <6> QED BY <3>3, <6>2, <6>3
        <5> QED BY <5>1, <5>2
      <4>2. Children(x)' = Children(x)
            BY <4>1 DEF Children
      <4> QED BY <3>3, <4>2, ChildrenType DEF One
    <3> QED BY <3>2, <3>3
  <2>3. dev'[x].refs + One(x = s) = dev[x].refs /\ dev[x].refs \in Nat /\ dev'[x].refs \in Nat
    <3>1. CASE x = s
          BY <1>6, <1>8, <1>9, <1>11, <3>1 DEF One
    <3>2. CASE x # s
          BY <1>11, <3>2, DevType DEF One, EnumInv
    <3> QED BY <3>1, <3>2
  <2>4. HubAt(x)' <=> HubAt(x)
        BY <1>20
  <2>5. /\ HeldBy(t, x) \in Nat /\ HeldBy(t, x)' \in Nat
        /\ Cardinality(Children(x)) \in Nat /\ Cardinality(Children(x)') \in Nat
        BY <1>17, HeldType, NextTypes, ChildrenType DEF EnumInv
  <2>6. One(n = 0 /\ p = x) \in Nat /\ One(x = s) \in Nat
        BY DEF One
  <2>7. Settled(t, x)
    <3> HIDE DEF all, first, p
    <3> QED BY <2>1, <2>2, <2>3, <2>4, <2>5, <2>6 DEF Settled
  <2>8. Balanced(x)
        BY DEF EnumInv, BalanceInv
  <2> QED BY <1>17, <1>18, <2>7, <2>8, BalanceStep DEF EnumInv
<1>23. DoomInv'
  <2> SUFFICES ASSUME NEW x \in Slot PROVE Removals(x)' = IF Doomed(x)' THEN 1 ELSE 0
      BY DEF DoomInv
  <2>1. Removals(x)' = Removals(x) + One(n = 0 /\ s = x)
    <3>1. /\ Removals(x)' + Count(work[t], Removal(x))
             = Removals(x) + Count(work'[t], Removal(x))
          /\ Removals(x)' \in Nat
          BY <1>17, <1>18, RemovalsStep DEF EnumInv
    <3>2. Count(work[t], Removal(x)) = Count(Tail(work[t]), Removal(x))
      <4>1. Unref(s) # Removal(x) /\ Count(Tail(work[t]), Removal(x)) \in Nat
            BY <1>2, ChoreTypes, CountType
      <4> QED BY <1>4, <4>1 DEF One
    <3>3. Count(work'[t], Removal(x)) = One(n = 0 /\ s = x) + Count(Tail(work[t]), Removal(x))
          BY <1>15, <1>16
    <3>4. /\ Count(Tail(work[t]), Removal(x)) \in Nat /\ Removals(x) \in Nat
          /\ One(n = 0 /\ s = x) \in Nat
          BY <1>2, CountType, HoldersType DEF EnumInv, One
    <3> QED BY <3>1, <3>2, <3>3, <3>4
  <2>2. CASE x = s
    <3>1. Removals(s) = 0
          BY <1>6 DEF EnumInv, DoomInv, Doomed
    <3>2. Live(s)'
      <4>1. dev'[s].node \in Node /\ NoDev.node \notin Node
            BY <1>6, <1>11, EnumAssumption DEF EnumInv, LiveInv, NoDev, NoNode,
               EnumAssumption
      <4> QED BY <4>1 DEF Live
    <3>3. Doomed(s)' <=> n = 0
          BY <1>11, <3>2 DEF Doomed
    <3> QED BY <2>1, <2>2, <3>1, <3>3 DEF One
  <2>3. CASE x # s
    <3>1. Doomed(x)' <=> Doomed(x)
          BY <1>11, <2>3 DEF Doomed, Live
    <3>2. Removals(x) \in Nat /\ Removals(x)' = Removals(x)
          BY <2>1, <2>3, HoldersType DEF One, EnumInv
    <3> QED BY <3>1, <3>2 DEF EnumInv, DoomInv
  <2> QED BY <2>2, <2>3
<1>24. \A x \in Slot : Live(x)' => Live(x) /\ dev'[x].node = dev[x].node
  <2> SUFFICES ASSUME NEW x \in Slot, Live(x)' PROVE Live(x) /\ dev'[x].node = dev[x].node
      OBVIOUS
  <2>1. CASE x = s
        BY <1>6, <1>11, <2>1
  <2>2. CASE x # s
        BY <1>11, <2>2 DEF Live
  <2> QED BY <2>1, <2>2
<1>25. LiveInv'
       BY <1>24 DEF EnumInv, LiveInv
<1>26. KnownInv'
  <2>1. \A x \in Slot : Live(x) => Live(x)'
    <3> SUFFICES ASSUME NEW x \in Slot, Live(x) PROVE Live(x)'
        OBVIOUS
    <3>1. CASE x = s
      <4>1. dev'[s].node \in Node /\ NoDev.node \notin Node
            BY <1>6, <1>11, EnumAssumption DEF EnumInv, LiveInv, NoDev, NoNode,
               EnumAssumption
      <4> QED BY <3>1, <4>1 DEF Live
    <3>2. CASE x # s
          BY <1>11, <3>2 DEF Live
    <3> QED BY <3>1, <3>2
  <2>2. \A k \in 1..Len(known) : known[k] \in Slot /\ Live(known[k])
    <3>1. known \in Seq(Slot)
          BY DEF EnumInv, EnumTypes
    <3>2. \A k \in 1..Len(known) : known[k] \in Slot
          BY <3>1
    <3>3. \A k \in 1..Len(known) : Live(known[k])
          BY ZenonT(30) DEF EnumInv, KnownInv
    <3> QED BY <3>2, <3>3
  <2>3. \A k \in 1..Len(known) : dev'[known[k]] # NoDev
        BY <2>1, <2>2 DEF Live
  <2> QED BY <1>1, <2>3 DEF EnumInv, KnownInv, Live
<1> QED BY <1>17, <1>19, <1>21, <1>22, <1>23, <1>25, <1>26 DEF EnumInv

\* usbi_disconnect_device and free
LEMMA DestroyStep ==
    ASSUME EnumAssumption, EnumInv, NEW t \in Thread, Destroy(t)
    PROVE  EnumInv'
<1>1. /\ work[t] # <<>> /\ work[t] \in Seq(Chore) /\ Head(work[t]).do = "remove"
      /\ UNCHANGED <<system, bus, changes, lists, hashed, job, found, unrefs, list>>
      BY JobType DEF Destroy, EnumInv
<1>2. Head(work[t]) \in Chore /\ Tail(work[t]) \in Seq(Chore)
      BY <1>1
<1>3. PICK s \in Slot : s = Head(work[t]).s /\ Head(work[t]) = Removal(s)
      BY <1>1, <1>2 DEF Chore, Removal
<1>4. /\ known' = RemoveFirst(known, s) /\ dev' = [dev EXCEPT ![s] = NoDev]
      /\ work' = [work EXCEPT ![t] = Tail(@)]
      BY <1>3 DEF Destroy
<1>5. \A y : Count(work[t], y) = Count(Tail(work[t]), y) + One(Removal(s) = y)
      BY <1>1, <1>3, CountTail DEF One
<1>6. Count(work[t], Removal(s)) = Count(Tail(work[t]), Removal(s)) + 1
      BY <1>5 DEF One
<1>7. Doomed(s) /\ Removals(s) = 1
  <2>1. Count(work[t], Removal(s)) <= Removals(s) /\ Removals(s) \in Nat
        BY HoldersType DEF EnumInv
  <2>2. Count(Tail(work[t]), Removal(s)) \in Nat
        BY <1>2, CountType
  <2>3. Removals(s) > 0
        BY <1>6, <2>1, <2>2
  <2> QED BY <2>1, <2>3 DEF EnumInv, DoomInv
<1>8. dev[s].refs = 0 /\ Live(s)
      BY <1>7 DEF Doomed
\* Nobody refers to it.
<1>9. \A u \in Thread : ~(HeldBy(u, s) > 0) /\ Children(s) = {}
      BY <1>8, HeldIsCounted DEF EnumInv
<1>10. NoDev \in DevRec /\ NoDev.refs = 0 /\ NoDev.parent = 0 /\ NoDev.node = NoNode
  <2>1. 0 \in 0..MaxSlots
        BY DEF EnumAssumption
  <2> QED BY <2>1 DEF NoDev, DevRec, Sessions
<1>11. /\ dev' \in [Slot -> DevRec] /\ dev'[s] = NoDev
       /\ \A x \in Slot \ {s} : dev'[x] = dev[x]
       BY <1>4, <1>10 DEF EnumInv, EnumTypes
<1>12. /\ work' \in [Thread -> Seq(Chore)] /\ work'[t] = Tail(work[t])
       /\ \A u \in Thread \ {t} : work'[u] = work[u]
       BY <1>2, <1>4 DEF EnumInv, EnumTypes
<1>13. known' \in Seq(Slot) /\ KnownInv'
  <2>1. ASSUME NEW k \in 1..Len(known), known[k] # s, Live(known[k])
        PROVE  dev'[known[k]] # NoDev
    <3>1. PICK x \in Slot : x = known[k]
          BY DEF EnumInv, EnumTypes
    <3> QED BY <1>11, <2>1, <3>1 DEF Live
  <2> QED BY <1>4, <2>1, KnownRemoved
<1>14. EnumTypes'
       BY <1>1, <1>11, <1>12, <1>13 DEF EnumInv, EnumTypes
<1>15. Alone(t)
       BY <1>1, <1>12 DEF Alone
<1>16. JobInv'
  <2>1. JobAt(t)'
        BY <1>1 DEF EnumInv, JobInv, JobAt, Win
  <2> QED BY <1>15, <2>1, JobsStep DEF EnumInv
<1>17. \A x \in Slot \ {s} : HubAt(x)' <=> HubAt(x)
       BY <1>1, <1>11 DEF HubAt, Win
<1>18. HubInv'
  <2>1. ASSUME NEW u \in Thread, job'[u].par # 0 PROVE HubAt(job[u].par)'
    <3>1. PICK q \in Slot : q = job'[u].par /\ HubAt(q) /\ job[u].par = q
      <4>1. job[u].par \in 0..MaxSlots /\ MaxSlots \in Nat
            BY JobType DEF EnumInv, EnumAssumption
      <4> QED BY <1>1, <2>1, <4>1 DEF EnumInv, HubInv, Slot
    <3>2. HeldBy(u, q) > 0
          BY <3>1, Held DEF EnumInv
    <3>3. q # s
          BY <1>9, <3>2
    <3> QED BY <1>17, <3>1, <3>3
  <2>2. ASSUME NEW c \in Slot, dev'[c].parent # 0, dev'[c].refs > 0
        PROVE  HubAt(dev[c].parent)'
    <3>1. c # s /\ dev'[c] = dev[c]
          BY <1>10, <1>11, <2>2
    <3>2. PICK q \in Slot : q = dev'[c].parent /\ HubAt(q) /\ dev[c].parent = q
      <4>1. dev[c].parent \in 0..MaxSlots /\ MaxSlots \in Nat
            BY DevType DEF EnumInv, EnumAssumption
      <4> QED BY <2>2, <3>1, <4>1 DEF EnumInv, HubInv, Slot
    <3>3. c \in Children(q)
          BY <2>2, <3>1, <3>2 DEF Children
    <3>4. q # s
          BY <1>9, <3>3
    <3> QED BY <1>17, <3>2, <3>4
  <2> QED BY <2>1, <2>2 DEF HubInv
<1>19. \A x \in Slot : HeldBy(t, x)' = HeldBy(t, x)
  <2> SUFFICES ASSUME NEW x \in Slot PROVE HeldBy(t, x)' = HeldBy(t, x)
      OBVIOUS
  <2>1. Removal(s) # Unref(x) /\ Count(Tail(work[t]), Unref(x)) \in Nat
        BY <1>2, ChoreTypes, CountType
  <2>2. Count(work'[t], Unref(x)) = Count(work[t], Unref(x))
        BY <1>5, <1>12, <2>1 DEF One
  <2> QED BY <1>1, <2>2 DEF HeldBy
<1>20. \A x \in Slot : Children(x)' = Children(x)
  <2> SUFFICES ASSUME NEW x \in Slot, NEW c \in Slot
               PROVE  (dev'[c].parent = x /\ dev'[c].refs > 0)
                      <=> (dev[c].parent = x /\ dev[c].refs > 0)
      BY DEF Children
  <2>1. CASE c = s
        BY <1>8, <1>10, <1>11, <2>1
  <2>2. CASE c # s
        BY <1>11, <2>2
  <2> QED BY <2>1, <2>2
<1>21. BalanceInv'
  <2> SUFFICES ASSUME NEW x \in Slot PROVE Balanced(x)'
      BY DEF BalanceInv
  <2>1. /\ Holders(x)' + HeldBy(t, x) + Cardinality(Children(x))
           = Holders(x) + HeldBy(t, x)' + Cardinality(Children(x)')
        /\ Holders(x)' \in Nat
        BY <1>14, <1>15, HoldersStep DEF EnumInv
  <2>2. HeldBy(t, x)' = HeldBy(t, x) /\ HeldBy(t, x) \in Nat
        BY <1>19, HeldType DEF EnumInv
  <2>3. Cardinality(Children(x)') = Cardinality(Children(x)) /\ Cardinality(Children(x)) \in Nat
        BY <1>20, ChildrenType
  <2>4. Holders(x) \in Nat /\ dev[x].refs \in Nat
        BY HoldersType, DevType DEF EnumInv
  <2>5. Holders(x)' = Holders(x)
        BY <2>1, <2>2, <2>3, <2>4
  <2>6. Balanced(x)
        BY DEF EnumInv, BalanceInv
  <2>7. CASE x = s
    <3>1. Holders(x) = 0
          BY <1>8, <2>4, <2>6, <2>7 DEF Balanced
    <3>2. dev'[x].refs = 0
          BY <1>10, <1>11, <2>7
    <3> QED BY <2>5, <3>1, <3>2 DEF Balanced
  <2>8. CASE x # s
    <3>1. dev'[x].refs = dev[x].refs /\ (HubAt(x)' <=> HubAt(x))
          BY <1>11, <1>17, <2>8
    <3> QED BY <2>5, <2>6, <3>1 DEF Balanced
  <2> QED BY <2>7, <2>8
<1>22. DoomInv'
  <2> SUFFICES ASSUME NEW x \in Slot PROVE Removals(x)' = IF Doomed(x)' THEN 1 ELSE 0
      BY DEF DoomInv
  <2>1. /\ Removals(x)' + Count(work[t], Removal(x))
           = Removals(x) + Count(work'[t], Removal(x))
        /\ Removals(x)' \in Nat
        BY <1>14, <1>15, RemovalsStep DEF EnumInv
  <2>2. /\ Count(Tail(work[t]), Removal(x)) \in Nat /\ Removals(x) \in Nat
        /\ (Removal(s) = Removal(x) <=> s = x)
        BY <1>2, ChoreTypes, CountType, HoldersType DEF EnumInv
  <2>3. Removals(x)' + One(s = x) = Removals(x)
        BY <1>5, <1>12, <2>1, <2>2, SMTT(30) DEF One
  <2>4. CASE x = s
    <3>1. ~Doomed(x)'
          BY <1>11, <2>4 DEF Doomed, Live
    <3> QED BY <1>7, <2>1, <2>3, <2>4, <3>1 DEF One
  <2>5. CASE x # s
    <3>1. Doomed(x)' <=> Doomed(x)
          BY <1>11, <2>5 DEF Doomed, Live
    <3>2. Removals(x)' = Removals(x)
          BY <2>1, <2>2, <2>3, <2>5 DEF One
    <3> QED BY <3>1, <3>2 DEF EnumInv, DoomInv
  <2> QED BY <2>4, <2>5
<1>23. LiveInv'
  <2> SUFFICES ASSUME NEW x \in Slot, Live(x)' PROVE dev'[x].node \in Node
      BY DEF LiveInv
  <2>1. x # s
        BY <1>11 DEF Live
  <2> QED BY <1>11, <2>1 DEF EnumInv, LiveInv, Live
<1> QED BY <1>13, <1>14, <1>16, <1>18, <1>21, <1>22, <1>23 DEF EnumInv

\* init_device: the hub above becomes the parent, or not
LEMMA Adopts ==
    ASSUME EnumAssumption, EnumInv, NEW t \in Thread, NEW s \in Slot, Win, dev[s].refs > 0,
           dev' \in [Slot -> DevRec], \A x \in Slot \ {s} : dev'[x] = dev[x],
           dev'[s].node = dev[s].node, dev'[s].refs = dev[s].refs,
           dev'[s].parent \in {dev[s].parent, job[t].par},
           job' \in [Thread -> JobRec], \A u \in Thread \ {t} : job'[u] = job[u],
           job'[t].par = 0, JobAt(t)',
           UNCHANGED <<system, bus, changes, known, hashed, found, unrefs, work, list>>
    PROVE  EnumInv'
<1>1. EnumTypes'
      BY DEF EnumInv, EnumTypes
<1>2. Alone(t)
      BY DEF Alone
<1>3. JobInv'
      BY <1>2, JobsStep DEF EnumInv
<1>4. \A x \in Slot : /\ dev'[x].node = dev[x].node /\ dev'[x].refs = dev[x].refs
                      /\ (HubAt(x)' <=> HubAt(x)) /\ dev[x].refs \in Nat
  <2> SUFFICES ASSUME NEW x \in Slot
               PROVE  /\ dev'[x].node = dev[x].node /\ dev'[x].refs = dev[x].refs
                      /\ (HubAt(x)' <=> HubAt(x)) /\ dev[x].refs \in Nat
      OBVIOUS
  <2>1. dev'[x].node = dev[x].node /\ dev'[x].refs = dev[x].refs
    <3>1. CASE x = s
          BY <3>1
    <3>2. CASE x # s
          BY <3>2
    <3> QED BY <3>1, <3>2
  <2> QED BY <2>1, DevType DEF HubAt, Win, EnumInv
<1>5. \A x \in Slot : Live(x)' <=> Live(x)
  <2> SUFFICES ASSUME NEW x \in Slot PROVE Live(x)' <=> Live(x)
      OBVIOUS
  <2>1. CASE x = s
    <3>1. dev'[s].refs # 0 /\ dev[s].refs # 0
          BY <1>4
    <3> QED BY <2>1, <3>1 DEF Live, NoDev
  <2>2. CASE x # s
        BY <2>2 DEF Live
  <2> QED BY <2>1, <2>2
<1>6. MaxSlots \in Nat
      BY DEF EnumAssumption
<1>7. HubInv'
  <2>1. ASSUME NEW u \in Thread, job'[u].par # 0 PROVE HubAt(job[u].par)'
    <3>1. PICK q \in Slot : q = job'[u].par /\ HubAt(q)
      <4>1. u # t /\ job'[u].par = job[u].par /\ job[u].par \in 0..MaxSlots
            BY <2>1, JobType DEF EnumInv
      <4> QED BY <1>6, <2>1, <4>1 DEF EnumInv, HubInv, Slot
    <3> QED BY <1>4, <3>1
  <2>2. ASSUME NEW c \in Slot, dev'[c].parent # 0, dev'[c].refs > 0
        PROVE  HubAt(dev[c].parent)'
    <3>1. PICK q \in Slot : q = dev'[c].parent /\ HubAt(q)
      <4>1. dev[c].refs > 0 /\ job[t].par \in 0..MaxSlots /\ dev[c].parent \in 0..MaxSlots
            BY <1>4, <2>2, JobType, DevType DEF EnumInv
      <4>2. CASE dev'[c].parent = dev[c].parent
            BY <1>6, <2>2, <4>1, <4>2 DEF EnumInv, HubInv, Slot
      <4>3. CASE dev'[c].parent = job[t].par
            BY <1>6, <2>2, <4>1, <4>3 DEF EnumInv, HubInv, Slot
      <4>4. dev'[c].parent \in {dev[c].parent, job[t].par}
        <5>1. CASE c = s
              BY <5>1
        <5>2. CASE c # s
              BY <5>2
        <5> QED BY <5>1, <5>2
      <4> QED BY <4>2, <4>3, <4>4
    <3> QED BY <1>4, <3>1
  <2> QED BY <2>1, <2>2 DEF HubInv
<1>8. BalanceInv'
  <2> SUFFICES ASSUME NEW x \in Slot PROVE Balanced(x)'
      BY DEF BalanceInv
  <2>1. HeldBy(t, x) = HeldBy(t, x)' + One(job[t].par = x)
    <3>1. /\ Count(found[t], x) \in Nat /\ Count(unrefs[t], x) \in Nat
          /\ Count(list[t], x) \in Nat /\ Count(work[t], Unref(x)) \in Nat
          BY HeldType DEF EnumInv
    <3>2. x # 0 /\ job'[t].par # x
          BY DEF Slot
    <3> QED BY <3>1, <3>2 DEF HeldBy, Win, One
  <2>2. /\ IsFiniteSet(Children(x)) /\ Cardinality(Children(x)) \in Nat
        /\ Cardinality(Children(x)') \in Nat
        BY <1>1, ChildrenType, NextTypes
  <2>3. \A c \in Slot \ {s} : c \in Children(x)' <=> c \in Children(x)
        BY DEF Children
  <2>4. s \in Children(x)' => s \in Children(x) \/ job[t].par = x
        BY DEF Children
  <2>5. CASE HubAt(x)
    <3>1. Children(x)' \subseteq Children(x) \cup (IF job[t].par = x THEN {s} ELSE {})
          BY <2>3, <2>4 DEF Children
    <3>2. Cardinality(Children(x)') <= Cardinality(Children(x)) + One(job[t].par = x)
      <4>1. CASE job[t].par = x
        <5> DEFINE C == Children(x)
        <5>0. IsFiniteSet(C) /\ Cardinality(C) \in Nat
              BY <2>2
        <5> HIDE DEF C
        <5>a. /\ IsFiniteSet(C \cup {s})
              /\ Cardinality(C \cup {s}) = IF s \in C THEN Cardinality(C) ELSE Cardinality(C) + 1
              BY <5>0, FS_AddElement
        <5>b. Cardinality(C \cup {s}) <= Cardinality(C) + 1 /\ Cardinality(C \cup {s}) \in Nat
              BY <5>0, <5>a
        <5>1. /\ IsFiniteSet(Children(x) \cup {s})
              /\ Cardinality(Children(x) \cup {s}) <= Cardinality(Children(x)) + 1
              /\ Cardinality(Children(x) \cup {s}) \in Nat
              BY <5>a, <5>b DEF C
        <5>2. Cardinality(Children(x)') <= Cardinality(Children(x) \cup {s})
              BY <3>1, <4>1, <5>1, FS_Subset
        <5> QED BY <2>2, <4>1, <5>1, <5>2 DEF One
      <4>2. CASE job[t].par # x
        <5>1. Children(x)' \subseteq Children(x)
              BY <3>1, <4>2
        <5>2. Cardinality(Children(x)') <= Cardinality(Children(x))
              BY <2>2, <5>1, FS_Subset
        <5> QED BY <2>2, <4>2, <5>2 DEF One
      <4> QED BY <4>1, <4>2
    <3>3. /\ dev'[x].refs = dev[x].refs /\ (HubAt(x)' <=> HubAt(x)) /\ dev[x].refs \in Nat
          /\ HeldBy(t, x)' \in Nat /\ One(job[t].par = x) \in Nat
          BY <1>1, <1>4, NextTypes DEF One
    <3>4. Settled(t, x)
          BY <2>1, <2>2, <2>5, <3>2, <3>3 DEF Settled
    <3> QED BY <1>1, <1>2, <3>4, BalanceStep DEF EnumInv, BalanceInv
  <2>6. CASE ~HubAt(x)
    <3>1. job[t].par # x
          BY <2>6 DEF EnumInv, HubInv, Slot
    <3>2. s \notin Children(x)
          BY <2>6 DEF EnumInv, HubInv, Slot, Children
    <3>3. Children(x)' = Children(x)
          BY <2>3, <2>4, <3>1, <3>2 DEF Children
    <3>4. /\ dev'[x].refs = dev[x].refs /\ (HubAt(x)' <=> HubAt(x)) /\ dev[x].refs \in Nat
          /\ HeldBy(t, x)' \in Nat /\ HeldBy(t, x) = HeldBy(t, x)'
          BY <1>1, <1>4, <2>1, <3>1, NextTypes DEF One
    <3>5. Settled(t, x)
          BY <2>2, <2>6, <3>3, <3>4 DEF Settled
    <3> QED BY <1>1, <1>2, <3>5, BalanceStep DEF EnumInv, BalanceInv
  <2> QED BY <2>5, <2>6
<1>9. DoomInv'
  <2> SUFFICES ASSUME NEW x \in Slot PROVE Removals(x)' = IF Doomed(x)' THEN 1 ELSE 0
      BY DEF DoomInv
  <2>1. Removals(x)' = Removals(x)
    <3>1. /\ Removals(x)' + Count(work[t], Removal(x))
             = Removals(x) + Count(work'[t], Removal(x))
          /\ Removals(x)' \in Nat
          BY <1>1, <1>2, RemovalsStep DEF EnumInv
    <3>2. Count(work[t], Removal(x)) \in Nat /\ Removals(x) \in Nat
          BY HeldType, HoldersType DEF EnumInv
    <3> QED BY <3>1, <3>2
  <2>2. Doomed(x)' <=> Doomed(x)
        BY <1>4, <1>5 DEF Doomed
  <2> QED BY <2>1, <2>2 DEF EnumInv, DoomInv
<1>10. LiveInv'
       BY <1>4, <1>5 DEF EnumInv, LiveInv
<1>11. KnownInv'
  <2>1. \A k \in 1..Len(known) : known[k] \in Slot /\ Live(known[k])
        BY DEF EnumInv, EnumTypes, KnownInv
  <2>2. \A k \in 1..Len(known) : dev'[known[k]] # NoDev
        BY <1>5, <2>1 DEF Live
  <2> QED BY <2>2 DEF EnumInv, KnownInv, Live
<1> QED BY <1>1, <1>3, <1>7, <1>8, <1>9, <1>10, <1>11 DEF EnumInv

\* What becomes of the device and of the job
Flags == {TRUE, FALSE}
AfterInit == {"item", "append", "failed"}
Inits(t, s, r, pc) ==
    /\ dev' = [WithParent(t) EXCEPT ![s].ready = r] \/ dev' = WithParent(t)
    /\ job' = [job EXCEPT ![t].pc = pc, ![t].par = 0]

Adopted(t, s, pc) ==
    /\ dev' \in [Slot -> DevRec] /\ \A x \in Slot \ {s} : dev'[x] = dev[x]
    /\ dev'[s].node = dev[s].node /\ dev'[s].refs = dev[s].refs
    /\ dev'[s].parent \in {dev[s].parent, job[t].par}
    /\ dev'[s].id = dev[s].id /\ dev'[s].session = dev[s].session
    /\ job' \in [Thread -> JobRec] /\ \A u \in Thread \ {t} : job'[u] = job[u]
    /\ job'[t].pc = pc /\ job'[t].par = 0 /\ job'[t].dev = job[t].dev
    /\ job'[t].pass = job[t].pass /\ job'[t].snap = job[t].snap
    /\ job'[t].node = job[t].node /\ job'[t].todo = job[t].todo

LEMMA InitIs ==
    ASSUME EnumAssumption, EnumInv, NEW t \in Thread, NEW s \in Slot, s = job[t].dev,
           NEW r \in Flags, NEW pc \in AfterInit, Inits(t, s, r, pc)
    PROVE  Adopted(t, s, pc)
<1>0. /\ dev' = [WithParent(t) EXCEPT ![s].ready = r] \/ dev' = WithParent(t)
      /\ job' = [job EXCEPT ![t].pc = pc, ![t].par = 0]
      BY DEF Inits
<1>1. PICK e \in DevRec : e = dev[s]
      BY DevType DEF EnumInv
<1>2. PICK j \in JobRec : j = job[t]
      BY JobType DEF EnumInv
<1>3. j.par \in 0..MaxSlots /\ 0 \in 0..MaxSlots
      BY DEF JobRec, EnumAssumption
<1>4. PICK f \in DevRec : /\ WithParent(t) = [dev EXCEPT ![s] = f]
                          /\ f.node = e.node /\ f.refs = e.refs /\ f.id = e.id
                          /\ f.session = e.session /\ f.parent \in {e.parent, j.par}
  <2>1. CASE dev[s].ready
    <3>1. WithParent(t) = [dev EXCEPT ![s] = e]
          BY <1>1, <2>1 DEF WithParent, EnumInv, EnumTypes
    <3> QED BY <3>1
  <2>2. CASE ~dev[s].ready
    <3>1. WithParent(t) = [dev EXCEPT ![s] = [e EXCEPT !.parent = j.par]]
          BY <1>1, <1>2, <2>2 DEF WithParent, EnumInv, EnumTypes
    <3>2. [e EXCEPT !.parent = j.par] \in DevRec
          BY <1>3 DEF DevRec
    <3> QED BY <3>1, <3>2 DEF DevRec
  <2> QED BY <2>1, <2>2
<1>5. PICK g \in DevRec : /\ dev' = [dev EXCEPT ![s] = g]
                          /\ g.node = e.node /\ g.refs = e.refs /\ g.id = e.id
                          /\ g.session = e.session /\ g.parent \in {e.parent, j.par}
  <2>1. CASE dev' = WithParent(t)
        BY <1>4, <2>1
  <2>2. CASE dev' = [WithParent(t) EXCEPT ![s].ready = r]
    <3>1. [f EXCEPT !.ready = r] \in DevRec
          BY DEF DevRec, Flags
    <3>2. dev' = [dev EXCEPT ![s] = [f EXCEPT !.ready = r]]
          BY <1>4, <2>2 DEF EnumInv, EnumTypes
    <3> QED BY <1>4, <3>1, <3>2 DEF DevRec
  <2> QED BY <1>0, <2>1, <2>2
<1>6. /\ dev' \in [Slot -> DevRec] /\ dev'[s] = g /\ \A x \in Slot \ {s} : dev'[x] = dev[x]
      BY <1>5 DEF EnumInv, EnumTypes
<1>7. [j EXCEPT !.pc = pc, !.par = 0] \in JobRec
      BY <1>3 DEF JobRec, AfterInit
<1>8. job' = [job EXCEPT ![t] = [j EXCEPT !.pc = pc, !.par = 0]]
      BY <1>0, <1>2 DEF EnumInv, EnumTypes
<1>9. /\ job' \in [Thread -> JobRec] /\ \A u \in Thread \ {t} : job'[u] = job[u]
      /\ job'[t] = [j EXCEPT !.pc = pc, !.par = 0]
  <2>1. PICK jj \in JobRec : jj = [j EXCEPT !.pc = pc, !.par = 0]
        BY <1>7
  <2>2. job' = [job EXCEPT ![t] = jj] /\ job \in [Thread -> JobRec]
        BY <1>8, <2>1 DEF EnumInv, EnumTypes
  <2>3. /\ job' \in [Thread -> JobRec] /\ \A u \in Thread \ {t} : job'[u] = job[u]
        /\ job'[t] = jj
        BY <2>2
  <2> QED BY <2>1, <2>3
<1>10. /\ job'[t].pc = pc /\ job'[t].par = 0 /\ job'[t].dev = job[t].dev
       /\ job'[t].pass = job[t].pass /\ job'[t].snap = job[t].snap
       /\ job'[t].node = job[t].node /\ job'[t].todo = job[t].todo
       BY <1>2, <1>9 DEF JobRec
<1> QED BY <1>1, <1>2, <1>5, <1>6, <1>9, <1>10 DEF Adopted

LEMMA InitDeviceIs ==
    ASSUME EnumAssumption, EnumInv, NEW t \in Thread, InitDevice(t) \/ InitDeviceFails(t)
    PROVE  /\ job[t].pc = "setup" /\ job[t].pass = "gen" /\ Win
           /\ UNCHANGED <<system, bus, changes, known, hashed, found, unrefs, work, list>>
           /\ \E s \in Slot, pc \in AfterInit :
                  s = job[t].dev /\ dev[s].refs > 0 /\ Live(s) /\ Adopted(t, s, pc)
<1>1. /\ job[t].pc = "setup" /\ job[t].pass = "gen"
      /\ UNCHANGED <<system, bus, changes, known, hashed, found, unrefs, work, list>>
      BY DEF InitDevice, InitDeviceFails, At
<1>2. Win
      BY <1>1 DEF EnumInv, JobInv, JobAt
<1>3. PICK s \in Slot : s = job[t].dev /\ dev[s].refs > 0 /\ Live(s)
      BY <1>1, JobDevIs
<1>4. PICK pc \in AfterInit, r \in Flags : Inits(t, s, r, pc)
  <2>1. CASE InitDevice(t)
    <3> DEFINE gone == ~dev[s].ready /\ job[t].par # 0 /\ Shown(bus, job[t].node) = 0
    <3>1. /\ dev' = [WithParent(t) EXCEPT ![s].ready = ~gone]
          /\ job' = [job EXCEPT ![t].pc = IF gone THEN "item" ELSE "append", ![t].par = 0]
          BY <1>3, <2>1 DEF InitDevice
    <3> HIDE DEF gone
    <3>2. CASE gone
      <4>1. (~gone) = FALSE
            BY <3>2
      <4>2. Inits(t, s, FALSE, "item")
            BY <3>1, <3>2, <4>1 DEF Inits
      <4> QED BY <4>2 DEF AfterInit, Flags
    <3>3. CASE ~gone
      <4>1. (~gone) = TRUE
            BY <3>3
      <4>2. Inits(t, s, TRUE, "append")
            BY <3>1, <3>3, <4>1 DEF Inits
      <4> QED BY <4>2 DEF AfterInit, Flags
    <3> QED BY <3>2, <3>3
  <2>2. CASE InitDeviceFails(t)
    <3>1. Inits(t, s, TRUE, "failed")
          BY <1>3, <2>2 DEF InitDeviceFails, Inits
    <3> QED BY <3>1 DEF AfterInit, Flags
  <2> QED BY <2>1, <2>2
<1>5. Adopted(t, s, pc)
      BY <1>3, <1>4, InitIs
<1> QED BY <1>1, <1>2, <1>3, <1>5

LEMMA InitDeviceStep ==
    ASSUME EnumAssumption, EnumInv, NEW t \in Thread, InitDevice(t) \/ InitDeviceFails(t)
    PROVE  EnumInv'
<1>1. /\ job[t].pc = "setup" /\ job[t].pass = "gen" /\ Win
      /\ UNCHANGED <<system, bus, changes, known, hashed, found, unrefs, work, list>>
      BY InitDeviceIs
<1>2. JobAt(t)
      BY DEF EnumInv, JobInv
<1>3. PICK s \in Slot, pc \in AfterInit :
          s = job[t].dev /\ dev[s].refs > 0 /\ Adopted(t, s, pc)
      BY InitDeviceIs
<1>4. PICK c \in {"item", "append", "failed"} : c = pc
      BY DEF AfterInit
<1>5. /\ dev' \in [Slot -> DevRec] /\ \A x \in Slot \ {s} : dev'[x] = dev[x]
      /\ dev'[s].node = dev[s].node /\ dev'[s].refs = dev[s].refs
      /\ dev'[s].parent \in {dev[s].parent, job[t].par}
      /\ job' \in [Thread -> JobRec] /\ \A u \in Thread \ {t} : job'[u] = job[u]
      /\ job'[t].pc = c /\ job'[t].par = 0 /\ job'[t].dev = job[t].dev
      /\ job'[t].pass = job[t].pass /\ job'[t].snap = job[t].snap
      /\ job'[t].node = job[t].node
      BY <1>3, <1>4 DEF Adopted
<1>6. JobAt(t)'
      BY <1>1, <1>2, <1>3, <1>5 DEF JobAt, Win
<1> QED BY <1>1, <1>3, <1>5, <1>6, Adopts

\* What is plugged in comes and goes
LEMMA NobodyMoves ==
    ASSUME EnumAssumption, EnumInv, bus' \in [Physical -> Nat], changes' \in Nat,
           UNCHANGED <<system, dev, known, hashed, job, found, unrefs, work, list>>
    PROVE  EnumInv'
<1>1. EnumTypes' /\ (Win' <=> Win) /\ \A s \in Slot : HubAt(s)' <=> HubAt(s)
      BY DEF EnumInv, EnumTypes, Win, HubAt
<1>2. JobInv'
      BY DEF EnumInv, JobInv, JobAt, Win
<1>3. HubInv'
      BY DEF EnumInv, HubInv, HubAt, Win
<1>4. BalanceInv'
  <2> SUFFICES ASSUME NEW s \in Slot PROVE Balanced(s)'
      BY DEF BalanceInv
  <2>1. \A t \in Thread : HeldBy(t, s)' = HeldBy(t, s)
        BY DEF HeldBy
  <2>2. [t \in Thread |-> HeldBy(t, s)'] = [t \in Thread |-> HeldBy(t, s)]
        BY <2>1
  <2>3. Children(s)' = Children(s)
        BY ChildrenSame
  <2>4. Holders(s)' = Holders(s)
        BY <2>2, <2>3 DEF Holders
  <2> QED BY <1>1, <2>4 DEF EnumInv, BalanceInv, Balanced
<1>5. DoomInv'
      BY DEF EnumInv, DoomInv, Removals, Doomed, Live
<1>6. LiveInv' /\ KnownInv'
      BY DEF EnumInv, LiveInv, KnownInv, Live
<1> QED BY <1>1, <1>2, <1>3, <1>4, <1>5, <1>6 DEF EnumInv

LEMMA EnumBegins ==
    ASSUME EnumAssumption, EnumInit
    PROVE  EnumInv
<1>1. /\ \A s \in Slot : dev[s] = NoDev
      /\ \A t \in Thread : /\ job[t] = NoJob /\ found[t] = <<>> /\ unrefs[t] = <<>>
                           /\ list[t] = <<>> /\ work[t] = <<>>
      /\ known = <<>>
      BY DEF EnumInit
<1>2. /\ NoDev.node = NoNode /\ NoDev.refs = 0 /\ NoDev.parent = 0
      /\ NoJob.pc = "idle" /\ NoJob.dev = 0 /\ NoJob.par = 0
      BY DEF NoDev, NoJob
<1>3. NoNode \notin Hubs /\ 0 \notin Slot
      BY DEF EnumAssumption, NoNode, Hubs, Slot
<1>4. EnumTypes
  <2>1. 0 \in 0..MaxSlots /\ {} \in SUBSET Node
        BY DEF EnumAssumption
  <2>2. NoDev \in DevRec
        BY <2>1 DEF NoDev, DevRec, Sessions
  <2>3. NoJob \in JobRec
        BY <2>1 DEF NoJob, JobRec
  <2>4. bus \in [Physical -> Nat]
        BY DEF EnumInit
  <2>5. <<>> \in Seq(Slot) /\ <<>> \in Seq(Nat) /\ <<>> \in Seq(Chore)
        OBVIOUS
  <2>6. dev \in [Slot -> DevRec] /\ job \in [Thread -> JobRec]
        BY <2>2, <2>3 DEF EnumInit
  <2> QED BY <2>4, <2>5, <2>6 DEF EnumInit, EnumTypes
<1>5. JobInv
      BY <1>1, <1>2 DEF JobInv, JobAt
<1>6. HubInv
      BY <1>1, <1>2 DEF HubInv
<1>7. \A s \in Slot : ~Live(s)
      BY <1>1 DEF Live
<1>8. ASSUME NEW s \in Slot PROVE Holders(s) = 0 /\ Removals(s) = 0
  <2>1. Children(s) = {}
        BY <1>1, <1>2, <1>3 DEF Children
  <2>2. \A t \in Thread : HeldBy(t, s) = 0 /\ Count(work[t], Removal(s)) = 0
    <3>1. ASSUME NEW t \in Thread PROVE HeldBy(t, s) = 0 /\ Count(work[t], Removal(s)) = 0
      <4>1. /\ Count(found[t], s) = 0 /\ Count(unrefs[t], s) = 0 /\ Count(list[t], s) = 0
            /\ Count(work[t], Unref(s)) = 0 /\ Count(work[t], Removal(s)) = 0
            BY <1>1, CountOfNone
      <4>2. job[t].dev # s /\ job[t].par # s
            BY <1>1, <1>2, <1>3
      <4> QED BY <4>1, <4>2 DEF HeldBy
    <3> QED BY <3>1
  <2>3. Total([t \in Thread |-> HeldBy(t, s)]) = 0
    <3> DEFINE h == [t \in Thread |-> HeldBy(t, s)]
    <3>1. h \in [Thread -> Nat] /\ \A t \in Thread : h[t] = 0
          BY <2>2
    <3> HIDE DEF h
    <3>2. Total(h) = 0
          BY <3>1, TotalPositive
    <3> QED BY <3>2 DEF h
  <2>4. Total([t \in Thread |-> Count(work[t], Removal(s))]) = 0
    <3> DEFINE h == [t \in Thread |-> Count(work[t], Removal(s))]
    <3>1. h \in [Thread -> Nat] /\ \A t \in Thread : h[t] = 0
          BY <2>2
    <3> HIDE DEF h
    <3>2. Total(h) = 0
          BY <3>1, TotalPositive
    <3> QED BY <3>2 DEF h
  <2> QED BY <2>1, <2>3, <2>4, FS_EmptySet DEF Holders, Removals
<1>9. BalanceInv /\ DoomInv /\ LiveInv /\ KnownInv
  <2>1. BalanceInv
        BY <1>1, <1>2, <1>3, <1>8 DEF BalanceInv, Balanced, HubAt
  <2>2. DoomInv /\ LiveInv
        BY <1>7, <1>8 DEF DoomInv, LiveInv, Doomed
  <2>3. KnownInv
        BY <1>1 DEF KnownInv
  <2> QED BY <2>1, <2>2, <2>3
<1> QED BY <1>4, <1>5, <1>6, <1>9 DEF EnumInv

LEMMA EnumSteps ==
    ASSUME EnumAssumption, EnumInv, "dying" \notin Faults, [EnumNext]_enumVars
    PROVE  EnumInv'
<1>1. CASE UNCHANGED enumVars
  <2>1. bus \in [Physical -> Nat] /\ changes \in Nat
        BY DEF EnumInv, EnumTypes
  <2> QED BY <1>1, <2>1, NobodyMoves DEF enumVars, threadVars
<1>2. ASSUME NEW n \in Physical, Plug(n) \/ Unplug(n) PROVE EnumInv'
  <2>1. bus' \in [Physical -> Nat] /\ changes' \in Nat
        BY <1>2, SMTT(30) DEF EnumInv, EnumTypes, Plug, Unplug
  <2> QED BY <1>2, <2>1, NobodyMoves DEF Plug, Unplug
<1>3. ASSUME NEW t \in Thread, Steps(t) PROVE EnumInv'
  <2>1. CASE DropRef(t) \/ Destroy(t) \/ FreeList(t)
        BY <2>1, DropRefStep, DestroyStep, FreeListStep
  <2>2. CASE Begin(t) \/ NextPass(t) \/ Done(t) \/ GiveUp(t)
        BY <2>2, BeginStep, NextPassStep, DoneStep
  <2>3. CASE BelowHub(t) \/ BelowNothing(t) \/ RootHub(t) \/ Owner(t)
        BY <2>3, BelowHubStep, BelowNothingStep, RootHubStep, OwnerStep
  <2>4. CASE Nothing(t) \/ Find(t) \/ Make(t) \/ MakeFails(t)
        BY <2>4, NothingStep, FindStep, MakeStep, MakeFailsStep
  <2>5. CASE SetupPath(t) \/ InitDevice(t) \/ InitDeviceFails(t)
        BY <2>5, SetupPathStep, InitDeviceStep
  <2>6. CASE ReadDescriptors(t) \/ ReadFails(t) \/ AppendDevice(t)
        BY <2>6, ReadDescriptorsStep, ReadFailsStep, AppendDeviceStep
  <2>7. CASE \E n \in Node : Item(t, n)
        BY <2>7, ItemStep
  <2> QED BY <1>3, <2>1, <2>2, <2>3, <2>4, <2>5, <2>6, <2>7 DEF Steps
<1> QED BY <1>1, <1>2, <1>3 DEF EnumNext

\* The references of the devices are where the lists, the threads and the devices below
\* have them, whatever fails and however the threads interleave, as long as nobody looks
\* a device up while it is destroyed.
THEOREM EnumInvariance ==
    ASSUME EnumAssumption, "dying" \notin Faults
    PROVE  EnumSpec => []EnumInv
<1>1. EnumInit => EnumInv
      BY EnumBegins
<1>2. EnumInv /\ [EnumNext]_enumVars => EnumInv'
      BY EnumSteps
<1> QED BY <1>1, <1>2, PTL DEF EnumSpec

----------------------------------------------------------------------------
(* No list of known devices loses one that is there, and no list moves.    *)

\* All devices are on the list of known ones, ...
AllKnown == \A s \in Slot : Live(s) => Contains(known, s)

\* ... as long as what is plugged in at a node is what libusb knows there.
Agrees(s, b) == Shown(b, dev[s].node) \in {0, dev[s].id}
Same(x, y) == x = 0 \/ y = 0 \/ x = y
IdInv ==
    Win =>
        /\ \A s \in Slot : Live(s) =>
              /\ dev[s].session = dev[s].node /\ Agrees(s, bus)
              /\ \A t \in Thread : job[t].pc # "idle" => Agrees(s, job[t].snap)
        /\ \A n \in Physical, t \in Thread : job[t].pc # "idle" =>
              /\ Same(job[t].snap[n], bus[n])
              /\ \A u \in Thread : job[u].pc # "idle" => Same(job[t].snap[n], job[u].snap[n])
        /\ \A t \in Thread : job[t].pc = "make" => Seen(t) # 0

\* A list has at most one entry for each node.
Busy == {"find", "make", "setup", "append"}
SizeAt(t) ==
    /\ job[t].todo \subseteq Physical
    /\ Len(found[t]) + Cardinality(job[t].todo) + One(job[t].pc \in Busy)
         <= Cardinality(Physical)
SizeInv == system = "netbsd" => \A t \in Thread : SizeAt(t)

TidyInv == AllKnown /\ IdInv /\ SizeInv /\ ~undefined

\* Nothing comes about that libusb does not stand: a device is looked up while it is
\* destroyed, one is taken off the list of known ones when another has its node, a list
\* moves or cannot grow.
Tidy ==
    /\ {"dying", "replaced", "append"} \cap Faults = {}
    /\ "netbsd" \in Systems => Cardinality(Physical) <= Room

\* The devices that are there were there, under the same identity.
SameIds ==
    \A s \in Slot : Live(s)' =>
        /\ Live(s)
        /\ dev'[s].node = dev[s].node /\ dev'[s].id = dev[s].id
        /\ dev'[s].session = dev[s].session

LEMMA PhysicalFinite ==
    ASSUME EnumAssumption
    PROVE  /\ IsFiniteSet(Physical) /\ Cardinality(Physical) \in Nat
           /\ \A n \in Node : (IF Kind[n] = "interface" THEN Parent[n] ELSE n) \in Physical
<1>1. Physical \subseteq Node /\ IsFiniteSet(Node)
      BY DEF Physical, EnumAssumption
<1>2. IsFiniteSet(Physical)
      BY <1>1, FS_Subset
<1>3. \A n \in Node : (IF Kind[n] = "interface" THEN Parent[n] ELSE n) \in Physical
      BY TreeIs DEF Physical
<1> QED BY <1>2, <1>3, FS_CardinalityType

LEMMA TodoFinite ==
    ASSUME EnumAssumption, EnumTypes, NEW t \in Thread
    PROVE  /\ IsFiniteSet(job[t].todo) /\ Cardinality(job[t].todo) \in Nat
           /\ Len(found[t]) \in Nat
<1>1. job[t].todo \subseteq Node /\ found[t] \in Seq(Slot)
      BY JobType
<1>2. IsFiniteSet(Node)
      BY DEF EnumAssumption
<1>3. IsFiniteSet(job[t].todo)
      BY <1>1, <1>2, FS_Subset
<1> QED BY <1>1, <1>3, FS_CardinalityType

LEMMA KnownKept ==
    ASSUME AllKnown, SameIds, known' = known PROVE AllKnown'
BY DEF AllKnown, SameIds

LEMMA IdsKept ==
    ASSUME dev' = dev PROVE SameIds
BY DEF SameIds, Live

\* One thread takes a step, none of those that make a device or begin a list
LEMMA TidyStep ==
    ASSUME EnumAssumption, EnumInv, TidyInv, NEW t \in Thread, UNCHANGED <<system, bus>>,
           \A u \in Thread \ {t} : job'[u] = job[u] /\ found'[u] = found[u],
           SameIds, AllKnown', ~undefined',
           job'[t].pc # "idle" => job[t].pc # "idle" /\ job'[t].snap = job[t].snap,
           Win /\ job'[t].pc = "make" => Seen(t)' # 0,
           system = "netbsd" => SizeAt(t)'
    PROVE  TidyInv'
<1>1. ASSUME Win PROVE IdInv'
  <2>1. \A u \in Thread : job'[u].pc # "idle" =>
            job[u].pc # "idle" /\ job'[u].snap = job[u].snap
        OBVIOUS
  <2>2. \A s \in Slot : Live(s)' =>
            /\ dev'[s].session = dev'[s].node /\ Agrees(s, bus)'
            /\ \A u \in Thread : job'[u].pc # "idle" => Agrees(s, job[u].snap)'
    <3> SUFFICES ASSUME NEW s \in Slot, Live(s)'
                 PROVE  /\ dev'[s].session = dev'[s].node /\ Agrees(s, bus)'
                        /\ \A u \in Thread : job'[u].pc # "idle" => Agrees(s, job[u].snap)'
        OBVIOUS
    <3>1. /\ Live(s) /\ dev'[s].node = dev[s].node /\ dev'[s].id = dev[s].id
          /\ dev'[s].session = dev[s].session
          BY DEF SameIds
    <3>2. /\ dev[s].session = dev[s].node /\ Agrees(s, bus)
          /\ \A u \in Thread : job[u].pc # "idle" => Agrees(s, job[u].snap)
          BY <1>1, <3>1 DEF TidyInv, IdInv
    <3>3. Agrees(s, bus)'
          BY <3>1, <3>2 DEF Agrees
    <3>4. ASSUME NEW u \in Thread, job'[u].pc # "idle" PROVE Agrees(s, job[u].snap)'
      <4>1. Agrees(s, job[u].snap) /\ job'[u].snap = job[u].snap
            BY <2>1, <3>2, <3>4
      <4> QED BY <3>1, <4>1 DEF Agrees
    <3> QED BY <3>1, <3>2, <3>3, <3>4
  <2>3. \A n \in Physical, v \in Thread : job'[v].pc # "idle" =>
            /\ Same(job'[v].snap[n], bus[n])
            /\ \A u \in Thread : job'[u].pc # "idle" => Same(job'[v].snap[n], job'[u].snap[n])
        BY <1>1, <2>1 DEF TidyInv, IdInv
  <2>4. ASSUME NEW u \in Thread, job'[u].pc = "make" PROVE Seen(u)' # 0
    <3>1. CASE u = t
          BY <1>1, <2>4, <3>1
    <3>2. CASE u # t
      <4>1. Seen(u)' = Seen(u)
            BY <3>2 DEF Seen
      <4> QED BY <1>1, <2>4, <3>2, <4>1 DEF TidyInv, IdInv
    <3> QED BY <3>1, <3>2
  <2> QED BY <2>2, <2>3, <2>4 DEF IdInv
<1>2. ASSUME ~Win PROVE IdInv'
      BY <1>2 DEF IdInv, Win
<1>3. SizeInv'
  <2> SUFFICES ASSUME system = "netbsd", NEW u \in Thread PROVE SizeAt(u)'
      BY DEF SizeInv
  <2>1. u # t => SizeAt(u)'
        BY DEF TidyInv, SizeInv, SizeAt
  <2> QED BY <2>1
<1> QED BY <1>1, <1>2, <1>3 DEF TidyInv

LEMMA SizeKept ==
    ASSUME EnumAssumption, EnumInv, TidyInv, NEW t \in Thread,
           job'[t].todo = job[t].todo, found'[t] = found[t],
           job'[t].pc \in Busy => job[t].pc \in Busy
    PROVE  system = "netbsd" => SizeAt(t)'
<1>1. Cardinality(job[t].todo) \in Nat /\ Len(found[t]) \in Nat /\ Cardinality(Physical) \in Nat
      BY TodoFinite, PhysicalFinite DEF EnumInv
<1>2. One(job'[t].pc \in Busy) <= One(job[t].pc \in Busy) /\ One(job'[t].pc \in Busy) \in Nat
      /\ One(job[t].pc \in Busy) \in Nat
      BY DEF One
<1> QED BY <1>1, <1>2, SMTT(30) DEF TidyInv, SizeInv, SizeAt

\* ... within an entry
LEMMA TidyMove ==
    ASSUME EnumAssumption, EnumInv, TidyInv, NEW t \in Thread, UNCHANGED <<system, bus, found>>,
           \A u \in Thread \ {t} : job'[u] = job[u],
           job'[t].snap = job[t].snap, job'[t].node = job[t].node, job'[t].todo = job[t].todo,
           job[t].pc # "idle", Win \/ (job'[t].pc \in Busy => job[t].pc \in Busy),
           Win /\ job'[t].pc = "make" => Seen(t) # 0,
           SameIds, AllKnown', ~undefined'
    PROVE  TidyInv'
<1>1. Seen(t)' = Seen(t)
      BY DEF Seen
<1>2. system = "netbsd" => SizeAt(t)'
      BY SizeKept DEF Win
<1> QED BY <1>1, <1>2, TidyStep

\* ... of those that only say where to go on
LEMMA TidyGoes ==
    ASSUME EnumAssumption, EnumInv, TidyInv, NEW t \in Thread, UNCHANGED <<system, bus, found>>,
           NEW pc \in {"item", "append", "failed"}, Goes(t, pc),
           job[t].pc # "idle", pc = "append" => job[t].pc \in Busy,
           SameIds, AllKnown', ~undefined'
    PROVE  TidyInv'
<1>1. /\ job' \in [Thread -> JobRec] /\ \A u \in Thread \ {t} : job'[u] = job[u]
      /\ job'[t].pc = pc /\ job'[t].node = job[t].node
      /\ job'[t].snap = job[t].snap /\ job'[t].todo = job[t].todo
  <2>1. CASE pc = "item"
        BY <2>1, GoesType
  <2>2. CASE pc = "append"
        BY <2>2, GoesType
  <2>3. CASE pc = "failed"
        BY <2>3, GoesType
  <2> QED BY <2>1, <2>2, <2>3
<1>2. job'[t].pc \in Busy => job[t].pc \in Busy
      BY <1>1 DEF Busy
<1> QED BY <1>1, <1>2, TidyMove

LEMMA TouchKeepsIds ==
    ASSUME NEW r \in Slot, Live(r), \A s \in Slot \ {r} : dev'[s] = dev[s],
           dev'[r].node = dev[r].node, dev'[r].id = dev[r].id,
           dev'[r].session = dev[r].session
    PROVE  SameIds
<1> SUFFICES ASSUME NEW s \in Slot, Live(s)'
             PROVE  /\ Live(s) /\ dev'[s].node = dev[s].node /\ dev'[s].id = dev[s].id
                    /\ dev'[s].session = dev[s].session
    BY DEF SameIds
<1>1. s # r => Live(s)
      BY DEF Live
<1> QED BY <1>1

LEMMA RefIds ==
    ASSUME EnumInv, NEW r \in Slot
    PROVE  /\ Ref(dev, r)[r].node = dev[r].node /\ Ref(dev, r)[r].id = dev[r].id
           /\ Ref(dev, r)[r].session = dev[r].session
           /\ \A s \in Slot \ {r} : Ref(dev, r)[s] = dev[s]
           /\ Ref(dev, r) \in [Slot -> DevRec]
<1>1. PICK e \in DevRec : e = dev[r]
      BY DevType DEF EnumInv
<1>2. Ref(dev, r) = [dev EXCEPT ![r] = [e EXCEPT !.refs = @ + 1]]
      BY <1>1 DEF Ref, EnumInv, EnumTypes
<1>3. [e EXCEPT !.refs = @ + 1] \in DevRec
      BY DEF DevRec
<1>4. PICK g \in DevRec : /\ Ref(dev, r) = [dev EXCEPT ![r] = g]
                          /\ g.node = e.node /\ g.id = e.id /\ g.session = e.session
      BY <1>2, <1>3 DEF DevRec
<1> QED BY <1>1, <1>4 DEF EnumInv, EnumTypes

LEMMA RefKeepsIds ==
    ASSUME EnumInv, NEW r \in Slot, Live(r), dev' = Ref(dev, r) PROVE SameIds
BY RefIds, TouchKeepsIds

\* What is looked up and touched: the device is there
LEMMA FoundLives ==
    ASSUME EnumAssumption, EnumInv, "dying" \notin Faults, MayLookUp, NEW x, Found(x) # 0
    PROVE  Found(x) \in Slot /\ Live(Found(x)) /\ dev[Found(x)].session = x
BY FoundIs

LEMMA AncestorLives ==
    ASSUME EnumAssumption, EnumInv, "dying" \notin Faults, MayLookUp, NEW n, Ancestor(n) # 0
    PROVE  Ancestor(n) \in Slot /\ Live(Ancestor(n))
<1>1. PICK x : Ancestor(n) = Found(x)
      BY DEF Ancestor
<1> QED BY <1>1, FoundLives

LEMMA TidyEntry ==
    ASSUME EnumAssumption, EnumInv, TidyInv, NEW t \in Thread,
           Nothing(t) \/ MakeFails(t) \/ SetupPath(t) \/ ReadDescriptors(t)
    PROVE  TidyInv'
<1>1. /\ UNCHANGED <<system, bus, dev, known, found, undefined>>
      /\ job[t].pc \in {"find", "make", "setup"}
      BY DEF Nothing, MakeFails, SetupPath, ReadDescriptors, At
<1>2. SameIds /\ AllKnown'
      BY <1>1, IdsKept, KnownKept DEF TidyInv
<1>3. job[t].pc # "idle" /\ job[t].pc \in Busy /\ ~undefined'
      BY <1>1 DEF Busy, TidyInv
<1>4. Goes(t, "item") \/ Goes(t, "append") \/ Goes(t, "failed")
      BY DEF Nothing, MakeFails, SetupPath, ReadDescriptors
<1> QED BY <1>1, <1>2, <1>3, <1>4, TidyGoes

LEMMA TidyRootHub ==
    ASSUME EnumAssumption, EnumInv, "dying" \notin Faults, TidyInv, NEW t \in Thread, RootHub(t)
    PROVE  TidyInv'
<1>1. /\ job[t].pc = "rootHub" /\ MayLookUp
      /\ UNCHANGED <<system, bus, known, found, undefined>>
      BY DEF RootHub, At
<1>2. Goes(t, "item") \/ Goes(t, "failed")
      BY DEF RootHub
<1>3. SameIds
  <2>1. PICK r : r = Found(job[t].node)
        OBVIOUS
  <2>2. CASE r = 0
        BY <2>1, <2>2, IdsKept DEF RootHub
  <2>3. CASE r # 0
    <3>1. r \in Slot /\ Live(r)
          BY <1>1, <2>1, <2>3, FoundLives
    <3>2. dev' = [Ref(dev, r) EXCEPT ![r].rootHub = TRUE]
          BY <2>1, <2>3 DEF RootHub
    <3>3. PICK d \in [Slot -> DevRec] : d = Ref(dev, r)
          BY <3>1, RefIds
    <3>4. PICK e \in DevRec : e = d[r]
          BY <3>1
    <3>5. dev' = [d EXCEPT ![r] = [e EXCEPT !.rootHub = TRUE]]
          BY <3>1, <3>2, <3>3, <3>4
    <3>6. /\ \A s \in Slot \ {r} : dev'[s] = d[s]
          /\ dev'[r].node = e.node /\ dev'[r].id = e.id /\ dev'[r].session = e.session
          BY <3>1, <3>5 DEF DevRec
    <3> QED BY <3>1, <3>3, <3>4, <3>6, RefIds, TouchKeepsIds
  <2> QED BY <2>2, <2>3
<1>4. AllKnown' /\ ~undefined'
      BY <1>1, <1>3, KnownKept DEF TidyInv
<1> QED BY <1>1, <1>2, <1>3, <1>4, TidyGoes

LEMMA TidyOwner ==
    ASSUME EnumAssumption, EnumInv, "dying" \notin Faults, TidyInv, NEW t \in Thread, Owner(t)
    PROVE  TidyInv'
<1>1. /\ job[t].pc = "owner" /\ MayLookUp /\ Goes(t, "item")
      /\ UNCHANGED <<system, bus, known, found, undefined>>
      BY DEF Owner, At
<1>3. SameIds
  <2>1. PICK n, p : n = job[t].node /\ p = Ancestor(n)
        OBVIOUS
  <2>2. CASE p = 0
        BY <2>1, <2>2, IdsKept DEF Owner
  <2>3. CASE p # 0
    <3>1. p \in Slot /\ Live(p)
          BY <1>1, <2>1, <2>3, AncestorLives
    <3>2. dev' = IF Kind[dev[p].node] = "hub" THEN Ref(dev, p)
                 ELSE SetInterface(Ref(dev, p), p, n)
          BY <2>1, <2>3 DEF Owner
    <3>3. PICK d \in [Slot -> DevRec] : d = Ref(dev, p)
          BY <3>1, RefIds
    <3>4. PICK e \in DevRec : e = d[p]
          BY <3>1
    <3>5. dev' = d \/ dev' = [d EXCEPT ![p] = [e EXCEPT !.paths = @ \cup {n}]]
          BY <3>1, <3>2, <3>3, <3>4 DEF SetInterface
    <3>6. /\ \A s \in Slot \ {p} : dev'[s] = d[s]
          /\ dev'[p].node = e.node /\ dev'[p].id = e.id /\ dev'[p].session = e.session
      <4>1. CASE dev' = d
            BY <3>4, <4>1
      <4>2. CASE dev' = [d EXCEPT ![p] = [e EXCEPT !.paths = @ \cup {n}]]
            BY <3>1, <4>2 DEF DevRec
      <4> QED BY <3>5, <4>1, <4>2
    <3> QED BY <3>1, <3>3, <3>4, <3>6, RefIds, TouchKeepsIds
  <2> QED BY <2>2, <2>3
<1>4. AllKnown' /\ ~undefined'
      BY <1>1, <1>3, KnownKept DEF TidyInv
<1> QED BY <1>1, <1>3, <1>4, TidyGoes

LEMMA TidyBelow ==
    ASSUME EnumAssumption, EnumInv, "dying" \notin Faults, TidyInv, NEW t \in Thread,
           BelowNothing(t) \/ BelowHub(t)
    PROVE  TidyInv'
<1>1. /\ job[t].pc = "ancestor" /\ MayLookUp
      /\ UNCHANGED <<system, bus, known, found, undefined>>
      BY DEF BelowNothing, BelowHub, At
<1>2. Win
      BY <1>1 DEF EnumInv, JobInv, JobAt
<1>3. PICK r : r = Found(job[t].node)
      OBVIOUS
<1>4. PICK p : p = Ancestor(job[t].node)
      OBVIOUS
<1>5. SameIds
  <2>1. dev' = dev \/ (r # 0 /\ dev' = Ref(dev, r)) \/ (p # 0 /\ dev' = Ref(dev, p))
        BY <1>3, <1>4 DEF BelowNothing, BelowHub
  <2>2. r # 0 => r \in Slot /\ Live(r)
        BY <1>1, <1>3, FoundLives
  <2>3. p # 0 => p \in Slot /\ Live(p)
        BY <1>1, <1>4, AncestorLives
  <2>4. CASE dev' = dev
        BY <2>4, IdsKept
  <2>5. CASE r # 0 /\ dev' = Ref(dev, r)
        BY <2>2, <2>5, RefKeepsIds
  <2>6. CASE p # 0 /\ dev' = Ref(dev, p)
        BY <2>3, <2>6, RefKeepsIds
  <2> QED BY <2>1, <2>4, <2>5, <2>6
<1>6. AllKnown' /\ ~undefined'
      BY <1>1, <1>5, KnownKept DEF TidyInv
<1>7. PICK j \in JobRec : j = job[t]
      BY JobType DEF EnumInv
<1>8. \/ Goes(t, "item") \/ job' = [job EXCEPT ![t].pc = "find", ![t].par = p]
      \/ job' = [job EXCEPT ![t].pc = "setup", ![t].dev = r]
      BY <1>3, <1>4 DEF BelowNothing, BelowHub
<1>9. PICK k :
          /\ job' = [job EXCEPT ![t] = k]
          /\ k.pc \in {"item", "find", "setup"} /\ k.snap = j.snap /\ k.node = j.node /\ k.todo = j.todo
  <2>1. CASE Goes(t, "item")
    <3>1. job' = [job EXCEPT ![t] = [j EXCEPT !.pc = "item"]]
          BY <1>7, <2>1 DEF Goes, EnumInv, EnumTypes
    <3>2. PICK k : k = [j EXCEPT !.pc = "item"]
          OBVIOUS
    <3>3. k.pc = "item" /\ k.snap = j.snap /\ k.node = j.node /\ k.todo = j.todo
          BY <3>2 DEF JobRec
    <3> QED BY <3>1, <3>2, <3>3
  <2>2. CASE job' = [job EXCEPT ![t].pc = "find", ![t].par = p]
    <3>1. job' = [job EXCEPT ![t] = [j EXCEPT !.pc = "find", !.par = p]]
          BY <1>7, <2>2 DEF EnumInv, EnumTypes
    <3>2. PICK k : k = [j EXCEPT !.pc = "find", !.par = p]
          OBVIOUS
    <3>3. k.pc = "find" /\ k.snap = j.snap /\ k.node = j.node /\ k.todo = j.todo
          BY <3>2 DEF JobRec
    <3> QED BY <3>1, <3>2, <3>3
  <2>3. CASE job' = [job EXCEPT ![t].pc = "setup", ![t].dev = r]
    <3>1. job' = [job EXCEPT ![t] = [j EXCEPT !.pc = "setup", !.dev = r]]
          BY <1>7, <2>3 DEF EnumInv, EnumTypes
    <3>2. PICK k : k = [j EXCEPT !.pc = "setup", !.dev = r]
          OBVIOUS
    <3>3. k.pc = "setup" /\ k.snap = j.snap /\ k.node = j.node /\ k.todo = j.todo
          BY <3>2 DEF JobRec
    <3> QED BY <3>1, <3>2, <3>3
  <2> QED BY <1>8, <2>1, <2>2, <2>3
<1>10. job'[t] = k /\ \A u \in Thread \ {t} : job'[u] = job[u]
       BY <1>9 DEF EnumInv, EnumTypes
<1> QED BY <1>1, <1>2, <1>5, <1>6, <1>7, <1>9, <1>10, TidyMove

LEMMA TidyInit ==
    ASSUME EnumAssumption, EnumInv, TidyInv, NEW t \in Thread,
           InitDevice(t) \/ InitDeviceFails(t)
    PROVE  TidyInv'
<1>1. /\ job[t].pc = "setup" /\ Win /\ UNCHANGED <<system, bus, known, found>>
      /\ undefined' = undefined
      BY InitDeviceIs DEF InitDevice, InitDeviceFails
<1>2. PICK s \in Slot, pc \in AfterInit : Live(s) /\ Adopted(t, s, pc)
      BY InitDeviceIs
<1>3. SameIds
      BY <1>2, TouchKeepsIds DEF Adopted
<1>4. AllKnown' /\ ~undefined'
      BY <1>1, <1>3, KnownKept DEF TidyInv
<1>5. pc # "make" /\ job[t].pc # "idle"
      BY <1>1 DEF AfterInit
<1> QED BY <1>1, <1>2, <1>3, <1>4, <1>5, TidyMove, SMTT(30) DEF Adopted

LEMMA TidyRelease ==
    ASSUME EnumAssumption, EnumInv, TidyInv, NEW t \in Thread, DropRef(t) \/ FreeList(t)
    PROVE  TidyInv'
<1>1. UNCHANGED <<system, bus, known, job, found, undefined>>
      BY DEF DropRef, FreeList
<1>2. SameIds
  <2>1. CASE FreeList(t)
        BY <2>1, IdsKept DEF FreeList
  <2>2. CASE DropRef(t)
    <3>1. /\ work[t] # <<>> /\ work[t] \in Seq(Chore) /\ Head(work[t]).do = "unref"
          BY <2>2, JobType DEF DropRef, EnumInv
    <3>2. Head(work[t]) \in Chore
          BY <3>1
    <3>3. PICK s \in Slot : s = Head(work[t]).s /\ Head(work[t]) = Unref(s)
          BY <3>1, <3>2 DEF Chore, Unref
    <3>4. Count(work[t], Unref(s)) > 0
      <4>1. work[t][1] = Unref(s) /\ 1 \in 1..Len(work[t])
            BY <3>1, <3>3
      <4> QED BY <3>1, <4>1, CountType
    <3>5. Live(s)
          BY <3>4, Held, HeldIsCounted DEF EnumInv
    <3>6. dev' = [dev EXCEPT ![s].refs = IF @ = 0 THEN 0 ELSE @ - 1]
          BY <2>2, <3>3 DEF DropRef
    <3>7. PICK e \in DevRec : e = dev[s]
          BY DevType DEF EnumInv
    <3>8. PICK n : n = IF e.refs = 0 THEN 0 ELSE e.refs - 1
          OBVIOUS
    <3>9. dev' = [dev EXCEPT ![s] = [e EXCEPT !.refs = n]]
          BY <3>6, <3>7, <3>8 DEF EnumInv, EnumTypes
    <3>10. /\ \A x \in Slot \ {s} : dev'[x] = dev[x]
           /\ dev'[s].node = e.node /\ dev'[s].id = e.id /\ dev'[s].session = e.session
           BY <3>9 DEF EnumInv, EnumTypes, DevRec
    <3> QED BY <3>5, <3>7, <3>10, TouchKeepsIds, SMTT(30)
  <2> QED BY <2>1, <2>2
<1>3. AllKnown' /\ ~undefined'
      BY <1>1, <1>2, KnownKept DEF TidyInv
<1>4. system = "netbsd" => SizeAt(t)'
      BY <1>1, SizeKept
<1>5. Win /\ job'[t].pc = "make" => Seen(t)' # 0
      BY <1>1 DEF TidyInv, IdInv, Seen
<1> QED BY <1>1, <1>2, <1>3, <1>4, <1>5, TidyStep, ZenonT(60)

LEMMA TidyDestroy ==
    ASSUME EnumAssumption, EnumInv, TidyInv, NEW t \in Thread, Destroy(t)
    PROVE  TidyInv'
<1>1. /\ work[t] # <<>> /\ work[t] \in Seq(Chore) /\ Head(work[t]).do = "remove"
      /\ UNCHANGED <<system, bus, job, found>>
      BY JobType DEF Destroy, EnumInv
<1>2. Head(work[t]) \in Chore
      BY <1>1
<1>3. PICK s \in Slot : s = Head(work[t]).s /\ Head(work[t]) = Removal(s)
      BY <1>1, <1>2 DEF Chore, Removal
<1>4. /\ known' = RemoveFirst(known, s) /\ dev' = [dev EXCEPT ![s] = NoDev]
      /\ undefined' = (undefined \/ ~Contains(known, s))
      BY <1>3 DEF Destroy
<1>5. Live(s)
  <2>1. Count(work[t], Removal(s)) > 0
    <3>1. work[t][1] = Removal(s) /\ 1 \in 1..Len(work[t])
          BY <1>1, <1>3
    <3> QED BY <1>1, <3>1, CountType
  <2>2. Removals(s) \in Nat /\ Count(work[t], Removal(s)) <= Removals(s)
        BY HoldersType DEF EnumInv
  <2>3. Count(work[t], Removal(s)) \in Nat
        BY HeldType DEF EnumInv
  <2>4. Removals(s) # 0
        BY <2>1, <2>2, <2>3
  <2> QED BY <2>4 DEF EnumInv, DoomInv, Doomed
<1>6. ~undefined'
      BY <1>4, <1>5 DEF TidyInv, AllKnown
<1>7. SameIds /\ ~Live(s)'
      BY <1>4 DEF SameIds, Live, EnumInv, EnumTypes
<1>8. AllKnown'
  <2> SUFFICES ASSUME NEW x \in Slot, Live(x)' PROVE Contains(known', x)
      BY DEF AllKnown
  <2>1. x # s /\ Live(x) /\ Contains(known, x)
        BY <1>7 DEF SameIds, TidyInv, AllKnown
  <2>2. known \in Seq(Slot) /\ \A k, l \in 1..Len(known) : known[k] = known[l] => k = l
        BY DEF EnumInv, EnumTypes, KnownInv
  <2> QED BY <1>4, <2>1, <2>2, RemoveFirstIs
<1>9. system = "netbsd" => SizeAt(t)'
      BY <1>1, SizeKept
<1>10. Win /\ job'[t].pc = "make" => Seen(t)' # 0
      BY <1>1 DEF TidyInv, IdInv, Seen
<1> QED BY <1>1, <1>6, <1>7, <1>8, <1>9, <1>10, TidyStep

\* A list that is over
LEMMA TidyEnd ==
    ASSUME EnumAssumption, EnumInv, TidyInv, NEW t \in Thread, Done(t) \/ GiveUp(t)
    PROVE  TidyInv'
<1>1. /\ UNCHANGED <<system, bus, dev, known, undefined>>
      /\ job' = [job EXCEPT ![t] = NoJob] /\ found' = [found EXCEPT ![t] = <<>>]
      BY DEF Done, GiveUp, EndListing
<1>2. /\ job'[t] = NoJob /\ found'[t] = <<>>
      /\ \A u \in Thread \ {t} : job'[u] = job[u] /\ found'[u] = found[u]
      BY <1>1 DEF EnumInv, EnumTypes
<1>3. SameIds /\ AllKnown' /\ ~undefined'
      BY <1>1, IdsKept, KnownKept DEF TidyInv
<1>4. NoJob.pc = "idle" /\ NoJob.todo = {}
      BY DEF NoJob
<1>5. SizeAt(t)'
  <2>1. job'[t].todo = {} /\ Len(found'[t]) = 0 /\ job'[t].pc \notin Busy
        BY <1>2, <1>4 DEF Busy
  <2>2. Cardinality({}) = 0 /\ Cardinality(Physical) \in Nat
        BY PhysicalFinite, FS_EmptySet
  <2> QED BY <2>1, <2>2 DEF SizeAt, One
<1> QED BY <1>1, <1>2, <1>3, <1>4, <1>5, TidyStep

LEMMA TidyItem ==
    ASSUME EnumAssumption, EnumInv, TidyInv, NEW t \in Thread, NEW n \in Node, Item(t, n)
    PROVE  TidyInv'
<1>1. /\ job[t].pc = "item" /\ n \in job[t].todo
      /\ UNCHANGED <<system, bus, dev, known, found, undefined>>
      BY DEF Item, At
<1>2. PICK pc \in {"ancestor", "owner", "rootHub", "find"} :
          job' = [job EXCEPT ![t].pc = pc, ![t].node = n, ![t].todo = @ \ {n}]
      BY DEF Item
<1>3. PICK j \in JobRec : j = job[t]
      BY JobType DEF EnumInv
<1>4. job' = [job EXCEPT ![t] = [j EXCEPT !.pc = pc, !.node = n, !.todo = @ \ {n}]]
      BY <1>2, <1>3 DEF EnumInv, EnumTypes
<1>5. /\ job'[t].pc = pc /\ job'[t].snap = job[t].snap /\ job'[t].todo = job[t].todo \ {n}
      /\ \A u \in Thread \ {t} : job'[u] = job[u]
      BY <1>3, <1>4 DEF JobRec, EnumInv, EnumTypes
<1>6. SameIds /\ AllKnown' /\ ~undefined'
      BY <1>1, IdsKept, KnownKept DEF TidyInv
<1>7. ASSUME system = "netbsd" PROVE SizeAt(t)'
  <2> DEFINE T == job[t].todo
  <2>1. SizeAt(t) /\ One(job[t].pc \in Busy) = 0
        BY <1>1, <1>7 DEF TidyInv, SizeInv, One, Busy
  <2>2. /\ IsFiniteSet(T) /\ Cardinality(T) \in Nat /\ Len(found[t]) \in Nat
        /\ Cardinality(Physical) \in Nat /\ n \in T
        BY <1>1, TodoFinite, PhysicalFinite DEF EnumInv
  <2>3. Cardinality(T \ {n}) = Cardinality(T) - 1
    <3> HIDE DEF T
    <3> QED BY <2>2, FS_RemoveElement
  <2>4. One(job'[t].pc \in Busy) \in 0..1
        BY DEF One
  <2>5. Len(found[t]) + Cardinality(T) <= Cardinality(Physical) /\ T \subseteq Physical
        BY <2>1, <2>2 DEF SizeAt
  <2>6. job'[t].todo = T \ {n} /\ found'[t] = found[t]
        BY <1>1, <1>5
  <2> HIDE DEF T
  <2>7. Len(found[t]) + Cardinality(T \ {n}) + One(job'[t].pc \in Busy) <= Cardinality(Physical)
        BY <2>2, <2>3, <2>4, <2>5, SMTT(30)
  <2> QED BY <2>5, <2>6, <2>7 DEF SizeAt
<1> QED BY <1>1, <1>5, <1>6, <1>7, TidyStep

LEMMA TidyReadFails ==
    ASSUME EnumAssumption, EnumInv, TidyInv, NEW t \in Thread, ReadFails(t)
    PROVE  TidyInv'
<1>1. /\ job[t].pc = "setup" /\ UNCHANGED <<system, bus, dev, known, found, undefined>>
      BY DEF ReadFails, At
<1>2. PICK pc \in {"failed", "item"} : Sets(t, pc, 0)
      BY DEF ReadFails, Sets
<1>3. 0 \in 0..MaxSlots
      BY DEF EnumAssumption
<1>4. /\ job' \in [Thread -> JobRec] /\ \A u \in Thread \ {t} : job'[u] = job[u]
      /\ job'[t].pc = pc /\ job'[t].node = job[t].node
      /\ job'[t].snap = job[t].snap /\ job'[t].todo = job[t].todo
  <2>1. CASE pc = "item"
        BY <1>2, <1>3, <2>1, JobSets
  <2>2. CASE pc = "failed"
        BY <1>2, <1>3, <2>2, JobSets
  <2> QED BY <1>2, <2>1, <2>2
<1>5. SameIds /\ AllKnown' /\ ~undefined'
      BY <1>1, IdsKept, KnownKept DEF TidyInv
<1> QED BY <1>1, <1>4, <1>5, TidyMove DEF Busy

LEMMA SmallRemainder ==
    ASSUME NEW a \in Nat, NEW b \in Nat \ {0}, a < b PROVE a % b = a
OBVIOUS

\* A list that does not grow beyond its first size does not move
LEMMA TidyAppend ==
    ASSUME EnumAssumption, EnumInv, Tidy, TidyInv, NEW t \in Thread, AppendDevice(t)
    PROVE  TidyInv'
<1>1. /\ job[t].pc = "append" /\ UNCHANGED <<system, bus, known>>
      /\ undefined' = (undefined \/ (Full(t) /\ (system = "netbsd" \/ "append" \in Faults)))
      BY DEF AppendDevice, At
<1>2. PICK s \in Slot : s = job[t].dev /\ Live(s)
      BY <1>1, JobDevIs
<1>3. /\ found' = [found EXCEPT ![t] = Append(@, s)] /\ dev' = Ref(dev, s) /\ Sets(t, "item", 0)
      BY <1>2 DEF AppendDevice, InList, Sets
<1>4. 0 \in 0..MaxSlots
      BY DEF EnumAssumption
<1>5. /\ job' \in [Thread -> JobRec] /\ \A u \in Thread \ {t} : job'[u] = job[u]
      /\ job'[t].pc = "item" /\ job'[t].snap = job[t].snap /\ job'[t].todo = job[t].todo
      BY <1>3, <1>4, JobSets
<1>6. /\ found'[t] = Append(found[t], s) /\ found[t] \in Seq(Slot)
      /\ \A u \in Thread \ {t} : found'[u] = found[u]
      BY <1>3 DEF EnumInv, EnumTypes
<1>7. SameIds /\ AllKnown'
      BY <1>1, <1>2, <1>3, RefKeepsIds, KnownKept DEF TidyInv
<1>8. system = "netbsd" =>
          /\ Len(found[t]) + Cardinality(job[t].todo) + 1 <= Cardinality(Physical)
          /\ job[t].todo \subseteq Physical
      BY <1>1 DEF TidyInv, SizeInv, SizeAt, One, Busy
<1>9. Cardinality(job[t].todo) \in Nat /\ Len(found[t]) \in Nat /\ Cardinality(Physical) \in Nat
      BY TodoFinite, PhysicalFinite DEF EnumInv
<1>10. system = "netbsd" => SizeAt(t)'
  <2>1. Len(found'[t]) = Len(found[t]) + 1 /\ One(job'[t].pc \in Busy) = 0
        BY <1>5, <1>6 DEF One, Busy
  <2> QED BY <1>5, <1>8, <1>9, <2>1, SMTT(30) DEF SizeAt
<1>11. ~undefined'
  <2>1. "append" \notin Faults
        BY DEF Tidy
  <2>2. system = "netbsd" => ~Full(t)
    <3> SUFFICES ASSUME system = "netbsd", Full(t) PROVE FALSE
        OBVIOUS
    <3>1. Cardinality(Physical) <= Room /\ Room \in Nat \ {0}
          BY DEF Tidy, EnumInv, EnumTypes, EnumAssumption
    <3>2. Len(found[t]) < Room
          BY <1>8, <1>9, <3>1
    <3>3. Len(found[t]) > 0
          BY <1>6 DEF Full
    <3>4. Len(found[t]) % Room = Len(found[t])
          BY <1>9, <3>1, <3>2, SmallRemainder
    <3> QED BY <3>3, <3>4 DEF Full
  <2> QED BY <1>1, <2>1, <2>2 DEF TidyInv
<1> QED BY <1>1, <1>5, <1>6, <1>7, <1>10, <1>11, TidyStep

LEMMA TidyNextPass ==
    ASSUME EnumAssumption, EnumInv, TidyInv, NEW t \in Thread, NextPass(t)
    PROVE  TidyInv'
<1>1. /\ job \in [Thread -> JobRec] /\ JobAt(t) /\ job[t].pc = "item"
      /\ UNCHANGED <<system, bus, dev, known, found, undefined>>
      BY DEF EnumInv, EnumTypes, JobInv, NextPass, At
<1> DEFINE i == CHOOSE k \in DOMAIN Passes : Passes[k] = job[t].pass
<1>2. /\ i < Len(Passes)
      /\ job' = [job EXCEPT
           ![t] = [Enter(Passes[i + 1], IF Passes[i + 1] = "gen" THEN bus ELSE @.snap)
                     EXCEPT !.snap = job[t].snap]]
      BY DEF NextPass
<1>3. Win
  <2> SUFFICES ASSUME ~Win PROVE FALSE
      OBVIOUS
  <2>1. Passes = <<"all">> /\ job[t].pass = "all"
        BY <1>1 DEF Passes, JobAt, Win
  <2>2. i = 1
        BY <2>1
  <2> QED BY <1>2, <2>1, <2>2
<1> HIDE DEF i
<1>4. PICK p, b : job' = [job EXCEPT ![t] = [Enter(p, b) EXCEPT !.snap = job[t].snap]]
      BY <1>1, <1>2
<1>5. PICK e : e = Enter(p, b)
      OBVIOUS
<1>6. PICK j : j = [e EXCEPT !.snap = job[t].snap]
      OBVIOUS
<1>7. j.pc = "item" /\ j.snap = job[t].snap
  <2>1. PICK todo : todo = NodesOf(p, b)
        OBVIOUS
  <2>2. e = [NoJob EXCEPT !.pc = "item", !.pass = p, !.snap = b, !.todo = todo]
        BY <1>5, <2>1 DEF Enter
  <2>3. e = [pc |-> "item", pass |-> p, snap |-> b, todo |-> todo, node |-> NoNode,
             dev |-> 0, par |-> 0]
        BY <2>2 DEF NoJob
  <2> QED BY <1>6, <2>3
<1>8. job'[t] = j /\ \A u \in Thread \ {t} : job'[u] = job[u]
      BY <1>1, <1>4, <1>5, <1>6
<1>9. SameIds /\ AllKnown' /\ ~undefined'
      BY <1>1, IdsKept, KnownKept DEF TidyInv
<1> QED BY <1>1, <1>3, <1>7, <1>8, <1>9, TidyStep DEF Win

\* What is found at a node is what the listing saw there
LEMMA TidyFind ==
    ASSUME EnumAssumption, EnumInv, "dying" \notin Faults, TidyInv, NEW t \in Thread, Find(t)
    PROVE  TidyInv'
<1> DEFINE s == Found(Session(t))
           matched == s # 0 /\ ~Replaced(s, Seen(t))
<1>1. /\ job[t].pc = "find" /\ Seen(t) # 0 /\ MayLookUp
      /\ UNCHANGED <<system, bus, found, undefined>>
      BY DEF Find, At
<1>2. /\ job' = [job EXCEPT ![t].pc = IF ~matched THEN "make"
                                      ELSE IF system = "winusb" THEN "setup" ELSE "append",
                            ![t].dev = IF matched THEN s ELSE 0]
      /\ dev' = IF s = 0 THEN dev ELSE Ref(dev, s)
      /\ known' = IF matched THEN known ELSE RemoveFirst(known, s)
      BY DEF Find
<1>3. s # 0 => s \in Slot /\ Live(s) /\ dev[s].session = Session(t)
      BY <1>1, FoundLives
<1>4. matched <=> s # 0
  <2> SUFFICES ASSUME s # 0, Replaced(s, Seen(t)) PROVE FALSE
      OBVIOUS
  <2>1. Win /\ dev[s].id # Seen(t)
        BY DEF Replaced, Win
  <2>2. Session(t) = job[t].node /\ Seen(t) = Shown(job[t].snap, job[t].node)
        BY <2>1 DEF Session, Seen, Win, Bsd
  <2>3. s \in Slot /\ Live(s) /\ dev[s].session = job[t].node
        BY <1>3, <2>2
  <2> HIDE DEF s
  <2>4. dev[s].node = job[t].node /\ Agrees(s, job[t].snap)
        BY <1>1, <2>1, <2>3 DEF TidyInv, IdInv
  <2> QED BY <1>1, <2>1, <2>2, <2>4 DEF Agrees
<1>5. PICK pc, d :
          pc \in {"make", "setup", "append"} /\ Sets(t, pc, d) /\ (d = 0 \/ d \in Slot)
  <2> HIDE DEF s, matched
  <2>1. PICK pc \in {"make", "setup", "append"} : pc = IF ~matched THEN "make"
                                      ELSE IF system = "winusb" THEN "setup" ELSE "append"
        OBVIOUS
  <2>2. PICK d : d = IF matched THEN s ELSE 0
        OBVIOUS
  <2>3. d = 0 \/ d \in Slot
        BY <1>3, <1>4, <2>2
  <2> QED BY <1>2, <2>1, <2>2, <2>3 DEF Sets
<1>6. d \in 0..MaxSlots
      BY <1>5 DEF Slot, EnumAssumption
<1>7. /\ job' \in [Thread -> JobRec] /\ \A u \in Thread \ {t} : job'[u] = job[u]
      /\ job'[t].pc = pc /\ job'[t].node = job[t].node
      /\ job'[t].snap = job[t].snap /\ job'[t].todo = job[t].todo
  <2>1. CASE pc = "make"
        BY <1>5, <1>6, <2>1, JobSets
  <2>2. CASE pc = "setup"
        BY <1>5, <1>6, <2>2, JobSets
  <2>3. CASE pc = "append"
        BY <1>5, <1>6, <2>3, JobSets
  <2> QED BY <1>5, <2>1, <2>2, <2>3
<1>8. known' = known
  <2> HIDE DEF s, matched
  <2>1. CASE s = 0
    <3>1. known' = RemoveFirst(known, 0)
          BY <1>2, <1>4, <2>1
    <3>2. known \in Seq(Slot) /\ \A k, l \in 1..Len(known) : known[k] = known[l] => k = l
          BY DEF EnumInv, EnumTypes, KnownInv
    <3>3. ~Contains(known, 0)
          BY <3>2 DEF Contains, Slot
    <3> QED BY <3>1, <3>2, <3>3, RemoveFirstIs
  <2>2. CASE s # 0
        BY <1>2, <1>4, <2>2
  <2> QED BY <2>1, <2>2
<1>9. SameIds
  <2> HIDE DEF s, matched
  <2>1. CASE s = 0
        BY <1>2, <2>1, IdsKept
  <2>2. CASE s # 0
        BY <1>2, <1>3, <2>2, RefKeepsIds
  <2> QED BY <2>1, <2>2
<1>10. AllKnown' /\ ~undefined'
      BY <1>1, <1>8, <1>9, KnownKept DEF TidyInv
<1>11. job[t].pc # "idle" /\ job[t].pc \in Busy
      BY <1>1 DEF Busy
<1> HIDE DEF s, matched
<1> QED BY <1>1, <1>7, <1>10, <1>11, <1>9, TidyMove

\* A new device has the identity that the listing saw
LEMMA TidyMake ==
    ASSUME EnumAssumption, EnumInv, TidyInv, NEW t \in Thread, Make(t)
    PROVE  TidyInv'
<1> DEFINE s == CHOOSE k \in FreeSlots : \A j \in FreeSlots : k <= j
<1>1. /\ job[t].pc = "make" /\ FreeSlots # {}
      /\ dev' = [dev EXCEPT ![s] = NewDev(job[t].node, Seen(t), Session(t))]
      /\ known' = <<s>> \o known
      /\ job' = [job EXCEPT ![t].pc = "setup", ![t].dev = s]
      /\ UNCHANGED <<system, bus, found, undefined>>
      BY DEF Make, At
<1>2. s \in FreeSlots
  <2>1. FreeSlots \in SUBSET Nat
        BY DEF FreeSlots, Slot
  <2>2. Min(FreeSlots) \in FreeSlots /\ \A j \in FreeSlots : Min(FreeSlots) <= j
        BY <1>1, <2>1, MinOfPlaces
  <2> QED BY <2>2
<1> HIDE DEF s
<1>3. PICK r \in Slot : r = s /\ r \in 0..MaxSlots
      BY <1>2 DEF FreeSlots, Slot, EnumAssumption
<1>4. Sets(t, "setup", r)
      BY <1>1, <1>3 DEF Sets
<1>5. /\ job' \in [Thread -> JobRec] /\ \A u \in Thread \ {t} : job'[u] = job[u]
      /\ job'[t].pc = "setup" /\ job'[t].node = job[t].node
      /\ job'[t].snap = job[t].snap /\ job'[t].todo = job[t].todo
      BY <1>3, <1>4, JobSets
<1>6. PICK e : e = NewDev(job[t].node, Seen(t), Session(t))
      OBVIOUS
<1>7. e.node = job[t].node /\ e.id = Seen(t) /\ e.session = Session(t)
  <2>1. PICK n, i, x : n = job[t].node /\ i = Seen(t) /\ x = Session(t)
        OBVIOUS
  <2>2. e = [node |-> n, id |-> i, session |-> x, refs |-> 1, parent |-> 0,
             paths |-> {}, rootHub |-> FALSE, ready |-> FALSE]
        BY <1>6, <2>1 DEF NewDev, NoDev
  <2> QED BY <2>1, <2>2
<1>8. dev'[r] = e /\ \A x \in Slot \ {r} : dev'[x] = dev[x]
      BY <1>1, <1>3, <1>6 DEF EnumInv, EnumTypes
<1>9. AllKnown'
  <2> SUFFICES ASSUME NEW x \in Slot, Live(x)' PROVE Contains(known', x)
      BY DEF AllKnown
  <2>1. known \in Seq(Slot) /\ Len(known) \in Nat
        BY DEF EnumInv, EnumTypes
  <2>2. /\ Len(known') = Len(known) + 1 /\ known'[1] = r
        /\ \A k \in 1..Len(known) : known'[k + 1] = known[k]
        BY <1>1, <1>3, <2>1, SMTT(30)
  <2>3. CASE x = r
    <3>1. 1 \in 1..Len(known')
          BY <2>1, <2>2
    <3> QED BY <2>2, <2>3, <3>1 DEF Contains
  <2>4. CASE x # r
    <3>1. Live(x)
          BY <1>8, <2>4 DEF Live
    <3>2. PICK k \in 1..Len(known) : known[k] = x
          BY <3>1 DEF TidyInv, AllKnown, Contains
    <3>3. k + 1 \in 1..Len(known') /\ known'[k + 1] = x
          BY <2>1, <2>2, <3>2
    <3> QED BY <3>3 DEF Contains
  <2> QED BY <2>3, <2>4
<1>10. ASSUME Win PROVE IdInv'
  <2>1. job[t].node \in Node /\ job[t].pc # "idle"
        BY <1>1 DEF EnumInv, JobInv, JobAt
  <2>2. PICK n \in Node, p \in Physical :
            n = job[t].node /\ p = IF Kind[n] = "interface" THEN Parent[n] ELSE n
        BY <2>1, PhysicalFinite
  <2>3. Seen(t) = job[t].snap[p] /\ Session(t) = n /\ Seen(t) # 0
        BY <1>1, <1>10, <2>2 DEF Seen, Session, Shown, Win, Bsd, TidyInv, IdInv
  <2>4. Shown(bus, n) = bus[p] /\ \A u \in Thread : Shown(job[u].snap, n) = job[u].snap[p]
        BY <2>2 DEF Shown
  <2>5. /\ Same(job[t].snap[p], bus[p])
        /\ \A u \in Thread : job[u].pc # "idle" => Same(job[t].snap[p], job[u].snap[p])
        BY <1>10, <2>1 DEF TidyInv, IdInv
  <2>6. \A u \in Thread : /\ job'[u].snap = job[u].snap
                          /\ job'[u].pc # "idle" <=> job[u].pc # "idle"
        BY <1>1, <1>5
  <2>7. ASSUME NEW x \in Slot, Live(x)'
        PROVE  /\ dev'[x].session = dev'[x].node /\ Agrees(x, bus)'
               /\ \A u \in Thread : job'[u].pc # "idle" => Agrees(x, job[u].snap)'
    <3>1. CASE x = r
      <4>1. dev'[x].node = n /\ dev'[x].id = job[t].snap[p] /\ dev'[x].session = n
            BY <1>7, <1>8, <2>2, <2>3, <3>1
      <4>2. Shown(bus, n) \in {0, dev'[x].id}
            BY <2>3, <2>4, <2>5, <4>1 DEF Same
      <4>3. \A u \in Thread : job[u].pc # "idle" => Shown(job[u].snap, n) \in {0, dev'[x].id}
            BY <2>3, <2>4, <2>5, <4>1 DEF Same
      <4> QED BY <1>1, <2>6, <4>1, <4>2, <4>3 DEF Agrees
    <3>2. CASE x # r
      <4>1. Live(x) /\ dev'[x] = dev[x]
            BY <1>8, <2>7, <3>2 DEF Live
      <4>2. /\ dev[x].session = dev[x].node /\ Agrees(x, bus)
            /\ \A u \in Thread : job[u].pc # "idle" => Agrees(x, job[u].snap)
            BY <1>10, <4>1 DEF TidyInv, IdInv
      <4> QED BY <1>1, <2>6, <4>1, <4>2 DEF Agrees
    <3> QED BY <3>1, <3>2
  <2>8. \A m \in Physical, v \in Thread : job'[v].pc # "idle" =>
            /\ Same(job'[v].snap[m], bus'[m])
            /\ \A u \in Thread : job'[u].pc # "idle" => Same(job'[v].snap[m], job'[u].snap[m])
        BY <1>1, <1>10, <2>6 DEF TidyInv, IdInv
  <2>9. ASSUME NEW u \in Thread, job'[u].pc = "make" PROVE Seen(u)' # 0
    <3>1. u # t
          BY <1>5, <2>9
    <3>2. Seen(u)' = Seen(u) /\ job[u].pc = "make"
          BY <1>1, <1>5, <2>9, <3>1 DEF Seen, Bsd
    <3> QED BY <1>10, <3>2 DEF TidyInv, IdInv
  <2> QED BY <2>7, <2>8, <2>9 DEF IdInv
<1>11. ASSUME ~Win PROVE IdInv'
      BY <1>1, <1>11 DEF IdInv, Win
<1>12. SizeInv'
  <2> SUFFICES ASSUME system = "netbsd", NEW u \in Thread PROVE SizeAt(u)'
      BY <1>1 DEF SizeInv
  <2>1. CASE u = t
    <3>1. job'[t].pc \in Busy => job[t].pc \in Busy
          BY <1>1 DEF Busy
    <3> QED BY <1>1, <1>5, <2>1, <3>1, SizeKept
  <2>2. CASE u # t
        BY <1>1, <1>5, <2>2 DEF TidyInv, SizeInv, SizeAt
  <2> QED BY <2>1, <2>2
<1> QED BY <1>1, <1>9, <1>10, <1>11, <1>12 DEF TidyInv

\* A listing begins with what is plugged in
LEMMA TidyBegin ==
    ASSUME EnumAssumption, EnumInv, TidyInv, NEW t \in Thread, Begin(t)
    PROVE  TidyInv'
<1>1. /\ job[t].pc = "idle" /\ JobAt(t) /\ bus \in [Physical -> Nat]
      /\ UNCHANGED <<system, bus, dev, known, found, undefined>>
      BY DEF EnumInv, EnumTypes, JobInv, Begin, At
<1>2. PICK p \in {"hub", "all"} : p = Head(Passes) /\ (p = "hub" <=> Win)
      BY DEF Passes, Win
<1>3. job' = [job EXCEPT ![t] = Enter(p, bus)]
      BY <1>2 DEF Begin
<1>4. /\ job'[t].pc = "item" /\ job'[t].snap = bus /\ job'[t].todo = NodesOf(p, bus)
      /\ \A u \in Thread \ {t} : job'[u] = job[u]
  <2>1. Enter(p, bus) = [pc |-> "item", pass |-> p, snap |-> bus, todo |-> NodesOf(p, bus),
                         node |-> NoNode, dev |-> 0, par |-> 0]
        BY EnterType
  <2>2. PICK e : e = Enter(p, bus)
        OBVIOUS
  <2>3. job' = [job EXCEPT ![t] = e]
        BY <1>3, <2>2
  <2>4. job'[t] = e /\ \A u \in Thread \ {t} : job'[u] = job[u]
        BY <2>3 DEF EnumInv, EnumTypes
  <2> QED BY <2>1, <2>2, <2>4
<1>5. AllKnown' /\ ~undefined'
      BY <1>1, IdsKept, KnownKept DEF TidyInv
<1>6. ASSUME Win PROVE IdInv'
  <2>1. /\ \A s \in Slot : Live(s)' => Live(s)
        /\ \A u \in Thread \ {t} : job'[u].pc # "idle" => job[u].pc # "idle"
        BY <1>1, <1>4 DEF Live
  <2>2. ASSUME NEW s \in Slot, Live(s)'
        PROVE  /\ dev'[s].session = dev'[s].node /\ Agrees(s, bus)'
               /\ \A u \in Thread : job'[u].pc # "idle" => Agrees(s, job[u].snap)'
    <3>1. /\ dev[s].session = dev[s].node /\ Agrees(s, bus)
          /\ \A u \in Thread : job[u].pc # "idle" => Agrees(s, job[u].snap)
          BY <1>6, <2>1, <2>2 DEF TidyInv, IdInv
    <3>2. ASSUME NEW u \in Thread, job'[u].pc # "idle" PROVE Agrees(s, job[u].snap)'
      <4>1. CASE u = t
            BY <1>1, <1>4, <3>1, <4>1 DEF Agrees
      <4>2. CASE u # t
            BY <1>1, <1>4, <3>1, <3>2, <4>2 DEF Agrees
      <4> QED BY <4>1, <4>2
    <3> QED BY <1>1, <3>1, <3>2 DEF Agrees
  <2>3. ASSUME NEW n \in Physical, NEW v \in Thread, job'[v].pc # "idle"
        PROVE  /\ Same(job'[v].snap[n], bus'[n])
               /\ \A u \in Thread : job'[u].pc # "idle" => Same(job'[v].snap[n], job'[u].snap[n])
    <3>1. \A u \in Thread \ {t} : job'[u].pc # "idle" => Same(job[u].snap[n], bus[n])
          BY <1>6, <2>1 DEF TidyInv, IdInv
    <3>2. \A u \in Thread \ {t}, w \in Thread \ {t} :
              job'[u].pc # "idle" /\ job'[w].pc # "idle" => Same(job[u].snap[n], job[w].snap[n])
          BY <1>6, <2>1 DEF TidyInv, IdInv
    <3>3. Same(bus[n], bus[n])
          BY DEF Same
    <3>4. CASE v = t
          BY <1>1, <1>4, <3>1, <3>3, <3>4 DEF Same
    <3>5. CASE v # t
          BY <1>1, <1>4, <2>3, <3>1, <3>2, <3>5 DEF Same
    <3> QED BY <3>4, <3>5
  <2>4. ASSUME NEW u \in Thread, job'[u].pc = "make" PROVE Seen(u)' # 0
    <3>1. u # t
          BY <1>4, <2>4
    <3>2. Seen(u)' = Seen(u) /\ job[u].pc = "make"
          BY <1>1, <1>4, <2>4, <3>1 DEF Seen, Bsd
    <3> QED BY <1>6, <3>2 DEF TidyInv, IdInv
  <2> QED BY <2>2, <2>3, <2>4 DEF IdInv
<1>7. ASSUME ~Win PROVE IdInv'
      BY <1>1, <1>7 DEF IdInv, Win
<1>8. SizeInv'
  <2> SUFFICES ASSUME system = "netbsd", NEW u \in Thread PROVE SizeAt(u)'
      BY <1>1 DEF SizeInv
  <2>1. CASE u = t
    <3>1. p = "all"
          BY <1>2 DEF Win
    <3>2. NodesOf("all", bus) \subseteq Physical
          BY Zenon DEF NodesOf, Listed
    <3>3. Cardinality(NodesOf("all", bus)) <= Cardinality(Physical)
          BY <3>2, PhysicalFinite, FS_Subset
    <3>4. Len(found'[t]) = 0 /\ One(job'[t].pc \in Busy) = 0
          BY <1>1, <1>4 DEF JobAt, One, Busy
    <3>5. Cardinality(NodesOf("all", bus)) \in Nat
          BY <3>2, PhysicalFinite, FS_Subset, FS_CardinalityType
    <3> QED BY <1>4, <2>1, <3>1, <3>2, <3>3, <3>4, <3>5, PhysicalFinite DEF SizeAt
  <2>2. CASE u # t
        BY <1>1, <1>4, <2>2 DEF TidyInv, SizeInv, SizeAt
  <2> QED BY <2>1, <2>2
<1> QED BY <1>5, <1>6, <1>7, <1>8 DEF TidyInv

\* Where libusb knows a device nothing else is plugged in
LEMMA TidyBus ==
    ASSUME EnumAssumption, EnumInv, TidyInv, NEW n \in Physical, NEW i, NEW b,
           i # 0 => \A s \in Slot : dev[s].node \notin NodesAt(n),
           i # 0 => \A t \in Thread : job[t].pc # "idle" => job[t].snap[n] = 0,
           b = [bus EXCEPT ![n] = i], bus' = b,
           UNCHANGED <<system, dev, known, job, found, undefined>>
    PROVE  TidyInv'
<1>1. /\ b[n] = i /\ \A m \in Physical \ {n} : b[m] = bus[m]
      /\ \A s \in Slot : Live(s)' <=> Live(s)
      BY DEF EnumInv, EnumTypes, Live
<1>2. AllKnown' /\ ~undefined'
      BY IdsKept, KnownKept DEF TidyInv
<1>3. SizeInv'
      BY DEF TidyInv, SizeInv, SizeAt
<1>4. ASSUME Win PROVE IdInv'
  <2>1. ASSUME NEW s \in Slot, Live(s) PROVE Agrees(s, bus)'
    <3>1. dev[s].node \in Node /\ Agrees(s, bus)
          BY <1>4, <2>1 DEF TidyInv, IdInv, EnumInv, LiveInv
    <3>2. PICK m \in Node, p \in Physical :
              m = dev[s].node /\ p = IF Kind[m] = "interface" THEN Parent[m] ELSE m
          BY <3>1, PhysicalFinite
    <3>3. Shown(bus, m) = bus[p] /\ Shown(b, m) = b[p]
          BY <3>2 DEF Shown
    <3>4. p = n => m \in NodesAt(n)
          BY <3>2 DEF NodesAt
    <3>5. b[p] = bus[p] \/ b[p] = 0
          BY <1>1, <3>2, <3>4
    <3> QED BY <3>1, <3>2, <3>3, <3>5 DEF Agrees
  <2>2. ASSUME NEW m \in Physical, NEW t \in Thread, job[t].pc # "idle"
        PROVE  Same(job[t].snap[m], b[m])
    <3>1. Same(job[t].snap[m], bus[m])
          BY <1>4, <2>2 DEF TidyInv, IdInv
    <3>2. CASE m = n
          BY <1>1, <2>2, <3>2 DEF Same
    <3>3. CASE m # n
          BY <1>1, <3>1, <3>3
    <3> QED BY <3>2, <3>3
  <2>3. ASSUME NEW t \in Thread, job[t].pc = "make" PROVE Seen(t)' # 0
    <3>1. Seen(t)' = Seen(t)
          BY <1>4 DEF Seen, Win, Bsd
    <3> QED BY <1>4, <2>3, <3>1 DEF TidyInv, IdInv
  <2>4. \A s \in Slot : Live(s) =>
            /\ dev[s].session = dev[s].node
            /\ \A t \in Thread : job[t].pc # "idle" => Agrees(s, job[t].snap)
        BY <1>4 DEF TidyInv, IdInv
  <2>5. \A s \in Slot, t \in Thread : Agrees(s, job[t].snap)' <=> Agrees(s, job[t].snap)
        BY DEF Agrees
  <2>6. \A m \in Physical, t \in Thread, u \in Thread :
            job[t].pc # "idle" /\ job[u].pc # "idle" => Same(job[t].snap[m], job[u].snap[m])
        BY <1>4 DEF TidyInv, IdInv
  <2> QED BY <1>1, <2>1, <2>2, <2>3, <2>4, <2>5, <2>6 DEF IdInv
<1>5. ASSUME ~Win PROVE IdInv'
      BY <1>5 DEF IdInv, Win
<1> QED BY <1>2, <1>3, <1>4, <1>5 DEF TidyInv

LEMMA TidyPlug ==
    ASSUME EnumAssumption, EnumInv, Tidy, TidyInv, NEW n \in Physical, Plug(n) \/ Unplug(n)
    PROVE  TidyInv'
<1>1. CASE Plug(n)
  <2>1. /\ \A s \in Slot : dev[s].node \notin NodesAt(n)
        /\ \A t \in Thread : job[t].pc # "idle" => job[t].snap[n] = 0
        BY <1>1 DEF Plug, Tidy
  <2>2. bus' = [bus EXCEPT ![n] = changes + 1]
        BY <1>1 DEF Plug
  <2>3. UNCHANGED <<system, dev, known, job, found, undefined>>
        BY <1>1 DEF Plug
  <2> QED BY <2>1, <2>2, <2>3, TidyBus
<1>2. CASE Unplug(n)
  <2>1. bus' = [bus EXCEPT ![n] = 0]
        BY <1>2 DEF Unplug
  <2>2. UNCHANGED <<system, dev, known, job, found, undefined>>
        BY <1>2 DEF Unplug
  <2> QED BY <2>1, <2>2, TidyBus
<1> QED BY <1>1, <1>2

LEMMA TidyStutters ==
    ASSUME TidyInv, UNCHANGED enumVars PROVE TidyInv'
<1>1. UNCHANGED <<system, bus, dev, known, job, found, undefined>>
      BY DEF enumVars, threadVars
<1>2. AllKnown'
      BY <1>1 DEF TidyInv, AllKnown, Live
<1>3. IdInv'
  <2>1. \A t \in Thread : Seen(t)' = Seen(t)
        BY <1>1 DEF Seen, Bsd
  <2>2. \A s \in Slot : Live(s)' = Live(s)
        BY <1>1 DEF Live
  <2> QED BY <1>1, <2>1, <2>2 DEF TidyInv, IdInv, Agrees, Win
<1>4. SizeInv'
      BY <1>1 DEF TidyInv, SizeInv, SizeAt
<1> QED BY <1>1, <1>2, <1>3, <1>4 DEF TidyInv

LEMMA TidyBegins ==
    ASSUME EnumAssumption, EnumInit
    PROVE  TidyInv
<1>1. /\ \A s \in Slot : ~Live(s)
      /\ \A t \in Thread : job[t] = NoJob /\ found[t] = <<>>
      /\ ~undefined
      BY DEF EnumInit, Live
<1>2. NoJob.pc = "idle" /\ NoJob.todo = {}
      BY DEF NoJob
<1>3. AllKnown /\ IdInv
      BY <1>1, <1>2 DEF AllKnown, IdInv
<1>4. ASSUME NEW t \in Thread PROVE SizeAt(t)
  <2>1. job[t].todo = {} /\ Len(found[t]) = 0 /\ job[t].pc \notin Busy
        BY <1>1, <1>2 DEF Busy
  <2>2. Cardinality({}) = 0 /\ Cardinality(Physical) \in Nat
        BY PhysicalFinite, FS_EmptySet
  <2> QED BY <2>1, <2>2 DEF SizeAt, One
<1> QED BY <1>1, <1>3, <1>4 DEF TidyInv, SizeInv

LEMMA TidySteps ==
    ASSUME EnumAssumption, EnumInv, Tidy, TidyInv, [EnumNext]_enumVars
    PROVE  TidyInv'
<1>1. "dying" \notin Faults
      BY DEF Tidy
<1>2. CASE UNCHANGED enumVars
      BY <1>2, TidyStutters
<1>3. ASSUME NEW n \in Physical, Plug(n) \/ Unplug(n) PROVE TidyInv'
      BY <1>3, TidyPlug
<1>4. ASSUME NEW t \in Thread, Steps(t) PROVE TidyInv'
  <2>1. CASE DropRef(t) \/ Destroy(t) \/ FreeList(t)
        BY <2>1, TidyRelease, TidyDestroy
  <2>2. CASE Begin(t) \/ NextPass(t) \/ Done(t) \/ GiveUp(t)
        BY <2>2, TidyBegin, TidyNextPass, TidyEnd
  <2>3. CASE BelowHub(t) \/ BelowNothing(t) \/ RootHub(t) \/ Owner(t)
        BY <1>1, <2>3, TidyBelow, TidyRootHub, TidyOwner
  <2>4. CASE Nothing(t) \/ Find(t) \/ Make(t) \/ MakeFails(t)
        BY <1>1, <2>4, TidyEntry, TidyFind, TidyMake
  <2>5. CASE SetupPath(t) \/ InitDevice(t) \/ InitDeviceFails(t)
        BY <2>5, TidyEntry, TidyInit
  <2>6. CASE ReadDescriptors(t) \/ ReadFails(t) \/ AppendDevice(t)
        BY <2>6, TidyEntry, TidyReadFails, TidyAppend
  <2>7. CASE \E n \in Node : Item(t, n)
        BY <2>7, TidyItem
  <2> QED BY <1>4, <2>1, <2>2, <2>3, <2>4, <2>5, <2>6, <2>7 DEF Steps
<1> QED BY <1>2, <1>3, <1>4 DEF EnumNext

\* Every device that is there is on the list of known devices, and where WinUSB has a
\* structure for a node it is the one of what is plugged in there.
THEOREM DevicesAreKnown ==
    ASSUME EnumAssumption, Tidy
    PROVE  EnumSpec => []TidyInv
<1>1. "dying" \notin Faults
      BY DEF Tidy
<1>2. EnumInit => EnumInv /\ TidyInv
      BY EnumBegins, TidyBegins
<1>3. (EnumInv /\ TidyInv) /\ [EnumNext]_enumVars => (EnumInv /\ TidyInv)'
      BY <1>1, EnumSteps, TidySteps
<1> QED BY <1>2, <1>3, PTL DEF EnumSpec

\* A device has as many references as the lists, the listing threads and the devices
\* below it hold, so that it is freed when the last one is dropped and not before
\* (libusb_ref_device, libusb_unref_device). Lists that move, devices that are replaced
\* and two threads that find a device at a time change nothing about that.
THEOREM ReferencesAreCounted ==
    ASSUME EnumAssumption, "dying" \notin Faults
    PROVE  EnumSpec => []RefsBalance
<1>1. EnumInv => RefsBalance
      BY DEF EnumInv, LiveInv, BalanceInv, Balanced, HubAt, Win, Hubs, RefsBalance
<1> QED BY <1>1, EnumInvariance, PTL

\* MemorySafe: and no device is taken off the list of known ones twice, and no list is
\* used that moved or was freed.
THEOREM ListsAreMemorySafe ==
    ASSUME EnumAssumption, Tidy
    PROVE  EnumSpec => []MemorySafe
<1>1. "dying" \notin Faults
      BY DEF Tidy
<1>2. EnumInv /\ TidyInv => MemorySafe
      BY DEF EnumInv, LiveInv, BalanceInv, Balanced, HubAt, Win, Hubs, RefsBalance,
             TidyInv, MemorySafe, NothingDangling
<1> QED BY <1>1, <1>2, EnumInvariance, DevicesAreKnown, PTL

----------------------------------------------------------------------------
(* A list is complete. What the devices that stay keep, and, for each      *)
(* system, how far a listing that nothing disturbed has come.              *)

\* What somebody recorded of the devices that stay only grows.
Kept(s) ==
    /\ dev'[s].node = dev[s].node /\ dev'[s].id = dev[s].id
    /\ dev'[s].session = dev[s].session /\ (dev[s].rootHub => dev'[s].rootHub)
    /\ dev[s].paths \subseteq dev'[s].paths
Steady == \A s \in Slot : Live(s) => IF Live(s)' THEN Kept(s) ELSE dev[s].refs = 0

\* What a listing has before it, and where it may be in a pass.
Left(t) == job[t].todo \cup (IF job[t].pc = "item" THEN {} ELSE {job[t].node})
Lists(t) == job[t].pc \notin {"idle", "failed"}
Finding == {"item", "find", "make", "setup"}
PcsOf(pass) ==
    CASE pass \in {"hub", "dev"} -> Finding
      [] pass = "hcd" -> {"item", "rootHub"}
      [] pass = "gen" -> Finding \cup {"ancestor", "append"}
      [] pass = "ext" -> {"item", "owner"}
      [] OTHER -> Finding \cup {"append"}

EntryAt(t) ==
    /\ job[t].pc \in PcsOf(job[t].pass)
    /\ job[t].pc # "item" => job[t].node \notin job[t].todo
    /\ ~Win => Left(t) \subseteq Listed
    /\ job[t].pc \in {"setup", "append"} => dev[job[t].dev].node = job[t].node
EntryInv == \A t \in Thread : Lists(t) => EntryAt(t)

\* WinUSB has one structure for a node, and its interfaces' paths are in that of their
\* device.
UniqueInv ==
    Win => /\ \A r, s \in Slot : Live(r) /\ Live(s) /\ dev[r].node = dev[s].node => r = s
           /\ \A t, u \in Thread : job[t].pc = "make" /\ job[u].pc = "make" => t = u
           /\ \A t \in Thread : job[t].pc = "make" =>
                 \A s \in Slot : Live(s) => dev[s].node # job[t].node
Itfs(n) == {m \in Node : Kind[m] = "interface" /\ Parent[m] = n}
PathInv == \A s \in Slot : Live(s) => dev[s].paths \subseteq Itfs(dev[s].node)

\* The BSDs know a device by its address ...
BsdInv ==
    system \in Bsd => \A s \in Slot : Live(s) => dev[s].session = dev[s].node /\ Agrees(s, bus)

\* ... and UsbDk by the place of its identity in a table that has room for all.
HashInv ==
    system = "usbdk" =>
        /\ changes <= HashSize
        /\ \A k, l \in 1..Len(hashed) : hashed[k] = hashed[l] => k = l
        /\ \A k \in 1..Len(hashed) : hashed[k] \in 1..changes
        /\ \A s \in Slot : Live(s) =>
              dev[s].session \in 1..Len(hashed) /\ hashed[dev[s].session] = dev[s].id
        /\ \A t \in Thread : job[t].pc = "make" => Contains(hashed, Seen(t))

\* An identity was seen at one node.
Sights ==
    {<<n, bus[n]>> : n \in Physical \ Hubs}
    \cup {<<n, job[t].snap[n]>> : n \in Physical \ Hubs, t \in {u \in Thread : job[u].pc # "idle"}}
    \cup {<<dev[s].node, dev[s].id>> : s \in {r \in Slot : Live(r)}}
SightInv ==
    system = "usbdk" =>
        /\ \A x \in Sights : x[2] \in 0..changes
        /\ \A x, y \in Sights : x[2] = y[2] /\ x[2] # 0 => x[1] = y[1]

\* Nothing came or went since a listing began that is calm.
CalmInv ==
    /\ calm \in [Thread -> [Physical -> Nat] \cup {<<>>}]
    /\ \A h \in Hubs : bus[h] # 0
    /\ \A t \in Thread : calm[t] # <<>> =>
          /\ \A h \in Hubs : calm[t][h] # 0
          /\ job[t].pc # "idle" => bus = calm[t] /\ job[t].snap = calm[t]

\* A list that is complete but for some nodes.
Complete(q, b, rest) ==
    /\ \A k \in 1..Len(q) :
          /\ dev[q[k]].node \in Listed \ rest /\ dev[q[k]].id = b[dev[q[k]].node]
          /\ dev[q[k]].id # 0
    /\ \A k, l \in 1..Len(q) : dev[q[k]].node = dev[q[l]].node => k = l
    /\ \A n \in Listed \ rest : b[n] # 0 => \E k \in 1..Len(q) : dev[q[k]].node = n
ToList(t) ==
    CASE job[t].pass \in {"hub", "dev", "hcd"} -> Node
      [] job[t].pass = "ext" -> {}
      [] OTHER -> Left(t)

\* What the passes of WinUSB know: the structures of hubs and of devices, the root hubs,
\* the paths of interfaces.
Visited(t, n) ==
    IF n \in Hubs THEN job[t].pass = "hub" => n \notin Left(t)
    ELSE job[t].pass # "hub" /\ (job[t].pass = "dev" => n \notin Left(t))
RootsDone(t, h) == job[t].pass \in {"gen", "ext"} \/ (job[t].pass = "hcd" /\ h \notin Left(t))
Tracks(t, n) == \E k \in 1..Len(unrefs[t]) : dev[unrefs[t][k]].node = n
HasRoot(t, h) ==
    \E k \in 1..Len(unrefs[t]) : dev[unrefs[t][k]].node = h /\ dev[unrefs[t][k]].rootHub
HasPath(t, n) == \E k \in 1..Len(unrefs[t]) : n \in dev[unrefs[t][k]].paths
Track(t) ==
    /\ \A n \in Physical : calm[t][n] # 0 /\ Visited(t, n) => Tracks(t, n)
    /\ \A h \in Hubs : Above[h] = <<>> /\ RootsDone(t, h) => HasRoot(t, h)
    /\ job[t].pass = "ext" => \A n \in Node \ Left(t) :
          Kind[n] = "interface" /\ Shown(calm[t], n) # 0 => HasPath(t, n)

Entry(t) ==
    /\ system \notin Bsd => \A n \in Left(t) : Shown(calm[t], n) # 0
    /\ job[t].pc \in {"make", "setup", "append"} => Shown(calm[t], job[t].node) # 0
    /\ job[t].pc \in {"setup", "append"} => dev[job[t].dev].id = Shown(calm[t], job[t].node)
    /\ job[t].pass = "gen" /\ job[t].pc \in Busy => job[t].node \in Physical

\* A listing that nothing disturbed, and the list it made.
Round(t) == Entry(t) /\ Complete(found[t], calm[t], ToList(t)) /\ (Win => Track(t))
Ended(t) ==
    /\ Complete(list[t], calm[t], {})
    /\ Win => \A k \in 1..Len(list[t]) : Kind[dev[list[t][k]].node] = "device" =>
          dev[list[t][k]].paths = Itfs(dev[list[t][k]].node)
RoundInv ==
    \A t \in Thread : calm[t] # <<>> =>
        (Lists(t) => Round(t)) /\ (job[t].pc = "idle" => Ended(t))

WholeInv == UniqueInv /\ PathInv /\ BsdInv /\ HashInv /\ SightInv /\ CalmInv
MatchInv == EntryInv /\ WholeInv /\ RoundInv

----------------------------------------------------------------------------
(* What the steps do to the devices.                                       *)

OldOnly == \A s \in Slot : Live(s)' => Live(s)
SamePaths == \A s \in Slot : Live(s)' => dev'[s].paths = dev[s].paths

LEMMA DevKept ==
    ASSUME dev' = dev PROVE Steady /\ OldOnly /\ SamePaths
BY DEF Steady, OldOnly, SamePaths, Kept, Live

LEMMA TouchKeeps ==
    ASSUME EnumAssumption, EnumInv, NEW r \in Slot, Live(r),
           \A s \in Slot \ {r} : dev'[s] = dev[s], Kept(r)
    PROVE  Steady /\ OldOnly /\ (dev'[r].paths = dev[r].paths => SamePaths)
<1>1. \A s \in Slot : Live(s)' => Live(s)
      BY DEF Live
<1>2. \A s \in Slot : s # r => Kept(s) /\ (Live(s) => Live(s)')
      BY DEF Kept, Live
<1>3. Live(r)'
  <2>1. dev'[r].node \in Node /\ NoNode \notin Node
        BY DEF Kept, EnumInv, LiveInv, EnumAssumption, NoNode
  <2> QED BY <2>1 DEF Live, NoDev
<1> QED BY <1>1, <1>2, <1>3 DEF Steady, OldOnly, SamePaths

LEMMA RefIs ==
    ASSUME EnumInv, NEW r \in Slot
    PROVE  /\ Ref(dev, r) \in [Slot -> DevRec] /\ \A s \in Slot \ {r} : Ref(dev, r)[s] = dev[s]
           /\ Ref(dev, r)[r].node = dev[r].node /\ Ref(dev, r)[r].id = dev[r].id
           /\ Ref(dev, r)[r].session = dev[r].session /\ Ref(dev, r)[r].paths = dev[r].paths
           /\ Ref(dev, r)[r].rootHub = dev[r].rootHub
<1>1. PICK e \in DevRec : e = dev[r]
      BY DevType DEF EnumInv
<1>2. Ref(dev, r) = [dev EXCEPT ![r] = [e EXCEPT !.refs = @ + 1]]
      BY <1>1 DEF Ref, EnumInv, EnumTypes
<1>3. [e EXCEPT !.refs = @ + 1] \in DevRec
      BY DEF DevRec
<1>4. PICK g \in DevRec : /\ Ref(dev, r) = [dev EXCEPT ![r] = g]
                          /\ g.node = e.node /\ g.id = e.id /\ g.session = e.session
                          /\ g.paths = e.paths /\ g.rootHub = e.rootHub
      BY <1>2, <1>3 DEF DevRec
<1> QED BY <1>1, <1>4 DEF EnumInv, EnumTypes

LEMMA RefKeeps ==
    ASSUME EnumAssumption, EnumInv, NEW r \in Slot, Live(r), dev' = Ref(dev, r)
    PROVE  Steady /\ OldOnly /\ SamePaths
<1>1. /\ Kept(r) /\ dev'[r].paths = dev[r].paths
      /\ \A s \in Slot \ {r} : dev'[s] = dev[s]
      BY RefIs DEF Kept
<1> QED BY <1>1, TouchKeeps

\* A reference that is dropped is of a device that is there
LEMMA DropRefKeeps ==
    ASSUME EnumAssumption, EnumInv, NEW t \in Thread, DropRef(t)
    PROVE  Steady /\ OldOnly /\ SamePaths
<1>1. /\ work[t] # <<>> /\ work[t] \in Seq(Chore) /\ Head(work[t]).do = "unref"
      BY JobType DEF DropRef, EnumInv
<1>2. Head(work[t]) \in Chore
      BY <1>1
<1>3. PICK s \in Slot : s = Head(work[t]).s /\ Head(work[t]) = Unref(s)
      BY <1>1, <1>2 DEF Chore, Unref
<1>4. Count(work[t], Unref(s)) > 0
  <2>1. work[t][1] = Unref(s) /\ 1 \in 1..Len(work[t])
        BY <1>1, <1>3
  <2> QED BY <1>1, <2>1, CountType
<1>5. Live(s)
      BY <1>4, Held, HeldIsCounted DEF EnumInv
<1>6. dev' = [dev EXCEPT ![s].refs = IF @ = 0 THEN 0 ELSE @ - 1]
      BY <1>3 DEF DropRef
<1>7. PICK e \in DevRec : e = dev[s]
      BY DevType DEF EnumInv
<1>8. PICK n : n = IF e.refs = 0 THEN 0 ELSE e.refs - 1
      OBVIOUS
<1>9. dev' = [dev EXCEPT ![s] = [e EXCEPT !.refs = n]]
      BY <1>6, <1>7, <1>8 DEF EnumInv, EnumTypes
<1>10. /\ \A x \in Slot \ {s} : dev'[x] = dev[x]
       /\ dev'[s].node = e.node /\ dev'[s].id = e.id /\ dev'[s].session = e.session
       /\ dev'[s].paths = e.paths /\ dev'[s].rootHub = e.rootHub
       BY <1>9 DEF EnumInv, EnumTypes, DevRec
<1>11. Kept(s)
       BY <1>7, <1>10 DEF Kept
<1> QED BY <1>5, <1>7, <1>10, <1>11, TouchKeeps

LEMMA DestroyKeeps ==
    ASSUME EnumAssumption, EnumInv, NEW t \in Thread, Destroy(t)
    PROVE  Steady /\ OldOnly /\ SamePaths
<1>1. /\ work[t] # <<>> /\ work[t] \in Seq(Chore) /\ Head(work[t]).do = "remove"
      BY JobType DEF Destroy, EnumInv
<1>2. Head(work[t]) \in Chore
      BY <1>1
<1>3. PICK s \in Slot : s = Head(work[t]).s /\ Head(work[t]) = Removal(s)
      BY <1>1, <1>2 DEF Chore, Removal
<1>4. dev' = [dev EXCEPT ![s] = NoDev]
      BY <1>3 DEF Destroy
<1>5. dev[s].refs = 0
  <2>1. Count(work[t], Removal(s)) > 0
    <3>1. work[t][1] = Removal(s) /\ 1 \in 1..Len(work[t])
          BY <1>1, <1>3
    <3> QED BY <1>1, <3>1, CountType
  <2>2. Removals(s) \in Nat /\ Count(work[t], Removal(s)) <= Removals(s)
        BY HoldersType DEF EnumInv
  <2>3. Count(work[t], Removal(s)) \in Nat
        BY HeldType DEF EnumInv
  <2>4. Removals(s) # 0
        BY <2>1, <2>2, <2>3
  <2> QED BY <2>4 DEF EnumInv, DoomInv, Doomed
<1>6. \A x \in Slot : x # s => dev'[x] = dev[x]
      BY <1>4 DEF EnumInv, EnumTypes
<1>7. ~Live(s)'
      BY <1>4 DEF Live, EnumInv, EnumTypes
<1> QED BY <1>5, <1>6, <1>7 DEF Steady, OldOnly, SamePaths, Kept, Live

LEMMA RootHubKeeps ==
    ASSUME EnumAssumption, EnumInv, "dying" \notin Faults, NEW t \in Thread, RootHub(t),
           Found(job[t].node) # 0
    PROVE  /\ Steady /\ OldOnly /\ SamePaths /\ Found(job[t].node) \in Slot
           /\ Live(Found(job[t].node)) /\ dev'[Found(job[t].node)].rootHub
<1>1. PICK r : r = Found(job[t].node)
      OBVIOUS
<1>2. r \in Slot /\ Live(r)
      BY <1>1, FoundLives DEF RootHub
<1>3. dev' = [Ref(dev, r) EXCEPT ![r].rootHub = TRUE]
      BY <1>1 DEF RootHub
<1>4. PICK d \in [Slot -> DevRec] : d = Ref(dev, r)
      BY <1>2, RefIs
<1>5. PICK e \in DevRec : e = d[r]
      BY <1>2
<1>6. dev' = [d EXCEPT ![r] = [e EXCEPT !.rootHub = TRUE]]
      BY <1>2, <1>3, <1>4, <1>5
<1>7. /\ \A s \in Slot \ {r} : dev'[s] = d[s]
      /\ dev'[r].node = e.node /\ dev'[r].id = e.id /\ dev'[r].session = e.session
      /\ dev'[r].paths = e.paths /\ dev'[r].rootHub
      BY <1>2, <1>6 DEF DevRec
<1>8. /\ \A s \in Slot \ {r} : dev'[s] = dev[s]
      /\ Kept(r) /\ dev'[r].paths = dev[r].paths
      BY <1>2, <1>4, <1>5, <1>7, RefIs DEF Kept
<1> QED BY <1>1, <1>2, <1>7, <1>8, TouchKeeps

\* The path of an interface, in the structure of the device it is of
LEMMA OwnerKeeps ==
    ASSUME EnumAssumption, EnumInv, "dying" \notin Faults, NEW t \in Thread, Owner(t),
           NEW p, p = Ancestor(job[t].node), p # 0
    PROVE  /\ Steady /\ OldOnly /\ p \in Slot /\ Live(p)
           /\ \A s \in Slot \ {p} : dev'[s] = dev[s]
           /\ IF Kind[dev[p].node] = "hub" THEN SamePaths
              ELSE dev'[p].paths = dev[p].paths \cup {job[t].node}
<1>1. PICK n : n = job[t].node
      OBVIOUS
<1>2. p \in Slot /\ Live(p)
      BY AncestorLives DEF Owner
<1>3. dev' = IF Kind[dev[p].node] = "hub" THEN Ref(dev, p)
             ELSE SetInterface(Ref(dev, p), p, n)
      BY <1>1 DEF Owner
<1>4. CASE Kind[dev[p].node] = "hub"
      BY <1>2, <1>3, <1>4, RefKeeps, RefIs
<1>5. CASE Kind[dev[p].node] # "hub"
  <2>1. PICK d \in [Slot -> DevRec] : d = Ref(dev, p)
        BY <1>2, RefIs
  <2>2. PICK e \in DevRec : e = d[p]
        BY <1>2
  <2>3. dev' = [d EXCEPT ![p] = [e EXCEPT !.paths = @ \cup {n}]]
        BY <1>2, <1>3, <1>5, <2>1, <2>2 DEF SetInterface
  <2>4. /\ \A s \in Slot \ {p} : dev'[s] = d[s]
        /\ dev'[p].node = e.node /\ dev'[p].id = e.id /\ dev'[p].session = e.session
        /\ dev'[p].paths = e.paths \cup {n} /\ dev'[p].rootHub = e.rootHub
        BY <1>2, <2>3, SMTT(30) DEF DevRec
  <2>5. /\ \A s \in Slot \ {p} : dev'[s] = dev[s]
        /\ Kept(p) /\ dev'[p].paths = dev[p].paths \cup {n}
    <3>1. /\ \A s \in Slot \ {p} : d[s] = dev[s]
          /\ e.node = dev[p].node /\ e.id = dev[p].id /\ e.session = dev[p].session
          /\ e.paths = dev[p].paths /\ e.rootHub = dev[p].rootHub
          BY <1>2, <2>1, <2>2, RefIs
    <3> QED BY <2>4, <3>1 DEF Kept
  <2> QED BY <1>1, <1>2, <1>5, <2>5, TouchKeeps
<1> QED BY <1>4, <1>5

\* init_device touches nothing of it
LEMMA InitKeeps ==
    ASSUME EnumAssumption, EnumInv, NEW t \in Thread, InitDevice(t) \/ InitDeviceFails(t)
    PROVE  Steady /\ OldOnly /\ SamePaths
<1>1. PICK s \in Slot : s = job[t].dev /\ Live(s)
      BY InitDeviceIs
<1>2. PICK e \in DevRec : e = dev[s]
      BY DevType DEF EnumInv
<1>3. PICK p, r : /\ p = job[t].par
                  /\ dev' \in {WithParent(t), [WithParent(t) EXCEPT ![s].ready = r]}
  <2>1. CASE InitDevice(t)
        BY <1>1, <2>1 DEF InitDevice
  <2>2. CASE InitDeviceFails(t)
        BY <2>2 DEF InitDeviceFails
  <2> QED BY <2>1, <2>2
<1>4. PICK f : /\ WithParent(t) = [dev EXCEPT ![s] = f] /\ f \in {e, [e EXCEPT !.parent = p]}
  <2>1. dev \in [Slot -> DevRec] /\ dev[s] = e
        BY <1>2 DEF EnumInv, EnumTypes
  <2>2. \/ WithParent(t) = dev
        \/ WithParent(t) = [dev EXCEPT ![s] = [e EXCEPT !.parent = p]]
        BY <1>1, <1>3, <2>1 DEF WithParent
  <2>3. dev = [dev EXCEPT ![s] = e]
        BY <2>1
  <2>4. CASE WithParent(t) = dev
        BY <2>3, <2>4
  <2>5. CASE WithParent(t) = [dev EXCEPT ![s] = [e EXCEPT !.parent = p]]
        BY <2>5
  <2> QED BY <2>2, <2>4, <2>5
<1>5. /\ f.node = e.node /\ f.id = e.id /\ f.session = e.session
      /\ f.paths = e.paths /\ f.rootHub = e.rootHub
      BY <1>4 DEF DevRec
<1>6. PICK g : /\ dev' = [dev EXCEPT ![s] = g] /\ g \in {f, [f EXCEPT !.ready = r]}
      BY <1>3, <1>4 DEF EnumInv, EnumTypes
<1>7. f = [e EXCEPT !.parent = f.parent]
      BY <1>4 DEF DevRec
<1>8. /\ g.node = f.node /\ g.id = f.id /\ g.session = f.session
      /\ g.paths = f.paths /\ g.rootHub = f.rootHub
      BY <1>6, <1>7 DEF DevRec
<1>9. dev'[s] = g /\ \A x \in Slot \ {s} : dev'[x] = dev[x]
      BY <1>6 DEF EnumInv, EnumTypes
<1>10. Kept(s) /\ dev'[s].paths = dev[s].paths
       BY <1>2, <1>5, <1>8, <1>9 DEF Kept
<1> QED BY <1>1, <1>9, <1>10, TouchKeeps

LEMMA MakeKeeps ==
    ASSUME EnumAssumption, EnumInv, NEW t \in Thread, Make(t)
    PROVE  /\ Steady
           /\ \E r \in Slot, e \in DevRec :
                 /\ ~Live(r) /\ dev'[r] = e /\ \A x \in Slot \ {r} : dev'[x] = dev[x]
                 /\ e.node = job[t].node /\ e.id = Seen(t) /\ e.session = Session(t)
                 /\ e.paths = {} /\ known' = <<r>> \o known
                 /\ Sets(t, "setup", r) /\ unrefs' = Tracked(t, r)
<1> DEFINE s == CHOOSE k \in FreeSlots : \A j \in FreeSlots : k <= j
<1>1. /\ job[t].pc = "make" /\ FreeSlots # {}
      /\ dev' = [dev EXCEPT ![s] = NewDev(job[t].node, Seen(t), Session(t))]
      /\ known' = <<s>> \o known
      /\ job' = [job EXCEPT ![t].pc = "setup", ![t].dev = s]
      /\ unrefs' = Tracked(t, s)
      BY DEF Make, At
<1>2. s \in FreeSlots
  <2>1. FreeSlots \in SUBSET Nat
        BY DEF FreeSlots, Slot
  <2>2. Min(FreeSlots) \in FreeSlots /\ \A j \in FreeSlots : Min(FreeSlots) <= j
        BY <1>1, <2>1, MinOfPlaces
  <2> QED BY <2>2
<1> HIDE DEF s
<1>3. PICK r \in Slot : r = s /\ ~Live(r)
      BY <1>2 DEF FreeSlots, Live
<1>4. PICK e : e = NewDev(job[t].node, Seen(t), Session(t))
      OBVIOUS
<1>5. /\ e.node = job[t].node /\ e.id = Seen(t) /\ e.session = Session(t) /\ e.paths = {}
      /\ e \in DevRec
  <2>1. PICK n, i, x : n = job[t].node /\ i = Seen(t) /\ x = Session(t)
        OBVIOUS
  <2>2. e = [node |-> n, id |-> i, session |-> x, refs |-> 1, parent |-> 0,
             paths |-> {}, rootHub |-> FALSE, ready |-> FALSE]
        BY <1>4, <2>1 DEF NewDev, NoDev
  <2>3. n \in Node /\ i \in Nat /\ x \in Sessions /\ 0 \in 0..MaxSlots
        BY <1>1, <2>1, SeenType DEF EnumAssumption
  <2> QED BY <2>1, <2>2, <2>3 DEF DevRec
<1>6. dev'[r] = e /\ \A x \in Slot \ {r} : dev'[x] = dev[x]
      BY <1>1, <1>3, <1>4 DEF EnumInv, EnumTypes
<1>7. Steady
      BY <1>3, <1>6 DEF Steady, Live, Kept
<1>8. known' = <<r>> \o known /\ Sets(t, "setup", r) /\ unrefs' = Tracked(t, r)
      BY <1>1, <1>3 DEF Sets
<1> QED BY <1>3, <1>5, <1>6, <1>7, <1>8

----------------------------------------------------------------------------
(* What all have in common.                                                *)

LEMMA PathsKept ==
    ASSUME PathInv, Steady, OldOnly, SamePaths PROVE PathInv'
<1> SUFFICES ASSUME NEW s \in Slot, Live(s)' PROVE dev'[s].paths \subseteq Itfs(dev'[s].node)
    BY DEF PathInv, Itfs
<1>1. Live(s) /\ dev'[s].paths = dev[s].paths /\ dev'[s].node = dev[s].node
      BY DEF Steady, OldOnly, SamePaths, Kept
<1> QED BY <1>1 DEF PathInv

\* No thread comes to where it makes a structure
NoNewMake ==
    \A u \in Thread : job'[u].pc = "make" =>
        job[u].pc = "make" /\ job'[u].node = job[u].node /\ job'[u].snap = job[u].snap
SameSnaps ==
    \A u \in Thread : job'[u].pc # "idle" => job[u].pc # "idle" /\ job'[u].snap = job[u].snap

LEMMA UniqueKept ==
    ASSUME UniqueInv, Steady, OldOnly, NoNewMake, system' = system PROVE UniqueInv'
<1> SUFFICES ASSUME Win
             PROVE  /\ \A r, s \in Slot : Live(r)' /\ Live(s)' /\ dev'[r].node = dev'[s].node => r = s
                    /\ \A t, u \in Thread : job'[t].pc = "make" /\ job'[u].pc = "make" => t = u
                    /\ \A t \in Thread : job'[t].pc = "make" =>
                          \A s \in Slot : Live(s)' => dev'[s].node # job'[t].node
    BY DEF UniqueInv, Win
<1>1. \A s \in Slot : Live(s)' => Live(s) /\ dev'[s].node = dev[s].node
      BY DEF Steady, OldOnly, Kept
<1> QED BY <1>1 DEF UniqueInv, NoNewMake

LEMMA BsdKept ==
    ASSUME BsdInv, Steady, OldOnly, UNCHANGED <<system, bus>> PROVE BsdInv'
<1> SUFFICES ASSUME system \in Bsd, NEW s \in Slot, Live(s)'
             PROVE  dev'[s].session = dev'[s].node /\ Agrees(s, bus)'
    BY DEF BsdInv, Bsd
<1>1. /\ Live(s) /\ dev'[s].node = dev[s].node /\ dev'[s].session = dev[s].session
      /\ dev'[s].id = dev[s].id
      BY DEF Steady, OldOnly, Kept
<1>2. dev[s].session = dev[s].node /\ Agrees(s, bus)
      BY <1>1 DEF BsdInv
<1> QED BY <1>1, <1>2 DEF Agrees

LEMMA HashKept ==
    ASSUME HashInv, Steady, OldOnly, NoNewMake, UNCHANGED <<system, bus, changes, hashed>>
    PROVE  HashInv'
<1> SUFFICES ASSUME system = "usbdk"
             PROVE  /\ \A s \in Slot : Live(s)' =>
                          dev'[s].session \in 1..Len(hashed) /\ hashed[dev'[s].session] = dev'[s].id
                    /\ \A t \in Thread : job'[t].pc = "make" => Contains(hashed, Seen(t)')
    BY DEF HashInv
<1>1. \A s \in Slot : Live(s)' =>
          Live(s) /\ dev'[s].id = dev[s].id /\ dev'[s].session = dev[s].session
      BY DEF Steady, OldOnly, Kept
<1>2. ASSUME NEW t \in Thread, job'[t].pc = "make" PROVE Contains(hashed, Seen(t)')
  <2>1. Seen(t)' = Seen(t) /\ job[t].pc = "make"
        BY <1>2 DEF NoNewMake, Seen, Bsd
  <2> QED BY <2>1 DEF HashInv
<1> QED BY <1>1, <1>2 DEF HashInv

LEMMA SightsFewer ==
    ASSUME SightInv, Sights' \subseteq Sights, UNCHANGED <<system, changes>> PROVE SightInv'
BY DEF SightInv

LEMMA SightsKept ==
    ASSUME SightInv, Steady, OldOnly, SameSnaps, UNCHANGED <<system, bus, changes>>
    PROVE  SightInv'
<1>1. \A s \in Slot : Live(s)' => Live(s) /\ dev'[s].node = dev[s].node /\ dev'[s].id = dev[s].id
      BY DEF Steady, OldOnly, Kept
<1>2. {<<dev'[s].node, dev'[s].id>> : s \in {r \in Slot : Live(r)'}}
      \subseteq {<<dev[s].node, dev[s].id>> : s \in {r \in Slot : Live(r)}}
      BY <1>1
<1>3. {<<n, job'[t].snap[n]>> : n \in Physical \ Hubs, t \in {u \in Thread : job'[u].pc # "idle"}}
      \subseteq
      {<<n, job[t].snap[n]>> : n \in Physical \ Hubs, t \in {u \in Thread : job[u].pc # "idle"}}
      BY DEF SameSnaps
<1>4. Sights' \subseteq Sights
      BY <1>2, <1>3 DEF Sights
<1> QED BY <1>4, SightsFewer

Calms == [Thread -> [Physical -> Nat] \cup {<<>>}]

LEMMA CalmKept ==
    ASSUME CalmInv, SameSnaps, bus' = bus, calm' \in Calms,
           \A u \in Thread : calm'[u] \in {calm[u], <<>>}
    PROVE  CalmInv'
<1>1. \A u \in Thread : calm'[u] # <<>> => calm'[u] = calm[u] /\ calm[u] # <<>>
      OBVIOUS
<1> QED BY <1>1 DEF CalmInv, Calms, SameSnaps

LEMMA WholeKept ==
    ASSUME WholeInv, Steady, OldOnly, SamePaths, NoNewMake, SameSnaps,
           UNCHANGED <<system, bus, changes, hashed>>, calm' \in Calms,
           \A u \in Thread : calm'[u] \in {calm[u], <<>>}
    PROVE  WholeInv'
BY PathsKept, UniqueKept, BsdKept, HashKept, SightsKept, CalmKept DEF WholeInv

----------------------------------------------------------------------------
(* The other threads.                                                      *)

\* Only this thread goes on.
Apart(t) ==
    /\ UNCHANGED <<system, bus, changes>>
    /\ \A u \in Thread \ {t} :
          /\ job'[u] = job[u] /\ found'[u] = found[u] /\ unrefs'[u] = unrefs[u]
          /\ list'[u] = list[u] /\ calm'[u] = calm[u]

\* What a thread holds stays
LEMMA HeldStays ==
    ASSUME EnumAssumption, EnumInv, Steady, NEW t \in Thread,
           NEW q, q \in {found[t], unrefs[t], list[t]}, NEW k \in 1..Len(q)
    PROVE  q[k] \in Slot /\ Live(q[k]) /\ Kept(q[k]) /\ dev[q[k]].refs > 0
<1>1. q \in Seq(Slot)
      BY JobType DEF EnumInv
<1>2. PICK s \in Slot : s = q[k]
      BY <1>1
<1>3. Count(q, s) > 0
      BY <1>1, <1>2, CountType
<1>4. HeldBy(t, s) > 0
      BY <1>3, Held DEF EnumInv
<1>5. Live(s) /\ dev[s].refs > 0
      BY <1>4, HeldIsCounted DEF EnumInv
<1>6. Kept(s)
      BY <1>5 DEF Steady
<1> QED BY <1>2, <1>5, <1>6

LEMMA CompleteKept ==
    ASSUME EnumAssumption, EnumInv, Steady, system' = system, NEW t \in Thread,
           NEW q, q \in {found[t], list[t]}, NEW b, NEW rest, Complete(q, b, rest)
    PROVE  Complete(q, b, rest)'
<1>1. \A k \in 1..Len(q) : dev'[q[k]].node = dev[q[k]].node /\ dev'[q[k]].id = dev[q[k]].id
      BY HeldStays DEF Kept
<1>2. Listed' = Listed
      BY DEF Listed
<1>3. \A k \in 1..Len(q) :
          /\ dev[q[k]].node \in Listed \ rest /\ dev[q[k]].id = b[dev[q[k]].node]
          /\ dev[q[k]].id # 0
      BY DEF Complete
<1>4. \A k \in 1..Len(q) :
          /\ dev'[q[k]].node \in Listed \ rest /\ dev'[q[k]].id = b[dev'[q[k]].node]
          /\ dev'[q[k]].id # 0
      BY <1>1, <1>3
<1>5. \A k, l \in 1..Len(q) : dev'[q[k]].node = dev'[q[l]].node => k = l
      BY <1>1 DEF Complete
<1>6. \A n \in Listed \ rest : b[n] # 0 => \E k \in 1..Len(q) : dev'[q[k]].node = n
      BY <1>1, SMTT(30) DEF Complete
<1> QED BY <1>2, <1>4, <1>5, <1>6 DEF Complete

LEMMA EndedKept ==
    ASSUME EnumAssumption, EnumInv, EnumInv', Steady, PathInv, PathInv', system' = system,
           NEW t \in Thread, list'[t] = list[t], calm'[t] = calm[t], Ended(t)
    PROVE  Ended(t)'
<1>1. Complete(list[t], calm[t], {})'
      BY CompleteKept DEF Ended
<1>2. ASSUME Win, NEW k \in 1..Len(list[t]), Kind[dev'[list[t][k]].node] = "device"
      PROVE  dev'[list[t][k]].paths = Itfs(dev'[list[t][k]].node)
  <2>1. PICK s \in Slot : s = list[t][k] /\ Live(s) /\ Kept(s) /\ dev[s].refs > 0
        BY HeldStays
  <2>2. Live(s)'
        BY <2>1, DevType, SMTT(30) DEF Steady, EnumInv
  <2>3. dev'[s].paths \subseteq Itfs(dev'[s].node)
        BY <2>2 DEF PathInv, Itfs
  <2>4. dev[s].paths = Itfs(dev[s].node)
        BY <1>2, <2>1 DEF Ended, Kept
  <2> QED BY <2>1, <2>3, <2>4, ZenonT(60) DEF Kept
<1> QED BY <1>1, <1>2 DEF Ended, Win, Complete, Itfs

\* A device that a thread looks at stays
LEMMA JobDevStays ==
    ASSUME EnumAssumption, EnumInv, Steady, NEW t \in Thread, job[t].pc \in {"setup", "append"}
    PROVE  job[t].dev \in Slot /\ Live(job[t].dev) /\ Kept(job[t].dev)
<1>1. job[t].dev \in Slot /\ Live(job[t].dev) /\ dev[job[t].dev].refs > 0
      BY JobDevIs
<1> QED BY <1>1 DEF Steady

\* A thread goes on with its entry, or its entry is done
LEMMA EntryKept ==
    ASSUME EnumAssumption, EnumInv, EntryInv, NEW t \in Thread, system' = system,
           Lists(t), job'[t].pass = job[t].pass, job'[t].todo = job[t].todo,
           job'[t].node = job[t].node, job[t].pc = "item" => job'[t].pc = "item",
           job'[t].pc \in PcsOf(job[t].pass),
           job'[t].pc \in {"setup", "append"} => dev'[job'[t].dev].node = job[t].node
    PROVE  EntryAt(t)'
<1>1. EntryAt(t)
      BY DEF EntryInv
<1>2. Listed' = Listed /\ (Win' <=> Win)
      BY DEF Listed, Win
<1>3. Left(t)' \subseteq Left(t)
      BY DEF Left
<1>4. ~Win => Left(t)' \subseteq Listed'
      BY <1>1, <1>2, <1>3 DEF EntryAt
<1>5. job'[t].pc \in PcsOf(job'[t].pass)
      OBVIOUS
<1>6. job'[t].pc # "item" => job'[t].node \notin job'[t].todo
      BY <1>1 DEF EntryAt
<1> QED BY <1>2, <1>4, <1>5, <1>6 DEF EntryAt, PcsOf

LEMMA EntryStays ==
    ASSUME EnumAssumption, EnumInv, EntryInv, Steady, NEW t \in Thread, system' = system,
           job'[t] = job[t], Lists(t)
    PROVE  EntryAt(t)'
<1>1. EntryAt(t)
      BY DEF EntryInv
<1>2. job'[t].pc \in {"setup", "append"} => dev'[job'[t].dev].node = job[t].node
      BY <1>1, JobDevStays DEF EntryAt, Kept
<1> QED BY <1>1, <1>2, EntryKept DEF EntryAt

\* The structures it will release: one more at most.
GrowsBy(t) == unrefs'[t] = unrefs[t] \/ \E s \in Slot : unrefs'[t] = Append(unrefs[t], s)

LEMMA TracksKept ==
    ASSUME EnumAssumption, EnumInv, Steady, NEW t \in Thread,
           GrowsBy(t)
    PROVE  /\ \A n : Tracks(t, n) => Tracks(t, n)'
           /\ \A n : HasRoot(t, n) => HasRoot(t, n)'
           /\ \A n : HasPath(t, n) => HasPath(t, n)'
<1>1. unrefs[t] \in Seq(Slot) /\ GrowsBy(t)
      BY JobType DEF EnumInv
<1>2. \A k \in 1..Len(unrefs[t]) : Kept(unrefs[t][k])
      BY HeldStays
<1>3. \A k \in 1..Len(unrefs[t]) : k \in 1..Len(unrefs'[t]) /\ unrefs'[t][k] = unrefs[t][k]
      BY <1>1, SMTT(30) DEF GrowsBy
<1> QED BY <1>2, <1>3, ZenonT(60) DEF Tracks, HasRoot, HasPath, Kept

\* What is done with an entry that is over.
EntryDone(t) ==
    \A n \in {job[t].node} :
        /\ job[t].pass \in {"gen", "all"} => n \notin Listed \/ calm[t][n] = 0
        /\ job[t].pass \in {"hub", "dev"} => Tracks(t, n)' \/ Shown(calm[t], n) = 0
        /\ job[t].pass = "hcd" /\ n \in Hubs => HasRoot(t, n)'
        /\ job[t].pass = "ext" /\ Kind[n] = "interface" =>
              HasPath(t, n)' \/ Shown(calm[t], n) = 0

\* What it has before it is the same, or the entry is done.
Narrows(t) ==
    /\ Left(t)' \subseteq Left(t)
    /\ \/ Left(t)' = Left(t)
       \/ Left(t) \subseteq Left(t)' \cup {job[t].node} /\ EntryDone(t)

\* Where it may be.
EntryGoes(t) ==
    LET n == job[t].node
        c == job'[t].pc
    IN /\ c \in {"make", "setup", "append"} => Shown(calm[t], n) # 0
       /\ c \in {"setup", "append"} => dev'[job'[t].dev].id = Shown(calm[t], n)
       /\ job[t].pass = "gen" /\ c \in Busy => n \in Physical

LEMMA TrackKept ==
    ASSUME EnumAssumption, EnumInv, Steady, NEW t \in Thread, Track(t),
           GrowsBy(t),
           calm'[t] = calm[t], job'[t].pass = job[t].pass,
           Narrows(t)
    PROVE  Track(t)'
<1>1. ASSUME NEW n \in Physical, calm[t][n] # 0, Visited(t, n)' PROVE Tracks(t, n)'
  <2>1. CASE Visited(t, n)
    <3>1. Tracks(t, n)
          BY <1>1, <2>1 DEF Track
    <3> QED BY <3>1, TracksKept
  <2>2. CASE ~Visited(t, n)
    <3>1. /\ job[t].pass \in {"hub", "dev"} /\ n \in Left(t) /\ n \notin Left(t)'
          BY <1>1, <2>2 DEF Visited, Narrows
    <3>2. n = job[t].node /\ EntryDone(t)
          BY <3>1 DEF Narrows
    <3>3. Shown(calm[t], n) = calm[t][n]
          BY DEF Shown, Physical
    <3> QED BY <1>1, <3>1, <3>2, <3>3 DEF EntryDone
  <2> QED BY <2>1, <2>2
<1>2. ASSUME NEW h \in Hubs, Above[h] = <<>>, RootsDone(t, h)'
      PROVE  HasRoot(t, h)'
  <2>1. CASE RootsDone(t, h)
    <3>1. HasRoot(t, h)
          BY <1>2, <2>1 DEF Track
    <3> QED BY <3>1, TracksKept
  <2>2. CASE ~RootsDone(t, h)
    <3>1. job[t].pass = "hcd" /\ h \in Left(t) /\ h \notin Left(t)'
          BY <1>2, <2>2 DEF RootsDone
    <3>2. h = job[t].node /\ EntryDone(t)
          BY <3>1 DEF Narrows
    <3> QED BY <3>1, <3>2 DEF EntryDone
  <2> QED BY <2>1, <2>2
<1>3. ASSUME job[t].pass = "ext", NEW n \in Node, n \notin Left(t)', Kind[n] = "interface",
             Shown(calm[t], n) # 0
      PROVE  HasPath(t, n)'
  <2>1. CASE n \notin Left(t)
    <3>1. HasPath(t, n)
          BY <1>3, <2>1 DEF Track
    <3> QED BY <3>1, TracksKept
  <2>2. CASE n \in Left(t)
    <3>1. n = job[t].node /\ EntryDone(t)
          BY <1>3, <2>2 DEF Narrows
    <3> QED BY <1>3, <3>1 DEF EntryDone
  <2> QED BY <2>1, <2>2
<1> QED BY <1>1, <1>2, <1>3 DEF Track, Shown

LEMMA RoundKept ==
    ASSUME EnumAssumption, EnumInv, Steady, NEW t \in Thread, Round(t), system' = system,
           job[t].pc # "idle",
           GrowsBy(t),
           found'[t] = found[t], calm'[t] = calm[t], job'[t].pass = job[t].pass,
           job'[t].node = job[t].node \/ job'[t].pc \notin Busy,
           Narrows(t), EntryGoes(t)
    PROVE  Round(t)'
<1>1. Entry(t)'
  <2>1. \A n \in Left(t)' : n \in Left(t) /\ Shown(calm'[t], n) = Shown(calm[t], n)
        BY DEF Shown, Narrows
  <2>2. system' \notin Bsd => \A n \in Left(t)' : Shown(calm'[t], n) # 0
        BY <2>1 DEF Round, Entry
  <2>3. Shown(calm'[t], job'[t].node) = Shown(calm[t], job'[t].node)
        BY DEF Shown
  <2>4. CASE job'[t].pc \notin Busy
        BY <2>2, <2>4 DEF Entry, Busy, Bsd, Shown
  <2>5. CASE job'[t].node = job[t].node
        BY <2>2, <2>5 DEF Entry, EntryGoes, Busy, Bsd, Shown
  <2> QED BY <2>4, <2>5
<1>2. PICK q, b, r, rest :
          q = found[t] /\ b = calm[t] /\ r = ToList(t) /\ rest = ToList(t)'
      OBVIOUS
<1>3. Complete(q, b, rest)'
  <2>1. Complete(q, b, r)'
        BY <1>2, CompleteKept DEF Round
  <2>2. CASE rest = r
        BY <2>1, <2>2
  <2>3. CASE rest # r
    <3>1. /\ job[t].pass \in {"gen", "all"} /\ r = Left(t) /\ rest = Left(t)'
          BY <1>2, <2>3, JobType DEF ToList, EnumInv, JobInv, JobAt
    <3>2. /\ rest \subseteq r /\ r \subseteq rest \cup {job[t].node}
          /\ job[t].node \notin Listed \/ b[job[t].node] = 0
          BY <1>2, <2>3, <3>1 DEF EntryDone, Narrows
    <3>3. Listed' = Listed
          BY DEF Listed
    <3>4. \A n \in Listed' \ rest : b[n] # 0 => n \in Listed' \ r
          BY <3>2, <3>3
    <3> QED BY <2>1, <3>2, <3>4 DEF Complete
  <2> QED BY <2>2, <2>3
<1>4. Complete(found[t], calm[t], ToList(t))'
      BY <1>2, <1>3 DEF Complete
<1>5. Win => Track(t)'
      BY TrackKept DEF Round
<1> QED BY <1>1, <1>4, <1>5 DEF Round, Win

LEMMA RoundStays ==
    ASSUME EnumAssumption, EnumInv, Steady, NEW t \in Thread, Lists(t), Round(t),
           system' = system, job'[t] = job[t], found'[t] = found[t], unrefs'[t] = unrefs[t],
           calm'[t] = calm[t]
    PROVE  Round(t)'
<1>1. Left(t)' = Left(t) /\ job[t].pc # "idle"
      BY DEF Left, Lists
<1>2. EntryGoes(t)
  <2>1. job[t].pc \in {"setup", "append"} => dev'[job[t].dev].id = dev[job[t].dev].id
        BY JobDevStays DEF Kept
  <2> QED BY <2>1 DEF Round, Entry, EntryGoes
<1>3. /\ job'[t].pass = job[t].pass /\ job'[t].node = job[t].node
      BY <1>1
<1>4. Narrows(t) /\ GrowsBy(t)
      BY <1>1 DEF Narrows, GrowsBy
<1> QED BY <1>1, <1>2, <1>3, <1>4, RoundKept

\* One thread goes on
LEMMA MatchStep ==
    ASSUME EnumAssumption, EnumInv, EnumInv', MatchInv, NEW t \in Thread, Apart(t), Steady,
           WholeInv', Lists(t)' => EntryAt(t)',
           calm'[t] # <<>> /\ Lists(t)' => Round(t)',
           calm'[t] # <<>> /\ job'[t].pc = "idle" => Ended(t)'
    PROVE  MatchInv'
<1>1. ASSUME NEW u \in Thread, u # t, Lists(u)' PROVE EntryAt(u)'
      BY <1>1, EntryStays DEF Apart, Lists, MatchInv
<1>2. EntryInv'
      BY <1>1 DEF EntryInv
<1>3. ASSUME NEW u \in Thread, u # t, calm'[u] # <<>>
      PROVE  (Lists(u)' => Round(u)') /\ (job'[u].pc = "idle" => Ended(u)')
  <2>1. /\ job'[u] = job[u] /\ found'[u] = found[u] /\ unrefs'[u] = unrefs[u]
        /\ list'[u] = list[u] /\ calm'[u] = calm[u] /\ system' = system
        BY <1>3 DEF Apart
  <2>2. (Lists(u) => Round(u)) /\ (job[u].pc = "idle" => Ended(u))
        BY <1>3, <2>1 DEF MatchInv, RoundInv
  <2>3. Lists(u)' => Round(u)'
        BY <2>1, <2>2, RoundStays DEF Lists
  <2>4. job'[u].pc = "idle" => Ended(u)'
        BY <2>1, <2>2, EndedKept DEF MatchInv, WholeInv
  <2> QED BY <2>3, <2>4
<1>4. RoundInv'
      BY <1>3 DEF RoundInv
<1> QED BY <1>2, <1>4 DEF MatchInv

\* ... and releases devices
LEMMA MatchRelease ==
    ASSUME EnumAssumption, EnumInv, EnumInv', MatchInv, NEW t \in Thread,
           DropRef(t) \/ Destroy(t) \/ FreeList(t)
    PROVE  MatchInv'
<1>1. UNCHANGED <<system, bus, changes, hashed, job, found, unrefs>>
      BY DEF DropRef, Destroy, FreeList
<1>2. Steady /\ OldOnly /\ SamePaths
      BY DropRefKeeps, DestroyKeeps, DevKept DEF FreeList
<1>3. /\ calm' \in Calms /\ \A u \in Thread : calm'[u] \in {calm[u], <<>>}
      /\ \A u \in Thread \ {t} : list'[u] = list[u] /\ calm'[u] = calm[u]
      /\ calm'[t] # <<>> => calm'[t] = calm[t] /\ list'[t] = list[t]
  <2>1. calm \in Calms /\ list \in [Thread -> Seq(Slot)]
        BY DEF MatchInv, WholeInv, CalmInv, Calms, EnumInv, EnumTypes
  <2>2. CASE FreeList(t)
    <3>1. calm' = [calm EXCEPT ![t] = <<>>] /\ list' = [list EXCEPT ![t] = <<>>]
          BY <2>2 DEF FreeList
    <3> QED BY <2>1, <3>1 DEF Calms
  <2>3. CASE ~FreeList(t)
    <3>1. calm' = calm /\ list' = list
          BY <2>3 DEF DropRef, Destroy
    <3> QED BY <2>1, <3>1
  <2> QED BY <2>2, <2>3
<1>4. Apart(t)
      BY <1>1, <1>3 DEF Apart
<1>5. WholeInv'
  <2>1. NoNewMake /\ SameSnaps
        BY <1>1 DEF NoNewMake, SameSnaps
  <2> QED BY <1>1, <1>2, <1>3, <2>1, WholeKept DEF MatchInv
<1>6. Lists(t)' => EntryAt(t)'
      BY <1>1, <1>2, EntryStays DEF Lists, MatchInv
<1>7. calm'[t] # <<>> /\ Lists(t)' => Round(t)'
      BY <1>1, <1>2, <1>3, RoundStays DEF Lists, MatchInv, RoundInv
<1>8. calm'[t] # <<>> /\ job'[t].pc = "idle" => Ended(t)'
      BY <1>1, <1>2, <1>3, <1>5, EndedKept DEF MatchInv, WholeInv, RoundInv
<1> QED BY <1>2, <1>4, <1>5, <1>6, <1>7, <1>8, MatchStep, ZenonT(60)

----------------------------------------------------------------------------
(* What is found of the device tree.                                       *)

LEMMA KnownIsFound ==
    ASSUME EnumAssumption, EnumInv, TidyInv, NEW s \in Slot, Live(s),
           NEW x, x = dev[s].session
    PROVE  Found(x) # 0
<1> DEFINE S == {k \in 1..Len(known) : dev[known[k]].session = x}
<1>1. known \in Seq(Slot) /\ S \subseteq Nat
      BY DEF EnumInv, EnumTypes
<1>2. PICK k \in 1..Len(known) : known[k] = s
      BY <1>1 DEF TidyInv, AllKnown, Contains
<1>3. S # {}
      BY <1>2
<1>4. FoundAt(x) = Min(S)
      BY <1>3 DEF FoundAt, SelectInSeq
<1>5. FoundAt(x) \in S
  <2> HIDE DEF S
  <2> QED BY <1>1, <1>3, <1>4, MinOfPlaces, ZenonT(60)
<1>6. FoundAt(x) \in 1..Len(known)
      BY <1>5
<1>7. FoundAt(x) # 0 /\ known[FoundAt(x)] \in Slot
      BY <1>1, <1>6
<1> QED BY <1>7 DEF Found, Slot

LEMMA AncestorIsAbove ==
    ASSUME EnumAssumption, NEW n \in Node
    PROVE  IF \E k \in 1..Len(Above[n]) : Found(Above[n][k]) # 0
           THEN \E k \in 1..Len(Above[n]) :
                   /\ Ancestor(n) = Found(Above[n][k]) /\ Ancestor(n) # 0
                   /\ \A l \in 1..Len(Above[n]) : Found(Above[n][l]) # 0 => k <= l
           ELSE Ancestor(n) = 0
<1> DEFINE S == {k \in 1..Len(Above[n]) : Found(Above[n][k]) # 0}
<1>1. S \subseteq Nat
      BY TreeIs
<1>2. SelectInSeq(Above[n], LAMBDA m : Found(m) # 0) = IF S # {} THEN Min(S) ELSE 0
      BY DEF SelectInSeq
<1>3. PICK k : k = IF S # {} THEN Min(S) ELSE 0
      OBVIOUS
<1>4. Ancestor(n) = IF k = 0 THEN 0 ELSE Found(Above[n][k])
      BY <1>2, <1>3 DEF Ancestor
<1>5. CASE S # {}
  <2>1. k \in S /\ \A l \in S : k <= l
    <3> HIDE DEF S
    <3> QED BY <1>1, <1>3, <1>5, MinOfPlaces
  <2>2. /\ k \in 1..Len(Above[n]) /\ Found(Above[n][k]) # 0
        /\ \A l \in 1..Len(Above[n]) : Found(Above[n][l]) # 0 => k <= l
        BY <2>1
  <2>3. k # 0
        BY <2>1
  <2> QED BY <1>4, <2>2, <2>3
<1>6. CASE S = {}
  <2>1. Ancestor(n) = 0
        BY <1>3, <1>4, <1>6
  <2> QED BY <1>6, <2>1
<1> QED BY <1>5, <1>6

\* A node that is looked up on WinUSB
LEMMA FoundNode ==
    ASSUME EnumAssumption, EnumInv, "dying" \notin Faults, TidyInv, Win, MayLookUp,
           NEW n, Found(n) # 0
    PROVE  Found(n) \in Slot /\ Live(Found(n)) /\ dev[Found(n)].node = n
<1>1. Found(n) \in Slot /\ Live(Found(n)) /\ dev[Found(n)].session = n
      BY FoundLives
<1> QED BY <1>1 DEF TidyInv, IdInv

\* get_ancestor: hubs, and the device of an interface when it is known
LEMMA AncestorNode ==
    ASSUME EnumAssumption, EnumInv, "dying" \notin Faults, TidyInv, Win, MayLookUp,
           NEW n \in Node, NEW a, a = Ancestor(n)
    PROVE  /\ a # 0 => /\ a \in Slot /\ Live(a) /\ Above[n] # <<>>
                       /\ \/ Kind[dev[a].node] = "hub"
                          \/ /\ Kind[n] = "interface" /\ dev[a].node = Parent[n]
                             /\ Kind[dev[a].node] = "device"
           /\ Above[n] # <<>> /\ Found(Parent[n]) # 0 => a # 0 /\ dev[a].node = Parent[n]
<1>1. /\ Above[n] \in Seq(Node)
      /\ \A k \in 1..Len(Above[n]) :
            Kind[Above[n][k]] = IF k = 1 /\ Kind[n] = "interface" THEN "device" ELSE "hub"
      /\ IF Above[n] = <<>> THEN TRUE ELSE Len(Above[n]) >= 1 /\ Parent[n] = Above[n][1]
      BY TreeIs
<1>2. a # 0 => \E k \in 1..Len(Above[n]) :
                  /\ a = Found(Above[n][k])
                  /\ \A l \in 1..Len(Above[n]) : Found(Above[n][l]) # 0 => k <= l
      BY AncestorIsAbove
<1>3. ASSUME a # 0
      PROVE  /\ a \in Slot /\ Live(a) /\ Above[n] # <<>>
             /\ \/ Kind[dev[a].node] = "hub"
                \/ /\ Kind[n] = "interface" /\ dev[a].node = Parent[n]
                   /\ Kind[dev[a].node] = "device"
  <2>1. PICK k \in 1..Len(Above[n]) : a = Found(Above[n][k])
        BY <1>2, <1>3
  <2>2. a \in Slot /\ Live(a) /\ dev[a].node = Above[n][k]
        BY <1>3, <2>1, FoundNode
  <2>3. Above[n] # <<>>
        BY <2>1
  <2>4. CASE k = 1 /\ Kind[n] = "interface"
        BY <1>1, <2>2, <2>3, <2>4
  <2>5. CASE ~(k = 1 /\ Kind[n] = "interface")
    <3>1. Kind[Above[n][k]] = "hub"
          BY <1>1, <2>1, <2>5
    <3> QED BY <2>2, <2>3, <3>1
  <2> QED BY <2>4, <2>5
<1>4. ASSUME Above[n] # <<>>, Found(Parent[n]) # 0 PROVE a # 0 /\ dev[a].node = Parent[n]
  <2>1. 1 \in 1..Len(Above[n]) /\ Found(Above[n][1]) # 0 /\ Parent[n] = Above[n][1]
        BY <1>1, <1>4
  <2>2. \E k \in 1..Len(Above[n]) : Found(Above[n][k]) # 0
        BY <2>1
  <2>3. PICK k \in 1..Len(Above[n]) : a = Found(Above[n][k]) /\ a # 0 /\ k <= 1
        BY <2>1, <2>2, AncestorIsAbove
  <2>4. k = 1
        BY <1>1, <2>3
  <2> QED BY <2>1, <2>3, <2>4, FoundNode
<1> QED BY <1>3, <1>4

\* What a listing tracks is found again
LEMMA TracksFound ==
    ASSUME EnumAssumption, EnumInv, TidyInv, Win, Steady, NEW t \in Thread, NEW n, Tracks(t, n)
    PROVE  Found(n) # 0
<1>1. PICK k \in 1..Len(unrefs[t]) : dev[unrefs[t][k]].node = n
      BY DEF Tracks
<1>2. PICK s \in Slot : s = unrefs[t][k] /\ Live(s)
      BY HeldStays
<1>3. dev[s].session = n
      BY <1>1, <1>2 DEF TidyInv, IdInv
<1> QED BY <1>2, <1>3, KnownIsFound

----------------------------------------------------------------------------
(* Within an entry.                                                        *)

\* A thread goes on with an entry, ends it or fails.
Within(t) ==
    /\ Apart(t) /\ Lists(t) /\ job[t].pc # "item"
    /\ job'[t].pass = job[t].pass /\ job'[t].todo = job[t].todo
    /\ job'[t].node = job[t].node /\ job'[t].snap = job[t].snap
    /\ job'[t].pc \in PcsOf(job[t].pass) \cup {"failed"}
    /\ calm' \in Calms /\ calm'[t] \in {calm[t], <<>>}

LEMMA MatchWithin ==
    ASSUME EnumAssumption, EnumInv, EnumInv', MatchInv, NEW t \in Thread, Within(t), Steady,
           WholeInv', job'[t].pc \in {"setup", "append"} => dev'[job'[t].dev].node = job[t].node,
           found'[t] = found[t], GrowsBy(t),
           calm'[t] # <<>> /\ job'[t].pc # "failed" =>
              EntryGoes(t) /\ (job'[t].pc = "item" => EntryDone(t))
    PROVE  MatchInv'
<1>1. /\ Apart(t) /\ Lists(t) /\ job[t].pc # "item" /\ system' = system
      /\ job'[t].pass = job[t].pass /\ job'[t].todo = job[t].todo
      /\ job'[t].node = job[t].node /\ job'[t].pc # "idle"
      /\ job'[t].pc \in PcsOf(job[t].pass) \cup {"failed"}
      /\ calm'[t] \in {calm[t], <<>>}
      BY DEF Within, Apart, PcsOf, Finding
<1>2. Lists(t)' => EntryAt(t)'
  <2>1. Lists(t)' => job'[t].pc \in PcsOf(job[t].pass)
        BY <1>1 DEF Lists
  <2> QED BY <1>1, <2>1, EntryKept DEF MatchInv
<1>3. ASSUME calm'[t] # <<>>, Lists(t)' PROVE Round(t)'
  <2>1. Round(t) /\ calm'[t] = calm[t]
        BY <1>1, <1>3 DEF MatchInv, RoundInv
  <2>2. EntryGoes(t) /\ (job'[t].pc = "item" => EntryDone(t))
        BY <1>3 DEF Lists
  <2>3. Narrows(t)
    <3>1. Left(t) = job[t].todo \cup {job[t].node}
          BY <1>1 DEF Left
    <3>2. Left(t)' = job[t].todo \cup (IF job'[t].pc = "item" THEN {} ELSE {job[t].node})
          BY <1>1 DEF Left
    <3> QED BY <2>2, <3>1, <3>2 DEF Narrows
  <2> QED BY <1>1, <2>1, <2>2, <2>3, RoundKept DEF Lists
<1> QED BY <1>1, <1>2, <1>3, MatchStep

\* ... without a new structure or a path
LEMMA MatchPlain ==
    ASSUME EnumAssumption, EnumInv, EnumInv', MatchInv, NEW t \in Thread, Within(t),
           Steady, OldOnly, SamePaths, hashed' = hashed, job'[t].pc # "make",
           job'[t].pc \in {"setup", "append"} => dev'[job'[t].dev].node = job[t].node,
           found'[t] = found[t], GrowsBy(t),
           calm'[t] # <<>> /\ job'[t].pc # "failed" =>
              EntryGoes(t) /\ (job'[t].pc = "item" => EntryDone(t))
    PROVE  MatchInv'
<1>1. NoNewMake /\ SameSnaps
      BY DEF NoNewMake, SameSnaps, Within, Apart, Lists
<1>2. /\ UNCHANGED <<system, bus, changes>> /\ calm' \in Calms
      /\ \A u \in Thread : calm'[u] \in {calm[u], <<>>}
      BY DEF Within, Apart
<1>3. WholeInv'
      BY <1>1, <1>2, WholeKept DEF MatchInv
<1> QED BY <1>3, MatchWithin

\* What a listing sees that nothing disturbed
LEMMA SeenCalm ==
    ASSUME MatchInv, NEW t \in Thread, calm[t] # <<>>, job[t].pc # "idle"
    PROVE  /\ Seen(t) = Shown(calm[t], job[t].node)
           /\ bus = calm[t] /\ job[t].snap = calm[t]
BY DEF MatchInv, WholeInv, CalmInv, Seen

\* Entries that only say where to go on
LEMMA WithinGoes ==
    ASSUME EnumInv, MatchInv, NEW t \in Thread, Lists(t), job[t].pc # "item",
           UNCHANGED <<system, bus, changes, found, unrefs, list>>,
           NEW pc \in {"item", "append", "failed"}, Goes(t, pc),
           pc = "append" => job[t].pass \in {"gen", "all"},
           calm' = calm \/ Excused(t)
    PROVE  /\ Within(t) /\ GrowsBy(t) /\ found'[t] = found[t]
           /\ job'[t].pc = pc /\ job'[t].dev = job[t].dev
           /\ Excused(t) => calm'[t] = <<>>
<1>1. /\ \A u \in Thread \ {t} : job'[u] = job[u]
      /\ job'[t].pc = pc /\ job'[t].dev = job[t].dev
      /\ job'[t].node = job[t].node /\ job'[t].pass = job[t].pass
      /\ job'[t].snap = job[t].snap /\ job'[t].todo = job[t].todo
  <2>1. CASE pc = "item"
        BY <2>1, GoesType
  <2>2. CASE pc = "append"
        BY <2>2, GoesType
  <2>3. CASE pc = "failed"
        BY <2>3, GoesType
  <2> QED BY <2>1, <2>2, <2>3
<1>2. /\ calm' \in Calms /\ calm'[t] \in {calm[t], <<>>} /\ (Excused(t) => calm'[t] = <<>>)
      /\ \A u \in Thread \ {t} : calm'[u] = calm[u]
  <2>1. calm \in Calms
        BY DEF MatchInv, WholeInv, CalmInv, Calms
  <2>2. CASE calm' = calm
        BY <2>1, <2>2 DEF Excused, Calms
  <2>3. CASE Excused(t)
        BY <2>1, <2>3 DEF Excused, Calms
  <2> QED BY <2>2, <2>3
<1>3. Apart(t)
      BY <1>1, <1>2 DEF Apart
<1>4. pc \in PcsOf(job[t].pass) \cup {"failed"}
      BY DEF PcsOf, Finding
<1>5. GrowsBy(t) /\ found'[t] = found[t]
      BY DEF GrowsBy
<1> QED BY <1>1, <1>2, <1>3, <1>4, <1>5 DEF Within

----------------------------------------------------------------------------
(* The entries that make no structure.                                     *)

LEMMA MatchNothing ==
    ASSUME EnumAssumption, EnumInv, EnumInv', MatchInv, NEW t \in Thread, Nothing(t)
    PROVE  MatchInv'
<1>1. /\ job[t].pc = "find" /\ Seen(t) = 0 /\ Goes(t, "item")
      /\ UNCHANGED <<system, bus, changes, dev, hashed, found, unrefs, list, calm>>
      BY DEF Nothing, At
<1>2. /\ Within(t) /\ GrowsBy(t) /\ found'[t] = found[t] /\ job'[t].pc = "item"
      BY <1>1, WithinGoes DEF Lists
<1>3. Steady /\ OldOnly /\ SamePaths
      BY <1>1, DevKept
<1>4. ASSUME calm[t] # <<>> PROVE EntryDone(t)
  <2>1. job[t].pass \notin {"hcd", "ext"}
        BY <1>1 DEF MatchInv, EntryInv, EntryAt, Lists, PcsOf
  <2>2. Shown(calm[t], job[t].node) = 0
        BY <1>1, <1>4, SeenCalm
  <2>3. job[t].node \in Listed => calm[t][job[t].node] = 0
        BY <2>2 DEF Shown, Listed, Physical
  <2> QED BY <2>1, <2>2, <2>3 DEF EntryDone
<1>5. EntryGoes(t)
      BY <1>2 DEF EntryGoes, Busy
<1> QED BY <1>1, <1>2, <1>3, <1>4, <1>5, MatchPlain

\* The structure of a device is there for the passes that come
LEMMA MatchSetupPath ==
    ASSUME EnumAssumption, EnumInv, EnumInv', MatchInv, NEW t \in Thread, SetupPath(t)
    PROVE  MatchInv'
<1>1. /\ job[t].pc = "setup" /\ job[t].pass \in {"hub", "dev"} /\ Goes(t, "item")
      /\ UNCHANGED <<system, bus, changes, dev, hashed, found, unrefs, list, calm>>
      BY DEF SetupPath, At
<1>2. /\ Within(t) /\ GrowsBy(t) /\ found'[t] = found[t] /\ job'[t].pc = "item"
      BY <1>1, WithinGoes DEF Lists
<1>3. Steady /\ OldOnly /\ SamePaths
      BY <1>1, DevKept
<1>4. PICK n : n = job[t].node
      OBVIOUS
<1>5. Tracks(t, n)
  <2>1. Count(unrefs[t], job[t].dev) > 0 /\ unrefs[t] \in Seq(Slot)
        BY <1>1, JobType DEF EnumInv, JobInv, JobAt
  <2>2. PICK k \in 1..Len(unrefs[t]) : unrefs[t][k] = job[t].dev
        BY <2>1, CountType
  <2>3. dev[job[t].dev].node = n
        BY <1>1, <1>4 DEF MatchInv, EntryInv, EntryAt, Lists
  <2> QED BY <2>2, <2>3 DEF Tracks
<1>6. Tracks(t, n)'
      BY <1>2, <1>3, <1>5, TracksKept
<1>7. EntryDone(t)
      BY <1>1, <1>4, <1>6 DEF EntryDone
<1>8. EntryGoes(t)
      BY <1>2 DEF EntryGoes, Busy
<1> QED BY <1>1, <1>2, <1>3, <1>7, <1>8, MatchPlain

LEMMA MatchMakeFails ==
    ASSUME EnumAssumption, EnumInv, EnumInv', MatchInv, NEW t \in Thread, MakeFails(t)
    PROVE  MatchInv'
<1>1. /\ job[t].pc = "make" /\ Excused(t)
      /\ UNCHANGED <<system, bus, changes, dev, hashed, found, unrefs, list>>
      BY DEF MakeFails, At
<1>2. PICK pc \in {"item", "failed"} : Goes(t, pc)
      BY DEF MakeFails
<1>3. /\ Within(t) /\ GrowsBy(t) /\ found'[t] = found[t] /\ job'[t].pc = pc /\ calm'[t] = <<>>
      BY <1>1, <1>2, WithinGoes DEF Lists
<1>4. Steady /\ OldOnly /\ SamePaths
      BY <1>1, DevKept
<1> QED BY <1>1, <1>3, <1>4, MatchPlain

LEMMA MatchReadDescriptors ==
    ASSUME EnumAssumption, EnumInv, EnumInv', MatchInv, NEW t \in Thread, ReadDescriptors(t)
    PROVE  MatchInv'
<1>1. /\ job[t].pc = "setup" /\ job[t].pass = "all" /\ Goes(t, "append")
      /\ UNCHANGED <<system, bus, changes, dev, hashed, found, unrefs, list, calm>>
      BY DEF ReadDescriptors, At
<1>2. /\ Within(t) /\ GrowsBy(t) /\ found'[t] = found[t] /\ job'[t].pc = "append"
      /\ job'[t].dev = job[t].dev
      BY <1>1, WithinGoes DEF Lists
<1>3. Steady /\ OldOnly /\ SamePaths
      BY <1>1, DevKept
<1>4. dev[job[t].dev].node = job[t].node
      BY <1>1 DEF MatchInv, EntryInv, EntryAt, Lists
<1>5. ASSUME calm[t] # <<>> PROVE EntryGoes(t)
  <2>1. Entry(t)
        BY <1>1, <1>5 DEF MatchInv, RoundInv, Lists, Round
  <2> QED BY <1>1, <1>2, <2>1 DEF Entry, EntryGoes
<1> QED BY <1>1, <1>2, <1>3, <1>4, <1>5, MatchPlain

\* init_device: in a calm a device is not gone
LEMMA MatchInit ==
    ASSUME EnumAssumption, EnumInv, EnumInv', MatchInv, NEW t \in Thread,
           InitDevice(t) \/ InitDeviceFails(t)
    PROVE  MatchInv'
<1>1. /\ job[t].pc = "setup" /\ job[t].pass = "gen"
      /\ UNCHANGED <<system, bus, changes, hashed, found, unrefs, list>>
      BY InitDeviceIs
<1>2. PICK s \in Slot, pc \in AfterInit : s = job[t].dev /\ Adopted(t, s, pc)
      BY InitDeviceIs
<1>3. Steady /\ OldOnly /\ SamePaths
      BY InitKeeps
<1>4. /\ job'[t].pc = pc /\ pc \in {"item", "append", "failed"} /\ job'[t].dev = s
      /\ job'[t].pass = job[t].pass /\ job'[t].snap = job[t].snap
      /\ job'[t].node = job[t].node /\ job'[t].todo = job[t].todo
      /\ \A u \in Thread \ {t} : job'[u] = job[u]
      /\ dev'[s].node = dev[s].node /\ dev'[s].id = dev[s].id
      BY <1>2 DEF Adopted, AfterInit
<1>5. /\ calm' \in Calms /\ \A u \in Thread \ {t} : calm'[u] = calm[u]
      /\ calm'[t] \in {calm[t], <<>>}
      /\ calm'[t] # <<>> => InitDevice(t)
  <2>1. calm \in Calms
        BY DEF MatchInv, WholeInv, CalmInv, Calms
  <2>2. CASE InitDevice(t)
    <3>1. calm' = calm
          BY <2>2 DEF InitDevice
    <3> QED BY <2>1, <2>2, <3>1
  <2>3. CASE InitDeviceFails(t)
    <3>1. calm' = [calm EXCEPT ![t] = <<>>]
          BY <2>3 DEF InitDeviceFails, Excused
    <3> QED BY <2>1, <3>1 DEF Calms
  <2> QED BY <2>2, <2>3
<1>6. Within(t) /\ GrowsBy(t) /\ found'[t] = found[t]
  <2>1. pc \in PcsOf(job[t].pass) \cup {"failed"}
        BY <1>1, <1>4 DEF PcsOf, Finding
  <2> QED BY <1>1, <1>4, <1>5, <2>1 DEF Within, Apart, Lists, GrowsBy
<1>7. dev[job[t].dev].node = job[t].node
      BY <1>1 DEF MatchInv, EntryInv, EntryAt, Lists
<1>8. ASSUME calm'[t] # <<>> PROVE EntryGoes(t) /\ job'[t].pc = "append"
  <2>1. Entry(t) /\ calm[t] # <<>>
        BY <1>1, <1>5, <1>8 DEF MatchInv, RoundInv, Lists, Round
  <2>2. Shown(bus, job[t].node) # 0
        BY <1>1, <2>1, SeenCalm DEF Entry
  <2>3. InitDevice(t)
        BY <1>5, <1>8
  <2>4. job' = [job EXCEPT ![t].pc = "append", ![t].par = 0]
        BY <2>2, <2>3 DEF InitDevice
  <2>5. job'[t].pc = "append"
    <3>1. PICK j \in JobRec : j = job[t]
          BY JobType DEF EnumInv
    <3>2. job' = [job EXCEPT ![t] = [j EXCEPT !.pc = "append", !.par = 0]]
          BY <2>4, <3>1 DEF EnumInv, EnumTypes
    <3> QED BY <3>1, <3>2 DEF JobRec, EnumInv, EnumTypes
  <2>6. EntryGoes(t)
        BY <1>1, <1>2, <1>4, <2>1, <2>5 DEF Entry, EntryGoes, Busy
  <2> QED BY <2>5, <2>6
<1> QED BY <1>1, <1>2, <1>3, <1>4, <1>6, <1>7, <1>8, MatchPlain

LEMMA MatchReadFails ==
    ASSUME EnumAssumption, EnumInv, EnumInv', MatchInv, NEW t \in Thread, ReadFails(t)
    PROVE  MatchInv'
<1>1. /\ job[t].pc = "setup" /\ job[t].pass = "all" /\ calm' = [calm EXCEPT ![t] = <<>>]
      /\ UNCHANGED <<system, bus, changes, dev, hashed, found, unrefs, list>>
      BY DEF ReadFails, At, Excused
<1>2. PICK pc \in {"failed", "item"} : Sets(t, pc, 0)
      BY DEF ReadFails, Sets
<1>3. 0 \in 0..MaxSlots
      BY DEF EnumAssumption
<1>4. /\ \A u \in Thread \ {t} : job'[u] = job[u]
      /\ job'[t].pc = pc /\ job'[t].node = job[t].node /\ job'[t].pass = job[t].pass
      /\ job'[t].snap = job[t].snap /\ job'[t].todo = job[t].todo
  <2>1. CASE pc = "item"
        BY <1>2, <1>3, <2>1, JobSets
  <2>2. CASE pc = "failed"
        BY <1>2, <1>3, <2>2, JobSets
  <2> QED BY <1>2, <2>1, <2>2
<1>5. /\ calm' \in Calms /\ calm'[t] = <<>> /\ \A u \in Thread \ {t} : calm'[u] = calm[u]
  <2>1. calm \in Calms
        BY DEF MatchInv, WholeInv, CalmInv, Calms
  <2> QED BY <1>1, <2>1 DEF Calms
<1>6. Within(t) /\ GrowsBy(t) /\ found'[t] = found[t]
  <2>1. pc \in PcsOf(job[t].pass) \cup {"failed"}
        BY DEF PcsOf, Finding
  <2> QED BY <1>1, <1>4, <1>5, <2>1 DEF Within, Apart, Lists, GrowsBy
<1>7. Steady /\ OldOnly /\ SamePaths
      BY <1>1, DevKept
<1> QED BY <1>1, <1>4, <1>5, <1>6, <1>7, MatchPlain

----------------------------------------------------------------------------
(* The entries that look at what is above or known already.                *)

\* After the first passes a listing has the structures of what is above a node
LEMMA AboveIsTracked ==
    ASSUME EnumAssumption, EnumInv, MatchInv, Win, NEW t \in Thread, calm[t] # <<>>, Lists(t),
           job[t].pass \in {"hcd", "gen", "ext"}, NEW n \in Node, Shown(calm[t], n) # 0
    PROVE  /\ n \in Physical => Tracks(t, n)
           /\ Above[n] # <<>> => Tracks(t, Parent[n])
<1>1. /\ Track(t) /\ \A h \in Hubs : calm[t][h] # 0
      BY DEF MatchInv, RoundInv, Round, WholeInv, CalmInv
<1>2. \A m \in Physical : calm[t][m] # 0 => Tracks(t, m)
      BY <1>1 DEF Track, Visited
<1>3. n \in Physical => Tracks(t, n)
      BY <1>2 DEF Shown, Physical
<1>4. ASSUME Above[n] # <<>> PROVE Tracks(t, Parent[n])
  <2>1. CASE Kind[n] = "interface"
    <3>1. Parent[n] \in Physical /\ calm[t][Parent[n]] # 0
          BY <2>1, TreeIs DEF Shown
    <3> QED BY <1>2, <3>1
  <2>2. CASE Kind[n] # "interface"
    <3>1. /\ Len(Above[n]) >= 1 /\ Parent[n] = Above[n][1] /\ Above[n] \in Seq(Node)
          /\ \A k \in 1..Len(Above[n]) : Kind[Above[n][k]] = "hub"
          BY <1>4, <2>2, TreeIs
    <3>2. 1 \in 1..Len(Above[n])
          BY <3>1
    <3>3. Parent[n] \in Hubs /\ Parent[n] \in Physical
          BY <3>1, <3>2 DEF Hubs, Physical
    <3> QED BY <1>1, <1>2, <3>3
  <2> QED BY <2>1, <2>2
<1> QED BY <1>3, <1>4

\* ... and looks up these
LEMMA TrackedIsFound ==
    ASSUME EnumAssumption, EnumInv, "dying" \notin Faults, TidyInv, MatchInv, Win, MayLookUp,
           NEW t \in Thread, NEW n, NEW k \in 1..Len(unrefs[t]), dev[unrefs[t][k]].node = n
    PROVE  Found(n) # 0 /\ unrefs[t][k] = Found(n)
<1>1. PICK s \in Slot : s = unrefs[t][k] /\ Live(s)
  <2>1. unrefs[t] \in Seq(Slot)
        BY JobType DEF EnumInv
  <2>2. PICK s \in Slot : s = unrefs[t][k]
        BY <2>1
  <2>3. Count(unrefs[t], s) > 0
        BY <2>1, <2>2, CountType
  <2>4. Live(s)
        BY <2>3, Held, HeldIsCounted DEF EnumInv
  <2> QED BY <2>2, <2>4
<1>2. dev[s].session = n
      BY <1>1 DEF TidyInv, IdInv
<1>3. Found(n) # 0
      BY <1>1, <1>2, KnownIsFound
<1>4. Found(n) \in Slot /\ Live(Found(n)) /\ dev[Found(n)].node = n
      BY <1>3, FoundNode
<1> QED BY <1>1, <1>3, <1>4 DEF MatchInv, WholeInv, UniqueInv

LEMMA TrackedFound ==
    ASSUME EnumAssumption, EnumInv, "dying" \notin Faults, TidyInv, MatchInv, Win, MayLookUp,
           NEW t \in Thread, NEW n, Tracks(t, n)
    PROVE  Found(n) # 0
<1>1. PICK k \in 1..Len(unrefs[t]) : dev[unrefs[t][k]].node = n
      BY DEF Tracks
<1> QED BY <1>1, TrackedIsFound

LEMMA MatchRootHub ==
    ASSUME EnumAssumption, EnumInv, EnumInv', "dying" \notin Faults, TidyInv, MatchInv,
           NEW t \in Thread, RootHub(t)
    PROVE  MatchInv'
<1>1. /\ job[t].pc = "rootHub" /\ MayLookUp /\ Win
      /\ UNCHANGED <<system, bus, changes, hashed, found, unrefs, list, calm>>
      BY DEF RootHub, At, EnumInv, JobInv, JobAt
<1>2. PICK r, n : n = job[t].node /\ r = Found(n)
      OBVIOUS
<1>3. CASE r = 0
  <2>1. Goes(t, "failed") /\ dev' = dev
        BY <1>2, <1>3 DEF RootHub
  <2>2. /\ Within(t) /\ GrowsBy(t) /\ found'[t] = found[t] /\ job'[t].pc = "failed"
        BY <1>1, <2>1, WithinGoes DEF Lists
  <2>3. Steady /\ OldOnly /\ SamePaths
        BY <2>1, DevKept
  <2> QED BY <1>1, <2>2, <2>3, MatchPlain
<1>4. CASE r # 0
  <2>1. Goes(t, "item")
        BY <1>2, <1>4 DEF RootHub
  <2>2. /\ Within(t) /\ GrowsBy(t) /\ found'[t] = found[t] /\ job'[t].pc = "item"
        BY <1>1, <2>1, WithinGoes DEF Lists
  <2>3. Steady /\ OldOnly /\ SamePaths /\ dev'[r].rootHub
        BY <1>2, <1>4, RootHubKeeps
  <2>4. ASSUME calm[t] # <<>> PROVE EntryDone(t)
    <3>1. job[t].pass = "hcd" /\ n \in Node
          BY <1>1, <1>2, JobType
             DEF MatchInv, EntryInv, EntryAt, Lists, PcsOf, Finding, EnumInv, JobInv, JobAt
    <3>2. ASSUME n \in Hubs PROVE HasRoot(t, n)'
      <4>1. Shown(calm[t], n) # 0 /\ n \in Physical
            BY <2>4, <3>2 DEF MatchInv, WholeInv, CalmInv, Shown, Hubs, Physical
      <4>2. PICK k \in 1..Len(unrefs[t]) : dev[unrefs[t][k]].node = n
            BY <1>1, <2>4, <3>1, <4>1, AboveIsTracked DEF Lists, Tracks
      <4>3. unrefs[t][k] = r
            BY <1>1, <1>2, <4>2, TrackedIsFound, SMTT(30)
      <4>4. dev'[r].node = n
            BY <2>3, <4>2, <4>3, HeldStays DEF Kept
      <4> QED BY <1>1, <2>3, <4>3, <4>4 DEF HasRoot
    <3> QED BY <1>2, <3>1, <3>2 DEF EntryDone
  <2>5. EntryGoes(t)
        BY <2>2 DEF EntryGoes, Busy
  <2> QED BY <1>1, <2>2, <2>3, <2>4, <2>5, MatchPlain
<1> QED BY <1>3, <1>4

\* The generic pass: a hub or a device below a hub, never an interface
LEMMA MatchBelowHub ==
    ASSUME EnumAssumption, EnumInv, EnumInv', "dying" \notin Faults, TidyInv, MatchInv,
           NEW t \in Thread, BelowHub(t)
    PROVE  MatchInv'
<1>1. /\ job[t].pc = "ancestor" /\ MayLookUp /\ Win /\ job[t].node \in Node
      /\ UNCHANGED <<system, bus, changes, hashed, found, unrefs, list, calm>>
      BY DEF BelowHub, At, EnumInv, JobInv, JobAt
<1>2. PICK n \in Node : n = job[t].node
      BY <1>1
<1>2a. PICK p : p = Ancestor(n)
      OBVIOUS
<1>3. /\ p # 0 /\ dev' = Ref(dev, p)
      /\ IF Kind[dev[p].node] = "hub"
         THEN job' = [job EXCEPT ![t].pc = "find", ![t].par = p] ELSE Goes(t, "item")
      BY <1>2, <1>2a DEF BelowHub
<1>4. /\ p \in Slot /\ Live(p)
      /\ \/ Kind[dev[p].node] = "hub"
         \/ /\ Kind[n] = "interface" /\ dev[p].node = Parent[n]
            /\ Kind[dev[p].node] = "device"
      /\ Above[n] # <<>> /\ (Found(Parent[n]) # 0 => dev[p].node = Parent[n])
      BY <1>1, <1>2, <1>2a, <1>3, AncestorNode
<1>5. Steady /\ OldOnly /\ SamePaths
      BY <1>3, <1>4, RefKeeps
<1>6. job[t].pass = "gen" /\ Lists(t)
      BY <1>1, JobType
         DEF MatchInv, EntryInv, EntryAt, Lists, PcsOf, Finding, EnumInv
<1>7. CASE Kind[dev[p].node] # "hub"
  <2>1. /\ Within(t) /\ GrowsBy(t) /\ found'[t] = found[t] /\ job'[t].pc = "item"
        BY <1>1, <1>3, <1>7, WithinGoes DEF Lists
  <2>2. EntryDone(t)
        BY <1>2, <1>2a, <1>4, <1>6, <1>7 DEF EntryDone, Listed, Physical
  <2>3. EntryGoes(t)
        BY <2>1 DEF EntryGoes, Busy
  <2> QED BY <1>1, <1>5, <2>1, <2>2, <2>3, MatchPlain
<1>8. CASE Kind[dev[p].node] = "hub"
  <2>1. PICK j \in JobRec : j = job[t]
        BY JobType DEF EnumInv
  <2>2. job' = [job EXCEPT ![t] = [j EXCEPT !.pc = "find", !.par = p]]
        BY <1>3, <1>8, <2>1 DEF EnumInv, EnumTypes
  <2>3. /\ \A u \in Thread \ {t} : job'[u] = job[u]
        /\ job'[t].pc = "find" /\ job'[t].node = n /\ job'[t].pass = "gen"
        /\ job'[t].snap = job[t].snap /\ job'[t].todo = job[t].todo
        BY <1>2, <1>2a, <1>6, <2>1, <2>2 DEF EnumInv, EnumTypes, JobRec
  <2>4. Within(t) /\ GrowsBy(t) /\ found'[t] = found[t]
    <3>1. calm' \in Calms
          BY <1>1 DEF MatchInv, WholeInv, CalmInv, Calms
    <3>2. "find" \in PcsOf("gen")
          BY DEF PcsOf, Finding
    <3> QED BY <1>1, <1>2, <1>2a, <1>6, <2>3, <3>1, <3>2 DEF Within, Apart, GrowsBy
  <2>5. ASSUME calm[t] # <<>> PROVE EntryGoes(t)
    <3>1. Shown(calm[t], n) # 0
      <4>1. Entry(t) /\ n \in Left(t) /\ system \notin Bsd
            BY <1>1, <1>2, <1>2a, <1>6, <2>5 DEF MatchInv, RoundInv, Round, Left, Win, Bsd
      <4> QED BY <4>1 DEF Entry
    <3>2. Tracks(t, Parent[n])
          BY <1>1, <1>4, <1>6, <2>5, <3>1, AboveIsTracked
    <3>3. Found(Parent[n]) # 0
          BY <1>1, <3>2, TrackedFound
    <3>4. Kind[n] # "interface"
          BY <1>4, <1>8, <3>3, TreeIs
    <3>5. n \in Physical
          BY <3>4 DEF Physical
    <3> QED BY <1>2, <1>2a, <2>3, <3>5 DEF EntryGoes
  <2> QED BY <1>1, <1>5, <2>3, <2>4, <2>5, MatchPlain
<1> QED BY <1>7, <1>8

\* ... and a root hub below none
LEMMA MatchBelowNothing ==
    ASSUME EnumAssumption, EnumInv, EnumInv', "dying" \notin Faults, TidyInv, MatchInv,
           NEW t \in Thread, BelowNothing(t)
    PROVE  MatchInv'
<1>1. /\ job[t].pc = "ancestor" /\ MayLookUp /\ Win /\ job[t].node \in Node
      /\ UNCHANGED <<system, bus, changes, hashed, found, list, calm>>
      BY DEF BelowNothing, At, EnumInv, JobInv, JobAt
<1>2. PICK n \in Node : n = job[t].node
      BY <1>1
<1>2a. PICK r : r = Found(n)
      OBVIOUS
<1>3. /\ Ancestor(n) = 0
      /\ IF r # 0 /\ dev[r].rootHub
         THEN /\ dev' = Ref(dev, r)
              /\ Sets(t, "setup", r)
              /\ unrefs' = [unrefs EXCEPT ![t] = Append(@, r)]
         ELSE Goes(t, "item") /\ UNCHANGED <<dev, unrefs>>
      BY <1>2, <1>2a DEF BelowNothing, Sets
<1>4. job[t].pass = "gen" /\ Lists(t)
      BY <1>1, JobType
         DEF MatchInv, EntryInv, EntryAt, Lists, PcsOf, Finding, EnumInv
<1>5. ASSUME calm[t] # <<>>
      PROVE  /\ Shown(calm[t], n) # 0 /\ n \in Physical /\ job[t].snap = calm[t]
             /\ r # 0 /\ dev[r].rootHub
  <2>1. Entry(t) /\ Track(t) /\ n \in Left(t) /\ system \notin Bsd
        BY <1>1, <1>2, <1>2a, <1>4, <1>5 DEF MatchInv, RoundInv, Round, Left, Win, Bsd
  <2>2. Shown(calm[t], n) # 0
        BY <2>1 DEF Entry
  <2>3. Above[n] = <<>>
    <3> SUFFICES ASSUME Above[n] # <<>> PROVE FALSE
        OBVIOUS
    <3>1. Tracks(t, Parent[n])
          BY <1>1, <1>4, <1>5, <2>2, AboveIsTracked
    <3>2. Found(Parent[n]) # 0
          BY <1>1, <3>1, TrackedFound
    <3> QED BY <1>1, <1>3, <3>2, AncestorNode
  <2>4. n \in Hubs /\ n \in Physical
        BY <2>3, TreeIs DEF Hubs, Physical
  <2>5. HasRoot(t, n)
        BY <1>4, <2>1, <2>3, <2>4 DEF Track, RootsDone
  <2>6. PICK k \in 1..Len(unrefs[t]) : dev[unrefs[t][k]].node = n /\ dev[unrefs[t][k]].rootHub
        BY <2>5 DEF HasRoot
  <2>7. r # 0 /\ unrefs[t][k] = r
        BY <1>1, <1>2, <1>2a, <2>6, TrackedIsFound
  <2>8. job[t].snap = calm[t]
        BY <1>1, <1>5, SeenCalm
  <2> QED BY <2>2, <2>4, <2>6, <2>7, <2>8
<1>6. CASE ~(r # 0 /\ dev[r].rootHub)
  <2>1. Goes(t, "item") /\ UNCHANGED <<dev, unrefs>>
        BY <1>3, <1>6
  <2>2. /\ Within(t) /\ GrowsBy(t) /\ found'[t] = found[t] /\ job'[t].pc = "item"
        BY <1>1, <2>1, WithinGoes DEF Lists
  <2>3. Steady /\ OldOnly /\ SamePaths
        BY <2>1, DevKept
  <2> QED BY <1>1, <1>5, <1>6, <2>2, <2>3, MatchPlain
<1>7. CASE r # 0 /\ dev[r].rootHub
  <2>1. /\ dev' = Ref(dev, r) /\ Sets(t, "setup", r)
        /\ unrefs' = [unrefs EXCEPT ![t] = Append(@, r)]
        BY <1>3, <1>7
  <2>2. r \in Slot /\ Live(r) /\ dev[r].node = n
        BY <1>1, <1>2, <1>2a, <1>7, FoundNode
  <2>3. r \in 0..MaxSlots
        BY <2>2 DEF Slot, EnumAssumption
  <2>4. /\ \A u \in Thread \ {t} : job'[u] = job[u]
        /\ job'[t].pc = "setup" /\ job'[t].dev = r /\ job'[t].node = n /\ job'[t].pass = "gen"
        /\ job'[t].snap = job[t].snap /\ job'[t].todo = job[t].todo
        BY <1>2, <1>2a, <1>4, <2>1, <2>3, JobSets
  <2>5. Steady /\ OldOnly /\ SamePaths
        BY <2>1, <2>2, RefKeeps
  <2>6. GrowsBy(t) /\ \A u \in Thread \ {t} : unrefs'[u] = unrefs[u]
        BY <2>1, <2>2 DEF GrowsBy, EnumInv, EnumTypes
  <2>7. Within(t) /\ found'[t] = found[t]
    <3>1. calm' \in Calms
          BY <1>1 DEF MatchInv, WholeInv, CalmInv, Calms
    <3>2. "setup" \in PcsOf("gen")
          BY DEF PcsOf, Finding
    <3> QED BY <1>1, <1>2, <1>2a, <1>4, <2>4, <2>6, <3>1, <3>2 DEF Within, Apart
  <2>8. dev'[r].node = n /\ dev'[r].id = dev[r].id
        BY <2>1, <2>2, RefIs
  <2>9. ASSUME calm[t] # <<>> PROVE EntryGoes(t)
    <3>1. /\ Shown(calm[t], n) # 0 /\ n \in Physical /\ job[t].snap = calm[t]
          BY <1>5, <2>9
    <3>2. Agrees(r, job[t].snap)
          BY <1>1, <2>2 DEF TidyInv, IdInv
    <3>3. dev[r].id = Shown(calm[t], n)
          BY <2>2, <3>1, <3>2 DEF Agrees
    <3> QED BY <1>2, <1>2a, <2>4, <2>8, <3>1, <3>3 DEF EntryGoes
  <2> QED BY <1>1, <1>2, <1>2a, <2>4, <2>5, <2>6, <2>7, <2>8, <2>9, MatchPlain
<1> QED BY <1>6, <1>7

\* The paths of the interfaces
LEMMA MatchOwner ==
    ASSUME EnumAssumption, EnumInv, EnumInv', "dying" \notin Faults, TidyInv, MatchInv,
           NEW t \in Thread, Owner(t)
    PROVE  MatchInv'
<1>1. /\ job[t].pc = "owner" /\ MayLookUp /\ Win /\ job[t].node \in Node /\ Goes(t, "item")
      /\ UNCHANGED <<system, bus, changes, hashed, found, unrefs, list, calm>>
      BY DEF Owner, At, EnumInv, JobInv, JobAt
<1>2. PICK n \in Node : n = job[t].node
      BY <1>1
<1>2a. PICK p : p = Ancestor(n)
      OBVIOUS
<1>3. job[t].pass = "ext" /\ Lists(t)
      BY <1>1, JobType
         DEF MatchInv, EntryInv, EntryAt, Lists, PcsOf, Finding, EnumInv
<1>4. /\ Within(t) /\ GrowsBy(t) /\ found'[t] = found[t] /\ job'[t].pc = "item"
      BY <1>1, <1>3, WithinGoes DEF Lists
<1>5. p # 0 =>
          /\ p \in Slot /\ Live(p)
          /\ \/ Kind[dev[p].node] = "hub"
             \/ /\ Kind[n] = "interface" /\ dev[p].node = Parent[n]
                /\ Kind[dev[p].node] = "device"
      BY <1>1, <1>2, <1>2a, AncestorNode
<1>6. ASSUME calm[t] # <<>>, Kind[n] = "interface"
      PROVE  /\ p # 0
             /\ \E k \in 1..Len(unrefs[t]) :
                   unrefs[t][k] = p /\ dev[p].node = Parent[n] /\ Kind[dev[p].node] = "device"
  <2>1. Entry(t) /\ n \in Left(t) /\ system \notin Bsd
        BY <1>1, <1>2, <1>2a, <1>3, <1>6 DEF MatchInv, RoundInv, Round, Left, Win, Bsd
  <2>2. Shown(calm[t], n) # 0
        BY <2>1 DEF Entry
  <2>3. Above[n] # <<>> /\ Kind[Parent[n]] = "device"
        BY <1>6, TreeIs
  <2>4. PICK k \in 1..Len(unrefs[t]) : dev[unrefs[t][k]].node = Parent[n]
        BY <1>1, <1>3, <1>6, <2>2, <2>3, AboveIsTracked DEF Tracks
  <2>5. Found(Parent[n]) # 0 /\ unrefs[t][k] = Found(Parent[n])
        BY <1>1, <2>4, TrackedIsFound
  <2>6. p # 0 /\ p \in Slot /\ Live(p) /\ dev[p].node = Parent[n]
        BY <1>1, <1>2, <1>2a, <2>3, <2>5, AncestorNode
  <2>7. unrefs[t][k] \in Slot /\ Live(unrefs[t][k])
        BY <1>1, <2>5, FoundNode
  <2>8. unrefs[t][k] = p
        BY <1>1, <2>4, <2>6, <2>7 DEF MatchInv, WholeInv, UniqueInv
  <2> QED BY <2>3, <2>6, <2>8
<1>7. EntryGoes(t)
      BY <1>4 DEF EntryGoes, Busy
<1>8. CASE p = 0
  <2>1. dev' = dev
        BY <1>2, <1>2a, <1>8 DEF Owner
  <2>2. Steady /\ OldOnly /\ SamePaths
        BY <2>1, DevKept
  <2>3. ASSUME calm[t] # <<>> PROVE EntryDone(t)
        BY <1>2, <1>2a, <1>3, <1>6, <1>8, <2>3 DEF EntryDone
  <2> QED BY <1>1, <1>4, <1>7, <2>2, <2>3, MatchPlain
<1>9. CASE p # 0
  <2>1. /\ Steady /\ OldOnly /\ p \in Slot /\ Live(p)
        /\ \A s \in Slot \ {p} : dev'[s] = dev[s]
        /\ IF Kind[dev[p].node] = "hub" THEN SamePaths
           ELSE dev'[p].paths = dev[p].paths \cup {n}
        BY <1>2, <1>2a, <1>9, OwnerKeeps
  <2>2. NoNewMake /\ SameSnaps
        BY <1>4 DEF NoNewMake, SameSnaps, Within, Apart, Lists
  <2>3. /\ UNCHANGED <<system, bus, changes, hashed>> /\ calm' \in Calms
        /\ \A u \in Thread : calm'[u] \in {calm[u], <<>>}
        BY <1>1, <1>4 DEF Within, Apart
  <2>4. WholeInv'
    <3>1. CASE Kind[dev[p].node] = "hub"
          BY <2>1, <2>2, <2>3, <3>1, WholeKept DEF MatchInv
    <3>2. CASE Kind[dev[p].node] # "hub"
      <4>1. UniqueInv' /\ BsdInv' /\ HashInv' /\ SightInv' /\ CalmInv'
            BY <2>1, <2>2, <2>3, UniqueKept, BsdKept, HashKept, SightsKept, CalmKept
               DEF MatchInv, WholeInv
      <4>2. n \in Itfs(dev[p].node)
            BY <1>5, <1>9, <3>2 DEF Itfs
      <4>3. ASSUME NEW s \in Slot, Live(s)' PROVE dev'[s].paths \subseteq Itfs(dev'[s].node)
        <5>1. Live(s) /\ dev'[s].node = dev[s].node
              BY <2>1, <4>3 DEF OldOnly, Steady, Kept
        <5>2. dev[s].paths \subseteq Itfs(dev[s].node)
              BY <5>1 DEF MatchInv, WholeInv, PathInv
        <5> QED BY <2>1, <3>2, <4>2, <5>1, <5>2
      <4>4. PathInv'
            BY <4>3 DEF PathInv, Itfs
      <4> QED BY <4>1, <4>4 DEF WholeInv
    <3> QED BY <3>1, <3>2
  <2>5. ASSUME calm[t] # <<>> PROVE EntryDone(t)
    <3>1. ASSUME Kind[n] = "interface" PROVE HasPath(t, n)'
      <4>1. PICK k \in 1..Len(unrefs[t]) :
                unrefs[t][k] = p /\ Kind[dev[p].node] = "device"
            BY <1>6, <2>5, <3>1
      <4>2. n \in dev'[p].paths
            BY <2>1, <4>1
      <4> QED BY <1>1, <4>1, <4>2 DEF HasPath
    <3> QED BY <1>2, <1>2a, <1>3, <3>1 DEF EntryDone
  <2> QED BY <1>1, <1>4, <1>7, <2>1, <2>4, <2>5, MatchWithin
<1> QED BY <1>8, <1>9

----------------------------------------------------------------------------
(* The structure of a device.                                              *)

\* An identity that UsbDk has seen
LEMMA SeenSight ==
    ASSUME EnumAssumption, EnumInv, MatchInv, system = "usbdk", NEW t \in Thread, Lists(t),
           job[t].pc # "item"
    PROVE  /\ job[t].node \in Physical \ Hubs /\ Seen(t) = job[t].snap[job[t].node]
           /\ <<job[t].node, Seen(t)>> \in Sights /\ Seen(t) \in 0..changes
<1>1. job[t].node \in Listed
      BY DEF MatchInv, EntryInv, EntryAt, Left, Win
<1>2. PICK n : n = job[t].node /\ n \in Physical \ Hubs
      BY <1>1 DEF Listed, Physical, Hubs
<1>3. Seen(t) = job[t].snap[n]
      BY <1>2 DEF Seen, Shown, Bsd, Physical
<1>4. <<n, job[t].snap[n]>> \in Sights
      BY <1>2 DEF Sights, Lists
<1>5. Seen(t) \in 0..changes
      BY <1>3, <1>4 DEF MatchInv, WholeInv, SightInv
<1> QED BY <1>2, <1>3, <1>4, <1>5

\* The table has room for it
LEMMA HashRoom ==
    ASSUME EnumAssumption, EnumInv, HashInv, system = "usbdk", NEW i \in 1..changes,
           ~Contains(hashed, i)
    PROVE  Len(hashed) # HashSize
<1> SUFFICES ASSUME Len(hashed) = HashSize PROVE FALSE
    OBVIOUS
<1>1. /\ changes \in Nat /\ hashed \in Seq(Nat) /\ changes <= HashSize /\ HashSize \in Nat
      BY DEF EnumInv, EnumTypes, HashInv, EnumAssumption
<1> DEFINE S == 1..Len(hashed)
           T == (1..changes) \ {i}
<1>2. IsFiniteSet(S) /\ Cardinality(S) = HashSize
  <2>1. HashSize \in Int /\ 1 \in Int /\ HashSize >= 1
        BY <1>1 DEF EnumAssumption
  <2> QED BY <2>1, FS_Interval
<1>3. PICK c \in Nat : c = changes /\ i \in 1..c
      BY <1>1
<1>4. IsFiniteSet(T) /\ Cardinality(T) = changes - 1
  <2>1. 1 \in Int /\ c \in Int /\ ~(1 > c) /\ c - 1 + 1 = c
        BY <1>3
  <2>2. IsFiniteSet(1..c) /\ Cardinality(1..c) = c
        BY <2>1, FS_Interval
  <2>3. PICK C : C = 1..c
        OBVIOUS
  <2>4. IsFiniteSet(C) /\ Cardinality(C) = c /\ i \in C
        BY <1>3, <2>2, <2>3
  <2>5. IsFiniteSet(C \ {i}) /\ Cardinality(C \ {i}) = Cardinality(C) - 1
        BY <2>4, FS_RemoveElement
  <2> QED BY <1>3, <2>3, <2>4, <2>5
<1>5. \A k \in S : hashed[k] \in T
      BY DEF HashInv, Contains
<1> DEFINE f == [k \in S |-> hashed[k]]
<1>6. f \in [S -> T]
      BY <1>5
<1>7. Cardinality(T) < Cardinality(S)
      BY <1>1, <1>2, <1>4
<1>8. \E k, l \in S : k # l /\ f[k] = f[l]
  <2> HIDE DEF S, T, f
  <2> QED BY <1>2, <1>4, <1>6, <1>7, FS_PigeonHole
<1> QED BY <1>8 DEF HashInv

\* q extends the table, still without twins and with attachments only
Widens(q) ==
    /\ \A k \in 1..Len(hashed) : k \in 1..Len(q) /\ q[k] = hashed[k]
    /\ \A k \in 1..Len(q) : q[k] \in 1..changes
    /\ \A k, l \in 1..Len(q) : q[k] = q[l] => k = l

\* ... where i has its place
Placed(q, i) ==
    /\ q \in Seq(Nat) /\ Place(i) \in 1..Len(q) /\ q[Place(i)] = i
    /\ Contains(q, i) /\ (Contains(hashed, i) => q = hashed)

\* ... and a place
LEMMA PlaceIs ==
    ASSUME EnumAssumption, EnumInv, HashInv, system = "usbdk", NEW i \in 1..changes
    PROVE  Widens(Hashed(i)) /\ Placed(Hashed(i), i)
<1> DEFINE q == Hashed(i)
<1>1. hashed \in Seq(Nat) /\ i \in Nat
      BY DEF EnumInv, EnumTypes
<1>2. /\ \A k \in 1..Len(hashed) : hashed[k] \in 1..changes
      /\ \A k, l \in 1..Len(hashed) : hashed[k] = hashed[l] => k = l
      BY DEF HashInv
<1>3. q = IF Contains(hashed, i) THEN hashed ELSE Append(hashed, i)
      BY HashRoom DEF Hashed
<1>3a. Contains(q, i) => Place(i) = CHOOSE k \in DOMAIN q : q[k] = i
       BY DEF Place
<1> HIDE DEF q
<1>4. q \in Seq(Nat) /\ Contains(q, i) /\ Widens(q)
  <2>1. CASE Contains(hashed, i)
    <3>1. q = hashed
          BY <1>3, <2>1
    <3> QED BY <1>1, <1>2, <2>1, <3>1 DEF Widens
  <2>2. CASE ~Contains(hashed, i)
    <3>1. q = Append(hashed, i)
          BY <1>3, <2>2
    <3>2. /\ Len(q) = Len(hashed) + 1 /\ q[Len(q)] = i /\ q \in Seq(Nat)
          /\ \A k \in 1..Len(hashed) : q[k] = hashed[k]
          BY <1>1, <3>1
    <3>3. \A k \in 1..Len(hashed) : hashed[k] # i
          BY <2>2 DEF Contains
    <3>4. Len(hashed) \in Nat /\ \A k \in 1..Len(q) : k = Len(q) \/ k \in 1..Len(hashed)
          BY <1>1, <3>2
    <3>5. Contains(q, i)
          BY <3>2, <3>4, SMTT(30) DEF Contains
    <3>6. \A k \in 1..Len(q) : q[k] \in 1..changes
          BY <1>2, <3>2, <3>4
    <3>7. ASSUME NEW k \in 1..Len(q), NEW l \in 1..Len(q), q[k] = q[l] PROVE k = l
      <4>1. CASE k = Len(q) /\ l = Len(q)
            BY <4>1
      <4>2. CASE k = Len(q) /\ l \in 1..Len(hashed)
            BY <3>2, <3>3, <3>7, <4>2
      <4>3. CASE k \in 1..Len(hashed) /\ l = Len(q)
            BY <3>2, <3>3, <3>7, <4>3
      <4>4. CASE k \in 1..Len(hashed) /\ l \in 1..Len(hashed)
            BY <1>2, <3>2, <3>7, <4>4
      <4> QED BY <3>4, <4>1, <4>2, <4>3, <4>4
    <3>8. \A k \in 1..Len(hashed) : k \in 1..Len(q)
          BY <3>2, <3>4
    <3> QED BY <3>2, <3>5, <3>6, <3>7, <3>8 DEF Widens
  <2> QED BY <2>1, <2>2
<1>5. Place(i) \in 1..Len(q) /\ q[Place(i)] = i
  <2>1. DOMAIN q = 1..Len(q)
        BY <1>4
  <2>2. \E k \in DOMAIN q : q[k] = i
        BY <1>4, <2>1 DEF Contains
  <2>3. Place(i) \in DOMAIN q /\ q[Place(i)] = i
        BY <1>3a, <1>4, <2>2
  <2> QED BY <2>1, <2>3
<1>6. Contains(hashed, i) => q = hashed
      BY <1>3
<1> QED BY <1>4, <1>5, <1>6 DEF Placed, q

\* What is looked up for an entry is the structure of what the listing sees there
LEMMA FoundMatches ==
    ASSUME EnumAssumption, EnumInv, "dying" \notin Faults, TidyInv, MatchInv, MayLookUp,
           NEW t \in Thread, job[t].pc = "find", Seen(t) # 0,
           NEW s, s = Found(Session(t)), s # 0
    PROVE  /\ s \in Slot /\ Live(s) /\ dev[s].node = job[t].node /\ dev[s].id = Seen(t)
           /\ ~Replaced(s, Seen(t))
<1>1. s \in Slot /\ Live(s) /\ dev[s].session = Session(t)
      BY FoundLives
<1>2. Lists(t) /\ job[t].pc # "idle"
      BY DEF Lists
<1>3. system \in {"winusb", "usbdk", "openbsd", "netbsd"}
      BY DEF EnumInv, EnumTypes, EnumAssumption
<1>4. dev[s].node = job[t].node /\ dev[s].id = Seen(t)
  <2>1. CASE Win
    <3>1. Session(t) = job[t].node /\ Seen(t) = Shown(job[t].snap, job[t].node)
          BY <2>1 DEF Session, Seen, Win, Bsd
    <3>2. dev[s].node = job[t].node /\ Agrees(s, job[t].snap)
          BY <1>1, <1>2, <2>1, <3>1 DEF TidyInv, IdInv
    <3> QED BY <3>1, <3>2 DEF Agrees
  <2>2. CASE system \in Bsd
    <3>1. Session(t) = job[t].node /\ Seen(t) = Shown(bus, job[t].node)
          BY <2>2 DEF Session, Seen, Bsd
    <3>2. dev[s].node = job[t].node /\ Agrees(s, bus)
          BY <1>1, <2>2, <3>1 DEF MatchInv, WholeInv, BsdInv
    <3> QED BY <3>1, <3>2 DEF Agrees
  <2>3. CASE system = "usbdk"
    <3>1. PICK i : i = Seen(t)
          OBVIOUS
    <3>2. <<job[t].node, i>> \in Sights /\ i \in 1..changes
      <4>1. Seen(t) \in 0..changes /\ <<job[t].node, Seen(t)>> \in Sights /\ job[t].pc # "item"
            BY <1>2, <2>3, SeenSight
      <4> QED BY <3>1, <4>1
    <3>3. Session(t) = Place(i)
          BY <2>3, <3>1 DEF Session
    <3>4. HashInv /\ SightInv
          BY DEF MatchInv, WholeInv
    <3>5. PICK q : q = Hashed(i)
          OBVIOUS
    <3>6. /\ q[Place(i)] = i
          /\ \A k \in 1..Len(hashed) : q[k] = hashed[k]
      <4>1. Widens(Hashed(i)) /\ Placed(Hashed(i), i)
            BY <2>3, <3>2, <3>4, PlaceIs
      <4>2. Widens(q) /\ Placed(q, i)
            BY <3>5, <4>1
      <4> QED BY <4>2 DEF Widens, Placed
    <3>7. dev[s].session \in 1..Len(hashed) /\ hashed[dev[s].session] = dev[s].id
          BY <1>1, <2>3, <3>4 DEF HashInv
    <3>8. dev[s].id = i
          BY <1>1, <3>3, <3>6, <3>7
    <3>9. <<dev[s].node, dev[s].id>> \in Sights
          BY <1>1 DEF Sights
    <3>10. <<dev[s].node, dev[s].id>>[2] = <<job[t].node, i>>[2] /\ <<dev[s].node, dev[s].id>>[2] # 0
           BY <3>1, <3>8
    <3>11. <<dev[s].node, dev[s].id>>[1] = <<job[t].node, i>>[1]
           BY <2>3, <3>2, <3>4, <3>9, <3>10 DEF SightInv
    <3> QED BY <3>1, <3>8, <3>11
  <2> QED BY <1>3, <2>1, <2>2, <2>3 DEF Win, Bsd
<1> QED BY <1>1, <1>4 DEF Replaced

LEMMA MatchFind ==
    ASSUME EnumAssumption, EnumInv, EnumInv', {"dying", "twins"} \cap Faults = {}, TidyInv,
           MatchInv, NEW t \in Thread, Find(t)
    PROVE  MatchInv'
<1>0. "dying" \notin Faults
      OBVIOUS
<1>1. /\ job[t].pc = "find" /\ Seen(t) # 0 /\ MayLookUp
      /\ \A u \in Thread : job[u].pc # "make"
      /\ UNCHANGED <<system, bus, changes, found, list, calm>>
      /\ hashed' = IF system = "usbdk" THEN Hashed(Seen(t)) ELSE hashed
      BY DEF Find, At
<1>2. PICK s : s = Found(Session(t))
      OBVIOUS
<1>3. s # 0 => /\ s \in Slot /\ Live(s) /\ dev[s].node = job[t].node /\ dev[s].id = Seen(t)
               /\ ~Replaced(s, Seen(t))
      BY <1>0, <1>1, <1>2, FoundMatches
<1>4. PICK pc \in {"make", "setup", "append"}, d \in 0..MaxSlots :
          /\ pc = IF s = 0 THEN "make" ELSE IF Win THEN "setup" ELSE "append"
          /\ d = s /\ Sets(t, pc, d)
          /\ dev' = IF s = 0 THEN dev ELSE Ref(dev, s)
          /\ unrefs' = IF s = 0 THEN unrefs ELSE Tracked(t, s)
  <2>1. s \in 0..MaxSlots
        BY <1>3 DEF Slot, EnumAssumption
  <2>2. /\ job' = [job EXCEPT ![t].pc = IF s = 0 THEN "make"
                                        ELSE IF system = "winusb" THEN "setup" ELSE "append",
                              ![t].dev = IF s = 0 THEN 0 ELSE s]
        /\ dev' = IF s = 0 THEN dev ELSE Ref(dev, s)
        /\ unrefs' = IF s = 0 THEN unrefs ELSE Tracked(t, s)
        BY <1>2, <1>3 DEF Find
  <2>3. PICK pc \in {"make", "setup", "append"} :
            pc = IF s = 0 THEN "make" ELSE IF Win THEN "setup" ELSE "append"
        OBVIOUS
  <2>4. PICK e : e = IF s = 0 THEN 0 ELSE s
        OBVIOUS
  <2>5. job' = [job EXCEPT ![t].pc = pc, ![t].dev = e]
        BY <2>2, <2>3, <2>4 DEF Win
  <2>6. e = s /\ Sets(t, pc, e)
        BY <2>4, <2>5 DEF Sets
  <2> QED BY <2>1, <2>2, <2>3, <2>6
<1>5. /\ \A u \in Thread \ {t} : job'[u] = job[u]
      /\ job'[t].pc = pc /\ job'[t].dev = d /\ job'[t].node = job[t].node
      /\ job'[t].pass = job[t].pass /\ job'[t].snap = job[t].snap
      /\ job'[t].todo = job[t].todo
  <2>1. CASE pc = "make"
        BY <1>4, <2>1, JobSets
  <2>2. CASE pc = "setup"
        BY <1>4, <2>2, JobSets
  <2>3. CASE pc = "append"
        BY <1>4, <2>3, JobSets
  <2> QED BY <1>4, <2>1, <2>2, <2>3
<1>6. Steady /\ OldOnly /\ SamePaths
  <2>1. CASE s = 0
        BY <1>4, <2>1, DevKept
  <2>2. CASE s # 0
        BY <1>3, <1>4, <2>2, RefKeeps
  <2> QED BY <2>1, <2>2
<1>7. GrowsBy(t) /\ \A u \in Thread \ {t} : unrefs'[u] = unrefs[u]
  <2>1. unrefs \in [Thread -> Seq(Slot)]
        BY DEF EnumInv, EnumTypes
  <2>2. CASE unrefs' = unrefs
        BY <2>2 DEF GrowsBy
  <2>3. CASE s # 0 /\ unrefs' = [unrefs EXCEPT ![t] = Append(@, s)]
        BY <1>3, <2>1, <2>3 DEF GrowsBy
  <2> QED BY <1>4, <2>2, <2>3 DEF Tracked
<1>8. calm \in Calms /\ Lists(t) /\ EntryAt(t)
      BY <1>1 DEF MatchInv, WholeInv, CalmInv, Calms, Lists, EntryInv
<1>9. Within(t) /\ found'[t] = found[t]
  <2>1. job[t].pass \in {"hub", "dev", "gen", "all"} /\ (Win <=> job[t].pass # "all")
        BY <1>1, <1>8, JobType
           DEF EntryAt, PcsOf, EnumInv, JobInv, JobAt
  <2>2. pc \in PcsOf(job[t].pass)
    <3>1. CASE job[t].pass = "all"
          BY <3>1 DEF PcsOf, Finding
    <3>2. CASE job[t].pass \in {"hub", "dev"}
      <4>1. pc \in Finding
            BY <1>4, <2>1, <3>2 DEF Finding
      <4> QED BY <3>2, <4>1 DEF PcsOf
    <3>3. CASE job[t].pass = "gen"
          BY <3>3 DEF PcsOf, Finding
    <3> QED BY <2>1, <3>1, <3>2, <3>3
  <2> QED BY <1>1, <1>5, <1>7, <1>8, <2>2 DEF Within, Apart
<1>10. SameSnaps
       BY <1>1, <1>5 DEF SameSnaps
<1>11. UniqueInv'
  <2>1. CASE s # 0
    <3>1. NoNewMake
          BY <1>1, <1>4, <1>5, <2>1 DEF NoNewMake
    <3> QED BY <1>1, <1>6, <3>1, UniqueKept DEF MatchInv, WholeInv
  <2>2. CASE s = 0
    <3> SUFFICES ASSUME Win
                 PROVE  /\ \A r, x \in Slot : Live(r)' /\ Live(x)' /\ dev'[r].node = dev'[x].node => r = x
                        /\ \A v, u \in Thread : job'[v].pc = "make" /\ job'[u].pc = "make" => v = u
                        /\ \A v \in Thread : job'[v].pc = "make" =>
                              \A x \in Slot : Live(x)' => dev'[x].node # job'[v].node
        BY <1>1 DEF UniqueInv, Win
    <3>1. \A x \in Slot : Live(x)' => Live(x) /\ dev'[x].node = dev[x].node
          BY <1>6 DEF Steady, OldOnly, Kept
    <3>2. \A u \in Thread : job'[u].pc = "make" => u = t
          BY <1>1, <1>5
    <3>3. Session(t) = job[t].node
          BY DEF Session, Win
    <3>4. ASSUME NEW x \in Slot, Live(x), dev[x].node = job[t].node PROVE FALSE
      <4>1. dev[x].session = Session(t)
            BY <3>3, <3>4 DEF TidyInv, IdInv
      <4>2. Found(Session(t)) # 0
            BY <3>4, <4>1, KnownIsFound
      <4> QED BY <1>2, <2>2, <4>2
    <3> QED BY <1>5, <3>1, <3>2, <3>4 DEF MatchInv, WholeInv, UniqueInv
  <2> QED BY <2>1, <2>2
<1>12. HashInv'
  <2>1. CASE system # "usbdk"
        BY <1>1, <2>1 DEF HashInv
  <2>2. CASE system = "usbdk"
    <3>1. HashInv /\ SightInv
          BY DEF MatchInv, WholeInv
    <3>2. PICK i : i = Seen(t)
          OBVIOUS
    <3>3. i \in 1..changes
      <4>1. Seen(t) \in 0..changes
            BY <1>1, <1>8, <2>2, SeenSight
      <4> QED BY <1>1, <3>2, <4>1
    <3>4. PICK q : q = Hashed(i)
          OBVIOUS
    <3>5. /\ \A k \in 1..Len(hashed) : k \in 1..Len(q) /\ q[k] = hashed[k]
          /\ \A k \in 1..Len(q) : q[k] \in 1..changes
          /\ \A k, l \in 1..Len(q) : q[k] = q[l] => k = l
          /\ Contains(q, i)
      <4>1. Widens(Hashed(i)) /\ Placed(Hashed(i), i)
            BY <2>2, <3>1, <3>3, PlaceIs
      <4>2. Widens(q) /\ Placed(q, i)
            BY <3>4, <4>1
      <4>3. Contains(q, i)
            BY <4>2 DEF Placed
      <4> QED BY <4>2, <4>3 DEF Widens
    <3>6. hashed' = q
          BY <1>1, <2>2, <3>2, <3>4
    <3>7. \A x \in Slot : Live(x)' =>
              Live(x) /\ dev'[x].id = dev[x].id /\ dev'[x].session = dev[x].session
          BY <1>6 DEF Steady, OldOnly, Kept
    <3>8. \A x \in Slot : Live(x)' =>
              dev'[x].session \in 1..Len(q) /\ q[dev'[x].session] = dev'[x].id
      <4> SUFFICES ASSUME NEW x \in Slot, Live(x)'
                   PROVE  dev'[x].session \in 1..Len(q) /\ q[dev'[x].session] = dev'[x].id
          OBVIOUS
      <4>1. /\ Live(x) /\ dev'[x].id = dev[x].id /\ dev'[x].session = dev[x].session
            /\ dev[x].session \in 1..Len(hashed) /\ hashed[dev[x].session] = dev[x].id
            BY <2>2, <3>1, <3>7 DEF HashInv
      <4> QED BY <3>5, <4>1
    <3>9. ASSUME NEW u \in Thread, job'[u].pc = "make" PROVE Contains(q, Seen(u)')
      <4>1. u = t
            BY <1>1, <1>5, <3>9
      <4>2. Seen(t)' = i
            BY <1>1, <1>5, <3>2 DEF Seen, Bsd
      <4> QED BY <3>5, <4>1, <4>2
    <3>10. changes <= HashSize
          BY <2>2, <3>1 DEF HashInv
    <3> QED BY <1>1, <3>5, <3>6, <3>8, <3>9, <3>10 DEF HashInv
  <2> QED BY <2>1, <2>2
<1>13. WholeInv'
      BY <1>1, <1>6, <1>8, <1>10, <1>11, <1>12, PathsKept, BsdKept, SightsKept, CalmKept
         DEF MatchInv, WholeInv
<1>14. job'[t].pc \in {"setup", "append"} =>
           dev'[job'[t].dev].node = job[t].node /\ dev'[job'[t].dev].id = Seen(t)
  <2> SUFFICES ASSUME job'[t].pc \in {"setup", "append"}
               PROVE  dev'[s].node = job[t].node /\ dev'[s].id = Seen(t)
      BY <1>4, <1>5
  <2>1. s # 0
        BY <1>4, <1>5
  <2> QED BY <1>3, <1>4, <2>1, RefIs
<1>15. ASSUME calm[t] # <<>> PROVE EntryGoes(t)
  <2>1. Entry(t) /\ job[t].pc # "idle"
        BY <1>1, <1>8, <1>15 DEF MatchInv, RoundInv, Round
  <2>2. Seen(t) = Shown(calm[t], job[t].node)
        BY <1>15, <2>1, SeenCalm
  <2> QED BY <1>1, <1>14, <2>1, <2>2 DEF Entry, EntryGoes, Busy
<1>16. job'[t].pc # "item"
      BY <1>5
<1> QED BY <1>1, <1>6, <1>7, <1>9, <1>13, <1>14, <1>15, <1>16, MatchWithin

LEMMA MatchMake ==
    ASSUME EnumAssumption, EnumInv, EnumInv', TidyInv, MatchInv, NEW t \in Thread, Make(t)
    PROVE  MatchInv'
<1>1. /\ job[t].pc = "make"
      /\ UNCHANGED <<system, bus, changes, hashed, found, list, calm>>
      BY DEF Make, At
<1>2. PICK r \in Slot, e \in DevRec :
          /\ ~Live(r) /\ dev'[r] = e /\ \A x \in Slot \ {r} : dev'[x] = dev[x]
          /\ e.node = job[t].node /\ e.id = Seen(t) /\ e.session = Session(t)
          /\ e.paths = {} /\ Sets(t, "setup", r) /\ unrefs' = Tracked(t, r)
      BY MakeKeeps
<1>3. Steady
      BY MakeKeeps
<1>4. r \in 0..MaxSlots
      BY DEF Slot, EnumAssumption
<1>5. /\ \A u \in Thread \ {t} : job'[u] = job[u]
      /\ job'[t].pc = "setup" /\ job'[t].dev = r /\ job'[t].node = job[t].node
      /\ job'[t].pass = job[t].pass /\ job'[t].snap = job[t].snap
      /\ job'[t].todo = job[t].todo
      BY <1>2, <1>4, JobSets
<1>6. GrowsBy(t) /\ \A u \in Thread \ {t} : unrefs'[u] = unrefs[u]
  <2>1. unrefs \in [Thread -> Seq(Slot)]
        BY DEF EnumInv, EnumTypes
  <2>2. CASE unrefs' = unrefs
        BY <2>2 DEF GrowsBy
  <2>3. CASE unrefs' = [unrefs EXCEPT ![t] = Append(@, r)]
        BY <2>1, <2>3 DEF GrowsBy
  <2> QED BY <1>2, <2>2, <2>3 DEF Tracked
<1>7. calm \in Calms /\ Lists(t) /\ EntryAt(t)
      BY <1>1 DEF MatchInv, WholeInv, CalmInv, Calms, Lists, EntryInv
<1>8. Within(t) /\ found'[t] = found[t]
  <2>1. job[t].pass \notin {"hcd", "ext"}
        BY <1>1, <1>7 DEF EntryAt, PcsOf
  <2>2. "setup" \in PcsOf(job[t].pass)
        BY <2>1 DEF PcsOf, Finding
  <2> QED BY <1>1, <1>5, <1>6, <1>7, <2>2 DEF Within, Apart
<1>9. SameSnaps
      BY <1>1, <1>5 DEF SameSnaps
<1>10. \A x \in Slot : Live(x)' => x = r \/ (x # r /\ Live(x) /\ dev'[x] = dev[x])
       BY <1>2 DEF Live
<1>11. UniqueInv'
  <2> SUFFICES ASSUME Win
               PROVE  /\ \A y, x \in Slot : Live(y)' /\ Live(x)' /\ dev'[y].node = dev'[x].node => y = x
                      /\ \A v, u \in Thread : job'[v].pc = "make" /\ job'[u].pc = "make" => v = u
                      /\ \A v \in Thread : job'[v].pc = "make" =>
                            \A x \in Slot : Live(x)' => dev'[x].node # job'[v].node
      BY <1>1 DEF UniqueInv, Win
  <2>1. UniqueInv
        BY DEF MatchInv, WholeInv
  <2>2. \A x \in Slot : Live(x) => dev[x].node # job[t].node
        BY <1>1, <2>1 DEF UniqueInv
  <2>3. \A y, x \in Slot : Live(y)' /\ Live(x)' /\ dev'[y].node = dev'[x].node => y = x
        BY <1>2, <1>10, <2>1, <2>2 DEF UniqueInv
  <2>4. \A u \in Thread : job'[u].pc # "make"
        BY <1>1, <1>5, <2>1 DEF UniqueInv
  <2> QED BY <2>3, <2>4
<1>12. PathInv'
  <2> SUFFICES ASSUME NEW x \in Slot, Live(x)' PROVE dev'[x].paths \subseteq Itfs(dev'[x].node)
      BY DEF PathInv, Itfs
  <2>1. CASE x = r
        BY <1>2, <2>1
  <2>2. CASE x # r
    <3>1. Live(x) /\ dev'[x] = dev[x]
          BY <1>10, <2>2
    <3> QED BY <3>1 DEF MatchInv, WholeInv, PathInv
  <2> QED BY <2>1, <2>2
<1>13. BsdInv'
  <2> SUFFICES ASSUME system \in Bsd, NEW x \in Slot, Live(x)'
               PROVE  dev'[x].session = dev'[x].node /\ Agrees(x, bus)'
      BY <1>1 DEF BsdInv, Bsd
  <2>1. CASE x = r
    <3>1. Session(t) = job[t].node /\ Seen(t) = Shown(bus, job[t].node)
          BY DEF Session, Seen, Bsd
    <3> QED BY <1>1, <1>2, <2>1, <3>1 DEF Agrees
  <2>2. CASE x # r
    <3>1. Live(x) /\ dev'[x] = dev[x]
          BY <1>10, <2>2
    <3>2. dev[x].session = dev[x].node /\ Agrees(x, bus)
          BY <3>1 DEF MatchInv, WholeInv, BsdInv
    <3> QED BY <1>1, <3>1, <3>2 DEF Agrees
  <2> QED BY <2>1, <2>2
<1>14. system = "usbdk" =>
           /\ <<job[t].node, Seen(t)>> \in Sights /\ Seen(t) \in 1..changes
           /\ Contains(hashed, Seen(t))
  <2> SUFFICES ASSUME system = "usbdk"
               PROVE  /\ <<job[t].node, Seen(t)>> \in Sights /\ Seen(t) \in 1..changes
                      /\ Contains(hashed, Seen(t))
      OBVIOUS
  <2>1. <<job[t].node, Seen(t)>> \in Sights
        BY <1>1, <1>7, SeenSight
  <2>2. Contains(hashed, Seen(t)) /\ \A k \in 1..Len(hashed) : hashed[k] \in 1..changes
        BY <1>1 DEF MatchInv, WholeInv, HashInv
  <2> QED BY <2>1, <2>2 DEF Contains
<1>15. HashInv'
  <2>1. CASE system # "usbdk"
        BY <1>1, <2>1 DEF HashInv
  <2>2. CASE system = "usbdk"
    <3>1. HashInv
          BY DEF MatchInv, WholeInv
    <3>2. PICK i : i = Seen(t) /\ i \in 1..changes /\ Contains(hashed, i)
          BY <1>14, <2>2
    <3>3. PICK q : q = Hashed(i)
          OBVIOUS
    <3>4. Place(i) \in 1..Len(q) /\ q[Place(i)] = i /\ q = hashed
      <4>1. Widens(Hashed(i)) /\ Placed(Hashed(i), i)
            BY <2>2, <3>1, <3>2, PlaceIs
      <4>2. Placed(q, i)
            BY <3>3, <4>1
      <4> QED BY <3>2, <4>2 DEF Placed
    <3>5. e.session \in 1..Len(hashed) /\ hashed[e.session] = e.id
          BY <1>2, <2>2, <3>2, <3>4 DEF Session
    <3>6. \A x \in Slot : Live(x)' =>
              dev'[x].session \in 1..Len(hashed) /\ hashed[dev'[x].session] = dev'[x].id
          BY <1>2, <1>10, <2>2, <3>1, <3>5 DEF HashInv
    <3>7. ASSUME NEW u \in Thread, job'[u].pc = "make" PROVE Contains(hashed, Seen(u)')
      <4>1. Seen(u)' = Seen(u) /\ job[u].pc = "make"
            BY <1>1, <1>5, <3>7 DEF Seen, Bsd
      <4> QED BY <2>2, <3>1, <4>1 DEF HashInv
    <3> QED BY <1>1, <2>2, <3>1, <3>6, <3>7 DEF HashInv
  <2> QED BY <2>1, <2>2
<1>16. SightInv'
  <2>1. CASE system # "usbdk"
        BY <1>1, <2>1 DEF SightInv
  <2>2. CASE system = "usbdk"
    <3>1. {<<dev'[x].node, dev'[x].id>> : x \in {y \in Slot : Live(y)'}} \subseteq Sights
      <4> SUFFICES ASSUME NEW x \in Slot, Live(x)'
                   PROVE  <<dev'[x].node, dev'[x].id>> \in Sights
          OBVIOUS
      <4>1. CASE x = r
            BY <1>2, <1>14, <2>2, <4>1
      <4>2. CASE x # r
        <5>1. Live(x) /\ dev'[x] = dev[x]
              BY <1>10, <4>2
        <5> QED BY <5>1 DEF Sights
      <4> QED BY <4>1, <4>2
    <3>2. {<<n, job'[u].snap[n]>> : n \in Physical \ Hubs, u \in {v \in Thread : job'[v].pc # "idle"}}
          \subseteq
          {<<n, job[u].snap[n]>> : n \in Physical \ Hubs, u \in {v \in Thread : job[v].pc # "idle"}}
          BY <1>9 DEF SameSnaps
    <3>3. Sights' \subseteq Sights
          BY <1>1, <3>1, <3>2 DEF Sights
    <3> QED BY <1>1, <3>3, SightsFewer DEF MatchInv, WholeInv
  <2> QED BY <2>1, <2>2
<1>17. WholeInv'
       BY <1>1, <1>7, <1>9, <1>11, <1>12, <1>13, <1>15, <1>16, CalmKept
          DEF MatchInv, WholeInv
<1>18. dev'[job'[t].dev].node = job[t].node /\ dev'[job'[t].dev].id = Seen(t)
       BY <1>2, <1>5
<1>19. ASSUME calm[t] # <<>> PROVE EntryGoes(t)
  <2>1. Entry(t) /\ job[t].pc # "idle"
        BY <1>1, <1>7, <1>19 DEF MatchInv, RoundInv, Round
  <2>2. Seen(t) = Shown(calm[t], job[t].node)
        BY <1>19, <2>1, SeenCalm
  <2> QED BY <1>1, <1>18, <2>1, <2>2 DEF Entry, EntryGoes, Busy
<1> QED BY <1>1, <1>3, <1>5, <1>6, <1>8, <1>17, <1>18, <1>19, MatchWithin

----------------------------------------------------------------------------
(* The list grows, and a pass goes on.                                     *)

LEMMA CompleteGrows ==
    ASSUME NEW q \in Seq(Slot), NEW s \in Slot, NEW b, NEW rest, NEW n \in Listed',
           Complete(q, b, rest \cup {n})', n \notin rest,
           dev'[s].node = n, dev'[s].id = b[n], b[n] # 0
    PROVE  Complete(Append(q, s), b, rest)'
<1>1. PICK p : p = Append(q, s)
      OBVIOUS
<1>2. /\ Len(p) = Len(q) + 1 /\ Len(q) \in Nat /\ p[Len(p)] = s
      /\ \A k \in 1..Len(q) : p[k] = q[k]
      /\ \A k \in 1..Len(p) : k = Len(p) \/ k \in 1..Len(q)
      /\ Len(p) \in 1..Len(p) /\ \A k \in 1..Len(q) : k \in 1..Len(p)
      BY <1>1
<1>3. \A k \in 1..Len(q) :
          /\ dev'[q[k]].node \in Listed' \ rest /\ dev'[q[k]].id = b[dev'[q[k]].node]
          /\ dev'[q[k]].id # 0 /\ dev'[q[k]].node # n
      BY DEF Complete
<1>4. \A k \in 1..Len(p) :
          /\ dev'[p[k]].node \in Listed' \ rest /\ dev'[p[k]].id = b[dev'[p[k]].node]
          /\ dev'[p[k]].id # 0
      BY <1>2, <1>3
<1>5. \A k, l \in 1..Len(p) : dev'[p[k]].node = dev'[p[l]].node => k = l
  <2>1. \A k, l \in 1..Len(q) : dev'[q[k]].node = dev'[q[l]].node => k = l
        BY DEF Complete
  <2> QED BY <1>2, <1>3, <2>1
<1>6. ASSUME NEW m \in Listed' \ rest, b[m] # 0 PROVE \E k \in 1..Len(p) : dev'[p[k]].node = m
  <2>1. CASE m = n
        BY <1>2, <2>1
  <2>2. CASE m # n
    <3>1. PICK k \in 1..Len(q) : dev'[q[k]].node = m
          BY <1>6, <2>2 DEF Complete
    <3> QED BY <1>2, <3>1
  <2> QED BY <2>1, <2>2
<1>7. Complete(p, b, rest)'
      BY <1>4, <1>5, <1>6 DEF Complete
<1> QED BY <1>1, <1>7

LEMMA TrackStays ==
    ASSUME EnumAssumption, EnumInv, Steady, NEW t \in Thread, Track(t), GrowsBy(t),
           calm'[t] = calm[t], job[t].pass = "gen", job'[t].pass = "gen"
    PROVE  Track(t)'
<1>1. \A n \in Physical : calm[t][n] # 0 => Tracks(t, n)
      BY DEF Track, Visited
<1>2. \A h \in Hubs : Above[h] = <<>> => HasRoot(t, h)
      BY DEF Track, RootsDone
<1> QED BY <1>1, <1>2, TracksKept DEF Track

LEMMA MatchAppend ==
    ASSUME EnumAssumption, EnumInv, EnumInv', MatchInv, NEW t \in Thread, AppendDevice(t)
    PROVE  MatchInv'
<1>1. /\ job[t].pc = "append"
      /\ UNCHANGED <<system, bus, changes, hashed, unrefs, list, calm>>
      BY DEF AppendDevice, At
<1>2. PICK s \in Slot : s = job[t].dev /\ Live(s)
      BY <1>1, JobDevIs
<1>3. /\ found' = [found EXCEPT ![t] = Append(@, s)] /\ dev' = Ref(dev, s) /\ Sets(t, "item", 0)
      BY <1>2 DEF AppendDevice, InList, Sets
<1>4. 0 \in 0..MaxSlots
      BY DEF EnumAssumption
<1>5. /\ \A u \in Thread \ {t} : job'[u] = job[u]
      /\ job'[t].pc = "item" /\ job'[t].node = job[t].node /\ job'[t].pass = job[t].pass
      /\ job'[t].snap = job[t].snap /\ job'[t].todo = job[t].todo
      BY <1>3, <1>4, JobSets
<1>6. /\ found'[t] = Append(found[t], s) /\ found[t] \in Seq(Slot)
      /\ \A u \in Thread \ {t} : found'[u] = found[u]
      BY <1>3 DEF EnumInv, EnumTypes
<1>7. Steady /\ OldOnly /\ SamePaths
      BY <1>2, <1>3, RefKeeps
<1>8. calm \in Calms /\ Lists(t) /\ EntryAt(t)
      BY <1>1 DEF MatchInv, WholeInv, CalmInv, Calms, Lists, EntryInv
<1>9. NoNewMake /\ SameSnaps /\ Apart(t)
      BY <1>1, <1>5, <1>6 DEF NoNewMake, SameSnaps, Apart
<1>10. WholeInv'
  <2>1. calm' \in Calms /\ \A u \in Thread : calm'[u] \in {calm[u], <<>>}
        BY <1>1, <1>8
  <2> QED BY <1>1, <1>7, <1>9, <2>1, WholeKept DEF MatchInv
<1>11. EntryAt(t)'
  <2>1. "item" \in PcsOf(job[t].pass)
        BY DEF PcsOf, Finding
  <2> QED BY <1>1, <1>5, <1>8, <2>1, EntryKept DEF MatchInv
<1>12. job[t].pass \in {"gen", "all"} /\ (Win <=> job[t].pass # "all")
       BY <1>1, <1>8, JobType DEF EntryAt, PcsOf, Finding, EnumInv, JobInv, JobAt
<1>13. ASSUME calm[t] # <<>> PROVE Round(t)'
  <2>1. Round(t) /\ Entry(t)
        BY <1>8, <1>13 DEF MatchInv, RoundInv, Round
  <2>2. PICK q, b, rest, n :
            q = found[t] /\ b = calm[t] /\ rest = job[t].todo /\ n = job[t].node
        OBVIOUS
  <2>3. Left(t) = rest \cup {n} /\ n \notin rest
        BY <1>1, <1>8, <2>2 DEF Left, EntryAt
  <2>4. Left(t)' = rest
        BY <1>5, <2>2 DEF Left
  <2>5. n \in Listed /\ Listed' = Listed
    <3>1. CASE Win
      <4>1. n \in Physical
            BY <1>1, <1>12, <2>1, <2>2, <3>1 DEF Entry, Busy
      <4> QED BY <1>1, <3>1, <4>1 DEF Listed, Win
    <3>2. CASE ~Win
          BY <1>1, <1>8, <2>3, <3>2 DEF Listed, EntryAt
    <3> QED BY <3>1, <3>2
  <2>6. dev[s].node = n /\ dev[s].id = b[n] /\ b[n] # 0
    <3>1. Shown(b, n) = b[n]
          BY <2>5 DEF Shown, Listed, Physical
    <3> QED BY <1>1, <1>2, <1>8, <2>1, <2>2, <3>1 DEF EntryAt, Entry
  <2>7. Complete(q, b, rest \cup {n})'
    <3>1. Complete(q, b, rest \cup {n})
          BY <1>12, <2>1, <2>2, <2>3 DEF Round, ToList
    <3>2. PICK r : r = rest \cup {n}
          OBVIOUS
    <3>3. Complete(q, b, r)'
          BY <1>1, <1>7, <2>2, <3>1, <3>2, CompleteKept
    <3> QED BY <3>2, <3>3
  <2>8. dev'[s].node = n /\ dev'[s].id = b[n]
        BY <1>3, <2>6, RefIs
  <2>9. Complete(Append(q, s), b, rest)'
    <3>1. n \in Listed' /\ q \in Seq(Slot)
          BY <1>6, <2>2, <2>5
    <3> QED BY <2>3, <2>6, <2>7, <2>8, <3>1, CompleteGrows
  <2>10. Complete(found[t], calm[t], ToList(t))'
    <3>1. /\ found'[t] = Append(q, s) /\ calm'[t] = b
          BY <1>1, <1>6, <2>2
    <3>2. ToList(t)' = rest
          BY <1>5, <1>12, <2>4 DEF ToList
    <3> QED BY <2>9, <3>1, <3>2 DEF Complete
  <2>11. Entry(t)'
    <3>1. system' \notin Bsd => \A m \in Left(t)' : Shown(calm'[t], m) # 0
          BY <1>1, <2>1, <2>2, <2>3, <2>4 DEF Entry
    <3> QED BY <1>5, <3>1 DEF Entry, Busy, Bsd, Shown
  <2>12. Win => Track(t)'
    <3> SUFFICES ASSUME Win PROVE Track(t)'
        OBVIOUS
    <3>1. Track(t) /\ job[t].pass = "gen" /\ GrowsBy(t)
          BY <1>1, <1>12, <2>1 DEF Round, GrowsBy
    <3> QED BY <1>1, <1>5, <1>7, <3>1, TrackStays
  <2> QED BY <1>1, <2>10, <2>11, <2>12 DEF Round, Win
<1>14. job'[t].pc # "idle" /\ calm' = calm
       BY <1>1, <1>5
<1> QED BY <1>7, <1>9, <1>10, <1>11, <1>13, <1>14, MatchStep

LEMMA MatchItem ==
    ASSUME EnumAssumption, EnumInv, EnumInv', MatchInv, NEW t \in Thread, NEW n \in Node,
           Item(t, n)
    PROVE  MatchInv'
<1>1. /\ job[t].pc = "item" /\ n \in job[t].todo
      /\ UNCHANGED <<system, bus, changes, hashed, dev, found, unrefs, list, calm>>
      BY DEF Item, At
<1>2. PICK pc \in {"ancestor", "owner", "rootHub", "find"} :
          /\ job' = [job EXCEPT ![t].pc = pc, ![t].node = n, ![t].todo = @ \ {n}]
          /\ pc \in PcsOf(job[t].pass) /\ (job[t].pass = "gen" => pc = "ancestor")
  <2>1. PICK pc \in {"ancestor", "owner", "rootHub", "find"} :
            /\ job' = [job EXCEPT ![t].pc = pc, ![t].node = n, ![t].todo = @ \ {n}]
            /\ pc = CASE job[t].pass = "gen" -> "ancestor"
                      [] job[t].pass = "ext" -> "owner"
                      [] job[t].pass = "hcd" -> "rootHub"
                      [] OTHER -> "find"
        BY DEF Item
  <2> QED BY <2>1 DEF PcsOf, Finding
<1>3. PICK j \in JobRec : j = job[t]
      BY JobType DEF EnumInv
<1>4. job' = [job EXCEPT ![t] = [j EXCEPT !.pc = pc, !.node = n, !.todo = @ \ {n}]]
      BY <1>2, <1>3 DEF EnumInv, EnumTypes
<1>5. /\ job'[t].pc = pc /\ job'[t].snap = job[t].snap /\ job'[t].todo = job[t].todo \ {n}
      /\ job'[t].node = n /\ job'[t].pass = job[t].pass
      /\ \A u \in Thread \ {t} : job'[u] = job[u]
      BY <1>3, <1>4 DEF JobRec, EnumInv, EnumTypes
<1>6. Steady /\ OldOnly /\ SamePaths
      BY <1>1, DevKept
<1>7. calm \in Calms /\ Lists(t) /\ EntryAt(t)
      BY <1>1 DEF MatchInv, WholeInv, CalmInv, Calms, Lists, EntryInv
<1>8. NoNewMake /\ SameSnaps /\ Apart(t)
      BY <1>1, <1>5 DEF NoNewMake, SameSnaps, Apart
<1>9. WholeInv'
  <2>1. calm' \in Calms /\ \A u \in Thread : calm'[u] \in {calm[u], <<>>}
        BY <1>1, <1>7
  <2> QED BY <1>1, <1>6, <1>8, <2>1, WholeKept DEF MatchInv
<1>10. Left(t) = job[t].todo /\ Left(t)' = Left(t)
  <2>1. Left(t) = job[t].todo
        BY <1>1 DEF Left
  <2>2. Left(t)' = (job[t].todo \ {n}) \cup {n}
        BY <1>5 DEF Left
  <2> QED BY <1>1, <2>1, <2>2
<1>11. EntryAt(t)'
  <2>1. ~Win' => Left(t)' \subseteq Listed'
        BY <1>1, <1>7, <1>10 DEF EntryAt, Win, Listed
  <2>2. job'[t].pc \in PcsOf(job'[t].pass) /\ job'[t].node \notin job'[t].todo
        BY <1>2, <1>5
  <2> QED BY <1>5, <2>1, <2>2 DEF EntryAt, PcsOf
<1>12. ASSUME calm[t] # <<>> PROVE Round(t)'
  <2>1. Round(t) /\ Entry(t)
        BY <1>7, <1>12 DEF MatchInv, RoundInv, Round
  <2>2. Entry(t)'
    <3>1. system' \notin Bsd => \A m \in Left(t)' : Shown(calm'[t], m) # 0
          BY <1>1, <1>10, <2>1 DEF Entry
    <3>2. ~(job'[t].pass = "gen" /\ job'[t].pc \in Busy)
          BY <1>2, <1>5 DEF Busy
    <3> QED BY <1>5, <3>1, <3>2 DEF Entry, Busy, Bsd, Shown
  <2>3. PICK q, b, rest : q = found[t] /\ b = calm[t] /\ rest = ToList(t)
        OBVIOUS
  <2>4. Complete(q, b, rest)'
        BY <1>1, <1>6, <2>1, <2>3, CompleteKept DEF Round
  <2>5. ToList(t)' = rest /\ found'[t] = q /\ calm'[t] = b
        BY <1>1, <1>5, <1>10, <2>3 DEF ToList
  <2>6. Complete(found[t], calm[t], ToList(t))'
        BY <2>4, <2>5 DEF Complete
  <2>7. GrowsBy(t) /\ Narrows(t)
        BY <1>1, <1>10 DEF GrowsBy, Narrows
  <2>8. Win => Track(t)'
        BY <1>1, <1>5, <1>6, <2>1, <2>7, TrackKept DEF Round
  <2> QED BY <1>1, <2>2, <2>6, <2>8 DEF Round, Win
<1>13. job'[t].pc # "idle" /\ calm' = calm
       BY <1>1, <1>5
<1> QED BY <1>6, <1>8, <1>9, <1>11, <1>12, <1>13, MatchStep

----------------------------------------------------------------------------
(* A listing begins, goes on with the next pass, ends.                     *)

\* The order of the passes
LEMMA NextPassIs ==
    ASSUME EnumAssumption, EnumInv, NEW t \in Thread, NextPass(t)
    PROVE  /\ Win /\ job[t].pc = "item" /\ job[t].todo = {}
           /\ \E p \in {"dev", "hcd", "gen", "ext"} :
                 /\ <<job[t].pass, p>> \in {<<"hub", "dev">>, <<"dev", "hcd">>, <<"hcd", "gen">>,
                                            <<"gen", "ext">>}
                 /\ job'[t].pc = "item" /\ job'[t].pass = p /\ job'[t].snap = job[t].snap
                 /\ job'[t].todo = NodesOf(p, IF p = "gen" THEN bus ELSE job[t].snap)
                 /\ \A u \in Thread \ {t} : job'[u] = job[u]
<1>1. /\ job \in [Thread -> JobRec] /\ JobAt(t) /\ job[t].pc = "item" /\ job[t].todo = {}
      BY DEF EnumInv, EnumTypes, JobInv, NextPass, At
<1> DEFINE i == CHOOSE k \in DOMAIN Passes : Passes[k] = job[t].pass
<1>2. /\ i < Len(Passes)
      /\ job' = [job EXCEPT
           ![t] = [Enter(Passes[i + 1], IF Passes[i + 1] = "gen" THEN bus ELSE @.snap)
                     EXCEPT !.snap = job[t].snap]]
      BY DEF NextPass
<1>3. Win
  <2> SUFFICES ASSUME ~Win PROVE FALSE
      OBVIOUS
  <2>1. Passes = <<"all">> /\ job[t].pass = "all"
        BY <1>1 DEF Passes, JobAt, Win
  <2>2. i = 1
        BY <2>1
  <2> QED BY <1>2, <2>1, <2>2
<1>4. Passes = <<"hub", "dev", "hcd", "gen", "ext">>
      BY <1>3 DEF Passes, Win
<1>5. i \in 1..5 /\ Passes[i] = job[t].pass
  <2>1. job[t].pass \in {"hub", "dev", "hcd", "gen", "ext"}
        BY <1>1, <1>3, JobType DEF JobAt, EnumInv
  <2>2. DOMAIN Passes = 1..5
        BY <1>4
  <2>3. \E k \in 1..5 : Passes[k] = job[t].pass
        BY <1>4, <2>1
  <2> QED BY <2>2, <2>3
<1>6. PICK p \in {"dev", "hcd", "gen", "ext"} :
          /\ p = Passes[i + 1]
          /\ <<job[t].pass, p>> \in {<<"hub", "dev">>, <<"dev", "hcd">>, <<"hcd", "gen">>,
                                     <<"gen", "ext">>}
  <2>1. i \in 1..4
        BY <1>2, <1>4, <1>5
  <2> HIDE DEF i
  <2>2. <<Passes[i], Passes[i + 1]>> \in {<<"hub", "dev">>, <<"dev", "hcd">>, <<"hcd", "gen">>,
                                          <<"gen", "ext">>}
        BY <1>4, <2>1
  <2>3. Passes[i + 1] \in {"dev", "hcd", "gen", "ext"}
        BY <1>4, <2>1
  <2> QED BY <1>5, <2>2, <2>3
<1>7. PICK b : b = IF p = "gen" THEN bus ELSE job[t].snap
      OBVIOUS
<1> DEFINE j == [pc |-> "item", pass |-> p, snap |-> job[t].snap, todo |-> NodesOf(p, b),
                 node |-> NoNode, dev |-> 0, par |-> 0]
<1>8. [Enter(p, b) EXCEPT !.snap = job[t].snap] = j
      BY EnterType
<1>9. job' = [job EXCEPT ![t] = [Enter(p, b) EXCEPT !.snap = job[t].snap]]
  <2> HIDE DEF i
  <2> QED BY <1>1, <1>2, <1>6, <1>7
<1>10. job'[t] = j /\ \A u \in Thread \ {t} : job'[u] = job[u]
       BY <1>1, <1>8, <1>9
<1>11. /\ job'[t].pc = "item" /\ job'[t].pass = p /\ job'[t].snap = job[t].snap
       /\ job'[t].todo = NodesOf(p, b)
       BY <1>10
<1> HIDE DEF i, j
<1> QED BY <1>1, <1>3, <1>6, <1>7, <1>10, <1>11

\* What is plugged in at nodes that a pass goes over
LEMMA NodesAre ==
    ASSUME EnumAssumption, Win, NEW b
    PROVE  /\ \A p : NodesOf(p, b) \subseteq {n \in Node : Shown(b, n) # 0}
           /\ \A n \in Node : Shown(b, n) # 0 =>
                 /\ n \in NodesOf("gen", b)
                 /\ n \in Hubs => n \in NodesOf("hub", b)
                 /\ n \in Hubs /\ Above[n] = <<>> => n \in NodesOf("hcd", b)
                 /\ n \in Physical \ Hubs => n \in NodesOf("dev", b)
                 /\ Kind[n] = "interface" => n \in NodesOf("ext", b)
<1>1. system \notin Bsd
      BY DEF Win, Bsd
<1>2. \A p : NodesOf(p, b) \subseteq {n \in Node : Shown(b, n) # 0}
  <2> SUFFICES ASSUME NEW p, NEW n \in NodesOf(p, b) PROVE n \in Node /\ Shown(b, n) # 0
      OBVIOUS
  <2> QED BY <1>1, Zenon DEF NodesOf
<1>3. ASSUME NEW n \in Node, Shown(b, n) # 0
      PROVE  /\ n \in NodesOf("gen", b)
             /\ n \in Hubs => n \in NodesOf("hub", b)
             /\ n \in Hubs /\ Above[n] = <<>> => n \in NodesOf("hcd", b)
             /\ n \in Physical \ Hubs => n \in NodesOf("dev", b)
             /\ Kind[n] = "interface" => n \in NodesOf("ext", b)
  <2>1. n \in NodesOf("gen", b)
        BY <1>3 DEF NodesOf
  <2>2. n \in Hubs => n \in NodesOf("hub", b)
        BY <1>3 DEF NodesOf, Hubs
  <2>3. n \in Hubs /\ Above[n] = <<>> => n \in NodesOf("hcd", b)
    <3>1. Above[n] = <<>> => Parent[n] = "hcd"
          BY TreeIs
    <3> QED BY <1>3, <3>1 DEF NodesOf, Hubs
  <2>4. n \in Physical \ Hubs => n \in NodesOf("dev", b)
    <3>1. Kind[n] \in {"hub", "device", "interface"}
          BY TreeIs
    <3> QED BY <1>3, <3>1 DEF NodesOf, Hubs, Physical
  <2>5. Kind[n] = "interface" => n \in NodesOf("ext", b)
        BY <1>3 DEF NodesOf
  <2> QED BY <2>1, <2>2, <2>3, <2>4, <2>5
<1> QED BY <1>2, <1>3

LEMMA MatchNextPass ==
    ASSUME EnumAssumption, EnumInv, EnumInv', MatchInv, NEW t \in Thread, NextPass(t)
    PROVE  MatchInv'
<1>1. /\ job[t].pc = "item" /\ job[t].todo = {} /\ Win
      /\ UNCHANGED <<system, bus, changes, hashed, dev, found, unrefs, list, calm>>
      BY NextPassIs DEF NextPass
<1>2. PICK p \in {"dev", "hcd", "gen", "ext"} :
          /\ <<job[t].pass, p>> \in {<<"hub", "dev">>, <<"dev", "hcd">>, <<"hcd", "gen">>,
                                     <<"gen", "ext">>}
          /\ job'[t].pc = "item" /\ job'[t].pass = p /\ job'[t].snap = job[t].snap
          /\ job'[t].todo = NodesOf(p, IF p = "gen" THEN bus ELSE job[t].snap)
          /\ \A u \in Thread \ {t} : job'[u] = job[u]
      BY NextPassIs
<1>2a. PICK b : /\ b = IF p = "gen" THEN bus ELSE job[t].snap
               /\ job'[t].todo = NodesOf(p, b)
      BY <1>2
<1>3. Steady /\ OldOnly /\ SamePaths
      BY <1>1, DevKept
<1>4. calm \in Calms /\ Lists(t)
      BY <1>1 DEF MatchInv, WholeInv, CalmInv, Calms, Lists
<1>5. NoNewMake /\ SameSnaps /\ Apart(t)
      BY <1>1, <1>2, <1>2a DEF NoNewMake, SameSnaps, Apart
<1>6. WholeInv'
  <2>1. calm' \in Calms /\ \A u \in Thread : calm'[u] \in {calm[u], <<>>}
        BY <1>1, <1>4
  <2> QED BY <1>1, <1>3, <1>5, <2>1, WholeKept DEF MatchInv
<1>7. EntryAt(t)'
  <2>1. "item" \in PcsOf(p)
        BY DEF PcsOf, Finding
  <2>2. job'[t].pc = "item" /\ job'[t].pc \in PcsOf(job'[t].pass) /\ Win'
        BY <1>1, <1>2, <1>2a, <2>1 DEF Win
  <2> QED BY <2>2 DEF EntryAt, PcsOf
<1>8. ASSUME calm[t] # <<>> PROVE Round(t)'
  <2>1. /\ Round(t) /\ Track(t) /\ b = calm[t] /\ \A h \in Hubs : calm[t][h] # 0
        BY <1>1, <1>2, <1>2a, <1>4, <1>8 DEF MatchInv, RoundInv, Round, WholeInv, CalmInv
  <2>2. Left(t) = {} /\ Left(t)' = NodesOf(p, b)
        BY <1>1, <1>2, <1>2a DEF Left
  <2>3. \A n \in Physical : n \in Node /\ Shown(b, n) = b[n]
        BY DEF Shown, Physical
  <2>4. \A h \in Hubs : h \in Physical
        BY DEF Hubs, Physical
  <2>5. Entry(t)'
    <3>1. \A m \in Left(t)' : Shown(calm'[t], m) # 0
          BY <1>1, <2>1, <2>2, NodesAre
    <3>2. job'[t].pc = "item"
          BY <1>2, <1>2a
    <3> QED BY <3>1, <3>2 DEF Entry, Busy, Shown, Bsd
  <2>6. PICK q, rest, next : q = found[t] /\ rest = ToList(t) /\ next = ToList(t)'
        OBVIOUS
  <2>7. Complete(q, b, rest)' /\ Listed' = Listed
        BY <1>1, <1>3, <2>1, <2>6, CompleteKept DEF Round, Listed
  <2>8. Complete(q, b, next)'
    <3>1. CASE p \in {"dev", "hcd"}
      <4>1. rest = Node /\ next = Node
            BY <1>2, <1>2a, <2>6, <3>1 DEF ToList
      <4> QED BY <2>7, <4>1
    <3>2. CASE p = "gen"
      <4>1. rest = Node /\ next = NodesOf("gen", b)
            BY <1>2, <1>2a, <2>2, <2>6, <3>2 DEF ToList
      <4>2. \A n \in Listed : n \in Node /\ n \in Physical
            BY DEF Listed, Physical
      <4>3. \A k \in 1..Len(q) : FALSE
            BY <2>7, <4>1, <4>2 DEF Complete
      <4>4. \A n \in Listed : b[n] # 0 => n \in next
            BY <1>1, <2>3, <4>1, <4>2, NodesAre
      <4> QED BY <2>7, <4>3, <4>4 DEF Complete
    <3>3. CASE p = "ext"
      <4>1. rest = {} /\ next = {}
            BY <1>2, <1>2a, <2>2, <2>6, <3>3 DEF ToList
      <4> QED BY <2>7, <4>1
    <3> QED BY <3>1, <3>2, <3>3
  <2>9. Complete(found[t], calm[t], ToList(t))'
        BY <1>1, <2>1, <2>6, <2>8 DEF Complete
  <2>10. Track(t)'
    <3>1. GrowsBy(t)
          BY <1>1 DEF GrowsBy
    <3>2. ASSUME NEW n \in Physical, b[n] # 0, Visited(t, n)' PROVE Tracks(t, n)'
      <4>1. Visited(t, n)
        <5>1. CASE n \in Hubs
              BY <2>2, <5>1 DEF Visited
        <5>2. CASE n \notin Hubs
          <6>1. p # "dev"
            <7> SUFFICES ASSUME p = "dev" PROVE FALSE
                OBVIOUS
            <7>1. n \in NodesOf("dev", b)
                  BY <1>1, <2>3, <3>2, <5>2, NodesAre
            <7> QED BY <1>2, <1>2a, <2>2, <3>2, <5>2, <7>1 DEF Visited
          <6>2. job[t].pass # "hub"
                BY <1>2, <1>2a, <6>1
          <6> QED BY <2>2, <5>2, <6>2 DEF Visited
        <5> QED BY <5>1, <5>2
      <4>2. Tracks(t, n)
            BY <2>1, <3>2, <4>1 DEF Track
      <4> QED BY <1>3, <3>1, <4>2, TracksKept
    <3>3. ASSUME NEW h \in Hubs, Above[h] = <<>>, RootsDone(t, h)' PROVE HasRoot(t, h)'
      <4>1. p # "hcd"
        <5> SUFFICES ASSUME p = "hcd" PROVE FALSE
            OBVIOUS
        <5>1. Shown(b, h) # 0 /\ h \in Node
              BY <2>1, <2>3, <2>4
        <5>2. h \in NodesOf("hcd", b)
              BY <1>1, <3>3, <5>1, NodesAre
        <5> QED BY <1>2, <1>2a, <2>2, <3>3, <5>2 DEF RootsDone
      <4>2. p \in {"gen", "ext"}
            BY <1>2, <1>2a, <3>3, <4>1 DEF RootsDone
      <4>3. RootsDone(t, h)
            BY <1>2, <1>2a, <2>2, <4>2 DEF RootsDone
      <4>4. HasRoot(t, h)
            BY <2>1, <3>3, <4>3 DEF Track
      <4> QED BY <1>3, <3>1, <4>4, TracksKept
    <3>4. ASSUME p = "ext", NEW n \in Node \ Left(t)', Kind[n] = "interface", Shown(b, n) # 0
          PROVE  HasPath(t, n)'
      <4>1. n \in NodesOf("ext", b)
            BY <1>1, <3>4, NodesAre
      <4> QED BY <2>2, <3>4, <4>1
    <3>5. calm'[t] = b /\ job'[t].pass = p
          BY <1>1, <1>2, <1>2a, <2>1
    <3> QED BY <3>2, <3>3, <3>4, <3>5 DEF Track, Shown
  <2> QED BY <2>5, <2>9, <2>10 DEF Round
<1>9. job'[t].pc # "idle" /\ calm' = calm
      BY <1>1, <1>2, <1>2a
<1> QED BY <1>3, <1>5, <1>6, <1>7, <1>8, <1>9, MatchStep, SMTT(30)

LEMMA MatchBegins ==
    ASSUME EnumAssumption, EnumInv, EnumInv', MatchInv, NEW t \in Thread, Begin(t)
    PROVE  MatchInv'
<1>1. /\ job[t].pc = "idle" /\ JobAt(t) /\ bus \in [Physical -> Nat]
      /\ calm' = [calm EXCEPT ![t] = bus]
      /\ UNCHANGED <<system, bus, changes, hashed, dev, found, unrefs, list>>
  <2>1. job[t].pc = "idle"
        BY DEF Begin, At
  <2>2. /\ calm' = [calm EXCEPT ![t] = bus]
        /\ UNCHANGED <<system, bus, changes, hashed, dev, found, unrefs, list>>
        BY DEF Begin
  <2>3. JobAt(t)
        BY DEF EnumInv, JobInv
  <2>4. bus \in [Physical -> Nat]
        BY DEF EnumInv, EnumTypes
  <2> QED BY <2>1, <2>2, <2>3, <2>4
<1>2. found[t] = <<>> /\ unrefs[t] = <<>>
      BY <1>1 DEF JobAt
<1>3. PICK p \in {"hub", "all"} : p = Head(Passes) /\ (p = "hub" <=> Win)
      BY DEF Passes, Win
<1>4. /\ job'[t].pc = "item" /\ job'[t].snap = bus /\ job'[t].todo = NodesOf(p, bus)
      /\ job'[t].pass = p
      /\ \A u \in Thread \ {t} : job'[u] = job[u]
  <2>1. Enter(p, bus) = [pc |-> "item", pass |-> p, snap |-> bus, todo |-> NodesOf(p, bus),
                         node |-> NoNode, dev |-> 0, par |-> 0]
        BY EnterType
  <2>2. PICK e : e = Enter(p, bus)
        OBVIOUS
  <2>3. job' = [job EXCEPT ![t] = e]
        BY <1>3, <2>2 DEF Begin
  <2>4. job'[t] = e /\ \A u \in Thread \ {t} : job'[u] = job[u]
        BY <2>3 DEF EnumInv, EnumTypes
  <2> QED BY <2>1, <2>2, <2>4
<1>5. Steady /\ OldOnly /\ SamePaths
      BY <1>1, DevKept
<1>6. /\ calm \in Calms /\ calm' \in Calms /\ calm'[t] = bus
      /\ \A u \in Thread \ {t} : calm'[u] = calm[u]
  <2>1. calm \in Calms
        BY DEF MatchInv, WholeInv, CalmInv, Calms
  <2> QED BY <1>1, <2>1 DEF Calms
<1>7. NoNewMake /\ Apart(t)
      BY <1>1, <1>4, <1>6 DEF NoNewMake, Apart
<1>8. SightInv'
  <2>1. \A s \in Slot : Live(s)' <=> Live(s)
        BY <1>1 DEF Live
  <2>2. {<<dev'[s].node, dev'[s].id>> : s \in {r \in Slot : Live(r)'}} \subseteq Sights
        BY <1>1, <2>1 DEF Sights
  <2>3. {<<n, job'[u].snap[n]>> : n \in Physical \ Hubs, u \in {v \in Thread : job'[v].pc # "idle"}}
        \subseteq Sights
    <3> SUFFICES ASSUME NEW n \in Physical \ Hubs, NEW u \in Thread, job'[u].pc # "idle"
                 PROVE  <<n, job'[u].snap[n]>> \in Sights
        OBVIOUS
    <3>1. CASE u = t
          BY <1>4, <3>1 DEF Sights
    <3>2. CASE u # t
          BY <1>4, <3>2 DEF Sights
    <3> QED BY <3>1, <3>2
  <2>4. {<<n, bus'[n]>> : n \in Physical \ Hubs} \subseteq Sights
        BY <1>1 DEF Sights
  <2>5. Sights' \subseteq Sights
        BY <2>2, <2>3, <2>4 DEF Sights
  <2> QED BY <1>1, <2>5, SightsFewer DEF MatchInv, WholeInv
<1>9. CalmInv'
  <2>1. CalmInv
        BY DEF MatchInv, WholeInv
  <2>2. ASSUME NEW u \in Thread, calm'[u] # <<>>
        PROVE  /\ \A h \in Hubs : calm'[u][h] # 0
               /\ job'[u].pc # "idle" => bus' = calm'[u] /\ job'[u].snap = calm'[u]
    <3>1. CASE u = t
          BY <1>1, <1>4, <1>6, <2>1, <3>1 DEF CalmInv
    <3>2. CASE u # t
          BY <1>1, <1>4, <1>6, <2>1, <2>2, <3>2, SMTT(30) DEF CalmInv
    <3> QED BY <3>1, <3>2
  <2> QED BY <1>1, <1>6, <2>1, <2>2 DEF CalmInv, Calms
<1>10. WholeInv'
       BY <1>1, <1>5, <1>7, <1>8, <1>9, PathsKept, UniqueKept, BsdKept, HashKept
          DEF MatchInv, WholeInv
<1>11. Left(t)' = NodesOf(p, bus)
       BY <1>4 DEF Left
<1>12. ~Win => NodesOf(p, bus) \subseteq Listed
  <2>1. NodesOf("all", bus) \subseteq Listed
        BY Zenon DEF NodesOf
  <2> QED BY <1>3, <2>1
<1>13. EntryAt(t)'
  <2>1. "item" \in PcsOf(p)
        BY DEF PcsOf, Finding
  <2>2. job'[t].pc = "item" /\ job'[t].pc \in PcsOf(job'[t].pass)
        BY <1>4, <2>1
  <2>3. ~Win' => Left(t)' \subseteq Listed'
        BY <1>1, <1>11, <1>12 DEF Win, Listed
  <2> QED BY <2>2, <2>3 DEF EntryAt, PcsOf
<1>14. Round(t)'
  <2>1. PICK b : b = bus
        OBVIOUS
  <2>2. \A n \in Physical : n \in Node /\ Shown(b, n) = b[n]
        BY DEF Shown, Physical
  <2>3. \A h \in Hubs : h \in Physical
        BY DEF Hubs, Physical
  <2>4. Entry(t)'
    <3>1. system \notin Bsd => \A m \in NodesOf(p, b) : Shown(b, m) # 0
      <4> SUFFICES ASSUME system \notin Bsd, NEW m \in NodesOf(p, b) PROVE Shown(b, m) # 0
          OBVIOUS
      <4> QED BY Zenon DEF NodesOf
    <3>2. system' \notin Bsd => \A m \in Left(t)' : Shown(calm'[t], m) # 0
          BY <1>1, <1>6, <1>11, <2>1, <3>1
    <3> QED BY <1>4, <3>2 DEF Entry, Busy, Shown, Bsd
  <2>5. PICK rest : rest = ToList(t)'
        OBVIOUS
  <2>6. \A n \in Listed : b[n] # 0 => n \in rest
    <3>1. CASE p = "hub"
      <4>1. rest = Node
            BY <1>4, <2>5, <3>1 DEF ToList
      <4> QED BY <4>1 DEF Listed, Physical
    <3>2. CASE p = "all"
      <4>1. rest = NodesOf("all", b)
            BY <1>4, <1>11, <2>1, <2>5, <3>2 DEF ToList
      <4>2. \A n \in Listed : n \in Physical /\ n \in Node
            BY DEF Listed, Physical
      <4>3. ASSUME NEW n \in Listed, b[n] # 0 PROVE n \in NodesOf("all", b)
        <5>1. n \in Node /\ Shown(b, n) # 0
              BY <2>2, <4>2, <4>3
        <5> QED BY <5>1 DEF NodesOf
      <4> QED BY <4>1, <4>3
    <3> QED BY <3>1, <3>2
  <2>7. Complete(found[t], calm[t], ToList(t))'
    <3>1. found'[t] = <<>> /\ calm'[t] = b /\ Listed' = Listed
          BY <1>1, <1>2, <1>6, <2>1 DEF Listed
    <3>2. Len(<<>>) = 0
          OBVIOUS
    <3>3. \A k \in 1..Len(found'[t]) : FALSE
          BY <3>1, <3>2
    <3>4. \A n \in Listed' \ ToList(t)' :
              calm'[t][n] # 0 => \E k \in 1..Len(found'[t]) : dev'[found'[t][k]].node = n
          BY <2>5, <2>6, <3>1
    <3> QED BY <3>3, <3>4 DEF Complete
  <2>8. ASSUME Win PROVE Track(t)'
    <3>1. /\ job'[t].pass = "hub" /\ Left(t)' = NodesOf("hub", b) /\ calm'[t] = b
          BY <1>3, <1>4, <1>6, <1>11, <2>1, <2>8
    <3>2. ASSUME NEW n \in Physical, b[n] # 0, Visited(t, n)' PROVE FALSE
      <4>1. n \in Hubs /\ n \notin NodesOf("hub", b)
            BY <3>1, <3>2 DEF Visited
      <4>2. n \in Node /\ Shown(b, n) # 0
            BY <2>2, <3>2
      <4> QED BY <2>8, <4>1, <4>2, NodesAre
    <3>3. \A h \in Hubs : ~RootsDone(t, h)'
          BY <3>1 DEF RootsDone
    <3> QED BY <3>1, <3>2, <3>3 DEF Track
  <2> QED BY <1>1, <2>4, <2>7, <2>8 DEF Round, Win
<1> QED BY <1>4, <1>5, <1>7, <1>10, <1>13, <1>14, MatchStep

LEMMA MatchGiveUp ==
    ASSUME EnumAssumption, EnumInv, EnumInv', MatchInv, NEW t \in Thread, GiveUp(t)
    PROVE  MatchInv'
<1>1. /\ UNCHANGED <<system, bus, changes, hashed, dev>>
      /\ job' = [job EXCEPT ![t] = NoJob] /\ calm' = [calm EXCEPT ![t] = <<>>]
      /\ found' = [found EXCEPT ![t] = <<>>] /\ unrefs' = [unrefs EXCEPT ![t] = <<>>]
      /\ list' = [list EXCEPT ![t] = <<>>]
      BY DEF GiveUp, EndListing
<1>2. calm \in Calms /\ NoJob.pc = "idle"
      BY DEF MatchInv, WholeInv, CalmInv, Calms, NoJob
<1>3. /\ job'[t] = NoJob /\ calm'[t] = <<>> /\ calm' \in Calms
      /\ \A u \in Thread \ {t} : /\ job'[u] = job[u] /\ calm'[u] = calm[u] /\ found'[u] = found[u]
                                 /\ unrefs'[u] = unrefs[u] /\ list'[u] = list[u]
  <2>1. job'[t] = NoJob
        BY <1>1 DEF EnumInv, EnumTypes
  <2>2. calm'[t] = <<>> /\ calm' \in Calms /\ \A u \in Thread \ {t} : calm'[u] = calm[u]
        BY <1>1, <1>2 DEF Calms
  <2>3. \A u \in Thread \ {t} : /\ job'[u] = job[u] /\ found'[u] = found[u]
                                /\ unrefs'[u] = unrefs[u] /\ list'[u] = list[u]
        BY <1>1 DEF EnumInv, EnumTypes
  <2> QED BY <2>1, <2>2, <2>3
<1>4. Steady /\ OldOnly /\ SamePaths
      BY <1>1, DevKept
<1>5. NoNewMake /\ SameSnaps /\ Apart(t)
      BY <1>1, <1>2, <1>3 DEF NoNewMake, SameSnaps, Apart
<1>6. WholeInv'
  <2>1. \A u \in Thread : calm'[u] \in {calm[u], <<>>}
        BY <1>3
  <2> QED BY <1>1, <1>3, <1>4, <1>5, <2>1, WholeKept DEF MatchInv
<1>7. ~Lists(t)'
      BY <1>2, <1>3 DEF Lists
<1> QED BY <1>3, <1>4, <1>5, <1>6, <1>7, MatchStep

\* The list that the application gets
LEMMA MatchDone ==
    ASSUME EnumAssumption, EnumInv, EnumInv', MatchInv, NEW t \in Thread, Done(t)
    PROVE  MatchInv'
<1>1. /\ UNCHANGED <<system, bus, changes, hashed, dev, calm>>
      /\ job' = [job EXCEPT ![t] = NoJob]
      /\ found' = [found EXCEPT ![t] = <<>>] /\ unrefs' = [unrefs EXCEPT ![t] = <<>>]
      /\ list' = [list EXCEPT ![t] = found[t]]
      /\ job[t].pc = "item" /\ job[t].todo = {} /\ job[t].pass = Last(Passes)
      BY DEF Done, EndListing, At
<1>2. calm \in Calms /\ NoJob.pc = "idle"
      BY DEF MatchInv, WholeInv, CalmInv, Calms, NoJob
<1>3. /\ job'[t] = NoJob /\ list'[t] = found[t]
      /\ \A u \in Thread \ {t} : /\ job'[u] = job[u] /\ found'[u] = found[u]
                                 /\ unrefs'[u] = unrefs[u] /\ list'[u] = list[u]
      BY <1>1 DEF EnumInv, EnumTypes
<1>4. Steady /\ OldOnly /\ SamePaths
      BY <1>1, DevKept
<1>5. NoNewMake /\ SameSnaps /\ Apart(t)
      BY <1>1, <1>2, <1>3 DEF NoNewMake, SameSnaps, Apart
<1>6. WholeInv'
  <2>1. calm' \in Calms /\ \A u \in Thread : calm'[u] \in {calm[u], <<>>}
        BY <1>1, <1>2
  <2> QED BY <1>1, <1>4, <1>5, <2>1, WholeKept DEF MatchInv
<1>7. ~Lists(t)'
      BY <1>2, <1>3 DEF Lists
<1>8. ASSUME calm[t] # <<>> PROVE Ended(t)'
  <2>1. Round(t)
        BY <1>1, <1>8 DEF MatchInv, RoundInv, Lists
  <2>2. /\ Win => job[t].pass = "ext"
        /\ ~Win => job[t].pass = "all"
        BY <1>1 DEF Passes, Last, Win
  <2>3. Left(t) = {}
        BY <1>1 DEF Left
  <2>4. ToList(t) = {}
        BY <2>2, <2>3 DEF ToList
  <2>5. PICK q, b : q = found[t] /\ b = calm[t]
        OBVIOUS
  <2>6. Complete(q, b, {}) /\ Complete(q, b, {})'
        BY <1>1, <1>4, <2>1, <2>4, <2>5, CompleteKept DEF Round
  <2>7. Complete(list[t], calm[t], {})'
    <3>1. list'[t] = q /\ calm'[t] = b
          BY <1>1, <1>3, <2>5
    <3>2. list'[t] = q /\ calm'[t] = b /\ Complete(q, b, {})'
          BY <2>6, <3>1
    <3> QED BY <3>2 DEF Complete
  <2>8. ASSUME Win, NEW k \in 1..Len(q), Kind[dev[q[k]].node] = "device"
        PROVE  dev[q[k]].paths = Itfs(dev[q[k]].node)
    <3>1. Track(t) /\ job[t].pass = "ext"
          BY <2>1, <2>2, <2>8 DEF Round
    <3>2. PICK s \in Slot : s = q[k] /\ Live(s)
      <4>1. q[k] \in Slot /\ Live(q[k])
            BY <1>4, <2>5, <2>8, HeldStays
      <4> QED BY <4>1
    <3>2a. PICK m : m = dev[s].node
          OBVIOUS
    <3>3. b[m] # 0 /\ m \in Node
      <4>1. /\ dev[q[k]].node \in Listed \ {} /\ dev[q[k]].id = b[dev[q[k]].node]
            /\ dev[q[k]].id # 0
            BY <2>6, <2>8 DEF Complete
      <4>2. m \in Listed /\ b[m] # 0
            BY <3>2, <3>2a, <4>1
      <4> QED BY <4>2 DEF Listed, Physical
    <3>4. dev[s].paths \subseteq Itfs(m)
          BY <3>2, <3>2a DEF MatchInv, WholeInv, PathInv
    <3>5. ASSUME NEW i \in Itfs(m) PROVE i \in dev[s].paths
      <4>1. i \in Node /\ Kind[i] = "interface" /\ Parent[i] = m
            BY DEF Itfs
      <4>2. Shown(calm[t], i) # 0
            BY <2>5, <3>3, <4>1 DEF Shown
      <4>3. HasPath(t, i)
            BY <2>3, <3>1, <4>1, <4>2 DEF Track
      <4>4. PICK l \in 1..Len(unrefs[t]) : i \in dev[unrefs[t][l]].paths
            BY <4>3 DEF HasPath
      <4>5. PICK r \in Slot : r = unrefs[t][l] /\ Live(r)
            BY <1>4, HeldStays
      <4>6. dev[r].node = m
            BY <4>1, <4>4, <4>5 DEF MatchInv, WholeInv, PathInv, Itfs
      <4>7. r = s
            BY <2>8, <3>2, <3>2a, <4>5, <4>6 DEF MatchInv, WholeInv, UniqueInv
      <4> QED BY <4>4, <4>5, <4>7
    <3> QED BY <3>2, <3>2a, <3>4, <3>5
  <2>9. Win' => \A k \in 1..Len(list'[t]) : Kind[dev'[list'[t][k]].node] = "device" =>
                    dev'[list'[t][k]].paths = Itfs(dev'[list'[t][k]].node)
        BY <1>1, <1>3, <2>5, <2>8, SMTT(30) DEF Win
  <2> QED BY <2>7, <2>9 DEF Ended, Itfs
<1> QED BY <1>1, <1>4, <1>5, <1>6, <1>7, <1>8, MatchStep

----------------------------------------------------------------------------
(* The host, and all together.                                             *)

\* The table of session ids has room for all devices that are ever plugged in.
RoomForAll == "usbdk" \in Systems => MaxChanges <= HashSize

LEMMA MatchBus ==
    ASSUME EnumAssumption, EnumInv, EnumInv', MatchInv, NEW n \in Physical \ Hubs, NEW i \in Nat,
           NEW b, b = [bus EXCEPT ![n] = i], bus' = b, Disturb,
           i # 0 => changes < i /\ \A s \in Slot : dev[s].node \notin NodesAt(n),
           changes' \in Nat, changes <= changes', i <= changes',
           system = "usbdk" => changes' <= HashSize,
           UNCHANGED <<system, dev, hashed, job, found, unrefs, list>>
    PROVE  MatchInv'
<1>1. /\ bus \in [Physical -> Nat] /\ changes \in Nat
      /\ \A s \in Slot : Live(s) => dev[s].node \in Node
      BY DEF EnumInv, EnumTypes, LiveInv
<1>2. b[n] = i /\ \A m \in Physical \ {n} : b[m] = bus[m]
      BY <1>1
<1>3. Steady /\ OldOnly /\ SamePaths
      BY DevKept
<1>4. \A s \in Slot : Live(s)' <=> Live(s)
      BY DEF Live
<1>5. /\ UniqueInv /\ PathInv /\ BsdInv /\ HashInv /\ SightInv /\ CalmInv
      /\ EntryInv /\ RoundInv
      BY DEF MatchInv, WholeInv
<1>6. NoNewMake
      BY DEF NoNewMake
<1>7. UniqueInv' /\ PathInv'
      BY <1>3, <1>5, <1>6, UniqueKept, PathsKept
<1>8. BsdInv'
  <2> SUFFICES ASSUME system \in Bsd, NEW s \in Slot, Live(s)
               PROVE  dev[s].session = dev[s].node /\ Agrees(s, bus)'
      BY <1>4 DEF BsdInv, Bsd
  <2>1. dev[s].session = dev[s].node /\ Agrees(s, bus) /\ dev[s].node \in Node
        BY <1>1, <1>5 DEF BsdInv
  <2>2. PICK m \in Node, p \in Physical :
            m = dev[s].node /\ p = IF Kind[m] = "interface" THEN Parent[m] ELSE m
        BY <2>1, PhysicalFinite
  <2>3. Shown(bus, m) = bus[p] /\ Shown(b, m) = b[p]
        BY <2>2 DEF Shown
  <2>4. p = n => m \in NodesAt(n)
        BY <2>2 DEF NodesAt
  <2>5. b[p] = bus[p] \/ b[p] = 0
        BY <1>2, <2>2, <2>4
  <2> QED BY <2>1, <2>2, <2>3, <2>5 DEF Agrees
<1>9. HashInv'
  <2> SUFFICES ASSUME system = "usbdk" PROVE HashInv'
      BY DEF HashInv
  <2>1. \A t \in Thread : Seen(t)' = Seen(t)
        BY DEF Seen, Bsd
  <2>2. \A k \in 1..Len(hashed) : hashed[k] \in 1..changes'
    <3> SUFFICES ASSUME NEW k \in 1..Len(hashed) PROVE hashed[k] \in 1..changes'
        OBVIOUS
    <3>1. hashed[k] \in 1..changes
          BY <1>5 DEF HashInv
    <3> QED BY <1>1, <3>1
  <2>3. /\ \A k, l \in 1..Len(hashed) : hashed[k] = hashed[l] => k = l
        /\ \A s \in Slot : Live(s) =>
              dev[s].session \in 1..Len(hashed) /\ hashed[dev[s].session] = dev[s].id
        /\ \A t \in Thread : job[t].pc = "make" => Contains(hashed, Seen(t))
        BY <1>5 DEF HashInv
  <2> QED BY <1>4, <2>1, <2>2, <2>3 DEF HashInv
<1>10. SightInv'
  <2> SUFFICES ASSUME system = "usbdk" PROVE SightInv'
      BY DEF SightInv
  <2>1. {<<m, b[m]>> : m \in Physical \ Hubs} \subseteq Sights \cup {<<n, i>>}
        BY <1>2 DEF Sights
  <2>2. {<<dev[s].node, dev[s].id>> : s \in {r \in Slot : Live(r)'}} \subseteq Sights
        BY <1>4 DEF Sights
  <2>3. {<<m, job[t].snap[m]>> : m \in Physical \ Hubs, t \in {u \in Thread : job[u].pc # "idle"}}
        \subseteq Sights
        BY DEF Sights
  <2>4. Sights' \subseteq Sights \cup {<<n, i>>}
        BY <2>1, <2>2, <2>3 DEF Sights
  <2>5. /\ \A x \in Sights : x[2] \in 0..changes
        /\ \A x, y \in Sights : x[2] = y[2] /\ x[2] # 0 => x[1] = y[1]
        BY <1>5 DEF SightInv
  <2>6. \A x \in Sights' : x \in Sights \/ (x[1] = n /\ x[2] = i)
        BY <2>4
  <2>7. \A x \in Sights' : x[2] \in 0..changes'
        BY <1>1, <2>5, <2>6
  <2>8. ASSUME NEW x \in Sights', NEW y \in Sights', x[2] = y[2], x[2] # 0
        PROVE  x[1] = y[1]
    <3>1. \A z \in Sights : i # 0 => z[2] # i
          BY <1>1, <2>5
    <3> QED BY <2>5, <2>6, <2>8, <3>1
  <2> QED BY <2>7, <2>8 DEF SightInv
<1>11. /\ calm \in Calms /\ calm' \in Calms
       /\ \A t \in Thread : calm'[t] # <<>> => job[t].pc = "idle" /\ calm'[t] = calm[t]
       BY <1>5 DEF CalmInv, Calms, Disturb
<1>12. CalmInv'
  <2>1. \A h \in Hubs : h \in Physical \ {n}
        BY DEF Hubs, Physical
  <2>2. \A h \in Hubs : bus'[h] # 0
        BY <1>2, <1>5, <2>1 DEF CalmInv
  <2>3. \A t \in Thread : calm'[t] # <<>> => \A h \in Hubs : calm'[t][h] # 0
        BY <1>5, <1>11 DEF CalmInv
  <2> QED BY <1>11, <2>2, <2>3 DEF CalmInv, Calms, Hubs
<1>13. EntryInv'
       BY <1>3, <1>5, EntryStays DEF EntryInv, Lists
<1>14. RoundInv'
  <2> SUFFICES ASSUME NEW t \in Thread, calm'[t] # <<>>
               PROVE  (Lists(t)' => Round(t)') /\ (job'[t].pc = "idle" => Ended(t)')
      BY DEF RoundInv
  <2>1. job[t].pc = "idle" /\ calm'[t] = calm[t] /\ calm[t] # <<>>
        BY <1>11
  <2>2. ~Lists(t)'
        BY <2>1 DEF Lists
  <2>3. Ended(t)
        BY <1>5, <2>1 DEF RoundInv
  <2>4. Ended(t)'
        BY <1>3, <1>5, <1>7, <2>1, <2>3, EndedKept
  <2> QED BY <2>2, <2>4
<1> QED BY <1>7, <1>8, <1>9, <1>10, <1>12, <1>13, <1>14 DEF MatchInv, WholeInv

LEMMA MatchPlug ==
    ASSUME EnumAssumption, EnumInv, EnumInv', Tidy, RoomForAll, MatchInv, NEW n \in Physical,
           Plug(n) \/ Unplug(n)
    PROVE  MatchInv'
<1>1. changes \in Nat /\ system \in Systems /\ n \in Physical \ Hubs
      BY DEF EnumInv, EnumTypes, Plug, Unplug
<1>2. system = "usbdk" => changes <= HashSize /\ MaxChanges <= HashSize
      BY <1>1 DEF MatchInv, WholeInv, HashInv, RoomForAll
<1>3. HashSize \in Nat /\ MaxChanges \in Nat
      BY DEF EnumAssumption
<1>4. CASE Plug(n)
  <2>1. /\ changes' = changes + 1 /\ changes < MaxChanges /\ Disturb
        /\ UNCHANGED <<system, dev, hashed, job, found, unrefs, list>>
        BY <1>4 DEF Plug
  <2>2. \A s \in Slot : dev[s].node \notin NodesAt(n)
        BY <1>4 DEF Plug, Tidy
  <2>3. PICK i \in Nat : i = changes + 1
        BY <1>1, <1>4 DEF Plug
  <2>3a. PICK b : b = [bus EXCEPT ![n] = i] /\ bus' = b
        BY <1>4, <2>3 DEF Plug
  <2>4. /\ changes' \in Nat /\ changes <= changes' /\ i <= changes' /\ changes < i
        /\ system = "usbdk" => changes' <= HashSize
        BY <1>1, <1>2, <1>3, <2>1, <2>3, <2>3a
  <2> QED BY <1>1, <2>1, <2>2, <2>3, <2>3a, <2>4, MatchBus
<1>5. CASE Unplug(n)
  <2>1. /\ changes' = changes /\ Disturb
        /\ UNCHANGED <<system, dev, hashed, job, found, unrefs, list>>
        BY <1>5 DEF Unplug
  <2>2. PICK i \in Nat : i = 0
        BY <1>5 DEF Unplug
  <2>2a. PICK b : b = [bus EXCEPT ![n] = i] /\ bus' = b
        BY <1>5, <2>2 DEF Unplug
  <2>3. /\ changes' \in Nat /\ changes <= changes' /\ i <= changes'
        /\ system = "usbdk" => changes' <= HashSize
        BY <1>1, <1>2, <2>1, <2>2, <2>2a
  <2> QED BY <1>1, <2>1, <2>2, <2>2a, <2>3, MatchBus
<1> QED BY <1>4, <1>5

LEMMA MatchStutters ==
    ASSUME EnumAssumption, EnumInv, EnumInv', MatchInv, UNCHANGED enumVars
    PROVE  MatchInv'
<1>1. UNCHANGED <<system, bus, changes, dev, hashed, job, found, unrefs, list, calm>>
      BY DEF enumVars, threadVars
<1>2. Steady /\ OldOnly /\ SamePaths
      BY <1>1, DevKept
<1>3. NoNewMake /\ SameSnaps
      BY <1>1 DEF NoNewMake, SameSnaps
<1>4. WholeInv'
  <2>1. calm' \in Calms /\ \A t \in Thread : calm'[t] \in {calm[t], <<>>}
        BY <1>1 DEF MatchInv, WholeInv, CalmInv, Calms
  <2> QED BY <1>1, <1>2, <1>3, <2>1, WholeKept DEF MatchInv
<1>5. EntryInv'
      BY <1>1, <1>2, EntryStays DEF MatchInv, EntryInv, Lists
<1>6. RoundInv'
  <2> SUFFICES ASSUME NEW t \in Thread, calm[t] # <<>>
               PROVE  (Lists(t)' => Round(t)') /\ (job[t].pc = "idle" => Ended(t)')
      BY <1>1 DEF RoundInv
  <2>1. (Lists(t) => Round(t)) /\ (job[t].pc = "idle" => Ended(t))
        BY DEF MatchInv, RoundInv
  <2>2. Lists(t)' => Round(t)'
        BY <1>1, <1>2, <2>1, RoundStays DEF Lists
  <2>3. PathInv /\ PathInv'
        BY <1>4 DEF MatchInv, WholeInv
  <2>4. job[t].pc = "idle" => Ended(t)'
        BY <1>1, <1>2, <2>1, <2>3, EndedKept
  <2> QED BY <2>2, <2>4
<1> QED BY <1>4, <1>5, <1>6 DEF MatchInv

LEMMA MatchStarts ==
    ASSUME EnumAssumption, EnumInit
    PROVE  MatchInv
<1>1. /\ \A s \in Slot : ~Live(s)
      /\ \A t \in Thread : job[t] = NoJob /\ calm[t] = <<>>
      /\ bus = [n \in Physical |-> IF n \in Hubs THEN 1 ELSE 0]
      /\ changes = 0 /\ hashed = <<>> /\ calm = [t \in Thread |-> <<>>]
      BY DEF EnumInit, Live
<1>2. NoJob.pc = "idle" /\ HashSize \in Nat
      BY DEF NoJob, EnumAssumption
<1>3. EntryInv /\ RoundInv
      BY <1>1, <1>2 DEF EntryInv, RoundInv, Lists
<1>4. UniqueInv /\ PathInv /\ BsdInv
      BY <1>1, <1>2 DEF UniqueInv, PathInv, BsdInv
<1>5. HashInv
  <2>1. Len(hashed) = 0 /\ 1..0 = {}
        BY <1>1
  <2> QED BY <1>1, <1>2, <2>1 DEF HashInv
<1>6. SightInv
  <2>1. \A n \in Physical \ Hubs : bus[n] = 0
        BY <1>1
  <2>2. {<<n, job[t].snap[n]>> : n \in Physical \ Hubs, t \in {u \in Thread : job[u].pc # "idle"}} = {}
        BY <1>1, <1>2
  <2>3. {<<dev[s].node, dev[s].id>> : s \in {r \in Slot : Live(r)}} = {}
        BY <1>1
  <2>4. \A x \in Sights : x[2] = 0
        BY <2>1, <2>2, <2>3 DEF Sights
  <2> QED BY <1>1, <2>4 DEF SightInv
<1>7. CalmInv
  <2>1. \A h \in Hubs : bus[h] = 1
        BY <1>1 DEF Hubs, Physical
  <2> QED BY <1>1, <2>1 DEF CalmInv
<1> QED BY <1>3, <1>4, <1>5, <1>6, <1>7 DEF MatchInv, WholeInv

LEMMA MatchSteps ==
    ASSUME EnumAssumption, EnumInv, TidyInv, Tidy, "twins" \notin Faults, RoomForAll, MatchInv,
           [EnumNext]_enumVars
    PROVE  MatchInv'
<1>1. "dying" \notin Faults /\ {"dying", "twins"} \cap Faults = {}
      BY DEF Tidy
<1>2. EnumInv'
      BY <1>1, EnumSteps
<1>3. CASE UNCHANGED enumVars
      BY <1>2, <1>3, MatchStutters
<1>4. ASSUME NEW n \in Physical, Plug(n) \/ Unplug(n) PROVE MatchInv'
      BY <1>2, <1>4, MatchPlug
<1>5. ASSUME NEW t \in Thread, Steps(t) PROVE MatchInv'
  <2>1. CASE DropRef(t) \/ Destroy(t) \/ FreeList(t)
        BY <1>2, <2>1, MatchRelease
  <2>2. CASE Begin(t) \/ NextPass(t) \/ Done(t) \/ GiveUp(t)
        BY <1>2, <2>2, MatchBegins, MatchNextPass, MatchDone, MatchGiveUp
  <2>3. CASE BelowHub(t) \/ BelowNothing(t) \/ RootHub(t) \/ Owner(t)
        BY <1>1, <1>2, <2>3, MatchBelowHub, MatchBelowNothing, MatchRootHub, MatchOwner
  <2>4. CASE Nothing(t) \/ Find(t) \/ Make(t) \/ MakeFails(t)
        BY <1>1, <1>2, <2>4, MatchNothing, MatchFind, MatchMake, MatchMakeFails
  <2>5. CASE SetupPath(t) \/ InitDevice(t) \/ InitDeviceFails(t)
        BY <1>2, <2>5, MatchSetupPath, MatchInit
  <2>6. CASE ReadDescriptors(t) \/ ReadFails(t) \/ AppendDevice(t)
        BY <1>2, <2>6, MatchReadDescriptors, MatchReadFails, MatchAppend
  <2>7. CASE \E n \in Node : Item(t, n)
        BY <1>2, <2>7, MatchItem
  <2> QED BY <1>5, <2>1, <2>2, <2>3, <2>4, <2>5, <2>6, <2>7 DEF Steps
<1> QED BY <1>3, <1>4, <1>5 DEF EnumNext

LEMMA MatchesTheBus ==
    ASSUME EnumInv, MatchInv
    PROVE  ListMatchesBus
<1> SUFFICES ASSUME NEW t \in Thread, job[t].pc = "idle", calm[t] # <<>>
             PROVE  /\ IsInjective(list[t])
                    /\ {<<dev[s].node, dev[s].id>> : s \in ToSet(list[t])}
                       = {<<n, calm[t][n]>> : n \in {m \in Listed : calm[t][m] # 0}}
                    /\ Win => \A s \in ToSet(list[t]) : Kind[dev[s].node] = "device" =>
                          dev[s].paths = Itfs(dev[s].node)
    BY DEF ListMatchesBus, Win, Itfs
<1>1. PICK q \in Seq(Slot) : q = list[t]
      BY DEF EnumInv, EnumTypes
<1>1a. PICK b : b = calm[t]
      OBVIOUS
<1>2. Ended(t)
      BY DEF MatchInv, RoundInv
<1>3. /\ \A k \in 1..Len(q) : /\ dev[q[k]].node \in Listed /\ dev[q[k]].id = b[dev[q[k]].node]
                              /\ dev[q[k]].id # 0
      /\ \A k, l \in 1..Len(q) : dev[q[k]].node = dev[q[l]].node => k = l
      /\ \A n \in Listed : b[n] # 0 => \E k \in 1..Len(q) : dev[q[k]].node = n
      BY <1>1, <1>1a, <1>2 DEF Ended, Complete
<1>4. DOMAIN q = 1..Len(q)
      OBVIOUS
<1>5. ToSet(q) = {q[k] : k \in 1..Len(q)}
      BY <1>4 DEF ToSet
<1>6. IsInjective(q)
      BY <1>3, <1>4 DEF IsInjective
<1>7. {<<dev[s].node, dev[s].id>> : s \in ToSet(q)} = {<<n, b[n]>> : n \in {m \in Listed : b[m] # 0}}
  <2>1. ASSUME NEW s \in ToSet(q)
        PROVE  \E n \in {m \in Listed : b[m] # 0} : <<dev[s].node, dev[s].id>> = <<n, b[n]>>
    <3>1. PICK k \in 1..Len(q) : s = q[k]
          BY <1>5
    <3> QED BY <1>3, <3>1
  <2>2. ASSUME NEW n \in Listed, b[n] # 0
        PROVE  \E s \in ToSet(q) : <<n, b[n]>> = <<dev[s].node, dev[s].id>>
    <3>1. PICK k \in 1..Len(q) : dev[q[k]].node = n
          BY <1>3, <2>2
    <3>2. q[k] \in ToSet(q) /\ dev[q[k]].id = b[n]
          BY <1>3, <1>5, <3>1
    <3> QED BY <3>1, <3>2
  <2> QED BY <2>1, <2>2
<1>8. ASSUME Win, NEW s \in ToSet(q), Kind[dev[s].node] = "device"
      PROVE  dev[s].paths = Itfs(dev[s].node)
  <2>1. PICK k \in 1..Len(q) : s = q[k]
        BY <1>5
  <2> QED BY <1>1, <1>1a, <1>2, <1>8, <2>1 DEF Ended
<1> QED BY <1>1, <1>1a, <1>6, <1>7, <1>8

\* ListMatchesBus: where nothing came, went or failed while a list was made, it has the
\* devices of the bus, each once and under its present identity, and the structures of
\* WinUSB have the paths of all interfaces, however the listings of several threads
\* interleave with each other and with the release of older lists. The place of an
\* identity in UsbDk's table is its session, so there must be room for all of them.
THEOREM ListsAreComplete ==
    ASSUME EnumAssumption, Tidy, "twins" \notin Faults, RoomForAll
    PROVE  EnumSpec => []ListMatchesBus
<1>1. "dying" \notin Faults
      BY DEF Tidy
<1>2. EnumInit => EnumInv /\ TidyInv /\ MatchInv
      BY EnumBegins, TidyBegins, MatchStarts
<1>3. (EnumInv /\ TidyInv /\ MatchInv) /\ [EnumNext]_enumVars
         => (EnumInv /\ TidyInv /\ MatchInv)'
      BY <1>1, EnumSteps, TidySteps, MatchSteps
<1>4. EnumInv /\ TidyInv /\ MatchInv => ListMatchesBus
      BY MatchesTheBus
<1> QED BY <1>2, <1>3, <1>4, PTL DEF EnumSpec
==============================================================================
