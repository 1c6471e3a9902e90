-------------------------- MODULE ServerConnection --------------------------
(***************************************************************************)
(* server.rs: one connection of an MCP server.                             *)
(*                                                                         *)
(* A main loop selects, in no fixed order, between the stop token, the     *)
(* messages read from the client, the notifications to forward (a          *)
(* broadcast channel that overwrites its oldest entries) and the responses *)
(* that request handlers have queued (unbounded).  Each request runs in a  *)
(* task of its own; on_connect and notification callbacks run inside the   *)
(* loop, which reads nothing meanwhile.  A handler or callback may ask the *)
(* client something (ServerCtx: ClientAPI) and wait for the reply, which   *)
(* only the main loop can hand over; RequestHandler shows that replies go  *)
(* to the right asker, so here a pending ask is just a name in a set.      *)
(*                                                                         *)
(* The sink's mutex makes each send one step; a send waits for room on the *)
(* wire, which the client makes by reading.  The client is external.       *)
(***************************************************************************)
EXTENDS Naturals, Sequences, FiniteSets

CONSTANTS
    Requests,     \* the client's requests, one id each
    MaxNotes,     \* bound: notifications issued by the server's side
    MaxClientNotes, \* bound: notifications sent by the client
    Capacity,     \* the broadcast channel's (100 in the code)
    WireSize,     \* bound: messages the connection buffers towards the client
    InlineAsks,   \* TRUE: callbacks run by the loop may ask the client, too
    Declared,     \* notification kinds the server's capabilities declare
    Kinds,        \* notification kinds there are
    Hook          \* the asker that is a callback run by the loop

ASSUME ServerBounds ==
    /\ MaxNotes \in Nat /\ MaxClientNotes \in Nat
    /\ Capacity \in Nat \ {0} /\ WireSize \in Nat \ {0}
    /\ InlineAsks \in BOOLEAN /\ Declared \subseteq Kinds
    /\ Hook \notin Requests

VARIABLES
    phase,      \* where the main loop is
    connected,  \* on_connect has succeeded
    factory,    \* a connection factory was configured
    message,    \* the message the loop is handling, or sending
    handle,     \* the ServerHandle: "held", "stopping" (cancelled) or "gone"
    inbound,    \* messages from the client, not yet read
    reading,    \* the read half: "open", or "ended" by EOF or an error
    writing,    \* the write half: "open" or "broken"
    wire,       \* messages sent and not yet read by the client
    task,       \* request -> the state of its handler's task
    pending,    \* askers whose ask has not been answered
    responses,  \* the queue of responses to send
    issued,     \* number of notifications issued
    ring,       \* the loop's view of the broadcast channel
    lagged,     \* entries were overwritten since the loop last received
    noted,      \* the notifications put on the wire: <<number, kind>>
    answers,    \* request -> number of responses put on the wire
    hooks       \* number of on_connect and on_shutdown calls

loopVars == <<phase, connected, factory, message, hooks>>
linkVars == <<inbound, reading, writing, wire>>
taskVars == <<task, pending, responses>>
noteVars == <<issued, ring, lagged, noted>>
vars == <<loopVars, handle, linkVars, taskVars, noteVars, answers>>

-----------------------------------------------------------------------------
Askers == Requests \union {Hook}
Notes == (1..MaxNotes) \X Kinds
Request(r) == [type |-> "request", of |-> r]
Response(r) == [type |-> "response", of |-> r]
Reply(a) == [type |-> "reply", of |-> a]
Ask(a) == [type |-> "ask", of |-> a]
Note(n) == [type |-> "note", number |-> n[1], kind |-> n[2]]
ClientNote == [type |-> "note"]
NoMessage == [type |-> "none"]

InboundMessages ==
    {Request(r) : r \in Requests} \union {Reply(a) : a \in Askers} \union {ClientNote}
OutboundMessages ==
    {Response(r) : r \in Requests} \union {Ask(a) : a \in Askers}
    \union {Note(n) : n \in Notes}

Phases == {"select", "on_connect", "on_notification", "asking", "waiting",
           "sending", "on_shutdown", "stopped", "panicked"}
\* The loop's task has ended.
Ended == phase \in {"stopped", "panicked"}
\* Callbacks run by the loop: while in one, the loop selects nothing.
InHook == {"on_connect", "on_notification", "asking", "waiting"}
TaskStates == {"unread", "running", "asking", "waiting", "returned", "panicked"}

TypeOK ==
    /\ phase \in Phases
    /\ connected \in BOOLEAN /\ factory \in BOOLEAN
    /\ message \in InboundMessages \union OutboundMessages \union {NoMessage}
    /\ handle \in {"held", "stopping", "gone"}
    /\ inbound \in Seq(InboundMessages)
    /\ reading \in {"open", "ended"}
    /\ writing \in {"open", "broken"}
    /\ wire \in Seq(OutboundMessages) /\ Len(wire) <= WireSize
    /\ task \in [Requests -> TaskStates]
    /\ pending \subseteq Askers
    /\ responses \in Seq({Response(r) : r \in Requests})
    /\ issued \in 0..MaxNotes
    /\ ring \in Seq(Notes) /\ Len(ring) <= Capacity
    /\ lagged \in BOOLEAN
    /\ noted \in Seq(Notes)
    /\ answers \in [Requests -> Nat]
    /\ hooks \in [{"on_connect", "on_shutdown"} -> Nat]

Init ==
    /\ phase = "select"
    /\ connected = FALSE
    /\ factory \in BOOLEAN
    /\ message = NoMessage
    /\ handle = "held"
    /\ inbound = <<>>
    /\ reading = "open"
    /\ writing = "open"
    /\ wire = <<>>
    /\ task = [r \in Requests |-> "unread"]
    /\ pending = {}
    /\ responses = <<>>
    /\ issued = 0
    /\ ring = <<>>
    /\ lagged = FALSE
    /\ noted = <<>>
    /\ answers = [r \in Requests |-> 0]
    /\ hooks = [h \in {"on_connect", "on_shutdown"} |-> 0]

-----------------------------------------------------------------------------
(* Sending: a send takes one step, and there is room or it waits. *)

CanSend == writing = "open" /\ Len(wire) < WireSize

Put(m) == CanSend /\ wire' = Append(wire, m)

\* Leaving the loop; on_shutdown follows, also when on_connect never ran.
Break ==
    /\ phase' = IF factory THEN "on_shutdown" ELSE "stopped"
    /\ message' = NoMessage

-----------------------------------------------------------------------------
(* The main loop. *)

\* Mutant: the token is only polled until the client has connected.
CancelledEarly ==
    /\ phase = "select"
    /\ handle = "stopping" /\ ~connected
    /\ Break
    /\ UNCHANGED <<connected, factory, hooks, handle, linkVars, taskVars,
                   noteVars, answers>>

Cancelled ==
    /\ phase = "select"
    /\ handle = "stopping"
    /\ Break
    /\ UNCHANGED <<connected, factory, hooks, handle, linkVars, taskVars,
                   noteVars, answers>>

\* Requests are spawned, notifications are handled here, replies wake an asker.
Dispatch(m) ==
    \/ /\ m.type = "request"
       /\ task' = [task EXCEPT ![m.of] = "running"]
       /\ phase' = "select"
       /\ message' = NoMessage
       /\ UNCHANGED pending
    \/ /\ m.type = "note"
       /\ phase' = "on_notification"
       /\ message' = m
       /\ UNCHANGED <<task, pending>>
    \/ /\ m.type = "reply"
       /\ pending' = pending \ {m.of}
       /\ phase' = "select"
       /\ message' = NoMessage
       /\ UNCHANGED task

ReadMessage ==
    /\ phase = "select"
    /\ inbound # <<>>
    /\ inbound' = Tail(inbound)
    /\ IF ~factory
       THEN Break /\ UNCHANGED <<task, pending, hooks>>
       ELSE IF connected
       THEN Dispatch(Head(inbound)) /\ UNCHANGED hooks
       ELSE /\ phase' = "on_connect"
            /\ message' = Head(inbound)
            /\ hooks' = [hooks EXCEPT !["on_connect"] = @ + 1]
            /\ UNCHANGED <<task, pending>>
    /\ UNCHANGED <<connected, factory, handle, reading, writing, wire,
                   responses, noteVars, answers>>

\* EOF or an unreadable frame, seen once what came before it has been read.
ReadEnds ==
    /\ phase = "select"
    /\ inbound = <<>>
    /\ reading = "ended"
    /\ Break
    /\ UNCHANGED <<connected, factory, hooks, handle, linkVars, taskVars,
                   noteVars, answers>>

\* A callback asks the client: the loop itself sends and then waits.
HookAsks ==
    /\ InlineAsks
    /\ phase \in {"on_connect", "on_notification"}
    /\ pending' = pending \union {Hook}
    /\ phase' = "asking"
    /\ UNCHANGED <<connected, factory, message, hooks, handle, linkVars, task,
                   responses, noteVars, answers>>

HookSends ==
    /\ phase = "asking"
    /\ Put(Ask(Hook))
    /\ phase' = "waiting"
    /\ UNCHANGED <<connected, factory, message, hooks, handle, inbound, reading,
                   writing, taskVars, noteVars, answers>>

\* The callback's own code is done: it asked nothing, its ask failed to be sent,
\* or was answered.
HookDone ==
    \/ phase \in {"on_connect", "on_notification"}
    \/ phase = "asking" /\ writing = "broken"
    \/ phase = "waiting" /\ Hook \notin pending

\* Mutant: the loop does not remember that on_connect ran.
OnConnectForgotten ==
    /\ HookDone /\ ~connected
    /\ Dispatch(message)
    /\ UNCHANGED <<connected, factory, hooks, handle, linkVars, responses,
                   noteVars, answers>>

OnConnectOk ==
    /\ HookDone /\ ~connected
    /\ connected' = TRUE
    /\ Dispatch(message)
    /\ UNCHANGED <<factory, hooks, handle, linkVars, responses, noteVars, answers>>

OnConnectFails ==
    /\ HookDone /\ ~connected
    /\ Break
    /\ UNCHANGED <<connected, factory, hooks, handle, linkVars, taskVars,
                   noteVars, answers>>

\* Also when it fails: the error is only logged.
OnNotificationReturns ==
    /\ HookDone /\ connected
    /\ phase' = "select"
    /\ message' = NoMessage
    /\ UNCHANGED <<connected, factory, hooks, handle, linkVars, taskVars,
                   noteVars, answers>>

\* A panic of a callback that the loop runs ends the loop's task there and then:
\* on_shutdown is not called, and the receivers are dropped.
HookPanics ==
    /\ HookDone
    /\ phase' = "panicked"
    /\ message' = NoMessage
    /\ responses' = <<>>
    /\ ring' = <<>>
    /\ UNCHANGED <<connected, factory, hooks, handle, linkVars, task, pending,
                   issued, lagged, noted, answers>>

\* recv after a lag: the error is logged as "Notification channel closed".
TakeLagged ==
    /\ phase = "select"
    /\ lagged
    /\ lagged' = FALSE
    /\ UNCHANGED <<loopVars, handle, linkVars, taskVars, issued, ring, noted,
                   answers>>

\* Mutant: notifications are not forwarded before the client has connected.
TakeNotificationEarly ==
    /\ phase = "select"
    /\ ~lagged /\ ring # <<>>
    /\ message' = IF connected THEN Note(Head(ring)) ELSE NoMessage
    /\ ring' = Tail(ring)
    /\ phase' = IF connected THEN "sending" ELSE "select"
    /\ UNCHANGED <<connected, factory, hooks, handle, linkVars, taskVars, issued,
                   lagged, noted, answers>>

\* Mutant: the notification is looked at and stays in the channel.
TakeNotificationPeeked ==
    /\ phase = "select"
    /\ ~lagged /\ ring # <<>>
    /\ message' = Note(Head(ring))
    /\ phase' = "sending"
    /\ UNCHANGED <<connected, factory, hooks, handle, linkVars, taskVars, noteVars, answers>>

TakeNotification ==
    /\ phase = "select"
    /\ ~lagged /\ ring # <<>>
    /\ message' = Note(Head(ring))
    /\ ring' = Tail(ring)
    /\ phase' = "sending"
    /\ UNCHANGED <<connected, factory, hooks, handle, linkVars, taskVars, issued,
                   lagged, noted, answers>>

\* Mutant: the response is looked at and stays in the queue.
TakeResponsePeeked ==
    /\ phase = "select"
    /\ responses # <<>>
    /\ message' = Head(responses)
    /\ phase' = "sending"
    /\ UNCHANGED <<connected, factory, hooks, handle, linkVars, taskVars,
                   noteVars, answers>>

\* Mutant: the response is taken and not sent.
TakeResponseForgotten ==
    /\ phase = "select"
    /\ responses # <<>>
    /\ responses' = Tail(responses)
    /\ UNCHANGED <<loopVars, handle, linkVars, task, pending, noteVars, answers>>

TakeResponse ==
    /\ phase = "select"
    /\ responses # <<>>
    /\ message' = Head(responses)
    /\ responses' = Tail(responses)
    /\ phase' = "sending"
    /\ UNCHANGED <<connected, factory, hooks, handle, linkVars, task, pending,
                   noteVars, answers>>

\* Mutant: the message is written without waiting for room.
SendMessageUnready ==
    /\ phase = "sending"
    /\ writing = "open" /\ wire' = Append(wire, message)
    /\ phase' = "select"
    /\ message' = NoMessage
    /\ IF message.type = "response"
       THEN /\ answers' = [answers EXCEPT ![message.of] = @ + 1]
            /\ UNCHANGED noted
       ELSE /\ noted' = Append(noted, <<message.number, message.kind>>)
            /\ UNCHANGED answers
    /\ UNCHANGED <<connected, factory, hooks, handle, inbound, reading, writing,
                   taskVars, issued, ring, lagged>>

SendMessage ==
    /\ phase = "sending"
    /\ Put(message)
    /\ phase' = "select"
    /\ message' = NoMessage
    /\ IF message.type = "response"
       THEN /\ answers' = [answers EXCEPT ![message.of] = @ + 1]
            /\ UNCHANGED noted
       ELSE /\ noted' = Append(noted, <<message.number, message.kind>>)
            /\ UNCHANGED answers
    /\ UNCHANGED <<connected, factory, hooks, handle, inbound, reading, writing,
                   taskVars, issued, ring, lagged>>

SendBreaks ==
    /\ phase = "sending"
    /\ writing = "broken"
    /\ Break
    /\ UNCHANGED <<connected, factory, hooks, handle, linkVars, taskVars,
                   noteVars, answers>>

\* The receivers are dropped with the loop: what is queued is lost.
OnShutdown ==
    /\ phase = "on_shutdown"
    /\ phase' = "stopped"
    /\ hooks' = [hooks EXCEPT !["on_shutdown"] = @ + 1]
    /\ responses' = <<>>
    /\ ring' = <<>>
    /\ UNCHANGED <<connected, factory, message, handle, linkVars, task, pending,
                   issued, lagged, noted, answers>>

-----------------------------------------------------------------------------
(* Request handlers, one task each, and the server's handle. *)

\* A handler asks the client; its clone of the context shares the table.
HandlerAsks(r) ==
    /\ task[r] = "running"
    /\ pending' = pending \union {r}
    /\ task' = [task EXCEPT ![r] = "asking"]
    /\ UNCHANGED <<loopVars, handle, linkVars, responses, noteVars, answers>>

HandlerSends(r) ==
    /\ task[r] = "asking"
    /\ Put(Ask(r))
    /\ task' = [task EXCEPT ![r] = "waiting"]
    /\ UNCHANGED <<loopVars, handle, inbound, reading, writing, pending,
                   responses, noteVars, answers>>

HandlerDone(r) ==
    \/ task[r] = "running"
    \/ task[r] = "asking" /\ writing = "broken"
    \/ task[r] = "waiting" /\ r \notin pending

\* The result, or an error made of it, is queued; after the loop it is lost.
HandlerReturns(r) ==
    /\ HandlerDone(r)
    /\ task' = [task EXCEPT ![r] = "returned"]
    /\ responses' = IF Ended THEN responses
                    ELSE Append(responses, Response(r))
    /\ UNCHANGED <<loopVars, handle, linkVars, pending, noteVars, answers>>

\* A panic ends the task; nothing is queued.
HandlerPanics(r) ==
    /\ HandlerDone(r)
    /\ task' = [task EXCEPT ![r] = "panicked"]
    /\ UNCHANGED <<loopVars, handle, linkVars, pending, responses, noteVars,
                   answers>>

\* broadcast::Sender::send: a full ring drops its oldest entry.
Issue(kind) ==
    /\ issued < MaxNotes
    /\ ~Ended
    /\ issued' = issued + 1
    /\ LET kept == Append(ring, <<issued + 1, kind>>)
       IN IF Len(ring) = Capacity
          THEN ring' = Tail(kept) /\ lagged' = TRUE
          ELSE ring' = kept /\ UNCHANGED lagged
    /\ UNCHANGED noted

\* ServerCtx::notify, from a handler.
HandlerNotifies(r, kind) ==
    /\ task[r] = "running"
    /\ Issue(kind)
    /\ UNCHANGED <<loopVars, handle, linkVars, taskVars, answers>>

\* ServerHandle::send_server_notification skips kinds that are not declared.
HandleNotifies(kind) ==
    /\ handle = "held"
    /\ kind \in Declared
    /\ Issue(kind)
    /\ UNCHANGED <<loopVars, handle, linkVars, taskVars, answers>>

Stop ==
    /\ handle = "held"
    /\ handle' = "stopping"
    /\ UNCHANGED <<loopVars, linkVars, taskVars, noteVars, answers>>

\* Dropping the handle detaches the task and cancels nothing.
DropHandle ==
    /\ handle = "held"
    /\ handle' = "gone"
    /\ UNCHANGED <<loopVars, linkVars, taskVars, noteVars, answers>>

-----------------------------------------------------------------------------
(* The client and the connection. *)

Arrives(m) ==
    /\ reading = "open"
    /\ inbound' = Append(inbound, m)
    /\ UNCHANGED <<loopVars, handle, reading, writing, taskVars, noteVars, answers>>

ClientRequests(r) ==
    /\ task[r] = "unread"
    /\ ~ \E k \in 1..Len(inbound) : inbound[k] = Request(r)
    /\ message # Request(r)
    /\ Arrives(Request(r))
    /\ UNCHANGED wire

ClientNotifies ==
    /\ Cardinality({k \in 1..Len(inbound) : inbound[k] = ClientNote}) < MaxClientNotes
    /\ Arrives(ClientNote)
    /\ UNCHANGED wire

\* The client reads a message, and answers it if it is an ask.
ClientReads ==
    /\ wire # <<>>
    /\ wire' = Tail(wire)
    /\ IF Head(wire).type = "ask" /\ reading = "open"
       THEN Arrives(Reply(Head(wire).of))
       ELSE UNCHANGED <<loopVars, handle, inbound, reading, writing, taskVars,
                        noteVars, answers>>

ReadHalfEnds ==
    /\ reading = "open"
    /\ reading' = "ended"
    /\ UNCHANGED <<loopVars, handle, inbound, writing, wire, taskVars, noteVars,
                   answers>>

WriteHalfBreaks ==
    /\ writing = "open"
    /\ writing' = "broken"
    /\ UNCHANGED <<loopVars, handle, inbound, reading, wire, taskVars, noteVars,
                   answers>>

-----------------------------------------------------------------------------
LoopStep ==
    \/ Cancelled \/ ReadMessage \/ ReadEnds
    \/ HookAsks \/ HookSends \/ OnConnectOk \/ OnConnectFails
    \/ OnNotificationReturns \/ HookPanics
    \/ TakeLagged \/ TakeNotification \/ TakeResponse
    \/ SendMessage \/ SendBreaks \/ OnShutdown

HandlerStep(r) ==
    \/ HandlerAsks(r) \/ HandlerSends(r) \/ HandlerReturns(r) \/ HandlerPanics(r)
    \/ \E kind \in Kinds : HandlerNotifies(r, kind)

HandleStep == Stop \/ DropHandle \/ \E kind \in Kinds : HandleNotifies(kind)

ClientStep ==
    \/ \E r \in Requests : ClientRequests(r)
    \/ ClientNotifies \/ ClientReads \/ ReadHalfEnds \/ WriteHalfBreaks

Next ==
    \/ LoopStep
    \/ \E r \in Requests : HandlerStep(r)
    \/ HandleStep
    \/ ClientStep

Spec == Init /\ [][Next]_vars

-----------------------------------------------------------------------------
(* Fairness: select! picks at random among the branches that are ready, so a *)
(* branch that is ready again and again is taken; tasks are polled when they *)
(* can proceed and the sink's mutex is handed over in order; callbacks and   *)
(* handlers return unless they wait; the client reads what it is sent.       *)
LoopFairness ==
    /\ SF_vars(Cancelled) /\ SF_vars(ReadMessage) /\ SF_vars(ReadEnds)
    /\ SF_vars(TakeLagged) /\ SF_vars(TakeNotification) /\ SF_vars(TakeResponse)
    /\ WF_vars(HookSends) /\ WF_vars(OnConnectOk \/ OnConnectFails)
    /\ WF_vars(OnNotificationReturns)
    /\ SF_vars(SendMessage) /\ WF_vars(SendBreaks) /\ WF_vars(OnShutdown)

HandlerFairness ==
    \A r \in Requests :
        SF_vars(HandlerSends(r)) /\ WF_vars(HandlerReturns(r) \/ HandlerPanics(r))

FairSpec == Spec /\ LoopFairness /\ HandlerFairness /\ WF_vars(ClientReads)

-----------------------------------------------------------------------------
(* Properties. *)

Over == phase = "on_shutdown" \/ Ended

Queued(r) == \E k \in 1..Len(responses) : responses[k] = Response(r)
Sending(r) == message = Response(r)

\* A response is where its handler left it, in the loop's hands, or sent, in one
\* of these places and once, from the moment the handler returned; only the end
\* of the loop may lose it, and then it was not sent.
ResponsesConserved ==
    /\ \A i, j \in 1..Len(responses) : responses[i] = responses[j] => i = j
    /\ \A r \in Requests :
        /\ answers[r] <= 1
        /\ answers[r] = 1 => ~Queued(r) /\ ~Sending(r)
        /\ Sending(r) => ~Queued(r)
        /\ Queued(r) \/ answers[r] = 1 => task[r] = "returned"
        /\ task[r] = "returned" => Queued(r) \/ Sending(r) \/ answers[r] = 1 \/ Over

\* on_connect runs once and succeeds before anything of the client's reaches
\* the server's code, also when handlers are spawned; on_shutdown runs once, when
\* the loop is over, and never when a panic of a callback ended it.
CallbackOrder ==
    /\ \A r \in Requests : task[r] # "unread" => connected
    /\ hooks["on_connect"] <= 1
    /\ connected \/ phase \in InHook => hooks["on_connect"] = 1
    /\ hooks["on_shutdown"] = (IF phase = "stopped" /\ factory THEN 1 ELSE 0)

\* However the broadcast channel overwrites, the client sees notifications in
\* the order they were issued and none twice.
NotesInOrder ==
    \A i, j \in 1..Len(noted) : i < j => noted[i][1] < noted[j][1]

-----------------------------------------------------------------------------
(* The inductive invariant: what the three above rest on. *)

\* What the loop holds, by where it is; once connected, only notifications run a
\* callback.
Holding ==
    /\ phase \notin InHook \union {"sending"} => message = NoMessage
    /\ phase \in InHook => message \in InboundMessages
    /\ phase \in InHook /\ connected => message = ClientNote
    /\ phase = "sending" =>
        message \in {Response(r) : r \in Requests} \union {Note(n) : n \in Notes}

\* A request is under way once, and only until its handler is spawned.
Coming(r) == \E k \in 1..Len(inbound) : inbound[k] = Request(r)
AskedOnce ==
    \A r \in Requests :
        /\ Coming(r) \/ message = Request(r) => task[r] = "unread"
        /\ message = Request(r) => ~Coming(r)
        /\ \A i, j \in 1..Len(inbound) :
            inbound[i] = Request(r) /\ inbound[j] = Request(r) => i = j

\* A response that the loop sends is of a handler that returned.
SentReturned == \A r \in Requests : Sending(r) => task[r] = "returned"

\* The loop's callbacks follow each other.
InTurn ==
    /\ ~connected /\ phase \in {"select", "sending"} => hooks["on_connect"] = 0
    /\ phase = "on_shutdown" => factory

\* Notifications sent, in the loop's hands, and in the channel were issued in this
\* order, each once.
Ascending(s) == \A i, j \in 1..Len(s) : i < j => s[i][1] < s[j][1]
NotesQueued ==
    /\ Ascending(ring)
    /\ \A k \in 1..Len(ring) : ring[k][1] <= issued
    /\ \A k \in 1..Len(noted) : noted[k][1] <= issued
    /\ \A i \in 1..Len(noted), j \in 1..Len(ring) : noted[i][1] < ring[j][1]
    /\ phase = "sending" /\ message.type = "note" =>
        /\ message.number <= issued
        /\ \A k \in 1..Len(noted) : noted[k][1] < message.number
        /\ \A k \in 1..Len(ring) : message.number < ring[k][1]

\* An asker that waits for the client has its ask or the reply under way, unless
\* no reply can come any more or nobody is there to read it: none is lost between
\* the table, the wire and the loop.
Waiting(a) == a \in pending /\ IF a = Hook THEN phase = "waiting" ELSE task[a] = "waiting"
Underway(a) ==
    \/ \E k \in 1..Len(wire) : wire[k] = Ask(a)
    \/ \E k \in 1..Len(inbound) : inbound[k] = Reply(a)
    \/ message = Reply(a)
NoAskLost == \A a \in Askers : Waiting(a) => Underway(a) \/ reading = "ended" \/ Over

ServerInv ==
    /\ TypeOK /\ Holding /\ AskedOnce /\ SentReturned /\ InTurn
    /\ NotesQueued /\ NoAskLost
    /\ ResponsesConserved /\ CallbackOrder /\ NotesInOrder

-----------------------------------------------------------------------------
(* Liveness. *)

\* A request that was read is answered, unless its handler panics or the
\* connection ends: neither the asks on the wire nor notifications starve it.
\* And what a handler asks is answered.
RequestsServed ==
    \A r \in Requests :
        /\ (task[r] # "unread") ~> (answers[r] = 1 \/ task[r] = "panicked" \/ Over)
        /\ (task[r] = "waiting") ~> (task[r] # "waiting" \/ reading = "ended" \/ Over)

\* Every notification reaches the client unless overwritten or the loop ends.
NotesDelivered ==
    \A n \in 1..MaxNotes :
        (\E kind \in Kinds : \E k \in 1..Len(ring) : ring[k] = <<n, kind>>)
        ~> (\/ \E k \in 1..Len(noted) : noted[k][1] = n
            \/ lagged \/ Over)

\* ServerHandle::stop: cancelling the token ends the loop's task, so the wait for
\* it returns.
StopStops == (handle = "stopping") ~> Ended
=============================================================================
