---------------------------- MODULE StreamSession ----------------------------
(***************************************************************************)
(* A client and a server of this library joined by a byte stream:          *)
(* transport.rs, what opens the two ends (connect and serve in their many  *)
(* forms), and the two main loops seen from the stream.                    *)
(*                                                                         *)
(* A stream is two pipes that hold little: a send waits until its message  *)
(* fits.  Both loops send inside the branch of their select!, and read     *)
(* nothing until the send is done.  Handlers send the server's requests,   *)
(* and the user's task the client's, beside the loops.  Senders of one end *)
(* queue for the mutex around its sink; with whole messages as the unit a  *)
(* send that waits for the mutex is one that waits for room.               *)
(*                                                                         *)
(* Bytes and frames are JsonRpcCodec's, what the loops do with a message   *)
(* and how they end ServerConnection's and ClientConnection's; the streams *)
(* here stay open.  A server has one such session per TCP connection, and  *)
(* they share nothing.  A message is numbered by the call it belongs to.   *)
(***************************************************************************)
EXTENDS Naturals, Sequences

CONSTANTS
    Capacity,   \* messages that fit in a pipe
    MaxCalls,   \* bound: calls the user makes
    MaxAsks,    \* bound: requests the server's handlers make
    MaxNotes    \* bound: end -> notifications its side hands to its loop

ASSUME SessionBounds ==
    /\ Capacity \in Nat \ {0} /\ MaxCalls \in Nat /\ MaxAsks \in Nat
    /\ MaxNotes \in [{"client", "server"} -> Nat]

VARIABLES
    kind,       \* "tcp", or a "stream": stdio, a child process, any pair
    client,     \* "down", or "up": connected, its loop runs
    server,     \* "down", "listening", or "up": a loop serves the stream
    pipe,       \* end -> what it has written and the other has not read
    writing,    \* end -> the message its loop is sending, or Nothing
    left,       \* the client's requests whose senders were dropped before the flush
    notes,      \* end -> notifications in the channel to its loop
    queue,      \* responses in the channel to the server's loop
    user,       \* the client's task: "idle", "sending", "waiting", "confirming"
    task,       \* call -> its handler on the server
    calls, asks, noted      \* made so far

endVars == <<kind, client, server>>
loopVars == <<pipe, writing, left, queue, notes>>
countVars == <<calls, asks, noted>>
sessionVars == <<endVars, loopVars, user, task, countVars>>

-----------------------------------------------------------------------------
Ends == {"client", "server"}
Running(end) == (IF end = "client" THEN client ELSE server) = "up"
Calls == 1..MaxCalls

Message(k, n) == [kind |-> k, call |-> n]
Note == Message("notification", 0)
Nothing == Message("nothing", 0)
Messages == [kind : {"request", "response", "ask", "answer"}, call : Calls] \cup {Note}

SessionTypeOK ==
    /\ kind \in {"tcp", "stream"}
    /\ client \in {"down", "up"} /\ server \in {"down", "listening", "up"}
    /\ pipe \in [Ends -> Seq(Messages)] /\ \A end \in Ends : Len(pipe[end]) <= Capacity
    /\ writing \in [Ends -> Messages \cup {Nothing}]
    /\ left \in Seq(Messages)
    /\ notes \in [Ends -> Nat] /\ queue \in Seq(Messages)
    /\ user \in {"idle", "sending", "waiting", "confirming"}
    /\ task \in [Calls -> {"none", "running", "asking", "waiting", "done"}]
    /\ calls \in 0..MaxCalls /\ asks \in 0..MaxAsks
    /\ noted \in [Ends -> Nat]
    /\ \A end \in Ends : notes[end] <= noted[end] /\ noted[end] <= MaxNotes[end]
    /\ client = "down" => calls = 0 /\ pipe["client"] = <<>>
    /\ server # "up" => \A c \in Calls : task[c] = "none"

SessionInit ==
    /\ kind \in {"tcp", "stream"}
    /\ client = "down" /\ server = "down"
    /\ pipe = [end \in Ends |-> <<>>]
    /\ writing = [end \in Ends |-> Nothing]
    /\ left = <<>>
    /\ notes = [end \in Ends |-> 0] /\ queue = <<>>
    /\ user = "idle" /\ task = [c \in Calls |-> "none"]
    /\ calls = 0 /\ asks = 0 /\ noted = [end \in Ends |-> 0]

-----------------------------------------------------------------------------
(* The two ends. *)

\* For serve_stdio and serve_stream the stream is there from the start; serve_tcp
\* listens, and spawns a server for each connection it accepts.
Serve ==
    /\ server = "down"
    /\ server' = IF kind = "tcp" THEN "listening" ELSE "up"
    /\ UNCHANGED <<kind, client, loopVars, user, task, countVars>>

Accept ==
    /\ server = "listening" /\ client = "up"
    /\ server' = "up"
    /\ UNCHANGED <<kind, client, loopVars, user, task, countVars>>

\* Transport::connect: over TCP somebody must listen; the other ends are given.
Reachable == kind = "tcp" => server = "listening"

\* What the client writes before the server is up waits in the pipe.
Connect ==
    /\ client = "down" /\ Reachable
    /\ client' = "up"
    /\ UNCHANGED <<kind, server, loopVars, user, task, countVars>>

-----------------------------------------------------------------------------
(* Sending. *)

Room(end) == Len(pipe[end]) < Capacity

\* Mutant: a send does not wait for room.
PutUnbounded(end, message) ==
    /\ end = "client" => left = <<>>
    /\ pipe' = [pipe EXCEPT ![end] = Append(@, message)]

\* SinkExt::send on the framed half: done once the message is in the pipe, and
\* after what earlier senders have left in the buffer.
Put(end, message) ==
    /\ Room(end)
    /\ end = "client" => left = <<>>
    /\ pipe' = [pipe EXCEPT ![end] = Append(@, message)]

Select(end) == writing[end] = Nothing

\* Mutant: the message is dropped when there is no room for it.
LoopWritesLossy(end) ==
    /\ ~Select(end)
    /\ writing' = [writing EXCEPT ![end] = Nothing]
    /\ pipe' = IF Room(end) THEN [pipe EXCEPT ![end] = Append(@, writing[end])] ELSE pipe
    /\ UNCHANGED <<endVars, left, queue, notes, user, task, countVars>>

\* A loop in the middle of a branch sends, and goes back to its select!.
LoopWrites(end) ==
    /\ ~Select(end)
    /\ Put(end, writing[end])
    /\ writing' = [writing EXCEPT ![end] = Nothing]
    /\ UNCHANGED <<endVars, left, queue, notes, user, task, countVars>>

\* The branch that forwards notifications.
ForwardNote(end) ==
    /\ Select(end) /\ notes[end] > 0
    /\ Running(end)
    /\ notes' = [notes EXCEPT ![end] = @ - 1]
    /\ writing' = [writing EXCEPT ![end] = Note]
    /\ UNCHANGED <<endVars, pipe, left, queue, user, task, countVars>>

\* ServerHandle, ServerCtx or ClientCtx: never waits for the stream.
Notify(end) ==
    /\ noted[end] < MaxNotes[end]
    /\ Running(end)
    /\ noted' = [noted EXCEPT ![end] = @ + 1]
    /\ notes' = [notes EXCEPT ![end] = @ + 1]
    /\ UNCHANGED <<endVars, pipe, writing, left, queue, user, task, calls, asks>>

-----------------------------------------------------------------------------
(* The client. *)

\* The first call is init's.  A call needs &mut self.
Call ==
    /\ client = "up" /\ user = "idle" /\ calls < MaxCalls
    /\ calls' = calls + 1
    /\ user' = "sending"
    /\ UNCHANGED <<endVars, loopVars, task, asks, noted>>

\* Mutant: the client's requests are handed to its loop.
SendRequestLooped ==
    /\ user = "sending" /\ Select("client")
    /\ writing' = [writing EXCEPT !["client"] = Message("request", calls)]
    /\ user' = "waiting"
    /\ UNCHANGED <<endVars, pipe, left, queue, notes, task, countVars>>

SendRequest ==
    /\ user = "sending"
    /\ Put("client", Message("request", calls))
    /\ user' = "waiting"
    /\ UNCHANGED <<endVars, writing, left, queue, notes, task, countVars>>

\* The last step of init: notifications/initialized.
Confirm ==
    /\ user = "confirming"
    /\ Put("client", Note)
    /\ user' = "idle"
    /\ UNCHANGED <<endVars, writing, left, queue, notes, task, countVars>>

\* The user's future is dropped, by a timeout say.  Its message may be in the
\* buffer already, where the next sender flushes it.
DropCall ==
    /\ user # "idle"
    /\ user' = "idle"
    /\ \/ left' = left
       \/ user = "sending" /\ left' = Append(left, Message("request", calls))
       \/ user = "confirming" /\ left' = Append(left, Note)
    /\ UNCHANGED <<endVars, pipe, writing, queue, notes, task, countVars>>

FlushLeft ==
    /\ left # <<>> /\ Room("client")
    /\ user \in {"sending", "confirming"} \/ ~Select("client")
    /\ pipe' = [pipe EXCEPT !["client"] = Append(@, Head(left))]
    /\ left' = Tail(left)
    /\ UNCHANGED <<endVars, writing, queue, notes, user, task, countVars>>

\* Mutant: the loop goes on reading while it sends.
ClientReadsOn ==
    /\ client = "up" /\ pipe["server"] # <<>>
    /\ pipe' = [pipe EXCEPT !["server"] = Tail(@)]
    /\ LET message == Head(pipe["server"]) IN
        /\ user' = IF message = Message("response", calls) /\ user = "waiting"
                   THEN IF calls = 1 THEN "confirming" ELSE "idle" ELSE user
        /\ writing' = IF message.kind = "ask"
                      THEN [writing EXCEPT !["client"] = Message("answer", message.call)]
                      ELSE writing
    /\ UNCHANGED <<endVars, left, queue, notes, task, countVars>>

\* A response wakes its call; a request is answered before anything else is read.
ClientReads ==
    /\ client = "up" /\ Select("client") /\ pipe["server"] # <<>>
    /\ pipe' = [pipe EXCEPT !["server"] = Tail(@)]
    /\ LET message == Head(pipe["server"]) IN
        /\ user' = IF message = Message("response", calls) /\ user = "waiting"
                   THEN IF calls = 1 THEN "confirming" ELSE "idle" ELSE user
        /\ writing' = IF message.kind = "ask"
                      THEN [writing EXCEPT !["client"] = Message("answer", message.call)]
                      ELSE writing
    /\ UNCHANGED <<endVars, left, queue, notes, task, countVars>>

-----------------------------------------------------------------------------
(* The server. *)

\* A request gets a task of its own, an answer wakes the task that asked.
ServerReads ==
    /\ server = "up" /\ Select("server") /\ pipe["client"] # <<>>
    /\ pipe' = [pipe EXCEPT !["client"] = Tail(@)]
    /\ LET message == Head(pipe["client"]) IN
        task' = IF message = Note THEN task
                ELSE [task EXCEPT ![message.call] = "running"]
    /\ UNCHANGED <<endVars, writing, left, queue, notes, user, countVars>>

ServerResponds ==
    /\ server = "up" /\ Select("server") /\ queue # <<>>
    /\ queue' = Tail(queue)
    /\ writing' = [writing EXCEPT !["server"] = Head(queue)]
    /\ UNCHANGED <<endVars, pipe, left, notes, user, task, countVars>>

\* A handler makes a request of the client, or is done.
Ask(c) ==
    /\ task[c] = "running" /\ asks < MaxAsks
    /\ asks' = asks + 1
    /\ task' = [task EXCEPT ![c] = "asking"]
    /\ UNCHANGED <<endVars, loopVars, user, calls, noted>>

SendAsk(c) ==
    /\ task[c] = "asking"
    /\ Put("server", Message("ask", c))
    /\ task' = [task EXCEPT ![c] = "waiting"]
    /\ UNCHANGED <<endVars, writing, left, queue, notes, user, countVars>>

Respond(c) ==
    /\ task[c] = "running"
    /\ queue' = Append(queue, Message("response", c))
    /\ task' = [task EXCEPT ![c] = "done"]
    /\ UNCHANGED <<endVars, pipe, writing, left, notes, user, countVars>>

-----------------------------------------------------------------------------
EndStep == Serve \/ Accept \/ Connect
UserStep == Call \/ SendRequest \/ Confirm \/ DropCall \/ FlushLeft
LoopStep ==
    \/ ClientReads \/ ServerReads \/ ServerResponds
    \/ \E end \in Ends : LoopWrites(end) \/ ForwardNote(end)
TaskStep(c) == Ask(c) \/ SendAsk(c) \/ Respond(c)

SessionNext ==
    \/ EndStep \/ UserStep \/ LoopStep
    \/ \E end \in Ends : Notify(end)
    \/ \E c \in Calls : TaskStep(c)

SessionSpec == SessionInit /\ [][SessionNext]_sessionVars

\* Whatever can run is run: select! picks among its branches at random, the sink's
\* mutex is fair, a listener accepts, and handlers end.
FairSessionSpec ==
    /\ SessionSpec
    /\ WF_sessionVars(Accept)
    /\ WF_sessionVars(ClientReads) /\ WF_sessionVars(ServerReads)
    /\ WF_sessionVars(ServerResponds)
    /\ WF_sessionVars(SendRequest) /\ WF_sessionVars(Confirm) /\ WF_sessionVars(FlushLeft)
    /\ \A end \in Ends :
        WF_sessionVars(LoopWrites(end)) /\ WF_sessionVars(ForwardNote(end))
    /\ \A c \in Calls : WF_sessionVars(SendAsk(c)) /\ WF_sessionVars(Respond(c))

-----------------------------------------------------------------------------
(* Properties. *)

\* Both loops are sending, and neither message fits.
Clogged == \A end \in Ends : ~Select(end) /\ ~Room(end)

\* A call returns, and a handler's request is answered, however full the pipes
\* are, as long as the session is not clogged.
ServedUnlessClogged ==
    /\ (server = "up" /\ user # "idle") ~> (user = "idle" \/ Clogged)
    /\ \A c \in Calls :
        (task[c] \in {"asking", "waiting"}) ~> (task[c] \in {"running", "done"} \/ Clogged)

\* A clogged session stays clogged: each loop waits for the other to read, and
\* nobody else reads.
CloggedForGood == [][Clogged => Clogged']_sessionVars

\* It takes a message of the client's loop, an answer or a notification: while
\* the server asks nothing and the client notifies nothing, no amount of calls,
\* responses and notifications of the server's can clog a session.
QuietNeverClogs == Clogged => asks > 0 \/ noted["client"] > 0

-----------------------------------------------------------------------------
(* The inductive invariant behind QuietNeverClogs. *)

\* Nothing is sent before connecting, and a request belongs to a call.
Started ==
    /\ client = "down" => user = "idle" /\ left = <<>> /\ writing["client"] = Nothing
    /\ user = "sending" => calls \in Calls

\* The client's loop sends nothing unprompted, and nobody prompts it.
Unprompted ==
    /\ noted["client"] = 0 => notes["client"] = 0
    /\ asks = 0 =>
        /\ \A k \in DOMAIN pipe["server"] : pipe["server"][k].kind # "ask"
        /\ writing["server"].kind # "ask"
        /\ \A c \in Calls : task[c] # "asking"
    /\ \A k \in DOMAIN queue : queue[k].kind # "ask"
    /\ ~Select("client") => asks > 0 \/ noted["client"] > 0

SessionInv == SessionTypeOK /\ Started /\ Unprompted
=============================================================================
