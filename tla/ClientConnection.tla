-------------------------- MODULE ClientConnection --------------------------
(***************************************************************************)
(* client.rs: an MCP client, its connections one after the other, and the  *)
(* background task (the loop) that each successful connect leaves behind.  *)
(*                                                                         *)
(* All methods of Client take &mut self, so its owner does one thing at a  *)
(* time.  connect stores the new transport, awaits on_connect and then     *)
(* spawns a loop; the loops of earlier connections go on, sharing the      *)
(* table of pending requests.  A loop awaits the callbacks for the         *)
(* server's requests and notifications itself.                             *)
(*                                                                         *)
(* A callback, or a task it spawns, may send a request through its         *)
(* ClientCtx, which has a request handler of its own (ids "client-req-n"); *)
(* the loop gives every reply to the Client's handler ("req-n").           *)
(*                                                                         *)
(* The server is external.  How the sink is shared and how a full pipe     *)
(* stalls is left to RequestHandler and StreamSession: a send is one step. *)
(***************************************************************************)
EXTENDS Naturals, Sequences, FiniteSets

CONSTANTS
    MaxConns,       \* bound: connections made
    MaxCalls,       \* bound: requests made by the client's owner
    ServerRequests, \* ids of requests a server makes; every connection reuses them
    MaxInbox,       \* bound: messages buffered towards the client
    CtxUses,        \* what callbacks do with their ClientCtx: "notify", and ask
                    \* "inline" or in a "spawned" task
    Capacity        \* of the channel of client notifications (100 in the code)

ASSUME ClientBounds ==
    /\ MaxConns \in Nat /\ MaxCalls \in Nat /\ MaxInbox \in Nat /\ Capacity \in Nat \ {0}
    /\ CtxUses \subseteq {"notify", "inline", "spawned"}

Conns == 1..MaxConns
Calls == 1..MaxCalls

VARIABLES
    owner,      \* what the client's owner does
    conn,       \* the connection transport_tx belongs to, 0 before the first
    call,       \* number of the latest call
    init,       \* the latest call is initialize
    sentOn,     \* call -> the connection its request went out on, 0 if none
    pending,    \* calls in the table of pending requests
    got,        \* the reply in the channel of the current call, and where it came in
    loop,       \* connection -> where its loop is
    handling,   \* connection -> the message whose callback its loop awaits
    inbox,      \* connection -> messages from the server, unread
    open,       \* connection -> its read half has not ended
    up,         \* connection -> its write half works
    asking,     \* connection -> who waits for a ClientCtx request: or "none"
    queued,     \* connection -> client notifications queued for the loop
    lagged,     \* connection -> that channel has overwritten an entry
    requested,  \* connection -> server requests made on it
    answered,   \* connection -> server requests answered on it
    initialized,\* connection -> notifications/initialized was sent on it
    hooks       \* connection -> [connect, shutdown]: callbacks run

ownerVars == <<owner, conn, call, init, sentOn, got>>
noteVars == <<queued, lagged>>
serverVars == <<inbox, open, requested>>
vars == <<ownerVars, pending, loop, handling, serverVars, up, asking, noteVars,
          answered, initialized, hooks>>

-----------------------------------------------------------------------------
Response(n) == [type |-> "response", call |-> n]
Error(n) == [type |-> "error", call |-> n]
Request(s) == [type |-> "request", id |-> s]
ServerNote == [type |-> "note"]
CtxReply == [type |-> "ctx"]
NoMessage == [type |-> "none"]
NoReply == [kind |-> "none", on |-> 0]

ServerMessages ==
    {Response(n) : n \in Calls} \union {Error(n) : n \in Calls}
    \union {Request(s) : s \in ServerRequests} \union {ServerNote, CtxReply}

TypeOK ==
    /\ owner \in {"idle", "connecting", "calling", "gone"}
    /\ conn \in 0..MaxConns /\ call \in 0..MaxCalls /\ init \in BOOLEAN
    /\ sentOn \in [Calls -> 0..MaxConns]
    /\ pending \subseteq Calls
    /\ got \in [kind : {"none", "response", "error"}, on : 0..MaxConns]
    /\ loop \in [Conns -> {"none", "select", "callback", "replying", "ended", "panicked"}]
    /\ handling \in [Conns -> ServerMessages \union {NoMessage}]
    /\ inbox \in [Conns -> Seq(ServerMessages)]
    /\ open \in [Conns -> BOOLEAN] /\ up \in [Conns -> BOOLEAN]
    /\ asking \in [Conns -> {"none", "inline", "spawned"}]
    /\ queued \in [Conns -> 0..Capacity] /\ lagged \in [Conns -> BOOLEAN]
    /\ requested \in [Conns -> SUBSET ServerRequests]
    /\ answered \in [Conns -> SUBSET ServerRequests]
    /\ initialized \in [Conns -> BOOLEAN]
    /\ hooks \in [Conns -> [connect : 0..1, shutdown : 0..1]]
    /\ \A k \in Conns : hooks[k].shutdown = 1 <=> loop[k] = "ended"
    /\ \A k \in Conns : loop[k] # "none" => hooks[k].connect = 1

Init ==
    /\ owner = "idle" /\ conn = 0 /\ call = 0 /\ init = FALSE
    /\ sentOn = [n \in Calls |-> 0]
    /\ pending = {} /\ got = NoReply
    /\ loop = [k \in Conns |-> "none"]
    /\ handling = [k \in Conns |-> NoMessage]
    /\ inbox = [k \in Conns |-> <<>>]
    /\ open = [k \in Conns |-> TRUE] /\ up = [k \in Conns |-> TRUE]
    /\ asking = [k \in Conns |-> "none"]
    /\ queued = [k \in Conns |-> 0] /\ lagged = [k \in Conns |-> FALSE]
    /\ requested = [k \in Conns |-> {}] /\ answered = [k \in Conns |-> {}]
    /\ initialized = [k \in Conns |-> FALSE]
    /\ hooks = [k \in Conns |-> [connect |-> 0, shutdown |-> 0]]

-----------------------------------------------------------------------------
(* The owner: connect, requests, drop. *)

Connect ==
    /\ owner = "idle" /\ conn < MaxConns
    /\ conn' = conn + 1
    /\ owner' = "connecting"
    /\ hooks' = [hooks EXCEPT ![conn + 1].connect = @ + 1]
    /\ UNCHANGED <<call, init, sentOn, pending, got, loop, handling, serverVars,
                   up, asking, noteVars, answered, initialized>>

\* on_connect succeeds: the loop is spawned.  When it fails connect returns the
\* error and the transport stays where it was stored, with nobody to read it.
OnConnectReturns(ok) ==
    /\ owner = "connecting"
    /\ asking[conn] # "inline"
    /\ owner' = "idle"
    /\ loop' = IF ok THEN [loop EXCEPT ![conn] = "select"] ELSE loop
    /\ UNCHANGED <<conn, call, init, sentOn, pending, got, handling, serverVars,
                   up, asking, noteVars, answered, initialized, hooks>>

\* request: a new id, its entry, and the message, if there is a sink that works.
Call(isInit) ==
    /\ owner = "idle" /\ call < MaxCalls
    /\ call' = call + 1
    /\ init' = isInit
    /\ pending' = pending \union {call + 1}
    /\ IF conn # 0 /\ up[conn]
       THEN owner' = "calling" /\ sentOn' = [sentOn EXCEPT ![call + 1] = conn]
       ELSE UNCHANGED <<owner, sentOn>>
    /\ UNCHANGED <<conn, got, loop, handling, serverVars, up, asking, noteVars,
                   answered, initialized, hooks>>

\* Mutant: notifications/initialized follows whatever the reply was.
CallReturnsUnchecked ==
    /\ owner = "calling" /\ got # NoReply
    /\ owner' = "idle"
    /\ got' = NoReply
    /\ initialized' = IF init /\ up[conn]
                      THEN [initialized EXCEPT ![conn] = TRUE] ELSE initialized
    /\ UNCHANGED <<conn, call, init, sentOn, pending, loop, handling, serverVars,
                   up, asking, noteVars, answered, hooks>>

\* The reply is there.  initialize goes on to send notifications/initialized.
CallReturns ==
    /\ owner = "calling" /\ got # NoReply
    /\ owner' = "idle"
    /\ got' = NoReply
    /\ initialized' = IF init /\ got.kind = "response" /\ up[conn]
                      THEN [initialized EXCEPT ![conn] = TRUE] ELSE initialized
    /\ UNCHANGED <<conn, call, init, sentOn, pending, loop, handling, serverVars,
                   up, asking, noteVars, answered, hooks>>

\* The owner gives up on a call, with a timeout say.
CallDropped ==
    /\ owner = "calling"
    /\ owner' = "idle"
    /\ got' = NoReply
    /\ UNCHANGED <<conn, call, init, sentOn, pending, loop, handling, serverVars,
                   up, asking, noteVars, answered, initialized, hooks>>

\* Dropping the client drops its clone of the sink; the loops keep theirs.
DropClient ==
    /\ owner = "idle"
    /\ owner' = "gone"
    /\ UNCHANGED <<conn, call, init, sentOn, pending, got, loop, handling,
                   serverVars, up, asking, noteVars, answered, initialized, hooks>>

-----------------------------------------------------------------------------
(* The loop of connection k. *)

\* Mutant: a late reply is taken for the reply to the call that waits now.
ResolveLatest(k, n, kind) ==
    /\ pending' = pending \ {n}
    /\ got' = IF n \in pending /\ owner = "calling"
              THEN [kind |-> kind, on |-> k] ELSE got

\* A reply to a call still in the table goes to the owner if it still waits.
Resolve(k, n, kind) ==
    /\ pending' = pending \ {n}
    /\ got' = IF n \in pending /\ owner = "calling" /\ call = n
              THEN [kind |-> kind, on |-> k] ELSE got

\* Mutant: a reply is taken for a message of some other handler.
ReadMessageLoses(k) ==
    /\ loop[k] = "select" /\ inbox[k] # <<>>
    /\ inbox' = [inbox EXCEPT ![k] = Tail(@)]
    /\ IF Head(inbox[k]).type \in {"request", "note"}
       THEN /\ loop' = [loop EXCEPT ![k] = "callback"]
            /\ handling' = [handling EXCEPT ![k] = Head(inbox[k])]
       ELSE UNCHANGED <<loop, handling>>
    /\ UNCHANGED <<pending, owner, conn, call, init, sentOn, got, open, requested,
                   up, asking, noteVars, answered, initialized, hooks>>

ReadMessage(k) ==
    /\ loop[k] = "select" /\ inbox[k] # <<>>
    /\ inbox' = [inbox EXCEPT ![k] = Tail(@)]
    /\ LET m == Head(inbox[k]) IN
        \/ /\ m.type \in {"response", "error"}
           /\ Resolve(k, m.call, m.type)
           /\ UNCHANGED <<loop, handling>>
        \/ /\ m.type \in {"request", "note"}
           /\ loop' = [loop EXCEPT ![k] = "callback"]
           /\ handling' = [handling EXCEPT ![k] = m]
           /\ UNCHANGED <<pending, got>>
        \/ /\ m.type = "ctx"    \* an id the Client's handler has never given out
           /\ UNCHANGED <<pending, got, loop, handling>>
    /\ UNCHANGED <<owner, conn, call, init, sentOn, open, requested, up, asking,
                   noteVars, answered, initialized, hooks>>

\* Mutant: the loop goes on without the reply, as after a notification.
CallbackReturnsQuiet(k) ==
    /\ loop[k] = "callback"
    /\ asking[k] # "inline"
    /\ loop' = [loop EXCEPT ![k] = "select"]
    /\ handling' = [handling EXCEPT ![k] = NoMessage]
    /\ UNCHANGED <<ownerVars, pending, serverVars, up, asking, noteVars, answered,
                   initialized, hooks>>

\* The callback returns, with an answer if it was a request that it handled.
CallbackReturns(k) ==
    /\ loop[k] = "callback"
    /\ asking[k] # "inline"
    /\ IF handling[k].type = "request"
       THEN loop' = [loop EXCEPT ![k] = "replying"] /\ UNCHANGED handling
       ELSE /\ loop' = [loop EXCEPT ![k] = "select"]
            /\ handling' = [handling EXCEPT ![k] = NoMessage]
    /\ UNCHANGED <<ownerVars, pending, serverVars, up, asking, noteVars, answered,
                   initialized, hooks>>

\* A panic of the callback ends the loop's task there and then: no answer, and no
\* on_shutdown.
CallbackPanics(k) ==
    /\ loop[k] = "callback"
    /\ asking[k] # "inline"
    /\ loop' = [loop EXCEPT ![k] = "panicked"]
    /\ handling' = [handling EXCEPT ![k] = NoMessage]
    /\ UNCHANGED <<ownerVars, pending, serverVars, up, asking, noteVars, answered,
                   initialized, hooks>>

\* The loop breaks: on_shutdown, and its task is over.
End(k) ==
    /\ loop' = [loop EXCEPT ![k] = "ended"]
    /\ handling' = [handling EXCEPT ![k] = NoMessage]
    /\ hooks' = [hooks EXCEPT ![k].shutdown = @ + 1]
    /\ UNCHANGED <<ownerVars, pending, serverVars, up, asking, answered,
                   initialized>>

\* Mutant: the reply goes out on the client's present transport.
SendReplyAnywhere(k) ==
    /\ loop[k] = "replying" /\ up[conn]
    /\ answered' = [answered EXCEPT ![conn] = @ \union {handling[k].id}]
    /\ loop' = [loop EXCEPT ![k] = "select"]
    /\ handling' = [handling EXCEPT ![k] = NoMessage]
    /\ UNCHANGED <<ownerVars, pending, serverVars, up, asking, noteVars,
                   initialized, hooks>>

SendReply(k) ==
    /\ loop[k] = "replying" /\ up[k]
    /\ answered' = [answered EXCEPT ![k] = @ \union {handling[k].id}]
    /\ loop' = [loop EXCEPT ![k] = "select"]
    /\ handling' = [handling EXCEPT ![k] = NoMessage]
    /\ UNCHANGED <<ownerVars, pending, serverVars, up, asking, noteVars,
                   initialized, hooks>>

ReplyBreaks(k) ==
    /\ loop[k] = "replying" /\ ~up[k]
    /\ End(k)
    /\ UNCHANGED noteVars

\* Mutant: the end of the stream is logged and the loop goes on.
ReadEndsIgnored(k) ==
    /\ loop[k] = "select" /\ inbox[k] = <<>> /\ ~open[k]
    /\ UNCHANGED vars

\* EOF or an unreadable frame: "Server disconnected".
ReadEnds(k) ==
    /\ loop[k] = "select" /\ inbox[k] = <<>> /\ ~open[k]
    /\ End(k)
    /\ UNCHANGED noteVars

SendNotification(k) ==
    /\ loop[k] = "select" /\ ~lagged[k] /\ queued[k] > 0
    /\ queued' = [queued EXCEPT ![k] = @ - 1]
    /\ IF up[k]
       THEN UNCHANGED <<ownerVars, pending, loop, handling, serverVars, up,
                        asking, answered, initialized, hooks>>
       ELSE End(k)
    /\ UNCHANGED lagged

\* recv reports the lag, logged as the channel having closed.
SkipLag(k) ==
    /\ loop[k] = "select" /\ lagged[k]
    /\ lagged' = [lagged EXCEPT ![k] = FALSE]
    /\ UNCHANGED <<ownerVars, pending, loop, handling, serverVars, up, asking,
                   queued, answered, initialized, hooks>>

-----------------------------------------------------------------------------
(* What callbacks do with their ClientCtx. *)

InCallback(k) == loop[k] = "callback" \/ (owner = "connecting" /\ conn = k)

\* A request through the context: nothing ever answers its caller.
CtxRequests(k, who) ==
    /\ asking[k] = "none" /\ up[k]
    /\ InCallback(k)
    /\ asking' = [asking EXCEPT ![k] = who]
    /\ UNCHANGED <<ownerVars, pending, loop, handling, serverVars, up, noteVars,
                   answered, initialized, hooks>>

CtxNotifies(k) ==
    /\ "notify" \in CtxUses /\ InCallback(k)
    /\ IF queued[k] = Capacity
       THEN lagged' = [lagged EXCEPT ![k] = TRUE] /\ UNCHANGED queued
       ELSE queued' = [queued EXCEPT ![k] = @ + 1] /\ UNCHANGED lagged
    /\ UNCHANGED <<ownerVars, pending, loop, handling, serverVars, up, asking,
                   answered, initialized, hooks>>

-----------------------------------------------------------------------------
(* The server of connection k, and the connection. *)

Arrives(k, m) ==
    /\ k <= conn /\ open[k] /\ Len(inbox[k]) < MaxInbox
    /\ inbox' = [inbox EXCEPT ![k] = Append(@, m)]
    /\ UNCHANGED <<ownerVars, pending, loop, handling, open, up, asking, noteVars,
                   answered, initialized, hooks>>

InInbox(k, m) == \E i \in 1..Len(inbox[k]) : inbox[k][i] = m

ServerAnswers(k, n) ==
    /\ sentOn[n] = k /\ n \in pending
    /\ ~InInbox(k, Response(n)) /\ ~InInbox(k, Error(n))
    /\ \/ Arrives(k, Response(n))
       \/ Arrives(k, Error(n))
    /\ UNCHANGED requested

ServerAnswersCtx(k) ==
    /\ asking[k] # "none" /\ ~InInbox(k, CtxReply)
    /\ Arrives(k, CtxReply)
    /\ UNCHANGED requested

ServerAsks(k, s) ==
    /\ s \notin requested[k]
    /\ Arrives(k, Request(s))
    /\ requested' = [requested EXCEPT ![k] = @ \union {s}]

ServerNotifies(k) ==
    /\ ~InInbox(k, ServerNote)
    /\ Arrives(k, ServerNote)
    /\ UNCHANGED requested

Disconnect(k) ==
    /\ k <= conn /\ open[k]
    /\ open' = [open EXCEPT ![k] = FALSE]
    /\ UNCHANGED <<ownerVars, pending, loop, handling, inbox, requested, up,
                   asking, noteVars, answered, initialized, hooks>>

WriteBreaks(k) ==
    /\ k <= conn /\ up[k]
    /\ up' = [up EXCEPT ![k] = FALSE]
    /\ UNCHANGED <<ownerVars, pending, loop, handling, serverVars, asking,
                   noteVars, answered, initialized, hooks>>

-----------------------------------------------------------------------------
OwnerStep ==
    \/ Connect \/ \E ok \in BOOLEAN : OnConnectReturns(ok)
    \/ \E isInit \in BOOLEAN : Call(isInit)
    \/ CallReturns \/ CallDropped \/ DropClient

LoopStep(k) ==
    \/ ReadMessage(k) \/ CallbackReturns(k) \/ CallbackPanics(k)
    \/ SendReply(k) \/ ReplyBreaks(k) \/ ReadEnds(k) \/ SendNotification(k) \/ SkipLag(k)

CtxStep(k) == CtxNotifies(k) \/ \E who \in CtxUses \ {"notify"} : CtxRequests(k, who)

ServerStep(k) ==
    \/ \E n \in Calls : ServerAnswers(k, n)
    \/ \E s \in ServerRequests : ServerAsks(k, s)
    \/ ServerAnswersCtx(k) \/ ServerNotifies(k) \/ Disconnect(k) \/ WriteBreaks(k)

Next ==
    \/ OwnerStep
    \/ \E k \in Conns : LoopStep(k) \/ CtxStep(k) \/ ServerStep(k)

Spec == Init /\ [][Next]_vars
-----------------------------------------------------------------------------
(* Fairness: select! picks at random among its ready branches, so one that   *)
(* is ready again and again is taken; callbacks return unless they wait for  *)
(* a reply, as does a call that has its reply; the server answers what it    *)
(* is asked.  Nobody has to connect, to call, to drop or to disconnect.      *)

LoopFairness(k) ==
    /\ SF_vars(ReadMessage(k)) /\ SF_vars(ReadEnds(k))
    /\ SF_vars(SendNotification(k)) /\ SF_vars(SkipLag(k))
    /\ WF_vars(CallbackReturns(k))
    /\ WF_vars(SendReply(k)) /\ WF_vars(ReplyBreaks(k))

OwnerFairness ==
    /\ WF_vars(CallReturns)
    /\ WF_vars(\E ok \in BOOLEAN : OnConnectReturns(ok))

ServerFairness(k) ==
    /\ \A n \in Calls : SF_vars(ServerAnswers(k, n))
    /\ SF_vars(ServerAnswersCtx(k))

FairSpec ==
    Spec /\ OwnerFairness /\ \A k \in Conns : LoopFairness(k) /\ ServerFairness(k)

-----------------------------------------------------------------------------
(* Properties. *)

Ended(k) == loop[k] \in {"ended", "panicked"}
Over(k) == loop[k] = "none" \/ Ended(k)

\* A loop answers on its own connection the requests it read there: a server
\* never gets an answer to a request that another server made.
AnswersWhereAsked == \A k \in Conns : answered[k] \subseteq requested[k]

\* The reply a call gets came in on the connection its request went out on,
\* however late the replies to abandoned calls on older connections are.
ReplyFromOwnConnection == got # NoReply => owner = "calling" /\ sentOn[call] = got.on

\* notifications/initialized goes out only where a server has just accepted
\* an initialize request, never on a connection made since.
HandshakeOrder ==
    [][\A k \in Conns :
        initialized'[k] # initialized[k] =>
            got.kind = "response" /\ got.on = k /\ init]_vars

-----------------------------------------------------------------------------
(* The inductive invariant: what the three above rest on. *)

\* on_connect is run for a connection that is made, and the loop comes after.
Unmade ==
    \A k \in Conns :
        /\ hooks[k].connect = (IF k > conn THEN 0 ELSE 1)
        /\ k > conn \/ (k = conn /\ owner = "connecting") => loop[k] = "none"

\* The owner waits for the call it made last, on the connection it has now.
Calling ==
    /\ owner = "connecting" => conn # 0
    /\ owner = "calling" => call # 0 /\ conn # 0 /\ sentOn[call] = conn
    /\ got.kind = "none" => got = NoReply
    /\ \A n \in Calls : n > call => sentOn[n] = 0
    /\ \A n \in Calls : sentOn[n] <= conn

\* What a loop has read and not yet answered.
Handling ==
    \A k \in Conns :
        /\ loop[k] \in {"callback", "replying"} <=> handling[k] # NoMessage
        /\ loop[k] = "replying" => handling[k].type = "request"
        /\ handling[k].type \in {"request", "note", "none"}

\* Replies to calls wait only where the call went out.
RepliesPlaced ==
    \A k \in Conns : \A i \in DOMAIN inbox[k] :
        inbox[k][i].type \in {"response", "error"} => sentOn[inbox[k][i].call] = k

\* A server's request is unread, handled or answered, on its connection, in one of
\* these places and once; only the end of the loop loses it.
Unread(k, s) == \E i \in DOMAIN inbox[k] : inbox[k][i] = Request(s)
HandledAt(k, s) ==
    /\ Unread(k, s) => handling[k] # Request(s)
    /\ Unread(k, s) \/ handling[k] = Request(s) => s \in requested[k] \ answered[k]
    /\ \A i, j \in DOMAIN inbox[k] :
        inbox[k][i] = Request(s) /\ inbox[k][j] = Request(s) => i = j
    /\ s \in requested[k] =>
        Unread(k, s) \/ handling[k] = Request(s) \/ s \in answered[k] \/ Ended(k)
HandledOnce == \A k \in Conns, s \in ServerRequests : HandledAt(k, s)

\* It is inductive together with AnswersWhereAsked and ReplyFromOwnConnection.
ClientInv == TypeOK /\ Unmade /\ Calling /\ Handling /\ RepliesPlaced /\ HandledOnce

-----------------------------------------------------------------------------
(* Liveness. *)

\* Every request of a server whose connection has a loop is answered, while
\* calls, notifications and other connections go on, unless a callback panics.
ServerRequestsAnswered ==
    \A k \in Conns, s \in ServerRequests :
        (s \in requested[k] /\ loop[k] # "none")
        ~> (s \in answered[k] \/ ~up[k] \/ loop[k] = "panicked")

\* A call returns, or its connection was broken, or never got a loop.
CallsReturn ==
    \A n \in Calls :
        (owner = "calling" /\ call = n)
        ~> (owner # "calling" \/ call # n \/ Over(conn) \/ ~open[conn])

\* When the server disconnects the loop ends, and has run on_shutdown unless a
\* callback panicked.
LoopEnds ==
    \A k \in Conns :
        (~open[k] /\ ~Over(k)) ~> (hooks[k].shutdown = 1 \/ loop[k] = "panicked")

\* context.rs, of ClientCtx::request: "Send a request to the server and wait for
\* response".  The response of a server that answers arrives.
CtxAskReturns ==
    \A k \in Conns : (asking[k] # "none") ~> (asking[k] = "none" \/ ~open[k] \/ Over(k))
=============================================================================
