# tenx-mcp in TLA+

Models, model-checking runs and machine-checked proofs of the Rust library in
`src/crates/tenx-mcp`, an implementation of the Model Context Protocol: JSON-RPC
between clients and servers over pipes, sockets and HTTP; and of its attribute
macro in `src/crates/macros`. Paths such as `server.rs:237` are relative to
`src/crates/tenx-mcp/src/`, `lib.rs` is the macro's.

## 1. The system

| Part | Source | State it keeps | Operations | Module |
|---|---|---|---|---|
| Request handler | `request_handler.rs` | id counter, table of pending requests, the sink | `request`, `handle_response`, `handle_error`, `set_transport` | `RequestHandler`, abstractly `RpcCall` |
| Server connection | `server.rs`, `context.rs` | main loop, handler tasks, response queue, notification channel, stop token | read, dispatch, spawn, forward, callbacks, `stop`, `ServerCtx` | `ServerConnection` |
| Client connection | `client.rs`, `context.rs` | a loop per connection, callbacks, queue of client notifications | `connect*`, requests, callbacks, `ClientCtx`, drop | `ClientConnection` |
| Codec | `codec.rs` | the read buffer | `decode`, `encode` | `JsonRpcCodec` |
| Dispatch | `schema/jsonrpc.rs`, `schema/requests.rs`, `jsonrpc.rs`, `server.rs`, `client.rs`, `error.rs`, `connection.rs` | none | what a message is read as, which handler or callback it reaches, the code of an error | `Dispatch`, composed with the codec in `MessageIntake` |
| HTTP transport | `http.rs` | client queue, sessions, per-session queues, `request_sessions` | `http_task`, `handle_post`, `handle_get`, `HttpServerStream` | `HttpTransport` |
| OAuth client | `auth/oauth_client.rs` | token, `refresh_lock`, `csrf_token`, `pkce_verifier` | `get_valid_token`, `set_token`, `get_authorization_url`, `exchange_code` | `OAuthToken` |
| OAuth callback server | `auth/oauth_client.rs` | the listener, its task, a oneshot sender | `wait_for_callback`, the `/callback` handler | `Authorization`, over `OAuthToken` |
| Dynamic registration | `auth/dynamic_registration.rs`, `auth/oauth_client.rs` | none between calls | `register_dynamic`, `discover_registration_endpoint`, `register`, `from_registration` | `Authorization` |
| Byte-stream transports | `transport.rs`, `client.rs`, `server.rs` | the pipes under them | `connect_*`, `serve_*`, reads and writes that wait | `StreamSession`; their bytes in `JsonRpcCodec` |
| Macro `#[mcp_server]` | `crates/macros/src/lib.rs` | none | what it reads, when it expands, the server it makes | `ToolServer`, in `MessageIntake` |
| Connection and API traits | `connection.rs`, `api.rs` | none | default handlers | the servers' in `ToolServer`, the clients' in `MessageIntake` |
| Schema, test utilities | `schema/`, `testutils.rs` | none | data types, helpers | not modelled |

**How the parts meet.** A `Client` or a `ServerCtx` sends requests through a
request handler. Its connection's loop is the only reader of the stream and gives
replies back to that handler. Below the loop is a byte stream with the codec, or
the HTTP transport, whose one `HttpServerStream` stands between the loop of the
server and all of the clients' sessions. The HTTP client asks the OAuth client for
a token before each POST. An application gets that token by registering,
opening an authorization URL and waiting for the browser at a callback server.
Handlers and callbacks are the user's code; they run in
tasks of their own (requests to a server) or inside the loop (everything else) and
use the connection through `ServerCtx` or `ClientCtx`.

**What is hard in it.** Tasks that share a table, a counter, a sink or a token and
can be dropped at any `await`; loops that `select!` between queues in no fixed
order and stand still while a callback runs; replies that come late, twice, or to
a caller that has gone; channels that overwrite; connections that end in either
direction at any moment, or are replaced; messages that travel in separate HTTP
requests and meet in one queue; a token that expires while several tasks look;
two loops that each send into a full pipe while neither reads; callbacks of one
authorization flow that arrive at the server of another.

**What makes each part correct.**

* Request handler: a reply reaches the call it answers and no other, however late;
  the first one decides; no call is left waiting.
* Server connection: a response is sent once or lost only with the connection;
  callbacks run in order; what is asked is answered while notifications flow;
  `stop` stops, whatever callbacks and handlers panic.
* Client connection: loops of successive connections do not mix replies, answers
  or handshakes; every loop that ends has run `on_shutdown` once, unless a
  callback panicked.
* Codec, dispatch and macro: messages are whole, in order and complete; every
  request is answered once, with the right code and by the right function; the
  tools that are listed are those that can be called.
* Byte streams: calls and requests are served however full the pipes are.
* HTTP: responses return to where their request came from, in the response to it;
  a client's messages are read once each, and in order but for those whose POST was
  given up; its queue always moves.
* OAuth: one refresh at a time, only when needed, with a live refresh token; a code
  is redeemed with its own flow's verifier, once, whatever other callbacks come;
  a wait ends when its callback comes, and frees the port.

The hazards are listed line by line in `PROJECT.json`, with the properties that
would catch each going wrong.

## 2. The modules

Each module says at its head what it stands for, and `PROJECT.json` maps every
definition to its lines. Operators marked "Mutant:" are plausible mistakes; they
are part of no specification and exist to show that a property can fail. An `MC`
module only gives a specification to TLC. All bounds on counters are constants
named `Max...`, used in guards.

**RequestHandler** has a step for every stretch of code between two points at
which another thread sees the shared state: taking an id (`fetch_add`), the
insertion into the `DashMap`, the lock of the sink, the send, the wake-up. A
oneshot channel is its two ends: the entry of the table names the caller that has
the receiver (or `Gone`), and `chan[c]` is the value. A caller's future can be
dropped at each `await`, and then its guard and its receiver are, too. The peer
answers requests it has got, in any order and repeatedly, and sends replies with
ids of other handlers. **RpcCall** is what is promised: calls with no ids, no
table and no wire, each ended once by an answer given to that very call.

**ServerConnection** follows the `select!` of `ServerHandle::new`: `phase` says
where the loop is, and only in `"select"` does it choose. Handlers are tasks;
`on_connect` and notification callbacks are phases of the loop itself, in which it
reads nothing. The broadcast channel is a sequence that loses its oldest entry
when full, with the flag `lagged` for the error `recv` then returns. A panic of a
callback ends the task of the loop where it is (`HookPanics`), of a handler only the
handler's own. A send waits for room on the `wire`. Pending requests to the client are names in a set, for
RequestHandler shows that replies find their way.

**ClientConnection** has one owner (`&mut self`), and a loop per connection that
outlives the next `connect`. The table of pending requests is shared by all. What
goes through a `ClientCtx` has a table of its own, which no loop ever looks at. A
panic of a callback ends its loop where it is (`CallbackPanics`).

**JsonRpcCodec** is `decode` under `tokio_util`'s `Framed`: bytes in chunks cut
anywhere, the states readable/eof, and a close in the middle of a line. A body is
one symbol. **Dispatch** has no state: it says which variant of the untagged enum
serde finds for a message (abstracted to its id, method, params, result and error
members), whether a server's `ClientRequest` or a client's `ServerRequest` can be
made of a request, whether a notification can be read, and the code of the reply.
**ToolServer** is the expansion of `#[mcp_server]`: an impl block is a sequence of
functions, each with what the macro looks at, and the operators say which become
tools, whether the block expands, and what the generated `initialize`,
`list_tools` and `call_tool` may do with a request (an *outcome*: an error and a
result). **MessageIntake** puts the three together at one end of a connection, the
`reader`, server or client: what is decoded is dispatched to a function and answered,
given to the notification callback, or handed to the calls that wait.

**StreamSession** joins a client's and a server's loop by two pipes of `Capacity`
messages. `writing[end]` is the message an end's loop is sending, and while there is
one the loop reads nothing, as in the branches of both `select!`s. The user's task
and the server's handlers send beside the loops. A dropped call may leave its
message in the sink's buffer (`left`), which the next sender flushes. What the
loops do otherwise is reduced to what the pipes see: ServerConnection and
ClientConnection hold the rest.

**HttpTransport** follows each POST by itself: `stage[p]` says whether it is on the
`wire`, its handler has `begun`, waits in the `line` for the receiver of a channel,
or is `over`, and `pending` says whether its client still waits. `http_task` has one
POST pending at a time, foreign clients any number, and they may accept SSE or open
a stream with GET. The wire keeps no order. A POST that its client gives up, at any
stage (`GiveUp`), is not taken back: its bytes may be handled after later ones, much
later, or never, and a handler may find its client gone only when it answers
(`Reply`) or be dropped before (`Drop`). A message that never leaves the client is
`SkipMessage`; a reply whose body is lost has still shown its headers, and the
session id in them is kept (`ReplyCut`, `Learn`).

At the server `handle_post` is two steps, for another handler may run between them:
it forwards the message, and then queues for the lock of a receiver (`Attach`), of
the channel it has made or of the one its session has at that moment. `queue[k]` is
a channel, named by the `initialize` that made it, `line[k]` its receiver's lock
with its holder in front, and `current[s]` the channel of a session, which another
`initialize` replaces. `route` is `request_sessions`. While it waits, the handler of
a request holds the reference that `sessions.get` returned (`http.rs:697`), and
`insert` waits for it on its lock (`Guarded`): so a session is not made anew while a
request that is answered directly waits in it. An `initialize` waits on a channel of
which it keeps a sender itself. Hence no handler ever sees its channel closed but
those of streams (`StreamEnd`); the branches for `Ok(None)` (`http.rs:631`,
`http.rs:711`) are not reached. A message is numbered by its client, and the number
is the request's id; `shared` says whether two clients number alike, as two
`Client`s of this library always do (`req-1`, `req-2`, ...). Results and
notifications of a client are both "other"; requests and notifications of the server
are both casts, since both are sent to every session.

**OAuthToken** splits `get_valid_token` at each `await`: the first look, the lock,
the second look, the server's grant, the store. Flows are numbered and the number
stands for both its state and its verifier. The authorization server may rotate
refresh tokens or not, may refuse, and its replies may be lost.

**Authorization** puts an application around it, in the order
`examples/dynamic_registration.rs` has: `phase` is where it stands, `redirect` the
redirect URI that registration left it with. Each wait that binds the port starts a
callback server of its own: `listening` is who has the port, `aborted` who has been
told to stop (an `abort` takes effect later), `sender` whose oneshot is untaken. A
wait may be dropped at its `await`, as a timeout does. The browser may bring the
callback of any flow that was authorized, again, and over a connection kept open to
an earlier server (`kept`), since axum serves accepted connections in tasks that
outlive the listener.

**RequestHandlerProofs**, **ServerConnectionProofs**, **ClientConnectionProofs**,
**HttpTransportProofs**, **MessageIntakeProofs**, **OAuthTokenProofs**,
**AuthorizationProofs** and **StreamSessionProofs** hold the proofs. The inductive invariant of each is in the
module it is about, where the runs check it.

## 3. The runs

| Run | Instance | Shows |
|---|---|---|
| `request_handler` | 2 callers, 2 calls, 2 replies under way | `OwnReply`, the inductive invariant `IInv`, that it implements `RpcCall`, and that calls end (`CallsEnd`) |
| `message_intake` | a server of two tools, a helper and an `initialize_fn`, or a client with one handler of its own; 2 lines of 15 kinds for the server and 9 for the client (and empty ones), 2 kinds that do not parse | framing and completeness (`FramesExact`), delivery (`FrameDelivered`), one right reply per request, with what asks nothing reaching whom it is for (`RequestsAnswered`), the inductive invariant `IntakeInv` |
| `server_connection_safety` | 2 requests, 3 notifications, a channel of 2, callbacks that ask | `ResponsesConserved`, `CallbackOrder`, `NotesInOrder`, the inductive invariant `ServerInv` |
| `server_connection_served` | 1 request, 2 notifications | requests and asks are served (`RequestsServed`), `NotesDelivered`, `StopStops` |
| `client_reconnect` | 2 connections, 2 calls, the same request id on both | `AnswersWhereAsked`, `ReplyFromOwnConnection`, `HandshakeOrder`, the inductive invariant `ClientInv` |
| `client_served` | 1 connection, unboundedly many notifications both ways | `ServerRequestsAnswered`, `CallsReturn`, `LoopEnds` |
| `http_transport` | a client of this library and a foreign one that POSTs concurrently; 3 messages and casts in all, ids of their own | `Routed`, `OneResponse`, `InOrder`, `DirectWhenCalm`, `MessagesTaken`, the inductive invariant `HttpInv` |
| `oauth_token` | 2 callers, 3 tokens, 2 flows, clock to 2 | `RefreshAccepted`, `RefreshOnlyExpired`, the inductive invariant `IInv` (one refresh at a time, codes with their verifiers), `CallsReturn` |
| `authorization` | 3 flows, 3 callback servers, 2 repeated callbacks, registrations that return the URI, none, or no URL | `ExchangesCurrent`, the inductive invariant `AuthInv`, `PortGivenBack`, `CallbackTaken` |
| `stream_session` | pipes of 1 message, 2 calls, 2 asks, 2 notifications each way, TCP and given streams | `ServedUnlessClogged`, `CloggedForGood`, `QuietNeverClogs`, the inductive invariant `SessionInv` |
| `client_callback_ask` | violation | a request made through `ClientCtx` never returns |
| `http_routing` | violation | a response goes to another client's session |

**Why the bounds are enough.** Two callers, requests or clients are what a race
needs; a second call of one caller is what a late reply needs; a channel of two
with three notifications overwrites; two connections are one and its successor.
Two flows are one and the callback of an earlier one. Three tokens are a first, its
replacement and the replacement of that. Two lines are a line and what is behind it
in the same chunk, or cut in two; longer streams, and every other message, block and
attribute, are a matter of the proofs. In `http_transport` three messages
and casts are enough for an `initialize` and two POSTs that are read in the wrong
order, for a session made anew beside a stream, a timeout or a late reply, and for a
cast that takes a reply's place, with the other client in each; the wire, the
timeouts and the lost replies are not bounded. The run leaves each client its own ids; with shared ones `http_routing` shows what
fails, and `ResponsesOnce` proves that `OneResponse` does not. In `client_reconnect`
one message at a time is buffered towards the client, so that two connections with
two calls stay small; in `client_served` it is two.
Pipes of one message are full soonest, and every way for two loops to wait for each
other is there; what needs more messages to fill a larger pipe needs only more of
the same, and `CloggedForGood` and `QuietNeverClogs` are proved for every capacity.
Three flows with three callback servers are an abandoned one, the one that finds its
port taken or its callback swallowed, and one after both; of two repeated callbacks
one reaches the earlier and one the later wait.
Counters are bounded only by what is started (calls, notifications, messages,
tokens), never by how a step goes on, so no bound hides the end of something that
was begun. Where several requests would make liveness too costly its run has one
request, and the run for safety beside it has more. Deadlock is not checked:
with all budgets spent a connection that is idle, or stopped, is a proper end.

**Findings.** Each of the violation runs checks one statement quoted from the source
against what the code does:

* `context.rs:54`, "Send a request to the server and wait for response":
  `ClientCtx::new` makes a request handler of its own, and the loop gives every
  reply to the Client's. The callback waits for ever, and so does the loop with it.
* `http.rs:525`, "Route response to the correct session": `request_sessions` is
  keyed by the id alone, and ids of different clients are equal. With ids of their
  own the routing is right (`Routed`).

## 4. Fairness

Safety runs assume none. For liveness, always of what tokio and the code provide:

* a task that can proceed is polled (weak fairness of its steps);
* `select!` picks at random among the branches that are ready, so a branch that is
  ready again and again is taken (strong fairness of a loop's branches);
* `tokio::sync::Mutex` is handed over in FIFO order (strong fairness of taking the
  sink or `refresh_lock`);
* callbacks and handlers return unless they wait; panics are allowed;
* a listener accepts; a task told to stop stops; a wait whose oneshot was sent to
  returns; a browser that is redirected tries once (`Authorization`);
* timers expire: the HTTP client's own timeout ends every POST of this library's
  clients (`GiveUp` in `HttpTransport`; nothing is assumed of the handlers' timers,
  of the wire or of the server's stream), and a request to the authorization
  server ends, if only by failing;
* a peer reads what it is sent, and where a property is about its answer, it
  answers: `PeerFairness`, `ServerFairness`, `ClientReads`. No fairness is assumed
  of foreign HTTP clients, nor of the server behind the HTTP transport.

Nobody has to start a call, connect, stop, drop or disconnect; users may never
authorize, and an application may stop between two calls. In `StreamSession` weak
fairness is enough: a loop that could take a branch takes one, and the mutex around
a sink is the room in its pipe.

## 5. What is proved

With TLAPS, for any number of callers, calls, requests, notifications, connections,
clients, sessions, tokens, flows, waits, callbacks, lines and chunks, and any
capacity of a pipe or a channel; the assumptions are those named in the modules
(`BoundsAssumption`, `MarkersAssumption`, `ServerBounds`, `ClientBounds`,
`HttpBounds`, `OAuthBounds`, `AuthorizationBounds`, `SessionBounds`): bounds are
natural numbers, capacities are not zero, markers are no callers, requests or
clients. `CodecAssumption` says that bodies hold no newline, and `IntakeAssumption`
that a line parses if serde finds a variant for it, that a message with a method has
neither result nor error, and that the impl block is one that expands.

**RequestHandler.** `OwnReply` is not inductive: that the value in a caller's
channel is for its current call depends on whose entry the reply found, which
depends on ids being given out once and on entries whose receivers are gone. `IInv`
is the type invariant and four parts: `Numbered` (the counter is the number of
calls, ids in use are distinct), `Fresh` (nothing is known of an id before it is
given out), `Table` (the live entries are exactly the suspended requests that have
no value) and `Wire` (what is under way belongs to a call that was made, what comes
back to one that was answered). Each action preserves it (a lemma each, with
`ReturnInv` shared by all ways a call ends), whence `Invariance`,
`ReplyCorrelation`, `SendersLive` (the code's branch for a closed channel is never
taken), the action property `FirstReplyDecides`, and `Refinement`: every step is a
step of `RpcCall` or a stutter under the mapping that forgets ids.

**ServerConnection.** None of the three properties of the run is inductive.
`ResponsesConserved` needs to know that a request is under way once and only until
its handler is spawned (`AskedOnce`), that what the loop sends is of a handler that
returned (`SentReturned`), and what the loop may hold in which phase (`Holding`).
`CallbackOrder` needs `InTurn`: before `on_connect` has returned the loop is not at
its `select!`. `NotesInOrder` needs `NotesQueued`: what was sent, what the loop holds
and what the ring holds are, in this order, ascending and issued, which an overwrite
of the oldest entry does not disturb. `ServerInv` is all of these with the types and
`NoAskLost`: what a handler or callback waits for is on the wire, with the client,
in the input or in the loop's hands, until the stream or the loop ends
(`AsksUnderway`), which is the safety half of `RequestsServed`.

**ClientConnection.** That a reply stays on its connection (`RepliesStay`) rests on
`RepliesPlaced`: replies wait only where their call went out, and a call that was
not made went out nowhere (`Calling`). An old loop that finds a reply in the shared
table can therefore never wake the present call with it. `AnswersStay` rests on
`HandledOnce`: a server's request is unread, with the callback, or answered, in one
of these places and once, on its connection, until the loop there ends; ids are
reused on every connection, so the loop must answer on its own. `Unmade` says that
`on_connect` runs for the connection being made and before its loop, so that both
callbacks run at most once. `HandshakeOrder` is an action property: in the step
that sends `notifications/initialized` the reply's connection (`RepliesStay`) is
the call's (`Calling`), which is the present one.

**HttpTransport.** `SessionsOwned` and `Lined` say whose a session, a channel and a
place at a receiver's lock are, and that nobody refers to one that was not made.
`InOrder` is inductive only with what a client may have under way: its outbox holds
later messages than any that has left (`Outboxes`), `http_task` waits for one POST
(`Waits`), and therefore a POST that is on the wire with a later one beside it or
ahead of it has been given up (`Overtaken`); `Arrived` says of all that was forwarded
what `InOrder` says of what was read. Nothing is assumed of the wire.
`OneResponse` counts what a client has got; `OnePlace` adds that a response that is
still to come, in a queue or got is in one of these places, and only once, over all
channels of the client, `Answering` that an id leads to a session whose client
has asked under it, and `Reached` that nothing the server holds was not handled; with
them no session made anew, no stream and no POST handled late can double a response.
`Routed` holds while ids are not shared, by `RunningRouted`: the entry of an id is
that of the request that runs. `DirectWhenCalm` needs `Conversation`: in calm, all
that is under way for a client belongs to the one POST that waits, so the next entry
of its queue is the response to it. `HttpInv` is inductive together with `Routed`,
`OneResponse` and `DirectWhenCalm`.

**OAuthToken.** `IInv` adds to the type invariant `OneRefresh` (who is in the
critical section is who has the lock), `Past` (a call's instant is not in the
future), `Presentable` (the stored refresh token is live, or lost with a reply, or
its replacement is with the lock's holder) and `FlowPaired` (the stored verifier is
that of the state awaited). `Past` is what makes the second look enough: what is
valid now was valid at the call's instant, so a refresh starts only when the token
has expired (`NoNeedlessRefresh`). `SingleRefresh`, `RefreshTokensFresh` and
`FlowsMatch` follow from the invariant.

**Authorization.** `ApplicationUsesClient`: every step of the application, its
servers and the browser is a step of OAuthToken or leaves its variables alone, so
that its invariant carries over. `AuthInv` adds the types, the one listener, and
`Current`: the state and verifier that are stored are those of the last flow or
none, and whatever a server's oneshot or a wait holds a browser has brought. The
last is what `ExchangesCurrent` needs, and the first is what makes an exchange with
an old flow's callback fail at the comparison of states: `ExchangesOfLastFlow`.

**StreamSession.** `ClogsAreForGood` needs no invariant: in a clogged state neither
loop is at its `select!`, and every step but theirs only waits for room.
`QuietNeverClogs` is not inductive. `SessionInv` adds to the types `Started` (before
it connects, a client has nothing to send) and `Unprompted`: without an ask there is
no ask in the server's pipe, in its loop's hands or about to be sent, and so the
client's loop is sending only what a notification or an ask has prompted
(`SessionInvariance`, `QuietSessionsFlow`).

**MessageIntake.** What should be handed over is stated without recursion: the
lines that are due (`Due`) have ranks, and the message of rank r is the r-th of
`out`. `FramesExact` is not inductive, since it says nothing of the bytes. `CodecInv`
says that for some n the messages up to line n have been handed over
(`HandedOver`), and that the buffer and the pipe, one after the other, hold the
lines after n, symbol for symbol at the places that `Width` counts, and perhaps a
piece of a line that is never finished (`StillThere`). Reading moves bytes from the
pipe to the buffer and so changes neither; decoding takes the symbols of line n + 1,
which are the first ones (`NextLine`), and n + 1 is the new n (`LineTaken`,
`LineHanded`): `CodecInvariance`, `FramesAreExact`. For `MessagesAreAnswered` the
first variant that matches is found (`VariantIs`), which shows that a message is read
as a request if and only if it is one (`RequestIsRead`) and where all others go
(`OthersAreRead`); then `RepliesAreDeserved` goes through the methods. `IntakeInv`
adds that no reply and no hearing is of a message that is still to be read, so that
the one just read has none before.

**Only model-checked:** all liveness (fairness and ENABLED are beyond the prover).
Every safety property that a run checks has its theorem.
Theorems of properties that no run lists (`SendersLive`, `FirstReplyDecides`,
`SingleRefresh`, `FlowsMatch`, `AsksUnderway`) hold for the instances of the runs by
the invariants that are listed, of which they are consequences.

## 6. What the models leave out, and what they show besides

Left out: contents of messages beyond what decides their way; logging; the
protocol-version header, CORS and keep-alives of HTTP; the client's own GET stream,
which is opened before there is a session and refused, and the session `framed()`
adds, which nobody reads; the exit of a child process, which is an end of its pipes;
the setters of `ClientMetadata`, of whose fields only the redirect URI decides
anything here; the schema of a tool's parameters, and the texts the macro takes from
documentation comments. Schema types and test utilities are not modelled, with
reasons in `PROJECT.json`. A panic of a client's `on_connect` unwinds the task of the
application that called `connect`, and is not modelled. In `StreamSession` streams stay open and a callback does
not send: what a broken stream or a waiting callback does to a loop is in the
modules of the two connections. In `Authorization` a token endpoint's answers are
OAuthToken's.

What the code does. The models reach each of these; no run is about them, and the
properties name them where they make an exception:

* Both loops send inside their `select!` (`server.rs:283`, `client.rs:301`): a server
  whose handlers ask, or a client that notifies, against full pipes can bring both
  to a stand for good (`Clogged`). Calls, responses and the server's notifications
  alone cannot.
* A wait for the callback that is dropped, by a timeout around it say, leaves its
  server running with the port; the next wait fails to bind until some callback has
  come, and after that as well, since nothing stops that server
  (`auth/oauth_client.rs:342`).
* The first callback ends a wait, whichever flow it is of; the comparison of states
  then refuses an old one, and takes the stored state with it: the flow must be begun
  again. Every callback is answered with the page "Authorization Successful".
* A browser's connection to an earlier callback server outlives that server's
  listener and swallows the callback it brings (`auth/oauth_client.rs:350`).
* The issuer that is asked for its metadata is the scheme and host of the
  authorization URL, without its port (`auth/oauth_client.rs:79`).
* A registration answered without redirect URIs leaves the client with
  `http://localhost:8080/callback`, wherever the application listens
  (`auth/dynamic_registration.rs:289`).
* An error in the arguments of `#[mcp_server(...)]` is dropped with
  `unwrap_or_default`, and the default `initialize` answers (`lib.rs:454`).
* A tool whose parameters are all optional is refused a call without arguments
  (`lib.rs:283`).
* Over HTTP a POST is answered with the next entry of its session's queue
  (`http.rs:704`), which is the response as long as nothing is sent to all sessions
  and no POST is given up (`DirectWhenCalm`).
* When a POST fails, `http_task` goes on to the next message (`http.rs:334`), and the
  server may read the one that failed after it, when nobody waits for its reply any
  more (`InOrder`).
* An `initialize` in a session where a request waits for its reply blocks its thread
  in `DashMap::insert` until that request is answered or times out (`http.rs:602`,
  `Guarded`).
* A panic of a callback that a loop runs ends that loop without `on_shutdown`
  (`server.rs:237`, `server.rs:632`, `client.rs:504`).
* A refresh whose reply carries no new refresh token erases the one in use
  (`auth/oauth_client.rs:282`), which RFC 6749 section 6 lets the server leave out:
  the next expiry ends in "No valid token available".
* An empty line makes `decode` return `None` with whole frames still in the buffer
  (`codec.rs:41`): they wait for the peer's next bytes.
* A request whose id is null or a fraction, or whose progress token is neither a
  string nor an integer, is read as a notification and never answered; one with
  positional params does not parse and ends the connection, as does an error reply
  whose id is null, which JSON-RPC asks for when a request could not be read.
* An unknown log level is answered with -32601, method not found, since serde says
  "unknown variant" of it as well (`server.rs:525`, and `client.rs:538` of an unknown
  role or content type); a member `method` of the params
  replaces the method.
* A call in flight when the connection ends is not woken (`client.rs:348`), nor is a
  server's handler that waits for the client (`server.rs:308`).
* A server callback that asks the client from inside the loop stops the loop for
  good, and a stop cannot end it (`server.rs:237`).
* Entries of the request table stay after a failed send or a dropped call.
* A lag of a broadcast channel is logged as "Notification channel closed".
* `ServerCtx::notify` does not look at the declared capabilities, unlike
  `send_server_notification`.
* Dropping a `ServerHandle` or a `Client` leaves its loop running; a failed
  `on_connect` leaves the transport stored; a slow callback of a client delays
  every other message.
* A notification and the response of the same handler may arrive in either order.
* `now` is taken before the wait for `refresh_lock`: the second look may accept a
  token that has expired meanwhile. A refresh overwrites what `set_token` stored.
* Over HTTP the listener outlives `stop`; error replies of the server go to all
  sessions; an error reply of a client is refused with 400; sessions are never
  removed.

## 7. Plan

Done: the modules above, in the order RequestHandler, the connections, codec, OAuth,
HTTP, dispatch, macro, Authorization, StreamSession; the proofs for RequestHandler,
OAuthToken, Authorization, StreamSession, the two connections, the HTTP transport
and MessageIntake.

Next, in this order:

1. An abstract specification of a connection's service (each request answered once
   or the connection over) that `ServerConnection` implements, and the proof of it.
2. What the two ends make of each other's replies: the typed results of `schema/`
   and `can_forward_notification`.

The runs are kept few: one for each question. A later module that needs runs takes
the place of a run it subsumes.
