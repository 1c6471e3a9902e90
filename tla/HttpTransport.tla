---------------------------- MODULE HttpTransport ----------------------------
(***************************************************************************)
(* http.rs: the streamable HTTP transport, client and server side.         *)
(*                                                                         *)
(* A client's messages queue for its http_task, which POSTs them one by    *)
(* one.  Foreign clients, other implementations of the protocol, POST as   *)
(* many at once as they like, accept an SSE stream in reply, and may open  *)
(* one with GET.  The wire carries the requests to handle_post and         *)
(* handle_get in any order and as late as it likes: one that its client    *)
(* has given up may be handled after later ones, or never.                 *)
(*                                                                         *)
(* handle_post forwards a message to the one HttpServerStream that all     *)
(* sessions share, and answers a request with whatever comes next in the   *)
(* channel of the session; handlers queue for the channel's receiver.      *)
(* HttpServerStream remembers in request_sessions where the request with   *)
(* an id came from, sends the response there, and sends everything else to *)
(* every session.                                                          *)
(*                                                                         *)
(* A POST, or GET, is named by its client and a number, and the number of  *)
(* a request is its id.  A session, and a channel, is named by the         *)
(* initialize that made it.  The GET of this repository's own client comes *)
(* before it has a session, is refused, and has no effect; nor has the     *)
(* session framed() adds, which nobody reads.  What the server makes of a  *)
(* request is left to ServerConnection: here it answers, or fails.         *)
(***************************************************************************)
EXTENDS Naturals, Sequences, FiniteSets

CONSTANTS
    Clients,
    Foreign,        \* the clients of other implementations
    ForeignTypes,   \* what these send
    Anyone,         \* the owner of an id that clients share
    None,           \* no session
    Sharing,        \* may two clients use the same id?
    MaxMessages,    \* bound: messages of one client
    MaxTraffic      \* bound: messages of all clients and casts of the server

Numbers == 1..MaxMessages
Posts == Clients \X Numbers

\* "stream" is a request whose client accepts an SSE stream.
Requests == {"init", "request", "stream"}
Direct == {"init", "request"}
Streams == {"stream", "get"}
Types == Requests \union {"other", "error", "get"}

ASSUME HttpBounds ==
    /\ Foreign \subseteq Clients /\ Anyone \notin Clients /\ None \notin Posts
    /\ ForeignTypes \subseteq Types /\ Sharing \subseteq BOOLEAN
    /\ MaxMessages \in Nat /\ MaxTraffic \in Nat

VARIABLES
    shared,     \* clients number their requests alike, as this repository's do
    sent,       \* client -> messages it has sent
    kind,       \* POST -> its type
    outbox,     \* client -> messages waiting for its http_task
    sid,        \* client -> its session_id
    stage,      \* POST -> where it is
    via,        \* POST -> its Mcp-Session-Id header, and the session it came in
    pending,    \* the POSTs whose HTTP response the client waits for
    lost,       \* the POSTs that ended without what was asked for
    got,        \* client -> messages it has received, and in reply to what
    current,    \* session -> its channel
    queue,      \* channel -> messages its receiver holds
    line,       \* channel -> the handlers at its receiver's lock, its holder first
    incoming,   \* what has been put in the incoming channel
    read,       \* how many of these the server has read
    route,      \* request_sessions: id -> session
    running,    \* requests the server has not replied to
    casts,      \* messages the server has sent to all sessions
    up          \* the server has not been stopped

clientVars == <<sent, kind, outbox>>
postVars == <<stage, via, pending, lost, line>>
serverVars == <<incoming, read, route, running, casts, up>>
vars == <<shared, clientVars, sid, got, postVars, current, queue, serverVars>>

-----------------------------------------------------------------------------
Ids == (Clients \union {Anyone}) \X Numbers
Id(p) == <<IF shared THEN Anyone ELSE p[1], p[2]>>

\* The reply to a request, and what the server says of its own accord.
Response(p) == [type |-> "response", of |-> p]
Error(p) == [type |-> "error", of |-> p]
Cast == [type |-> "cast"]
ServerMessages == [type : {"response", "error"}, of : Posts] \union {Cast}
IsResponse(m) == m.type = "response"

TypeOK ==
    /\ shared \in BOOLEAN /\ up \in BOOLEAN
    /\ sent \in [Clients -> 0..MaxMessages]
    /\ kind \in [Posts -> Types]
    /\ outbox \in [Clients -> Seq(Numbers)]
    /\ sid \in [Clients -> Posts \union {None}]
    /\ stage \in [Posts -> {"none", "wire", "begun", "line", "over"}]
    /\ via \in [Posts -> Posts \union {None}]
    /\ pending \subseteq Posts /\ lost \subseteq Posts
    /\ got \in [Clients -> Seq([message : ServerMessages, to : 0..MaxMessages])]
    /\ current \in [Posts -> Posts \union {None}]
    /\ queue \in [Posts -> Seq(ServerMessages)]
    /\ line \in [Posts -> Seq(Posts)]
    /\ incoming \in Seq(Posts) /\ read \in 0..Len(incoming)
    /\ route \in [Ids -> Posts \union {None}]
    /\ running \subseteq Posts
    /\ casts \in Nat

Init ==
    /\ shared \in Sharing
    /\ sent = [c \in Clients |-> 0]
    /\ kind = [p \in Posts |-> "other"]
    /\ outbox = [c \in Clients |-> <<>>]
    /\ sid = [c \in Clients |-> None]
    /\ stage = [p \in Posts |-> "none"]
    /\ via = [p \in Posts |-> None]
    /\ pending = {} /\ lost = {}
    /\ got = [c \in Clients |-> <<>>]
    /\ current = [s \in Posts |-> None]
    /\ queue = [k \in Posts |-> <<>>]
    /\ line = [k \in Posts |-> <<>>]
    /\ incoming = <<>> /\ read = 0
    /\ route = [id \in Ids |-> None]
    /\ running = {}
    /\ casts = 0 /\ up = TRUE

-----------------------------------------------------------------------------
(* The client: its user, its http_task, and its timeouts. *)

Traffic == Cardinality({p \in Posts : p[2] <= sent[p[1]]}) + casts

Make(c, type) ==
    /\ sent[c] < MaxMessages
    /\ Traffic < MaxTraffic
    \* An error replies to a request of the server.
    /\ type = "error" => \E i \in DOMAIN got[c] : got[c][i].message = Cast
    /\ sent' = [sent EXCEPT ![c] = @ + 1]
    /\ kind' = [kind EXCEPT ![<<c, sent[c] + 1>>] = type]

\* The message leaves, with the session the client knows.
ToWire(p) ==
    /\ stage' = [stage EXCEPT ![p] = "wire"]
    /\ via' = [via EXCEPT ![p] = sid[p[1]]]
    /\ pending' = pending \union {p}

\* connect_http initializes first.
Send(c, type) ==
    /\ c \notin Foreign
    /\ sent[c] = 0 => type = "init"
    /\ Make(c, type)
    /\ outbox' = [outbox EXCEPT ![c] = Append(@, sent[c] + 1)]
    /\ UNCHANGED <<shared, sid, got, postVars, current, queue, serverVars>>

SendForeign(c, type) ==
    /\ c \in Foreign
    /\ Make(c, type)
    /\ ToWire(<<c, sent[c] + 1>>)
    /\ UNCHANGED <<shared, outbox, sid, lost, got, current, queue, line, serverVars>>

\* http_task takes its next message when it has seen to the one before.
Taking(c) ==
    /\ \A p \in pending : p[1] # c
    /\ outbox[c] # <<>>
    /\ outbox' = [outbox EXCEPT ![c] = Tail(@)]

\* Mutant: each message is POSTed by a task of its own.
PostAtOnce(c) ==
    /\ outbox[c] # <<>>
    /\ outbox' = [outbox EXCEPT ![c] = Tail(@)]
    /\ ToWire(<<c, Head(outbox[c])>>)
    /\ UNCHANGED <<shared, sent, kind, sid, lost, got, current, queue, line, serverVars>>

PostNext(c) ==
    /\ Taking(c)
    /\ ToWire(<<c, Head(outbox[c])>>)
    /\ UNCHANGED <<shared, sent, kind, sid, lost, got, current, queue, line, serverVars>>

\* No token: the message is dropped.
SkipMessage(c) ==
    /\ Taking(c)
    /\ UNCHANGED <<shared, sent, kind, sid, got, postVars, current, queue, serverVars>>

\* Mutant: the client's timeout covers the way to the server only.
GiveUpConnecting(p) ==
    /\ p \in pending /\ stage[p] = "wire"
    /\ pending' = pending \ {p}
    /\ lost' = lost \union {p}
    /\ UNCHANGED <<shared, clientVars, sid, stage, via, got, current, queue, line, serverVars>>

\* The connection breaks or the client's own timeout expires, wherever the POST is.
GiveUp(p) ==
    /\ p \in pending
    /\ pending' = pending \ {p}
    /\ lost' = lost \union {p}
    /\ UNCHANGED <<shared, clientVars, sid, stage, via, got, current, queue, line, serverVars>>

\* A message reaches the client of POST p, in the HTTP response to its message n
\* or, n being 0, on a stream.
Deliver(p, m, n) ==
    got' = [got EXCEPT ![p[1]] = Append(@, [message |-> m, to |-> n])]

\* It learns its session from the headers of the reply to initialize.
Learn(p) == sid' = IF kind[p] = "init" THEN [sid EXCEPT ![p[1]] = via[p]] ELSE sid

\* The handler of p is through, and the client has its HTTP response if it waits.
Over(p) ==
    /\ stage' = [stage EXCEPT ![p] = "over"]
    /\ pending' = pending \ {p}

-----------------------------------------------------------------------------
(* The server's handlers: handle_post, handle_get. *)

\* After a stop the channel has no reader, and handle_post ignores the error.
Forward(p) == incoming' = IF up THEN Append(incoming, p) ELSE incoming

\* While it waits, the handler of a request keeps its reference into the map of
\* sessions, and with it a lock that insert must wait for.
Guarded(s) == \E p \in Posts : stage[p] = "line" /\ kind[p] = "request" /\ via[p] = s

\* initialize makes a session, or makes the client's anew, with a new channel.
HandleInit(p) ==
    /\ stage[p] = "wire" /\ kind[p] = "init"
    /\ LET s == IF via[p] = None THEN p ELSE via[p] IN
        /\ ~Guarded(s)
        /\ via' = [via EXCEPT ![p] = s]
        /\ current' = [current EXCEPT ![s] = p]
    /\ Forward(p)
    /\ stage' = [stage EXCEPT ![p] = "begun"]
    /\ UNCHANGED <<shared, clientVars, sid, pending, lost, got, queue, line, read, route,
                   running, casts, up>>

HandleRequest(p) ==
    /\ stage[p] = "wire" /\ kind[p] \in {"request", "stream"} /\ via[p] # None
    /\ Forward(p)
    /\ stage' = [stage EXCEPT ![p] = "begun"]
    /\ UNCHANGED <<shared, clientVars, sid, via, pending, lost, got, current, queue, line,
                   read, route, running, casts, up>>

\* handle_get: nothing is forwarded.
HandleGet(p) ==
    /\ stage[p] = "wire" /\ kind[p] = "get" /\ via[p] # None
    /\ stage' = [stage EXCEPT ![p] = "begun"]
    /\ UNCHANGED <<shared, clientVars, sid, via, pending, lost, got, current, queue, line,
                   serverVars>>

\* 202 Accepted.
HandleOther(p) ==
    /\ stage[p] = "wire" /\ kind[p] = "other" /\ via[p] # None
    /\ Forward(p)
    /\ Over(p)
    /\ UNCHANGED <<shared, clientVars, sid, via, lost, got, current, queue, line, read,
                   route, running, casts, up>>

\* 400: there is no session, or it is the client that replies with an error.
Refuse(p) ==
    /\ stage[p] = "wire"
    /\ kind[p] = "error" \/ (kind[p] # "init" /\ via[p] = None)
    /\ Over(p)
    /\ UNCHANGED <<shared, clientVars, sid, via, lost, got, current, queue, line, serverVars>>

\* The handler asks for the lock of a receiver, which is handed over in order: of
\* the channel it has made, or else of the one its session has now.
Attach(p) ==
    /\ stage[p] = "begun"
    /\ LET k == IF kind[p] = "init" THEN p ELSE current[via[p]] IN
        line' = [line EXCEPT ![k] = Append(@, p)]
    /\ stage' = [stage EXCEPT ![p] = "line"]
    /\ UNCHANGED <<shared, clientVars, sid, via, pending, lost, got, current, queue,
                   serverVars>>

\* The holder of the receiver of k is one of these, and takes the next message.
Holds(k, kinds) == line[k] # <<>> /\ kind[Head(line[k])] \in kinds
Take(k) == queue[k] # <<>> /\ queue' = [queue EXCEPT ![k] = Tail(@)]
Release(k) == line' = [line EXCEPT ![k] = Tail(@)]

\* Mutant: the next message is sent but left in the queue.
ReplyPeeks(k) ==
    /\ Holds(k, Direct) /\ queue[k] # <<>> /\ queue' = queue
    /\ Release(k)
    /\ LET p == Head(line[k]) IN
        /\ Over(p)
        /\ IF p \in pending
           THEN Deliver(p, Head(queue[k]), p[2]) /\ Learn(p)
           ELSE UNCHANGED <<got, sid>>
    /\ UNCHANGED <<shared, clientVars, via, lost, current, serverVars>>

\* receiver.next(): the next message for the session, whatever it is, even if the
\* client has gone.
Reply(k) ==
    /\ Holds(k, Direct) /\ Take(k)
    /\ Release(k)
    /\ LET p == Head(line[k]) IN
        /\ Over(p)
        /\ IF p \in pending
           THEN Deliver(p, Head(queue[k]), p[2]) /\ Learn(p)
           ELSE UNCHANGED <<got, sid>>
    /\ UNCHANGED <<shared, clientVars, via, lost, current, serverVars>>

\* The same, but the body of the HTTP response is lost on its way.
ReplyCut(k) ==
    /\ Holds(k, Direct) /\ Take(k)
    /\ Release(k)
    /\ LET p == Head(line[k]) IN
        /\ p \in pending
        /\ Over(p) /\ Learn(p)
        /\ lost' = lost \union {p}
    /\ UNCHANGED <<shared, clientVars, via, got, current, serverVars>>

\* The stream in reply to a POST ends with the first response.
StreamNext(k) ==
    /\ Holds(k, Streams) /\ Take(k)
    /\ LET p == Head(line[k])
           m == Head(queue[k]) IN
        /\ IF p \in pending THEN Deliver(p, m, 0) ELSE UNCHANGED got
        /\ IF IsResponse(m) /\ kind[p] = "stream"
           THEN Over(p) /\ Release(k)
           ELSE UNCHANGED <<stage, pending, line>>
    /\ UNCHANGED <<shared, clientVars, sid, via, lost, current, serverVars>>

\* It ends too when the channel was replaced: the last sender is gone when the
\* initialize that made it is over.  The other handlers never see the end of a
\* channel: initialize has a sender of its own, and a request is Guarded.
StreamEnd(k) ==
    /\ Holds(k, Streams) /\ queue[k] = <<>>
    /\ current[via[k]] # k /\ stage[k] = "over"
    /\ Over(Head(line[k])) /\ Release(k)
    /\ UNCHANGED <<shared, clientVars, sid, via, lost, got, current, queue, serverVars>>

Without(q, i) == [j \in 1..(Len(q) - 1) |-> IF j < i THEN q[j] ELSE q[j + 1]]
Leave(k, i) == line' = [line EXCEPT ![k] = Without(@, i)]

\* 408: five seconds for initialize, thirty for other requests, with the lock or
\* without.
TimeOut(k, i) ==
    /\ kind[line[k][i]] \in Direct
    /\ Leave(k, i)
    /\ Over(line[k][i])
    /\ lost' = lost \union {line[k][i]}
    /\ UNCHANGED <<shared, clientVars, sid, via, got, current, queue, serverVars>>

\* Mutant: a handler that is dropped keeps its place.
DropKeepsPlace(k, i) ==
    /\ line[k][i] \notin pending
    /\ stage' = [stage EXCEPT ![line[k][i]] = "over"]
    /\ UNCHANGED <<shared, clientVars, sid, via, pending, lost, got, current, queue, line,
                   serverVars>>

\* The server notices that the client has gone, and drops the handler.
Drop(k, i) ==
    /\ line[k][i] \notin pending
    /\ Leave(k, i)
    /\ stage' = [stage EXCEPT ![line[k][i]] = "over"]
    /\ UNCHANGED <<shared, clientVars, sid, via, pending, lost, got, current, queue,
                   serverVars>>

-----------------------------------------------------------------------------
(* The server: HttpServerStream, as the server's loop uses it. *)

\* poll_next: a request is entered in request_sessions, over an equal id's entry.
Receive ==
    /\ up /\ read < Len(incoming)
    /\ read' = read + 1
    /\ LET p == incoming[read + 1] IN
        IF kind[p] \in Requests
        THEN /\ running' = running \union {p}
             /\ route' = [route EXCEPT ![Id(p)] = via[p]]
        ELSE UNCHANGED <<running, route>>
    /\ UNCHANGED <<shared, clientVars, sid, got, postVars, current, queue, incoming, casts, up>>

ToAll(m) ==
    queue' = [k \in Posts |-> IF \E s \in Posts : current[s] = k
                              THEN Append(queue[k], m) ELSE queue[k]]

\* Mutant: a response goes the way of everything else.
RespondToAll(p) ==
    /\ up
    /\ running' = running \ {p}
    /\ route' = [route EXCEPT ![Id(p)] = None]
    /\ ToAll(Response(p))
    /\ UNCHANGED <<shared, clientVars, sid, got, postVars, current, incoming, read, casts, up>>

\* start_send: a response takes the entry of its id, and goes nowhere without.
Respond(p) ==
    /\ up
    /\ running' = running \ {p}
    /\ route' = [route EXCEPT ![Id(p)] = None]
    /\ LET s == route[Id(p)] IN
        queue' = IF s # None THEN [queue EXCEPT ![current[s]] = Append(@, Response(p))]
                             ELSE queue
    /\ UNCHANGED <<shared, clientVars, sid, got, postVars, current, incoming, read, casts, up>>

\* start_send: an error goes to every session, and leaves the entry.
Fail(p) ==
    /\ up /\ Traffic < MaxTraffic
    /\ casts' = casts + 1
    /\ running' = running \ {p}
    /\ ToAll(Error(p))
    /\ UNCHANGED <<shared, clientVars, sid, got, postVars, current, incoming, read, route, up>>

\* A notification, or a request of the server's own.
SendToAll ==
    /\ up /\ Traffic < MaxTraffic
    /\ casts' = casts + 1
    /\ ToAll(Cast)
    /\ UNCHANGED <<shared, clientVars, sid, got, postVars, current, incoming, read, route,
                   running, up>>

\* ServerHandle::stop: the stream is dropped, and nothing is read any more.  The
\* listener stays.
Stop ==
    /\ up
    /\ up' = FALSE
    /\ route' = [id \in Ids |-> None]
    /\ running' = {}
    /\ UNCHANGED <<shared, clientVars, sid, got, postVars, current, queue, incoming, read,
                   casts>>

-----------------------------------------------------------------------------
ClientStep(c) ==
    \/ \E type \in {"init", "request", "other", "error"} : Send(c, type)
    \/ \E type \in ForeignTypes : SendForeign(c, type)
    \/ PostNext(c) \/ SkipMessage(c)

PostStep(p) ==
    \/ GiveUp(p) \/ HandleInit(p) \/ HandleRequest(p) \/ HandleGet(p) \/ HandleOther(p)
    \/ Refuse(p) \/ Attach(p)

ChannelStep(k) ==
    \/ Reply(k) \/ ReplyCut(k) \/ StreamNext(k) \/ StreamEnd(k)
    \/ \E i \in DOMAIN line[k] : TimeOut(k, i) \/ Drop(k, i)

ServerStep ==
    \/ Receive \/ SendToAll \/ Stop
    \/ \E p \in running : Respond(p) \/ Fail(p)

Next ==
    \/ ServerStep
    \/ \E c \in Clients : ClientStep(c)
    \/ \E p \in Posts : PostStep(p) \/ ChannelStep(p)

Spec == Init /\ [][Next]_vars

\* http_task is polled, and the client's timers expire.  Nothing is assumed of
\* foreign clients, of the wire, nor of the server.
FairSpec ==
    /\ Spec
    /\ \A c \in Clients \ Foreign :
        WF_vars(PostNext(c)) /\ \A n \in Numbers : WF_vars(GiveUp(<<c, n>>))

-----------------------------------------------------------------------------
(* Properties. *)

\* http.rs:525, "Route response to the correct session": responses wait in a
\* channel of the session their request came in.
RoutedAlways ==
    \A k \in Posts : \A i \in DOMAIN queue[k] :
        IsResponse(queue[k][i]) => via[queue[k][i].of] = via[k]

\* They do as long as no two clients use the same id, whatever else happens:
\* errors that leave their entry, POSTs that come late, sessions made anew.
Routed == ~shared => RoutedAlways

\* Even when ids are shared a response reaches only a client that has asked under
\* that id, in a request the server has read; and no client gets two with one id,
\* through POSTs or streams.
Asked(c, id) ==
    \E j \in 1..read : /\ incoming[j][1] = c /\ id = Id(incoming[j])
                       /\ kind[incoming[j]] \in Requests
OneResponse ==
    \A c \in Clients : \A i \in DOMAIN got[c] :
        IsResponse(got[c][i].message) =>
            /\ Asked(c, Id(got[c][i].message.of))
            /\ \A j \in DOMAIN got[c] \ {i} : IsResponse(got[c][j].message) =>
                Id(got[c][j].message.of) # Id(got[c][i].message.of)

\* No message is read twice.  A message of this library's client is read after a
\* later one only if its POST was given up: http_task goes on when a POST fails,
\* and the bytes of that one may still be on their way (http.rs:334).
InTurn(i, j) ==
    incoming[i][1] = incoming[j][1] =>
        /\ incoming[i] # incoming[j]
        /\ incoming[i][1] \notin Foreign /\ incoming[j][2] < incoming[i][2] =>
            incoming[j] \in lost
InOrder == \A i, j \in 1..read : i < j => InTurn(i, j)

\* http.rs:696, "Wait for response and return directly": what comes back with
\* the POST of a request is the response to it.  handle_post returns the next
\* message of the session, whatever it is; to this library's client it is the
\* response until something is sent to all sessions or one of its POSTs is given
\* up, if no two clients use one id.
Calm(c) == casts = 0 /\ \A p \in lost : p[1] # c
DirectWhenCalm ==
    ~shared => \A c \in Clients \ Foreign : Calm(c) =>
        \A i \in DOMAIN got[c] : got[c][i].to # 0 =>
            got[c][i].message = Response(<<c, got[c][i].to>>)

-----------------------------------------------------------------------------
(* The inductive invariant: what the properties above rest on. *)

Handled(p) == stage[p] \in {"begun", "line", "over"}

\* A POST, its session, its channel and who waits there are of one client; only
\* sessions that were made are known, each with a channel; and a handler waits in
\* one place.
SessionsOwned ==
    /\ \A c \in Clients : sid[c] # None => sid[c][1] = c /\ current[sid[c]] # None
    /\ \A p \in Posts :
        /\ via[p] # None => via[p][1] = p[1] /\ current[via[p]] # None
        /\ stage[p] \in {"begun", "line"} => via[p] # None
        /\ current[p] # None => Handled(current[p]) /\ via[current[p]] = p
    /\ \A id \in Ids : route[id] # None => current[route[id]] # None
    /\ \A c \in Clients \ Foreign : \A n \in Numbers : kind[<<c, n>>] \notin Streams
Lined ==
    /\ \A k \in Posts : \A i \in DOMAIN line[k] :
        line[k][i][1] = k[1] /\ stage[line[k][i]] = "line"
    /\ \A k, l \in Posts : \A i \in DOMAIN line[k], j \in DOMAIN line[l] :
        line[k][i] = line[l][j] => k = l /\ i = j

\* What waits in an outbox is ascending and later than what has left; http_task
\* waits for one POST; and a POST on the wire that has later ones beside it or
\* ahead of it has been given up.
Outboxes ==
    /\ \A p \in Posts : stage[p] # "none" => p[2] <= sent[p[1]]
    /\ \A c \in Foreign : outbox[c] = <<>>
    /\ \A c \in Clients : \A i \in DOMAIN outbox[c] :
        /\ outbox[c][i] <= sent[c]
        /\ \A n \in Numbers : stage[<<c, n>>] # "none" => n < outbox[c][i]
        /\ \A j \in DOMAIN outbox[c] : i < j => outbox[c][i] < outbox[c][j]
Waits ==
    /\ \A p \in pending : stage[p] \in {"wire", "begun", "line"}
    /\ \A p, q \in pending : p[1] = q[1] /\ p[1] \notin Foreign => p = q
Overtaken ==
    \A p, q \in Posts :
        /\ stage[p] = "wire" /\ p[1] \notin Foreign => p \in pending \union lost
        /\ stage[p] = "wire" /\ p[1] \notin Foreign /\ q[1] = p[1]
            /\ stage[q] # "none" /\ p[2] < q[2] => p \in lost
Arrived ==
    /\ \A i \in DOMAIN incoming : Handled(incoming[i])
    /\ \A i, j \in DOMAIN incoming : i < j => InTurn(i, j)

\* What the server deals with has got there.
Reached ==
    /\ \A p \in running : Handled(p)
    /\ \A k \in Posts : \A i \in DOMAIN queue[k] :
        Handled(k) /\ (IsResponse(queue[k][i]) => Handled(queue[k][i].of))

\* Where an id leads, and where a response is, the id has been asked under.
Answering ==
    /\ \A id \in Ids : route[id] # None => Asked(route[id][1], id)
    /\ \A k \in Posts : \A i \in DOMAIN queue[k] :
        IsResponse(queue[k][i]) => Asked(k[1], Id(queue[k][i].of))

\* A response with an id is to come, or in one of the client's channels, or has
\* reached the client; and there once.
SameResponse(m, id) == IsResponse(m) /\ Id(m.of) = id
ToCome(c, id) == route[id] # None /\ route[id][1] = c
HasGot(c, id) == \E i \in DOMAIN got[c] : SameResponse(got[c][i].message, id)
OnePlace ==
    /\ \A id \in Ids : route[id] # None => ~HasGot(route[id][1], id)
    /\ \A k \in Posts : \A i \in DOMAIN queue[k] :
        LET id == Id(queue[k][i].of) IN
        IsResponse(queue[k][i]) =>
            /\ ~ToCome(k[1], id) /\ ~HasGot(k[1], id)
            /\ \A l \in Posts : \A j \in DOMAIN queue[l] :
                l[1] = k[1] /\ SameResponse(queue[l][j], id) => l = k /\ j = i

\* The server's request and the entry of its id belong together.
RunningRouted == ~shared => \A p \in running : route[Id(p)] = via[p]

\* In calm, all that is under way for a client belongs to the POST that waits.
Conversation ==
    ~shared => \A c \in Clients \ Foreign : Calm(c) =>
        /\ \A n \in Numbers :
            stage[<<c, n>>] \in {"wire", "begun", "line"} => <<c, n>> \in pending
        /\ \A j \in DOMAIN incoming :
            j > read /\ incoming[j][1] = c /\ kind[incoming[j]] \in Requests =>
                incoming[j] \in pending
        /\ \A p \in running : p[1] = c => p \in pending
        /\ \A k \in Posts : k[1] = c => \A i \in DOMAIN queue[k] :
            /\ IsResponse(queue[k][i])
            /\ queue[k][i].of[1] = c /\ queue[k][i].of \in pending

\* It is inductive together with Routed, OneResponse and DirectWhenCalm.
HttpInv ==
    /\ TypeOK /\ SessionsOwned /\ Lined /\ Outboxes /\ Waits /\ Overtaken /\ Arrived
    /\ Reached /\ Answering /\ OnePlace /\ RunningRouted /\ Conversation

-----------------------------------------------------------------------------
(* Liveness. *)

\* http_task always gets to the next message: after a stop, and when the replies
\* it waits for go elsewhere or are lost.
MessagesTaken == \A c \in Clients \ Foreign : []<>(outbox[c] = <<>>)
=============================================================================
