--------------------------- MODULE RequestHandler ---------------------------
(***************************************************************************)
(* request_handler.rs: the table that pairs outgoing JSON-RPC requests     *)
(* with the replies read by the connection's main loop.                    *)
(*                                                                         *)
(* Clones of one RequestHandler share the id counter (an AtomicU64) and    *)
(* the pending table (a DashMap of oneshot senders), so any number of      *)
(* tasks run `request` at once while the main loop runs handle_response    *)
(* and handle_error.  A step of this model is the code between two points  *)
(* where another thread can observe or change the shared state.            *)
(*                                                                         *)
(* A oneshot channel is its two ends: the sender is the table's entry,     *)
(* which names the caller that holds the receiver, or Gone once that       *)
(* receiver was dropped; the value sent is chan[c].                        *)
(*                                                                         *)
(* The peer is external.  It answers requests it has received, in any      *)
(* order and possibly more than once, and may send a reply whose id is     *)
(* none of this handler's (a numeric id, or the prefix of another).        *)
(***************************************************************************)
EXTENDS Naturals, Sequences

CONSTANTS
    Callers,    \* tasks holding a clone of the handler
    MaxCalls,   \* bound: calls made in a behaviour (ids never wrap a u64)
    MaxInbox,   \* bound: replies on their way at once
    Absent,     \* "no entry in the pending table"
    Gone,       \* an entry whose receiver was dropped
    Nobody      \* the sink's mutex is free

ASSUME BoundsAssumption == MaxCalls \in Nat /\ MaxInbox \in Nat

ASSUME MarkersAssumption ==
    /\ Absent \notin Callers /\ Gone \notin Callers /\ Nobody \notin Callers
    /\ Absent # Gone

VARIABLES
    transport,  \* transport_tx: "none", or a sink whose connection is "up" or "down"
    nextId,     \* next_request_id
    pending,    \* pending_requests: id -> caller holding the receiver, Gone or Absent
    sink,       \* holder of the transport's mutex
    pc,         \* caller -> how far its `request` has come
    id,         \* caller -> the id of its request
    chan,       \* caller -> the value in its oneshot channel
    calls,      \* number of calls begun; also the argument that tells calls apart
    serial,     \* caller -> the number of its current call
    sent,       \* requests on the wire or received by the peer
    inbox,      \* replies on their way to handle_response / handle_error
    said,       \* which calls the peer has answered so far, and how
    outcome     \* call -> what `request` returned

handlerVars == <<nextId, pending>>
callerVars == <<pc, id, chan, calls, serial, outcome>>
peerVars == <<sent, inbox, said>>
vars == <<transport, sink, handlerVars, callerVars, peerVars>>

-----------------------------------------------------------------------------
Ids == 1..MaxCalls
Serials == 1..MaxCalls
Kinds == {"response", "error"}

ForeignId == 0      \* an id that is not "<prefix>-<n>" for any n used here
Empty == [kind |-> "empty", id |-> 0, serial |-> 0]

Requests == [id : Ids, serial : Serials]
Replies == [kind : Kinds, id : Ids \union {ForeignId}, serial : Serials \union {0}]
Outcomes == {"open", "dropped", "failed", "closed"} \union Kinds

\* Places where the future of `request` is suspended and can be dropped.
AwaitPoints == {"stored", "sending", "waiting"}
PCs == {"idle", "numbered"} \union AwaitPoints

TypeOK ==
    /\ transport \in {"none", "up", "down"}
    /\ nextId \in 1..(MaxCalls + 1)
    /\ pending \in [Ids -> Callers \union {Gone, Absent}]
    /\ sink \in Callers \union {Nobody}
    /\ pc \in [Callers -> PCs]
    /\ id \in [Callers -> Ids \union {0}]
    /\ chan \in [Callers -> Replies \union {Empty}]
    /\ calls \in 0..MaxCalls
    /\ serial \in [Callers -> Serials \union {0}]
    /\ sent \subseteq Requests
    /\ inbox \in Seq(Replies)
    /\ said \subseteq [serial : Serials, kind : Kinds]
    /\ outcome \in [Serials -> Outcomes]

Init ==
    /\ transport = "none"
    /\ nextId = 1
    /\ pending = [i \in Ids |-> Absent]
    /\ sink = Nobody
    /\ pc = [c \in Callers |-> "idle"]
    /\ id = [c \in Callers |-> 0]
    /\ chan = [c \in Callers |-> Empty]
    /\ calls = 0
    /\ serial = [c \in Callers |-> 0]
    /\ sent = {}
    /\ inbox = <<>>
    /\ said = {}
    /\ outcome = [n \in Serials |-> "open"]

-----------------------------------------------------------------------------
(* The caller: `request`. *)

\* Mutant: the counter is read but not advanced.
NextRequestIdKept(c) ==
    /\ pc[c] = "idle"
    /\ calls < MaxCalls
    /\ calls' = calls + 1
    /\ serial' = [serial EXCEPT ![c] = calls + 1]
    /\ id' = [id EXCEPT ![c] = nextId]
    /\ pc' = [pc EXCEPT ![c] = "numbered"]
    /\ UNCHANGED <<transport, sink, handlerVars, chan, outcome, peerVars>>

\* fetch_add(1): reading and incrementing the counter are one step.
NextRequestId(c) ==
    /\ pc[c] = "idle"
    /\ calls < MaxCalls
    /\ calls' = calls + 1
    /\ serial' = [serial EXCEPT ![c] = calls + 1]
    /\ id' = [id EXCEPT ![c] = nextId]
    /\ nextId' = nextId + 1
    /\ pc' = [pc EXCEPT ![c] = "numbered"]
    /\ UNCHANGED <<transport, sink, pending, chan, outcome, peerVars>>

\* DashMap::insert: an entry already there is replaced, and its sender dropped.
StorePending(c) ==
    /\ pc[c] = "numbered"
    /\ pending' = [pending EXCEPT ![id[c]] = c]
    /\ pc' = [pc EXCEPT ![c] = "stored"]
    /\ UNCHANGED <<transport, sink, nextId, id, chan, calls, serial, outcome,
                   peerVars>>

\* The call returns `result`.  Returning, or dropping the future, drops the
\* receiver: an entry still in the table is now a sender nobody listens to.
Dismissed(c) == [i \in Ids |-> IF pending[i] = c THEN Gone ELSE pending[i]]

Return(c, result) ==
    /\ outcome' = [outcome EXCEPT ![serial[c]] = result]
    /\ pc' = [pc EXCEPT ![c] = "idle"]
    /\ chan' = [chan EXCEPT ![c] = Empty]
    /\ UNCHANGED <<transport, nextId, id, calls, serial, peerVars>>

\* send_message without a transport.
NotConnected(c) ==
    /\ pc[c] = "stored"
    /\ transport = "none"
    /\ pending' = Dismissed(c)
    /\ Return(c, "failed")
    /\ UNCHANGED sink

LockSink(c) ==
    /\ pc[c] = "stored"
    /\ transport # "none"
    /\ sink = Nobody
    /\ sink' = c
    /\ pc' = [pc EXCEPT ![c] = "sending"]
    /\ UNCHANGED <<transport, handlerVars, id, chan, calls, serial, outcome,
                   peerVars>>

SendRequest(c) ==
    /\ pc[c] = "sending"
    /\ transport = "up"
    /\ sent' = sent \union {[id |-> id[c], serial |-> serial[c]]}
    /\ sink' = Nobody
    /\ pc' = [pc EXCEPT ![c] = "waiting"]
    /\ UNCHANGED <<transport, handlerVars, id, chan, calls, serial, outcome,
                   inbox, said>>

\* The `?` on send_message: `request` returns and leaves its entry behind.
SendFails(c) ==
    /\ pc[c] = "sending"
    /\ transport = "down"
    /\ sink' = Nobody
    /\ pending' = Dismissed(c)
    /\ Return(c, "failed")

\* No sender is left for the channel c waits on.
SenderDropped(c) == chan[c] = Empty /\ \A i \in Ids : pending[i] # c

\* rx.await yields.  A channel closed without a value is reported as an error,
\* and only then does `request` remove its own entry.
Resume(c) ==
    /\ pc[c] = "waiting"
    /\ chan[c] # Empty \/ SenderDropped(c)
    /\ pending' = IF chan[c] = Empty
                  THEN [Dismissed(c) EXCEPT ![id[c]] = Absent]
                  ELSE Dismissed(c)
    /\ Return(c, IF chan[c] = Empty THEN "closed" ELSE chan[c].kind)
    /\ UNCHANGED sink

\* Mutant: a dropped future keeps the sink's guard.
DropRequestLocked(c) ==
    /\ pc[c] \in AwaitPoints
    /\ pending' = Dismissed(c)
    /\ Return(c, "dropped")
    /\ UNCHANGED sink

\* A timeout or a select! drops the future at one of its await points.
DropRequest(c) ==
    /\ pc[c] \in AwaitPoints
    /\ sink' = IF sink = c THEN Nobody ELSE sink
    /\ pending' = Dismissed(c)
    /\ Return(c, "dropped")

\* Mutant: connecting again starts the ids from 1.
SetTransportReset ==
    /\ transport # "up"
    /\ \A c \in Callers : pc[c] = "idle"
    /\ transport' = "up"
    /\ nextId' = 1
    /\ UNCHANGED <<sink, pending, callerVars, peerVars>>

\* connect: `&mut self`, so none of this handle's own requests is running.
SetTransport ==
    /\ transport # "up"
    /\ \A c \in Callers : pc[c] = "idle"
    /\ transport' = "up"
    /\ UNCHANGED <<sink, handlerVars, callerVars, peerVars>>

-----------------------------------------------------------------------------
(* The main loop: handle_response and handle_error. *)

\* remove(id), then tx.send: a value for a dropped receiver is thrown away.
Deliver(reply) ==
    IF reply.id \in Ids /\ pending[reply.id] # Absent
    THEN /\ pending' = [pending EXCEPT ![reply.id] = Absent]
         /\ chan' = IF pending[reply.id] = Gone THEN chan
                    ELSE [chan EXCEPT ![pending[reply.id]] = reply]
    ELSE UNCHANGED <<pending, chan>>

TakeReply(kind) ==
    /\ inbox # <<>>
    /\ Head(inbox).kind = kind
    /\ inbox' = Tail(inbox)
    /\ Deliver(Head(inbox))
    /\ UNCHANGED <<transport, sink, nextId, pc, id, calls, serial, outcome,
                   sent, said>>

HandleResponse == TakeReply("response")

HandleError == TakeReply("error")

-----------------------------------------------------------------------------
(* The peer and the connection. *)

\* The peer answers the argument it was given, under the id it was given.
PeerReplies(request, kind) ==
    /\ transport = "up"
    /\ request \in sent
    /\ Len(inbox) < MaxInbox
    /\ inbox' = Append(inbox, [kind |-> kind, id |-> request.id,
                               serial |-> request.serial])
    /\ said' = said \union {[serial |-> request.serial, kind |-> kind]}
    /\ UNCHANGED <<transport, sink, handlerVars, callerVars, sent>>

\* A reply that belongs to another handler on this connection: a ClientCtx
\* and its Client are two handlers whose replies meet in one main loop.
PeerRepliesToOther(kind) ==
    /\ transport = "up"
    /\ Len(inbox) < MaxInbox
    /\ inbox' = Append(inbox, [kind |-> kind, id |-> ForeignId, serial |-> 0])
    /\ UNCHANGED <<transport, sink, handlerVars, callerVars, sent, said>>

\* The connection breaks: of the replies on their way an arbitrary prefix is
\* still handled.  A request lost on the wire is one the peer never answers.
LinkDown ==
    /\ transport = "up"
    /\ transport' = "down"
    /\ \E k \in 0..Len(inbox) : inbox' = SubSeq(inbox, 1, k)
    /\ UNCHANGED <<sink, handlerVars, callerVars, sent, said>>

-----------------------------------------------------------------------------
CallerStep(c) ==
    \/ NextRequestId(c) \/ StorePending(c) \/ NotConnected(c) \/ LockSink(c)
    \/ SendRequest(c) \/ SendFails(c) \/ Resume(c) \/ DropRequest(c)

PeerStep ==
    \/ \E request \in sent, kind \in Kinds : PeerReplies(request, kind)
    \/ \E kind \in Kinds : PeerRepliesToOther(kind)
    \/ LinkDown

Next ==
    \/ \E c \in Callers : CallerStep(c)
    \/ SetTransport
    \/ HandleResponse
    \/ HandleError
    \/ PeerStep

Spec == Init /\ [][Next]_vars

-----------------------------------------------------------------------------
(* Fairness: spawned tasks are polled when they can proceed, the main loop   *)
(* keeps reading, and the tokio mutex is handed over in FIFO order, so a     *)
(* task that waits for the sink gets it although others take it in between.  *)
(* A send that is not refused completes; stalls of both ends of a full pipe    *)
(* are a matter of the connection, not of this table.                        *)
LocalFairness ==
    /\ \A c \in Callers :
        /\ WF_vars(StorePending(c)) /\ WF_vars(NotConnected(c))
        /\ SF_vars(LockSink(c))
        /\ WF_vars(SendRequest(c)) /\ WF_vars(SendFails(c))
        /\ WF_vars(Resume(c))
    /\ WF_vars(HandleResponse) /\ WF_vars(HandleError)

\* A peer that answers every request it receives; a full inbox may delay it.
PeerFairness ==
    \A request \in Requests :
        SF_vars(\E kind \in Kinds : PeerReplies(request, kind))

FairSpec == Spec /\ LocalFairness

FairPeerSpec == FairSpec /\ PeerFairness

-----------------------------------------------------------------------------
(* Properties. *)

\* A reply reaches only the call whose request it answers: the argument it was
\* computed from is the argument that caller's current call was given.  Late
\* replies to dropped calls and duplicates never leak into a later call.
OwnReply == \A c \in Callers : chan[c] # Empty => chan[c].serial = serial[c]

\* While `request` is suspended its sender is in the table or has been used:
\* nobody drops it, so the "Response channel closed" branch is never taken.
SenderNeverDropped ==
    \A c \in Callers : pc[c] \in AwaitPoints => ~SenderDropped(c)

\* Of several replies to one request the first one handled decides the result.
FirstReplyWins ==
    [][\A c \in Callers :
        chan[c] # Empty => chan'[c] = chan[c] \/ pc'[c] = "idle"]_vars

\* The handler implements the abstract calls: outcomes are answers the peer
\* gave to that very call, each call ends once, and a caller has one at a time.
Abs == INSTANCE RpcCall
         WITH current <- [c \in Callers |-> IF pc[c] = "idle" THEN 0 ELSE serial[c]]

ImplementsRpcCall == Abs!AbsSpec

\* With a peer that answers, every call that was begun ends, unless the
\* connection breaks: no wake-up is lost, and no caller is left behind by the
\* others' lock or drops.
CallsEnd ==
    \A n \in Serials : (n <= calls) ~> (outcome[n] # "open" \/ transport = "down")

-----------------------------------------------------------------------------
(* The inductive invariant behind the properties above.                      *)

\* Ids are the numbers of the calls, and no two calls in progress share one.
Numbered ==
    /\ nextId = calls + 1
    /\ \A c \in Callers :
        pc[c] # "idle" => /\ serial[c] \in 1..calls
                          /\ id[c] = serial[c]
                          /\ outcome[serial[c]] = "open"
    /\ \A c, d \in Callers :
        pc[c] # "idle" /\ pc[d] # "idle" /\ serial[c] = serial[d] => c = d

\* Nothing is known of an id before the counter gives it out.
Fresh ==
    \A n \in Serials : n > calls => pending[n] = Absent /\ outcome[n] = "open"

\* The live entries of the table are the suspended requests without a value.
Table ==
    /\ \A i \in Ids :
        pending[i] \in Callers => /\ pc[pending[i]] \in AwaitPoints
                                  /\ id[pending[i]] = i
                                  /\ chan[pending[i]] = Empty
    /\ \A c \in Callers :
        /\ pc[c] \in AwaitPoints /\ chan[c] = Empty => pending[id[c]] = c
        /\ pc[c] \notin AwaitPoints => chan[c] = Empty

Answered(reply) ==
    /\ reply.id = reply.serial
    /\ [serial |-> reply.serial, kind |-> reply.kind] \in said

\* What is on the wire belongs to a call that was made, what comes back to a
\* call that was answered.
Wire ==
    /\ \A request \in sent : request.id = request.serial /\ request.serial \in 1..calls
    /\ \A k \in 1..Len(inbox) : inbox[k].id # ForeignId => Answered(inbox[k])
    /\ \A c \in Callers :
        chan[c] # Empty => chan[c].serial = serial[c] /\ Answered(chan[c])

\* TypeOK strengthened until every step preserves it.
IInv == TypeOK /\ Numbered /\ Fresh /\ Table /\ Wire
=============================================================================
