---------------------------- MODULE MessageIntake ----------------------------
(***************************************************************************)
(* The way of a message into a server or a client: bytes, lines            *)
(* (JsonRpcCodec), kinds and methods (Dispatch), the functions of a server *)
(* (ToolServer) or of a client (ClientConn), and the reply they lead to.   *)
(*                                                                         *)
(* A reply is made as its request is read.  A client does so; that the     *)
(* handlers of a server run in tasks of their own, and when replies are    *)
(* sent, is left to ServerConnection.                                      *)
(***************************************************************************)
EXTENDS JsonRpcCodec, ToolServer

CONSTANTS
    Heard,      \* messages sent to each reader
    Overridden  \* requests for which the client has a handler of its own

VARIABLES
    reader,     \* "server" or "client", for good
    replies,    \* replies made, and to which message read
    handed      \* messages given to the notification callback or the request handler

intakeVars == <<vars, reader, replies, handed>>

\* Lines that parse are those serde finds a variant for.  A message has a method
\* or a result or error.
ASSUME IntakeAssumption ==
    /\ \A m \in Messages : m \in WireMessages /\ Variant(m) # "none"
    /\ \A m \in Garbage : m \in WireMessages /\ Variant(m) = "none"
    /\ \A m \in Messages : m.method = "none" \/ (m.result = "none" /\ ~m.error)
    /\ Heard \in [{"server", "client"} -> SUBSET Messages]
    /\ Overridden \subseteq Requests("client")
    /\ Block \in Seq(Functions) /\ Attribute \in Seq(STRING \X STRING)
    /\ Expands

Codes == {"ok", MethodNotFound, InvalidParams, InvalidRequest, ParseError, InternalError}

\* What a result may name.
Names == {"default"} \union {f.name : f \in Tools} \union InitializeFn \union Overridden

IntakeTypeOK ==
    /\ TypeOK
    /\ reader \in {"server", "client"}
    /\ replies \in Seq([to : 1..MaxLines, code : Codes, result : SUBSET Names])
    /\ handed \in Seq([to : {"callback", "response", "error"}, message : 1..MaxLines])

IntakeInit == Init /\ reader \in {"server", "client"} /\ replies = <<>> /\ handed = <<>>

\* What ClientConn may do with a request that has been read.
ClientOutcomes(m) ==
    LET method == MethodCalled(m) IN
    IF method \in Overridden THEN Ran(method)
    ELSE IF method = "ping" THEN {Outcome("none", {})}
    ELSE {Outcome("InvalidRequest", {})}

Served(m) == IF reader = "server" THEN Outcomes(m) ELSE ClientOutcomes(m)

\* The n-th message.  Only a request is replied to; of batches the log says that
\* they are not supported.
HandleMessage(m, n) ==
    \/ /\ Variant(m) = "Request"
       /\ \E reply \in HandleRequest(m, reader, Served(m)) :
            replies' = Append(replies, [to |-> n, code |-> reply.code, result |-> reply.result])
       /\ UNCHANGED handed
    \/ /\ Variant(m) = "Notification" /\ Reaches(m, reader)
       /\ handed' = Append(handed, [to |-> "callback", message |-> n])
       /\ UNCHANGED replies
    \/ /\ Variant(m) \in {"Response", "Error"}
       /\ handed' = Append(handed, [to |-> IF Variant(m) = "Error" THEN "error" ELSE "response",
                                    message |-> n])
       /\ UNCHANGED replies
    \/ /\ \/ Variant(m) \in {"BatchRequest", "BatchResponse"}
          \/ Variant(m) = "Notification" /\ ~Reaches(m, reader)
       /\ UNCHANGED <<replies, handed>>

TakeFrame ==
    /\ DecodeLine
    /\ IF out' = out THEN UNCHANGED <<replies, handed>> ELSE HandleMessage(Last(out'), Len(out'))
    /\ UNCHANGED reader

ReadOn ==
    /\ DecodeNone \/ DecodeEof \/ ReadBytes \/ ReadNothing
    /\ UNCHANGED <<reader, replies, handed>>

PeerStep ==
    /\ Close \/ \E line \in Lines : Encode(line) /\ line[1] \notin Messages \ Heard[reader]
    /\ UNCHANGED <<reader, replies, handed>>

IntakeNext == TakeFrame \/ ReadOn \/ PeerStep

IntakeSpec == IntakeInit /\ [][IntakeNext]_intakeVars

\* The main loop polls the stream whenever it can make progress.
FairIntakeSpec == IntakeSpec /\ WF_intakeVars(TakeFrame) /\ WF_intakeVars(ReadOn)

-----------------------------------------------------------------------------
(* Properties. *)

\* Replies are to messages that have been read, and so is what was handed on.
IntakeInv ==
    /\ CodecInv /\ IntakeTypeOK
    /\ \A k \in DOMAIN replies : replies[k].to \in DOMAIN out
    /\ \A k \in DOMAIN handed : handed[k].message \in DOMAIN out

\* A request has an id and a method.  These the code reads as notifications,
\* since their id is no RequestId, or their progress token none.
Asks(m) == m.form = "object" /\ m.id # "none" /\ m.method # "none"
Misread(m) == m.id = "odd" \/ m.params = "meta"

\* What a request deserves, by its method and parameters and the functions of the
\* reader: a code, and whether it is the tool's own.
Marked == {Block[k].name : k \in {k \in DOMAIN Block : Block[k].tool}}
Requiring == {Block[k].name : k \in {k \in DOMAIN Block : Block[k].requires}}
OfFunction == {"ok"} \union {Code(e) : e \in HandlerErrors}
Reply(codes, result) == [code : codes, result : {result}]
Fits(m) ==
    m.params = "fit" \/ m.method \in Unit \/ (m.method \in Optional /\ m.params = "none")

ToolDeserved(m) ==
    IF m.tool \notin Marked THEN Reply({MethodNotFound}, {})
    ELSE IF m.arguments = "fit" \/ (m.arguments = "none" /\ m.tool \notin Requiring)
    THEN Reply(OfFunction, {m.tool})
    ELSE Reply({InvalidParams}, {})

ServerDeserved(m) ==
    IF m.method = "tools/call" THEN ToolDeserved(m)
    ELSE IF m.method = "tools/list" THEN Reply({"ok"}, Marked)
    ELSE IF m.method = "initialize" /\ Attribute = <<>> THEN Reply({"ok"}, {"default"})
    ELSE IF m.method = "initialize" THEN Reply(OfFunction, {Attribute[Len(Attribute)][2]})
    ELSE IF m.method \in {"resources/read", "prompts/get"} THEN Reply({InternalError}, {})
    ELSE Reply({"ok"}, {})

ClientDeserved(m) ==
    IF m.method \in Overridden THEN Reply(OfFunction, {m.method})
    ELSE IF m.method = "ping" THEN Reply({"ok"}, {})
    ELSE Reply({InvalidRequest}, {})

Deserved(m) ==
    IF m.method \notin Requests(reader) THEN Reply({MethodNotFound}, {})
    ELSE IF ~Fits(m) THEN Reply({InvalidParams}, {})
    ELSE IF reader = "server" THEN ServerDeserved(m) ELSE ClientDeserved(m)

\* Four are judged otherwise: server.rs:525 and client.rs:538 tell an unknown
\* method by the words "unknown variant" in serde's error, which an unknown log
\* level or role brings about as well; a parameter called method replaces the
\* method; a tool is refused a call without arguments though it require none
\* (lib.rs:283); and an argument of the attribute that the macro does not know is
\* passed over with all the others (lib.rs:454).
Misjudged(m) ==
    \/ m.params \in {"variant", "method"}
    \/ m.method = "tools/call" /\ m.tool \in Marked \ Requiring /\ m.arguments = "none"
    \/ m.method = "initialize" /\ \E k \in DOMAIN Attribute : Attribute[k][1] # "initialize_fn"

\* Who should hear of a message that is no request.
Hears(m) ==
    IF m.form # "object" THEN "nobody"
    ELSE IF m.method \in Notifications(reader) /\ Fits(m) THEN "callback"
    ELSE IF m.result = "object" THEN "response"
    ELSE IF m.error THEN "error"
    ELSE "nobody"

\* At a server and at a client: every request that is read gets one reply, the one
\* it deserves, and nothing else gets any, whatever the order in which serde tries
\* the kinds.  Notifications reach the callback, and results and errors the calls
\* that wait, once each.  So the tools a server lists are those that can be called.
AnsweredAs(m, to) ==
    IF Asks(m) /\ ~Misread(m)
    THEN \E k \in DOMAIN replies :
            /\ to = {k}
            /\ Misjudged(m) \/ [code |-> replies[k].code, result |-> replies[k].result] \in Deserved(m)
    ELSE to = {}
HeardAs(m, by) ==
    IF (Asks(m) /\ ~Misread(m)) \/ Hears(m) = "nobody" THEN by = {}
    ELSE \/ m.params = "method" /\ by = {}
         \/ \E k \in DOMAIN handed : by = {k} /\ handed[k].to = Hears(m)
RequestsAnswered ==
    \A n \in DOMAIN out :
        /\ AnsweredAs(out[n], {k \in DOMAIN replies : replies[k].to = n})
        /\ HeardAs(out[n], {k \in DOMAIN handed : handed[k].message = n})
=============================================================================
