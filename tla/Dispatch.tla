------------------------------ MODULE Dispatch ------------------------------
(***************************************************************************)
(* schema/jsonrpc.rs, schema/requests.rs, server.rs, client.rs, error.rs:  *)
(* what a JSON-RPC message is taken for, and what is replied to it.        *)
(*                                                                         *)
(* serde tries the variants of JSONRPCMessage in their order and takes the *)
(* first whose fields are all there; members it does not know it ignores.  *)
(* The method and params of a request become one object, which is read as  *)
(* a ClientRequest by a server and as a ServerRequest by a client; what    *)
(* went wrong is told by the text of serde's error.  Notifications are     *)
(* read in the same way.                                                   *)
(*                                                                         *)
(* A message is abstracted to what decides any of this.  Messages that     *)
(* this library sends are among them: their method is also a member of     *)
(* their params, under its own name, which changes nothing.                *)
(***************************************************************************)
EXTENDS Naturals, Sequences, SequencesExt

\* The readers are the two ends of a connection.  What each knows how to read:
\* ClientRequest and ServerRequest, ClientNotification and ServerNotification.
Requests(reader) ==
    IF reader = "server"
    THEN {"ping", "initialize", "completion/complete", "logging/setLevel", "prompts/get",
          "prompts/list", "resources/list", "resources/templates/list", "resources/read",
          "resources/subscribe", "resources/unsubscribe", "tools/call", "tools/list"}
    ELSE {"ping", "sampling/createMessage", "roots/list", "elicitation/create"}

Notifications(reader) ==
    {"notifications/cancelled", "notifications/progress"} \union
    IF reader = "server"
    THEN {"notifications/initialized", "notifications/roots/list_changed"}
    ELSE {"notifications/message", "notifications/resources/updated",
          "notifications/resources/list_changed", "notifications/tools/list_changed",
          "notifications/prompts/list_changed"}

Methods == UNION {Requests(reader) \union Notifications(reader) : reader \in {"server", "client"}}

\* Those without members, and those that require none.
Unit ==
    {"ping", "roots/list", "notifications/initialized", "notifications/roots/list_changed",
     "notifications/resources/list_changed", "notifications/tools/list_changed",
     "notifications/prompts/list_changed"}
Optional == {"prompts/list", "resources/list", "resources/templates/list", "tools/list"}

\* id: "odd" is null, a fraction, or a number beyond an i64.
\* method: "unheard" is none of the library's.
\* params: members that "fit" the method; one that it requires is "missing", or
\* one is of a wrong type; one holds an unknown "variant" of an enumeration, or
\* is called "method"; "meta" has a progress token that is none; a "list" is no
\* object at all.
\* form: "requests" and "responses" are batches.
\* tool and arguments: of a tools/call whose params fit.
WireMessages ==
    [form : {"object", "requests", "responses"}, id : {"none", "valid", "odd"},
     method : Methods \union {"none", "unheard"},
     params : {"none", "fit", "missing", "variant", "method", "meta", "list"},
     result : {"none", "object", "other"}, error : BOOLEAN,
     tool : STRING, arguments : {"none", "fit", "misfit"}]

Call(id, method, params) ==
    [form |-> "object", id |-> id, method |-> method, params |-> params,
     result |-> "none", error |-> FALSE, tool |-> "none", arguments |-> "none"]
ToolCall(tool, arguments) ==
    [Call("valid", "tools/call", "fit") EXCEPT !.tool = tool, !.arguments = arguments]
Batch(form) == [Call("none", "none", "none") EXCEPT !.form = form]
Result(result) == [Call("valid", "none", "none") EXCEPT !.result = result]
ErrorReply(id) == [Call(id, "none", "none") EXCEPT !.error = TRUE]

-----------------------------------------------------------------------------
(* JSONRPCMessage, an untagged enum. *)

Variants == <<"Request", "Notification", "BatchRequest", "Response", "Error",
              "BatchResponse">>

\* The fields of this variant are all there, and of their types.
Matches(m, variant) ==
    \/ /\ variant = "Request" /\ m.form = "object" /\ m.id = "valid"
       /\ m.method # "none" /\ m.params \notin {"meta", "list"}
    \/ /\ variant = "Notification" /\ m.form = "object"
       /\ m.method # "none" /\ m.params # "list"
    \/ variant = "BatchRequest" /\ m.form = "requests"
    \/ variant = "Response" /\ m.form = "object" /\ m.id = "valid" /\ m.result = "object"
    \/ variant = "Error" /\ m.form = "object" /\ m.id = "valid" /\ m.error
    \/ variant = "BatchResponse" /\ m.form = "responses"

\* Mutant: notifications are tried first.
VariantNotificationFirst(m) ==
    LET order == <<"Notification", "Request">> \o SubSeq(Variants, 3, 6)
        k == SelectInSeq(order, LAMBDA variant : Matches(m, variant))
    IN IF k = 0 THEN "none" ELSE order[k]

\* The variant a message is read as, or "none" and decoding it is an error.
Variant(m) ==
    LET k == SelectInSeq(Variants, LAMBDA variant : Matches(m, variant))
    IN IF k = 0 THEN "none" ELSE Variants[k]

-----------------------------------------------------------------------------
(* handle_request. *)

MethodNotFound == "-32601"
InvalidParams == "-32602"
InvalidRequest == "-32600"
ParseError == "-32700"
InternalError == "-32603"

\* Error::to_jsonrpc_response, and INTERNAL_ERROR for the errors it leaves out.
Code(error) ==
    IF error \in {"ToolNotFound", "MethodNotFound"} THEN MethodNotFound
    ELSE IF error = "InvalidParams" THEN InvalidParams
    ELSE IF error = "InvalidRequest" THEN InvalidRequest
    ELSE IF error \in {"JsonParse", "InvalidMessageFormat"} THEN ParseError
    ELSE InternalError

\* A member "method" of the params replaces the method; here it says "ping".
MethodCalled(m) == IF m.params = "method" THEN "ping" ELSE m.method

\* What serde makes of the object: unit variants take any members.
ReadError(m, known) ==
    LET method == MethodCalled(m)
        fits == \/ m.params = "fit" \/ method \in Unit
                \/ method \in Optional /\ m.params = "none" IN
    IF method \in known /\ fits THEN "none"
    ELSE IF method \notin known \/ m.params = "variant" THEN "unknown variant"
    ELSE "missing field"

\* What a handler does is an outcome: the error it returns, or "none", and the
\* result.
ReplyTo(outcome) ==
    [code |-> IF outcome.error = "none" THEN "ok" ELSE Code(outcome.error),
     result |-> outcome.result]

\* The replies to a request, one for each thing its handler may do.
HandleRequest(m, reader, outcomes) ==
    LET error == ReadError(m, Requests(reader))
        Refused(as) == {ReplyTo([error |-> as, result |-> {}])} IN
    IF error = "unknown variant" THEN Refused("MethodNotFound")
    ELSE IF error = "missing field" THEN Refused("InvalidParams")
    ELSE {ReplyTo(o) : o \in outcomes}

\* A notification reaches its callback if it can be read.
Reaches(m, reader) == ReadError(m, Notifications(reader)) = "none"
=============================================================================
