--------------------------- MODULE MCMessageIntake ---------------------------
(***************************************************************************)
(* MessageIntake for TLC: one message of each kind the code treats apart.  *)
(***************************************************************************)
EXTENDS MessageIntake

ToServer ==
    {Call("valid", "ping", "none"), Call("valid", "unheard", "none"),
     Call("valid", "initialize", "fit"), Call("valid", "tools/list", "none"),
     Call("valid", "tools/list", "missing"),
     ToolCall("echo", "fit"), ToolCall("echo", "misfit"), ToolCall("now", "none"),
     ToolCall("helper", "fit"),
     Call("valid", "logging/setLevel", "variant"), Call("valid", "tools/call", "method"),
     Call("odd", "ping", "none"), Call("valid", "tools/call", "meta"),
     Call("none", "notifications/initialized", "none"), Batch("requests")}

ToClient ==
    {Call("valid", "elicitation/create", "fit"), Call("valid", "elicitation/create", "missing"),
     Call("valid", "roots/list", "none"), Call("valid", "initialize", "fit"),
     Call("none", "notifications/message", "fit"), Call("none", "notifications/message", "missing"),
     Call("none", "notifications/initialized", "none"), Result("object"), ErrorReply("valid")}

ByReader == [server |-> ToServer, client |-> ToClient]

Parsed == ToServer \union ToClient
Unparsed == {Call("valid", "tools/call", "list"), ErrorReply("odd")}

Fn(name, tool, inputs, requires) ==
    [name |-> name, tool |-> tool, async |-> TRUE, inputs |-> inputs, returns |-> TRUE,
     requires |-> requires]
Params(n) == <<"self">> \o [k \in 1..n |-> "typed"]

ByName == << <<"initialize_fn", "setup">> >>
Source ==
    <<Fn("setup", FALSE, Params(4), FALSE), Fn("echo", TRUE, Params(2), TRUE),
      Fn("helper", FALSE, Params(2), FALSE), Fn("now", TRUE, Params(2), FALSE)>>
=============================================================================
