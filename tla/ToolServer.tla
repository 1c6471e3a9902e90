----------------------------- MODULE ToolServer -----------------------------
(***************************************************************************)
(* macros/src/lib.rs: the server that #[mcp_server] makes of an impl block *)
(* and its attribute, with the defaults of ServerConn (connection.rs) for  *)
(* what it does not make.                                                  *)
(*                                                                         *)
(* A function of the block is abstracted to what the macro looks at: its   *)
(* name, whether #[tool] marks it, its signature, and of the type of a     *)
(* tool's params whether it has required fields.  What reaches the caller  *)
(* is an outcome: the error returned, or "none", and a result, a set of    *)
(* names, those listed or that of the function that has run.               *)
(***************************************************************************)
EXTENDS Dispatch

CONSTANTS
    Attribute,      \* arguments of the attribute, as <<name, value>>
    Block,          \* functions of the impl block, in their order
    HandlerErrors   \* errors that the functions return

Functions ==
    [name : STRING, tool : BOOLEAN, async : BOOLEAN, inputs : Seq({"self", "typed"}),
     returns : BOOLEAN, requires : BOOLEAN]

-----------------------------------------------------------------------------
(* Expansion. *)

\* ServerMacroArgs, last one first.  An argument of another name is an error,
\* for which inner_mcp_server takes the default: no initialize_fn, and no word.
Known == \A k \in DOMAIN Attribute : Attribute[k][1] = "initialize_fn"
InitializeFn == IF Attribute # <<>> /\ Known THEN {Attribute[Len(Attribute)][2]} ELSE {}

\* parse_impl_block
Tools == {f \in Range(Block) : f.tool}

\* parse_tool_method
SoundTool(f) ==
    /\ f.async /\ f.returns
    /\ Len(f.inputs) = 3 /\ f.inputs[1] = "self" /\ f.inputs[3] = "typed"

\* validate_custom_initialize_fn
SoundInitialize(f) == f.async /\ f.returns /\ Len(f.inputs) = 5 /\ f.inputs[1] = "self"

\* inner_mcp_server makes a server, not an error for the compiler to show.
Expands ==
    /\ Tools # {} /\ \A f \in Tools : SoundTool(f)
    /\ \A name \in InitializeFn : \E f \in Range(Block) : f.name = name /\ SoundInitialize(f)

-----------------------------------------------------------------------------
(* The server. *)

Outcome(error, result) == [error |-> error, result |-> result]

\* A function of the block has run.
Ran(name) == {Outcome(error, {name}) : error \in HandlerErrors \cup {"none"}}

\* generate_initialize
Initialize ==
    IF InitializeFn = {} THEN {Outcome("none", {"default"})}
    ELSE UNION {Ran(name) : name \in InitializeFn}

\* generate_list_tools: all of them, whatever the cursor.
ListTools == {Outcome("none", {f.name : f \in Tools})}

\* generate_call_tool.  Arguments left out are refused, though nothing be required.
CallTool(name, arguments) ==
    IF \A f \in Tools : f.name # name THEN {Outcome("MethodNotFound", {})}
    ELSE IF arguments = "fit" THEN Ran(name)
    ELSE {Outcome("InvalidParams", {})}

\* What ServerConn may do with a request that has been read.
Outcomes(m) ==
    LET method == MethodCalled(m) IN
    IF method = "initialize" THEN Initialize
    ELSE IF method = "tools/list" THEN ListTools
    ELSE IF method = "tools/call" THEN CallTool(m.tool, m.arguments)
    ELSE IF method = "resources/read" THEN {Outcome("ResourceNotFound", {})}
    ELSE IF method = "prompts/get" THEN {Outcome("HandlerError", {})}
    ELSE {Outcome("none", {})}
=============================================================================
