------------------------------ MODULE RpcCall ------------------------------
(***************************************************************************)
(* What RequestHandler::request promises to the tasks that call it, with   *)
(* no identifiers, no table of pending requests and no wire.               *)
(*                                                                         *)
(* Calls are numbered in the order they begin.  A caller has one call in   *)
(* progress at a time.  The peer answers calls; it may answer one call     *)
(* several times.  A call ends once: with an answer the peer gave to that  *)
(* very call, with a local failure, or because its caller gave up.         *)
(***************************************************************************)
EXTENDS Naturals

CONSTANTS
    Callers,    \* the tasks that share one request handler
    MaxCalls    \* how many calls they make, all together

VARIABLES
    calls,      \* number of calls begun so far
    current,    \* caller -> the number of its call in progress, 0 if none
    said,       \* the answers given by the peer: [serial, kind]
    outcome     \* call -> how it ended, or "open"

absVars == <<calls, current, said, outcome>>

Serials == 1..MaxCalls
Kinds == {"response", "error"}
Answers == [serial : Serials, kind : Kinds]

AbsInit ==
    /\ calls = 0
    /\ current = [c \in Callers |-> 0]
    /\ said = {}
    /\ outcome = [n \in Serials |-> "open"]

Begin(c) ==
    /\ current[c] = 0
    /\ calls < MaxCalls
    /\ calls' = calls + 1
    /\ current' = [current EXCEPT ![c] = calls + 1]
    /\ UNCHANGED <<said, outcome>>

\* The peer answers a call that has begun.
Answer(n, kind) ==
    /\ n \in 1..calls
    /\ said' = said \union {[serial |-> n, kind |-> kind]}
    /\ UNCHANGED <<calls, current, outcome>>

\* The call of c ends with `result`, and ends for good.
End(c, result) ==
    /\ current[c] # 0
    /\ outcome[current[c]] = "open"
    /\ outcome' = [outcome EXCEPT ![current[c]] = result]
    /\ current' = [current EXCEPT ![c] = 0]
    /\ UNCHANGED <<calls, said>>

Complete(c, kind) ==
    /\ [serial |-> current[c], kind |-> kind] \in said
    /\ End(c, kind)

Fail(c) == End(c, "failed")

Abandon(c) == End(c, "dropped")

AbsNext ==
    \/ \E c \in Callers :
        \/ Begin(c)
        \/ \E kind \in Kinds : Complete(c, kind)
        \/ Fail(c)
        \/ Abandon(c)
    \/ \E n \in Serials, kind \in Kinds : Answer(n, kind)

AbsSpec == AbsInit /\ [][AbsNext]_absVars
=============================================================================
