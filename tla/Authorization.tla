---------------------------- MODULE Authorization ----------------------------
(***************************************************************************)
(* An application gets itself authorized: auth/dynamic_registration.rs,    *)
(* OAuth2Client::register_dynamic and OAuth2CallbackServer of              *)
(* auth/oauth_client.rs, put together as examples/dynamic_registration.rs  *)
(* does, over the OAuth2Client of OAuthToken.                              *)
(*                                                                         *)
(* The application registers, opens an authorization URL, waits for the    *)
(* callback and exchanges the code.  It may drop a wait (the tests put a   *)
(* timeout around it), wait again, or open another URL.  Each wait that    *)
(* binds the port has a server of its own, in a task of its own.  The      *)
(* user's browser may come late, come back, and keep its connection open:  *)
(* axum 0.7 serves a connection in a task that outlives the listener.      *)
(*                                                                         *)
(* A callback is known by its flow, which stands for its code and state;   *)
(* a callback without a code is answered 400 and changes nothing.  Of the  *)
(* metadata only the redirect URI matters to what follows, and of that     *)
(* whether it leads to the port the application listens on.                *)
(***************************************************************************)
EXTENDS OAuthToken

CONSTANTS
    MaxServers,  \* bound: callback servers started
    MaxVisits,   \* bound: callbacks that browsers bring
    Listened,    \* redirect URI: http://localhost:<port>/callback
    Elsewhere,   \* a redirect URI that leads to another port
    Unparsable,  \* a redirect URI that is no URL
    DefaultUri,  \* http://localhost:8080/callback: one of the first two
    Responses    \* the redirect_uris that registration returns

ASSUME AuthorizationBounds ==
    /\ MaxServers \in Nat /\ MaxVisits \in Nat
    /\ DefaultUri \in {Listened, Elsewhere}
    /\ Responses \subseteq Seq({Listened, Elsewhere, Unparsable})

VARIABLES
    phase,      \* how far the application has come
    provided,   \* a registration endpoint was given
    redirect,   \* config.redirect_url
    servers,    \* callback servers started
    listening,  \* those that hold the port: accept loops that still run
    aborted,    \* those told to stop
    sender,     \* those whose oneshot sender has not been taken
    answers,    \* server -> the flow whose callback its wait was sent, or 0
    result,     \* the flow whose code and state the last wait returned, or 0
    visiting,   \* flows authorized, whose callback the browser has yet to bring
    visited,    \* flows whose callback it has brought, and may bring again
    kept,       \* the server at the other end of its open connection, or 0
    visits      \* callbacks brought

appVars == <<phase, provided, redirect, result>>
serverTasks == <<servers, listening, aborted, sender, answers>>
browserVars == <<visiting, visited, kept, visits>>
authVars == <<vars, appVars, serverTasks, browserVars>>

-----------------------------------------------------------------------------
Servers == 1..MaxServers
Phases == {"start", "discovering", "registering", "fallback", "manual", "failed",
           "ready", "binding", "waiting", "returned", "exchanging"}

AuthTypeOK ==
    /\ TypeOK
    /\ phase \in Phases /\ provided \in BOOLEAN
    /\ redirect \in {Listened, Elsewhere, Unparsable}
    /\ servers \in 0..MaxServers
    /\ aborted \subseteq 1..servers
    /\ listening \subseteq 1..servers /\ \A s, t \in listening : s = t
    /\ sender \subseteq 1..servers
    /\ answers \in [Servers -> 0..MaxFlows] /\ result \in 0..MaxFlows
    /\ visiting \cup visited \subseteq 1..flows
    /\ kept \in 0..servers /\ visits \in 0..MaxVisits
    /\ phase = "exchanging" <=> Exchanging

AuthInit ==
    /\ Init
    /\ phase = "start" /\ provided \in BOOLEAN
    /\ redirect = Listened
    /\ servers = 0 /\ listening = {} /\ aborted = {} /\ sender = {}
    /\ answers = [s \in Servers |-> 0] /\ result = 0
    /\ visiting = {} /\ visited = {} /\ kept = 0 /\ visits = 0

-----------------------------------------------------------------------------
(* Registration. *)

\* OAuth2Config::from_registration.
RegisteredUri(uris) == IF uris = <<>> THEN DefaultUri ELSE Head(uris)

Goto(next) == phase' = next /\ UNCHANGED <<vars, provided, result, serverTasks, browserVars>>

\* The configuration is written down, or comes from the command line.
UseCredentials ==
    /\ phase = "start"
    /\ Goto("ready")
    /\ UNCHANGED redirect

\* register_dynamic asks the issuer for the endpoint unless it was given one.
RegisterDynamic ==
    /\ phase = "start"
    /\ Goto(IF provided THEN "registering" ELSE "discovering")
    /\ UNCHANGED redirect

\* The issuer is asked at the scheme and host of the authorization URL, without
\* its port.  It may be out of reach, refuse, or have no endpoint to tell.
DiscoverEndpoint ==
    /\ phase = "discovering"
    /\ \E found \in BOOLEAN : Goto(IF found THEN "registering" ELSE "fallback")
    /\ UNCHANGED redirect

\* The server may change what is asked for, or leave it out.  OAuth2Client::new
\* refuses a redirect URI that is no URL.
Register(uris) ==
    /\ phase \in {"registering", "manual"}
    /\ redirect' = RegisteredUri(uris)
    /\ Goto(IF redirect' # Unparsable THEN "ready"
            ELSE IF phase = "manual" THEN "failed" ELSE "fallback")

\* No connection, a refusal, or a response that cannot be read.
RegisterFails ==
    /\ phase \in {"registering", "manual"}
    /\ Goto(IF phase = "manual" THEN "failed" ELSE "fallback")
    /\ UNCHANGED redirect

\* The example then tries the endpoint it was given once more by hand.
FallBack ==
    /\ phase = "fallback"
    /\ Goto(IF provided THEN "manual" ELSE "failed")
    /\ UNCHANGED redirect

Registration ==
    \/ UseCredentials \/ RegisterDynamic \/ DiscoverEndpoint \/ RegisterFails \/ FallBack
    \/ \E uris \in Responses : Register(uris)

-----------------------------------------------------------------------------
(* wait_for_callback. *)

\* Mutant: the port is taken although another server holds it.
BindShared ==
    /\ phase = "binding" /\ servers < MaxServers
    /\ servers' = servers + 1
    /\ listening' = listening \cup {servers'}
    /\ sender' = sender \cup {servers'}
    /\ phase' = "waiting"
    /\ UNCHANGED <<vars, provided, redirect, result, aborted, answers, browserVars>>

Bind ==
    /\ phase = "binding" /\ listening = {} /\ servers < MaxServers
    /\ servers' = servers + 1
    /\ listening' = {servers'}
    /\ sender' = sender \cup {servers'}
    /\ phase' = "waiting"
    /\ UNCHANGED <<vars, provided, redirect, result, aborted, answers, browserVars>>

\* "Failed to bind": the port is held by the server of an earlier wait.
BindFails ==
    /\ phase = "binding" /\ listening # {}
    /\ Goto("ready")
    /\ UNCHANGED redirect

\* Mutant: the server is left running.
WaitReturnsRunning ==
    /\ phase = "waiting" /\ answers[servers] # 0
    /\ result' = answers[servers]
    /\ phase' = "returned"
    /\ UNCHANGED <<vars, provided, redirect, aborted, servers, listening, sender, answers,
                   browserVars>>

WaitReturns ==
    /\ phase = "waiting" /\ answers[servers] # 0
    /\ result' = answers[servers]
    /\ aborted' = aborted \cup {servers}
    /\ phase' = "returned"
    /\ UNCHANGED <<vars, provided, redirect, servers, listening, sender, answers, browserVars>>

\* The wait's future is dropped, and with it the receiver and the handle of the
\* server's task: nothing stops the server any more.
DropWait ==
    /\ phase = "waiting"
    /\ Goto("ready")
    /\ UNCHANGED redirect

\* The task is cancelled and the listener closed some time after abort().
ServerStops(s) ==
    /\ s \in listening \cap aborted
    /\ listening' = listening \ {s}
    /\ UNCHANGED <<vars, appVars, servers, aborted, sender, answers, browserVars>>

\* Mutant: the sender is taken by a callback of an earlier flow, and not used.
CallbackHandlerPicky(s, f) ==
    /\ sender' = sender \ {s}
    /\ answers' = IF s \in sender /\ phase = "waiting" /\ s = servers /\ f = flows
                  THEN [answers EXCEPT ![s] = f] ELSE answers
    /\ UNCHANGED <<servers, listening, aborted>>

\* The first callback takes the sender; it is lost if the receiver is gone.
\* Every callback is answered with the page "Authorization Successful".
CallbackHandler(s, f) ==
    /\ sender' = sender \ {s}
    /\ answers' = IF s \in sender /\ phase = "waiting" /\ s = servers
                  THEN [answers EXCEPT ![s] = f] ELSE answers
    /\ UNCHANGED <<servers, listening, aborted>>

-----------------------------------------------------------------------------
(* The browser. *)

\* The user lets the authorization server redirect the browser.
Authorize(f) ==
    /\ f \in 1..flows /\ f \notin visiting \cup visited
    /\ visiting' = visiting \cup {f}
    /\ UNCHANGED <<vars, appVars, serverTasks, visited, kept, visits>>

\* It brings the callback over its open connection or over a new one to the
\* server that has the port.  What it has brought it may bring again.
Visit(f, s) ==
    /\ redirect = Listened /\ f \in visiting \cup visited
    /\ f \in visited => visits < MaxVisits
    /\ s \in listening \cup ({kept} \ {0})
    /\ CallbackHandler(s, f)
    /\ visiting' = visiting \ {f} /\ visited' = visited \cup {f}
    /\ visits' = IF f \in visited THEN visits + 1 ELSE visits
    /\ kept' = s
    /\ UNCHANGED <<vars, appVars>>

CloseConnection ==
    /\ kept # 0
    /\ kept' = 0
    /\ UNCHANGED <<vars, appVars, serverTasks, visiting, visited, visits>>

-----------------------------------------------------------------------------
(* The authorization code flow. *)

OpenUrl ==
    /\ phase = "ready"
    /\ GetAuthorizationUrl
    /\ phase' = "binding"
    /\ UNCHANGED <<provided, redirect, result, serverTasks, browserVars>>

WaitAgain ==
    /\ phase = "ready" /\ flows > 0
    /\ Goto("binding")
    /\ UNCHANGED redirect

\* "Missing CSRF token": another callback of the flow has ended it already.
ExchangeMissing ==
    /\ phase = "returned" /\ csrf = 0
    /\ Goto("ready")
    /\ UNCHANGED redirect

Exchange ==
    /\ phase = "returned"
    /\ ExchangeCode(result)
    /\ phase' = IF Exchanging' THEN "exchanging" ELSE "ready"
    /\ UNCHANGED <<provided, redirect, result, serverTasks, browserVars>>

Exchanged ==
    /\ \/ ExchangeFails
       \/ \E life \in Lives, renewable \in BOOLEAN : ExchangeGranted(life, renewable)
    /\ phase' = "ready"
    /\ UNCHANGED <<provided, redirect, result, serverTasks, browserVars>>

-----------------------------------------------------------------------------
Application ==
    \/ Registration \/ OpenUrl \/ WaitAgain \/ ExchangeMissing \/ Exchange \/ Exchanged
    \/ Bind \/ BindFails \/ WaitReturns \/ DropWait

Browser ==
    \/ CloseConnection
    \/ \E f \in Flows : Authorize(f) \/ \E s \in Servers : Visit(f, s)

AuthNext == Application \/ Browser \/ \E s \in Servers : ServerStops(s)

AuthSpec == AuthInit /\ [][AuthNext]_authVars

\* The runtime polls tasks that can go on and drops those told to stop, and a
\* browser that is redirected tries once.  Users may never authorize, and the
\* application may stop between two calls.
FairAuthSpec ==
    /\ AuthSpec
    /\ WF_authVars(WaitReturns)
    /\ \A s \in Servers :
        /\ WF_authVars(ServerStops(s))
        /\ \A f \in Flows : WF_authVars(f \in visiting /\ Visit(f, s))

-----------------------------------------------------------------------------
(* Properties. *)

\* Whatever callbacks of other flows are brought, again and to whichever server,
\* a code is exchanged only while its flow is the last one opened, with that
\* flow's verifier, and after a browser has brought it.
ExchangesCurrent ==
    Exchanging => /\ exchange.state = flows /\ exchange.verifier = flows
                  /\ flows \in visited

\* The inductive invariant behind it.  What is held of a flow is of the last one,
\* and what a wait returns a browser has brought.
Current ==
    /\ csrf \in {0, flows} /\ pkce \in {0, flows}
    /\ phase = "waiting" => servers \in Servers
    /\ \A s \in Servers : answers[s] \in visited \cup {0}
    /\ result \in visited \cup {0}
    /\ phase = "returned" => result # 0

AuthInv == IInv /\ AuthTypeOK /\ Current /\ ExchangesCurrent

\* A wait that has returned gives its port back, so that the next can bind it.
PortGivenBack ==
    \A s \in Servers : (phase = "returned" /\ servers = s) ~> (s \notin listening)

\* A wait ends when the browser is redirected to its server, whatever other
\* callbacks come first; unless the browser's open connection leads to the
\* server of an earlier wait, which swallows the callback.
CallbackTaken ==
    (/\ phase = "waiting" /\ redirect = Listened
     /\ visiting # {} /\ kept \in {0, servers}) ~> (phase # "waiting")
=============================================================================
