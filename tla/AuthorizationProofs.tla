------------------------ MODULE AuthorizationProofs ------------------------
(***************************************************************************)
(* Proofs about Authorization, for any number of flows, waits and          *)
(* callbacks.  The application is one user of the OAuth2Client of          *)
(* OAuthToken, whose invariant is that of OAuthTokenProofs.                *)
(***************************************************************************)
EXTENDS Authorization, OAuthTokenProofs

\* What each step does to the client: one of its operations, or nothing.
LEMMA ClientStep ==
  ASSUME AuthInv, [AuthNext]_authVars
  PROVE  [Next]_vars
  <1>1. CASE Application
    <2>1. CASE OpenUrl
      BY <2>1 DEF OpenUrl, Next, FlowStep
    <2>2. CASE Exchange
      <3>1. result \in Flows
        BY <2>2 DEF Exchange, AuthInv, AuthTypeOK, Current, Flows
      <3> QED
        BY <2>2, <3>1 DEF Exchange, Next, FlowStep
    <2>3. CASE Exchanged
      BY <2>3 DEF Exchanged, Next, FlowStep
    <2>4. CASE Registration
      BY <2>4
      DEF Registration, UseCredentials, RegisterDynamic, DiscoverEndpoint, Register,
          RegisterFails, FallBack, Goto
    <2>5. CASE WaitAgain \/ ExchangeMissing \/ Bind \/ BindFails \/ WaitReturns \/ DropWait
      BY <2>5 DEF WaitAgain, ExchangeMissing, Bind, BindFails, WaitReturns, DropWait, Goto
    <2> QED
      BY <1>1, <2>1, <2>2, <2>3, <2>4, <2>5 DEF Application
  <1>2. CASE Browser
    BY <1>2 DEF Browser, CloseConnection, Authorize, Visit
  <1>3. CASE \E s \in Servers : ServerStops(s)
    BY <1>3 DEF ServerStops
  <1>4. CASE UNCHANGED authVars
    BY <1>4 DEF authVars
  <1> QED
    BY <1>1, <1>2, <1>3, <1>4 DEF AuthNext

LEMMA AuthInitInv == AuthInit => AuthInv
  <1> SUFFICES ASSUME AuthInit PROVE AuthInv
    OBVIOUS
  <1> USE AuthorizationBounds, OAuthBounds
  <1>1. IInv
    BY InitInv DEF AuthInit
  <1>2. AuthTypeOK
    BY <1>1 DEF IInv, AuthInit, AuthTypeOK, Init, Phases, Exchanging
  <1>3. Current /\ ExchangesCurrent
    BY DEF AuthInit, Init, Current, ExchangesCurrent, Exchanging
  <1> QED
    BY <1>1, <1>2, <1>3 DEF AuthInv

\* Steps that only change where the application is, and its redirect URI.
LEMMA RegistrationInv ==
  ASSUME AuthInv, IInv', Registration \/ WaitAgain \/ ExchangeMissing \/ BindFails \/ DropWait
  PROVE  AuthInv'
  <1> USE AuthorizationBounds DEF AuthInv
  <1>1. /\ UNCHANGED <<vars, provided, result, serverTasks, browserVars>>
        /\ phase' \in Phases \ {"exchanging", "waiting", "returned"}
        /\ phase # "exchanging"
    BY DEF Registration, UseCredentials, RegisterDynamic, DiscoverEndpoint, Register,
           RegisterFails, FallBack, WaitAgain, ExchangeMissing, BindFails, DropWait, Goto,
           Phases
  <1>2. redirect' \in {Listened, Elsewhere, Unparsable}
    <2>1. CASE \E uris \in Responses : Register(uris)
      <3> PICK uris \in Responses : Register(uris)
        BY <2>1
      <3>1. uris \in Seq({Listened, Elsewhere, Unparsable})
        OBVIOUS
      <3>2. uris # <<>> => Head(uris) \in {Listened, Elsewhere, Unparsable}
        BY <3>1
      <3> QED
        BY <3>2 DEF Register, RegisteredUri
    <2>2. CASE UNCHANGED redirect
      BY <2>2 DEF AuthTypeOK
    <2> QED
      BY <2>1, <2>2
      DEF Registration, UseCredentials, RegisterDynamic, DiscoverEndpoint, RegisterFails,
          FallBack, WaitAgain, ExchangeMissing, BindFails, DropWait
  <1>3. AuthTypeOK'
    BY <1>1, <1>2
    DEF AuthTypeOK, IInv, Exchanging, vars, flowVars, serverTasks, browserVars
  <1>4. Current' /\ ExchangesCurrent'
    BY <1>1
    DEF Current, ExchangesCurrent, Exchanging, vars, flowVars, serverTasks, browserVars
  <1> QED
    BY <1>3, <1>4

\* The steps that use the client.
LEMMA OpenUrlInv ==
  ASSUME AuthInv, IInv', OpenUrl
  PROVE  AuthInv'
  <1> USE AuthorizationBounds, OAuthBounds DEF AuthInv
  <1>1. /\ phase = "ready" /\ phase' = "binding"
        /\ flows \in Nat /\ flows' = flows + 1 /\ csrf' = flows + 1 /\ pkce' = flows + 1
        /\ ~Exchanging /\ exchange' = exchange
        /\ UNCHANGED <<provided, redirect, result, serverTasks, browserVars>>
    BY DEF OpenUrl, GetAuthorizationUrl, Alone, IInv, TypeOK
  <1>2. AuthTypeOK'
    BY <1>1
    DEF AuthTypeOK, IInv, Exchanging, Phases, serverTasks, browserVars
  <1>3. Current' /\ ExchangesCurrent'
    BY <1>1 DEF Current, ExchangesCurrent, Exchanging, serverTasks, browserVars
  <1> QED
    BY <1>2, <1>3

LEMMA ExchangeInv ==
  ASSUME AuthInv, IInv', Exchange
  PROVE  AuthInv'
  <1> USE AuthorizationBounds, OAuthBounds DEF AuthInv
  <1>1. /\ phase = "returned" /\ ~Exchanging
        /\ phase' = IF Exchanging' THEN "exchanging" ELSE "ready"
        /\ csrf # 0 /\ csrf' = 0 /\ flows' = flows /\ flows \in Nat
        /\ UNCHANGED <<provided, redirect, result, serverTasks, browserVars>>
    BY DEF Exchange, ExchangeCode, Alone, IInv, TypeOK
  <1>2. AuthTypeOK'
    BY <1>1
    DEF AuthTypeOK, IInv, Exchanging, Phases, serverTasks, browserVars
  <1>3. CASE result = csrf /\ pkce # 0
    <2>1. exchange' = [state |-> result, verifier |-> pkce] /\ pkce' = 0
      BY <1>3 DEF Exchange, ExchangeCode
    <2>2. result = flows /\ pkce = flows /\ result \in visited
      BY <1>1, <1>3 DEF Current
    <2> QED
      BY <1>1, <1>2, <2>1, <2>2
      DEF Current, ExchangesCurrent, Exchanging, serverTasks, browserVars
  <1>4. CASE ~(result = csrf /\ pkce # 0)
    <2>1. UNCHANGED <<pkce, exchange>>
      BY <1>4 DEF Exchange, ExchangeCode
    <2> QED
      BY <1>1, <1>2, <2>1
      DEF Current, ExchangesCurrent, Exchanging, serverTasks, browserVars
  <1> QED
    BY <1>3, <1>4

LEMMA ExchangedInv ==
  ASSUME AuthInv, IInv', Exchanged
  PROVE  AuthInv'
  <1> USE AuthorizationBounds, OAuthBounds DEF AuthInv
  <1>1. /\ phase' = "ready" /\ ~Exchanging'
        /\ UNCHANGED <<csrf, pkce, flows>>
        /\ UNCHANGED <<provided, redirect, result, serverTasks, browserVars>>
    BY DEF Exchanged, ExchangeFails, ExchangeGranted, Exchanging
  <1>2. AuthTypeOK'
    BY <1>1 DEF AuthTypeOK, IInv, Phases, serverTasks, browserVars
  <1>3. Current' /\ ExchangesCurrent'
    BY <1>1 DEF Current, ExchangesCurrent, serverTasks, browserVars
  <1> QED
    BY <1>2, <1>3

\* The steps of a wait.
LEMMA BindInv ==
  ASSUME AuthInv, IInv', Bind
  PROVE  AuthInv'
  <1> USE AuthorizationBounds, OAuthBounds DEF AuthInv
  <1>1. /\ phase' = "waiting" /\ phase = "binding"
        /\ servers \in Nat /\ servers' = servers + 1 /\ servers' \in Servers
        /\ listening' = {servers'} /\ sender' = sender \cup {servers'}
        /\ UNCHANGED <<vars, provided, redirect, result, aborted, answers, browserVars>>
    BY DEF Bind, AuthTypeOK, Servers
  <1>2. AuthTypeOK'
    BY <1>1 DEF AuthTypeOK, IInv, Phases, Exchanging, vars, flowVars, browserVars, Servers
  <1>3. Current' /\ ExchangesCurrent'
    BY <1>1 DEF Current, ExchangesCurrent, Exchanging, vars, flowVars, browserVars
  <1> QED
    BY <1>2, <1>3

LEMMA WaitReturnsInv ==
  ASSUME AuthInv, IInv', WaitReturns
  PROVE  AuthInv'
  <1> USE AuthorizationBounds, OAuthBounds DEF AuthInv
  <1>1. /\ phase' = "returned" /\ phase = "waiting"
        /\ servers \in Servers /\ result' = answers[servers] /\ result' # 0
        /\ aborted' = aborted \cup {servers}
        /\ UNCHANGED <<vars, provided, redirect, servers, listening, sender, answers,
                       browserVars>>
    BY DEF WaitReturns, Current
  <1>2. AuthTypeOK'
    BY <1>1 DEF AuthTypeOK, IInv, Phases, Exchanging, vars, flowVars, browserVars, Servers
  <1>3. Current' /\ ExchangesCurrent'
    BY <1>1 DEF Current, ExchangesCurrent, Exchanging, vars, flowVars, browserVars
  <1> QED
    BY <1>2, <1>3

LEMMA ServerStopsInv ==
  ASSUME AuthInv, IInv', NEW s \in Servers, ServerStops(s)
  PROVE  AuthInv'
  <1> USE AuthorizationBounds DEF AuthInv
  <1>1. AuthTypeOK'
    BY DEF ServerStops, AuthTypeOK, IInv, Exchanging, vars, flowVars, appVars, browserVars
  <1>2. Current' /\ ExchangesCurrent'
    BY DEF ServerStops, Current, ExchangesCurrent, Exchanging, vars, flowVars, appVars,
           browserVars
  <1> QED
    BY <1>1, <1>2

\* The browser adds to what it has brought, and gives a wait no more than that.
LEMMA BrowserInv ==
  ASSUME AuthInv, IInv', Browser
  PROVE  AuthInv'
  <1> USE AuthorizationBounds, OAuthBounds DEF AuthInv
  <1>1. CASE CloseConnection
    <2>1. AuthTypeOK'
      BY <1>1
      DEF CloseConnection, AuthTypeOK, IInv, Exchanging, vars, flowVars, appVars, serverTasks
    <2> QED
      BY <1>1, <2>1
      DEF CloseConnection, Current, ExchangesCurrent, Exchanging, vars, flowVars, appVars,
          serverTasks
  <1>2. ASSUME NEW f \in Flows, Authorize(f) PROVE AuthInv'
    <2>1. AuthTypeOK'
      BY <1>2
      DEF Authorize, AuthTypeOK, IInv, Exchanging, vars, flowVars, appVars, serverTasks
    <2> QED
      BY <1>2, <2>1
      DEF Authorize, Current, ExchangesCurrent, Exchanging, vars, flowVars, appVars,
          serverTasks
  <1>3. ASSUME NEW f \in Flows, NEW s \in Servers, Visit(f, s) PROVE AuthInv'
    <2>1. /\ UNCHANGED <<vars, appVars, servers, listening, aborted>>
          /\ sender' = sender \ {s}
          /\ visiting' = visiting \ {f} /\ visited' = visited \cup {f}
          /\ f \in visiting \cup visited /\ kept' = s
          /\ s \in listening \cup {kept} /\ s # 0
      BY <1>3 DEF Visit, CallbackHandler, Servers
    <2>2. /\ answers' \in [Servers -> 0..MaxFlows]
          /\ \A t \in Servers : answers'[t] \in {answers[t], f}
      BY <1>3 DEF Visit, CallbackHandler, AuthTypeOK, Flows
    <2>3. visits' \in 0..MaxVisits
      BY <1>3 DEF Visit, AuthTypeOK
    <2>4. AuthTypeOK'
      BY <2>1, <2>2, <2>3 DEF AuthTypeOK, IInv, Exchanging, vars, flowVars, appVars
    <2>5. Current' /\ ExchangesCurrent'
      BY <2>1, <2>2
      DEF Current, ExchangesCurrent, Exchanging, vars, flowVars, appVars
    <2> QED
      BY <2>4, <2>5
  <1> QED
    BY <1>1, <1>2, <1>3 DEF Browser

LEMMA AuthStepInv == AuthInv /\ [AuthNext]_authVars => AuthInv'
  <1> SUFFICES ASSUME AuthInv, [AuthNext]_authVars PROVE AuthInv'
    OBVIOUS
  <1>0. IInv'
    BY ClientStep, StepInv DEF AuthInv
  <1>1. CASE Application
    BY <1>0, <1>1, RegistrationInv, OpenUrlInv, ExchangeInv, ExchangedInv, BindInv,
       WaitReturnsInv
    DEF Application
  <1>2. CASE Browser
    BY <1>0, <1>2, BrowserInv
  <1>3. CASE \E s \in Servers : ServerStops(s)
    BY <1>0, <1>3, ServerStopsInv
  <1>4. CASE UNCHANGED authVars
    <2>1. AuthTypeOK'
      BY <1>0, <1>4
      DEF AuthInv, IInv, AuthTypeOK, Exchanging, authVars, vars, flowVars, appVars,
          serverTasks, browserVars
    <2>2. Current' /\ ExchangesCurrent'
      BY <1>4
      DEF AuthInv, Current, ExchangesCurrent, Exchanging, authVars, vars, flowVars,
          appVars, serverTasks, browserVars
    <2> QED
      BY <1>0, <2>1, <2>2 DEF AuthInv
  <1> QED
    BY <1>1, <1>2, <1>3, <1>4 DEF AuthNext

\* Types of the application, its callback servers and its browser, and what ties
\* the flow a wait returned to the client's.
THEOREM AuthInvariance == AuthSpec => []AuthInv
  BY AuthInitInv, AuthStepInv, PTL DEF AuthSpec

\* An application built on the callback server uses the OAuth2Client as OAuthToken
\* says it may be used: every step is one of the client's, or none of its business.
THEOREM ApplicationUsesClient == AuthSpec => Spec
  <1>1. AuthInit => Init
    BY DEF AuthInit
  <1>2. AuthInv /\ [AuthNext]_authVars => [Next]_vars
    BY ClientStep
  <1> QED
    BY <1>1, <1>2, AuthInvariance, PTL DEF AuthSpec, Spec

\* exchange_code never sends the code or the verifier of an earlier flow, whatever
\* callbacks reach the callback servers and whichever waits are dropped.
THEOREM ExchangesOfLastFlow == AuthSpec => []ExchangesCurrent
  BY AuthInvariance, PTL DEF AuthInv
=============================================================================
