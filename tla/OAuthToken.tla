----------------------------- MODULE OAuthToken -----------------------------
(***************************************************************************)
(* auth/oauth_client.rs: the token of an OAuth2Client, shared by the tasks *)
(* that ask for a valid one, and the authorization code flow that obtains  *)
(* the first.                                                              *)
(*                                                                         *)
(* get_valid_token looks at the token, then takes refresh_lock, looks      *)
(* again and refreshes while it holds the lock; each read and each write   *)
(* of the RwLock is one step, the request to the authorization server is   *)
(* two: what the server does, and what the client makes of the reply.      *)
(* Its callers may be dropped at any await.  set_token needs no lock.      *)
(* get_authorization_url and exchange_code take &mut self and so exclude   *)
(* every other call.  The authorization server is external; it may or may  *)
(* not rotate, that is replace a refresh token whenever it is used.        *)
(*                                                                         *)
(* Refresh tokens are numbered as they are issued, 0 stands for none, and  *)
(* a flow's number stands for both its state and its PKCE verifier.        *)
(***************************************************************************)
EXTENDS Naturals, Sequences

CONSTANTS
    Callers,    \* tasks that call get_valid_token
    Nobody,     \* refresh_lock is free
    MaxTime,    \* bound: the clock
    MaxTokens,  \* bound: tokens issued
    MaxFlows,   \* bound: authorization flows started
    Lifetimes,  \* of the tokens that expire
    Forever     \* an expiry: expires_in was not given

ASSUME OAuthBounds ==
    /\ MaxTime \in Nat /\ MaxTokens \in Nat /\ MaxFlows \in Nat
    /\ Lifetimes \subseteq Nat
    /\ Forever \notin Nat /\ Nobody \notin Callers

VARIABLES
    clock,      \* Instant::now()
    token,      \* the stored token, or NoToken
    lock,       \* who holds refresh_lock
    pc,         \* caller -> how far its get_valid_token has come
    now,        \* caller -> the instant its call took at its start
    using,      \* caller -> the refresh token of its request
    reply,      \* caller -> what the server has granted it
    rotates,    \* the server replaces refresh tokens
    issued,     \* tokens issued so far
    live,       \* refresh tokens the server accepts
    lost,       \* refresh tokens used by a grant whose reply was lost
    csrf,       \* csrf_token: its flow, 0 for None
    pkce,       \* pkce_verifier: its flow, 0 for None
    flows,      \* flows started so far
    exchange,   \* the exchange in flight, or NoExchange
    exchanged   \* the exchanges requested, in order

callVars == <<lock, pc, now, using, reply>>
serverVars == <<rotates, issued, live, lost>>
flowVars == <<csrf, pkce, flows, exchange, exchanged>>
vars == <<clock, token, callVars, serverVars, flowVars>>

-----------------------------------------------------------------------------
Tokens == 1..MaxTokens
Flows == 1..MaxFlows
Expiries == Nat \union {Forever}
Lives == Lifetimes \union {Forever}
NoToken == [expires |-> 0, refresh |-> 0, present |-> FALSE]
Token(expires, refresh) == [expires |-> expires, refresh |-> refresh, present |-> TRUE]
NoReply == [life |-> 0, refresh |-> 0]
NoExchange == [state |-> 0, verifier |-> 0]

\* The places of a call that holds refresh_lock.
Holding == {"second", "requested", "granted"}

TypeOK ==
    /\ clock \in 0..MaxTime
    /\ token \in [expires : Expiries, refresh : 0..MaxTokens, present : BOOLEAN]
    /\ lock \in Callers \union {Nobody}
    /\ pc \in [Callers -> {"idle", "first", "locking"} \union Holding]
    /\ now \in [Callers -> 0..MaxTime]
    /\ using \in [Callers -> 0..MaxTokens]
    /\ \A c \in Callers : pc[c] \in {"requested", "granted"} => using[c] # 0
    /\ reply \in [Callers -> [life : Nat \union {Forever}, refresh : 0..MaxTokens]]
    /\ rotates \in BOOLEAN /\ issued \in 0..MaxTokens
    /\ live \subseteq Tokens /\ lost \subseteq Tokens
    /\ csrf \in 0..MaxFlows /\ pkce \in 0..MaxFlows /\ flows \in 0..MaxFlows
    /\ exchange \in [state : 0..MaxFlows, verifier : 0..MaxFlows]
    /\ exchanged \in Seq([state : 0..MaxFlows, verifier : 0..MaxFlows])

Init ==
    /\ clock = 0
    /\ token = NoToken
    /\ lock = Nobody
    /\ pc = [c \in Callers |-> "idle"]
    /\ now = [c \in Callers |-> 0]
    /\ using = [c \in Callers |-> 0]
    /\ reply = [c \in Callers |-> NoReply]
    /\ rotates \in BOOLEAN
    /\ issued = 0 /\ live = {} /\ lost = {}
    /\ csrf = 0 /\ pkce = 0 /\ flows = 0
    /\ exchange = NoExchange /\ exchanged = <<>>

-----------------------------------------------------------------------------
(* get_valid_token. *)

ValidAt(t, instant) == t.present /\ (t.expires # Forever => t.expires > instant)

ExpiresAt(life) == IF life = Forever THEN Forever ELSE clock + life

Exchanging == exchange # NoExchange

Start(c) ==
    /\ pc[c] = "idle" /\ ~Exchanging
    /\ pc' = [pc EXCEPT ![c] = "first"]
    /\ now' = [now EXCEPT ![c] = clock]
    /\ UNCHANGED <<clock, token, lock, using, reply, serverVars, flowVars>>

FirstRead(c) ==
    /\ pc[c] = "first"
    /\ pc' = [pc EXCEPT ![c] = IF ValidAt(token, now[c]) THEN "idle" ELSE "locking"]
    /\ UNCHANGED <<clock, token, lock, now, using, reply, serverVars, flowVars>>

TakeLock(c) ==
    /\ pc[c] = "locking" /\ lock = Nobody
    /\ lock' = c
    /\ pc' = [pc EXCEPT ![c] = "second"]
    /\ UNCHANGED <<clock, token, now, using, reply, serverVars, flowVars>>

\* The call is over, and its guard of the lock is dropped.
Finish(c) ==
    /\ pc' = [pc EXCEPT ![c] = "idle"]
    /\ lock' = IF lock = c THEN Nobody ELSE lock
    /\ using' = [using EXCEPT ![c] = 0]
    /\ reply' = [reply EXCEPT ![c] = NoReply]
    /\ UNCHANGED now

\* Another task may have refreshed meanwhile: the token is valid after all.
SecondReadValid(c) ==
    /\ pc[c] = "second" /\ ValidAt(token, now[c])
    /\ Finish(c)
    /\ UNCHANGED <<clock, token, serverVars, flowVars>>

\* "No valid token available".
SecondReadNothing(c) ==
    /\ pc[c] = "second" /\ ~ValidAt(token, now[c])
    /\ token.refresh = 0
    /\ Finish(c)
    /\ UNCHANGED <<clock, token, serverVars, flowVars>>

\* Mutant: no second look.
RequestRefreshBlind(c) ==
    /\ pc[c] = "second"
    /\ token.refresh # 0
    /\ using' = [using EXCEPT ![c] = token.refresh]
    /\ pc' = [pc EXCEPT ![c] = "requested"]
    /\ UNCHANGED <<clock, token, lock, now, reply, serverVars, flowVars>>

RequestRefresh(c) ==
    /\ pc[c] = "second" /\ ~ValidAt(token, now[c])
    /\ token.refresh # 0
    /\ using' = [using EXCEPT ![c] = token.refresh]
    /\ pc' = [pc EXCEPT ![c] = "requested"]
    /\ UNCHANGED <<clock, token, lock, now, reply, serverVars, flowVars>>

\* Mutant: the error is returned without giving the lock back.
RefreshFailsLocked(c) ==
    /\ pc[c] = "requested"
    /\ pc' = [pc EXCEPT ![c] = "idle"]
    /\ UNCHANGED <<clock, token, lock, now, using, reply, serverVars, flowVars>>

\* "Token refresh failed": the server's error, or no connection to it.
RefreshFails(c) ==
    /\ pc[c] = "requested"
    /\ Finish(c)
    /\ UNCHANGED <<clock, token, serverVars, flowVars>>

\* The reply is not received.
ReplyLost(c) ==
    /\ pc[c] = "granted"
    /\ lost' = lost \union {using[c]}
    /\ Finish(c)
    /\ UNCHANGED <<clock, token, rotates, issued, live, flowVars>>

\* Mutant: the refresh token is kept, whatever the reply brings.
StoreKeepsOld(c) ==
    /\ pc[c] = "granted"
    /\ token' = Token(ExpiresAt(reply[c].life), using[c])
    /\ Finish(c)
    /\ UNCHANGED <<clock, serverVars, flowVars>>

Store(c) ==
    /\ pc[c] = "granted"
    /\ token' = Token(ExpiresAt(reply[c].life), reply[c].refresh)
    /\ Finish(c)
    /\ UNCHANGED <<clock, serverVars, flowVars>>

\* The caller is dropped at an await; a reply on its way is never stored.
DropCall(c) ==
    /\ pc[c] # "idle"
    /\ lost' = IF pc[c] = "granted" THEN lost \union {using[c]} ELSE lost
    /\ Finish(c)
    /\ UNCHANGED <<clock, token, rotates, issued, live, flowVars>>

-----------------------------------------------------------------------------
(* Tokens from elsewhere, and the authorization code flow. *)

\* The server issues a token, with or without a refresh token beside it.
Issue ==
    /\ issued < MaxTokens
    /\ issued' = issued + 1

NewRefresh(renewable) == IF renewable THEN issued + 1 ELSE 0
NewLive(renewable) == IF renewable THEN {issued + 1} ELSE {}

SetToken(life, renewable) ==
    /\ ~Exchanging
    /\ Issue
    /\ token' = Token(ExpiresAt(life), NewRefresh(renewable))
    /\ live' = live \union NewLive(renewable)
    /\ UNCHANGED <<clock, callVars, rotates, lost, flowVars>>

\* What takes &mut self runs alone.
Alone == ~Exchanging /\ \A c \in Callers : pc[c] = "idle"

\* Mutant: the state of an unfinished flow stays the one expected.
GetAuthorizationUrlOldState ==
    /\ Alone
    /\ flows < MaxFlows
    /\ flows' = flows + 1
    /\ pkce' = flows + 1
    /\ csrf' = IF csrf = 0 THEN flows + 1 ELSE csrf
    /\ UNCHANGED <<clock, token, callVars, serverVars, exchange, exchanged>>

GetAuthorizationUrl ==
    /\ Alone
    /\ flows < MaxFlows
    /\ flows' = flows + 1
    /\ pkce' = flows + 1
    /\ csrf' = flows + 1
    /\ UNCHANGED <<clock, token, callVars, serverVars, exchange, exchanged>>

\* A callback brought a state: of this flow, or of an earlier one.  The csrf
\* token is taken before it is compared, so a wrong state ends the flow.
ExchangeCode(state) ==
    /\ Alone
    /\ csrf # 0
    /\ csrf' = 0
    /\ IF state = csrf /\ pkce # 0
       THEN LET request == [state |-> state, verifier |-> pkce] IN
            /\ pkce' = 0
            /\ exchange' = request
            /\ exchanged' = Append(exchanged, request)
       ELSE UNCHANGED <<pkce, exchange, exchanged>>
    /\ UNCHANGED <<clock, token, callVars, serverVars, flows>>

ExchangeGranted(life, renewable) ==
    /\ Exchanging
    /\ exchange.state = exchange.verifier
    /\ Issue
    /\ token' = Token(ExpiresAt(life), NewRefresh(renewable))
    /\ live' = live \union NewLive(renewable)
    /\ exchange' = NoExchange
    /\ UNCHANGED <<clock, callVars, rotates, lost, csrf, pkce, flows, exchanged>>

ExchangeFails ==
    /\ Exchanging
    /\ exchange' = NoExchange
    /\ UNCHANGED <<clock, token, callVars, serverVars, csrf, pkce, flows, exchanged>>

-----------------------------------------------------------------------------
(* The authorization server, and time. *)

\* A server that rotates sends the token that replaces the one used; one that
\* does not may leave it out, and goes on accepting the one used.
Grant(c, life, renewable) ==
    /\ pc[c] = "requested" /\ using[c] \in live
    /\ rotates => renewable
    /\ Issue
    /\ reply' = [reply EXCEPT ![c] = [life |-> life, refresh |-> NewRefresh(renewable)]]
    /\ live' = (IF rotates THEN live \ {using[c]} ELSE live) \union NewLive(renewable)
    /\ pc' = [pc EXCEPT ![c] = "granted"]
    /\ UNCHANGED <<clock, token, lock, now, using, rotates, lost, flowVars>>

Tick ==
    /\ clock < MaxTime
    /\ clock' = clock + 1
    /\ UNCHANGED <<token, callVars, serverVars, flowVars>>

-----------------------------------------------------------------------------
CallStep(c) ==
    \/ Start(c) \/ FirstRead(c) \/ TakeLock(c) \/ SecondReadValid(c)
    \/ SecondReadNothing(c) \/ RequestRefresh(c) \/ RefreshFails(c)
    \/ ReplyLost(c) \/ Store(c) \/ DropCall(c)
    \/ \E life \in Lives, renewable \in BOOLEAN : Grant(c, life, renewable)

FlowStep ==
    \/ GetAuthorizationUrl \/ \E state \in Flows : ExchangeCode(state)
    \/ ExchangeFails
    \/ \E life \in Lives, renewable \in BOOLEAN :
        SetToken(life, renewable) \/ ExchangeGranted(life, renewable)

Next == Tick \/ FlowStep \/ \E c \in Callers : CallStep(c)

Spec == Init /\ [][Next]_vars

\* Tasks are polled when they can proceed, tokio's mutex is handed over in FIFO
\* order, and a request to the server ends, if only by failing.
FairSpec ==
    /\ Spec
    /\ \A c \in Callers :
        /\ WF_vars(FirstRead(c)) /\ SF_vars(TakeLock(c))
        /\ WF_vars(SecondReadValid(c) \/ SecondReadNothing(c) \/ RequestRefresh(c))
        /\ WF_vars(RefreshFails(c)) /\ WF_vars(Store(c))

-----------------------------------------------------------------------------
(* Properties. *)

\* Of all tasks at most one has a refresh under way, and it holds the lock.
OneRefresh == \A c \in Callers : pc[c] \in Holding <=> lock = c

\* oauth_test.rs, test_concurrent_refresh_single_request: tasks that find the
\* token expired together make one request.  A refresh starts only while the
\* stored token has expired, not when it had expired as the call began.
RefreshOnlyExpired ==
    [][\A c \in Callers :
        pc[c] # "requested" /\ pc'[c] = "requested" => ~ValidAt(token, clock)]_vars

\* A refresh presents a token that the server has replaced only if the reply
\* with the replacement was lost; dropped callers, retries and set_token in
\* between never bring an old one back.
RefreshAccepted ==
    \A c \in Callers : pc[c] = "requested" => using[c] \in live \union lost

\* A code is exchanged with the verifier of the flow whose state came back with
\* it, and once, whatever callbacks of earlier flows arrive.
ExchangeMatches ==
    /\ \A i \in DOMAIN exchanged : exchanged[i].state = exchanged[i].verifier
    /\ \A i, j \in DOMAIN exchanged : exchanged[i] = exchanged[j] => i = j

\* Every get_valid_token returns: failures, drops and set_token leave no task
\* waiting for the lock.
CallsReturn == \A c \in Callers : []<>(pc[c] = "idle")

-----------------------------------------------------------------------------
(* The inductive invariant behind the safety properties.                     *)

\* A call's instant has passed.
Past == \A c \in Callers : pc[c] # "idle" => now[c] <= clock

\* The stored refresh token can be presented, or its replacement is on its way
\* to the call that holds the lock; so can the replacement.
Presentable ==
    /\ token.refresh \in live \union lost \union {0}
       \/ \E c \in Callers : pc[c] = "granted" /\ using[c] = token.refresh
    /\ \A c \in Callers : pc[c] = "granted" => reply[c].refresh \in live \union {0}

\* While a state is awaited the verifier stored with it is its flow's, and its
\* code has not been exchanged.
FlowPaired ==
    /\ csrf <= flows
    /\ csrf # 0 => pkce = csrf
    /\ \A i \in DOMAIN exchanged :
        /\ exchanged[i].state <= flows
        /\ csrf # 0 => exchanged[i].state # csrf

\* TypeOK strengthened until every step preserves it.
IInv ==
    TypeOK /\ OneRefresh /\ Past /\ Presentable /\ RefreshAccepted /\ FlowPaired
    /\ ExchangeMatches
=============================================================================
