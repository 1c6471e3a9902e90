-------------------------- MODULE OAuthTokenProofs --------------------------
(***************************************************************************)
(* Proofs about OAuthToken, for any number of callers, tokens and flows    *)
(* and clocks that run for any time.                                       *)
(***************************************************************************)
EXTENDS OAuthToken, SequenceTheorems, TLAPS

\* The conjuncts about tokens and about flows are preserved apart: few steps
\* touch both.
TokenInv == OneRefresh /\ Past /\ Presentable /\ RefreshAccepted
FlowInv == FlowPaired /\ ExchangeMatches

LEMMA InitInv == Init => IInv
  <1> SUFFICES ASSUME Init PROVE IInv
    OBVIOUS
  <1>1. TypeOK
    BY OAuthBounds DEF Init, TypeOK, NoToken, NoReply, NoExchange, Expiries, Tokens
  <1>2. OneRefresh /\ Past /\ Presentable /\ RefreshAccepted
    BY OAuthBounds
    DEF Init, OneRefresh, Past, Presentable, RefreshAccepted, Holding, NoToken
  <1>3. FlowPaired /\ ExchangeMatches
    BY DEF Init, FlowPaired, ExchangeMatches
  <1> QED
    BY <1>1, <1>2, <1>3 DEF IInv

\* An expiry that is computed is one that can be stored.
LEMMA ExpiryType ==
  ASSUME TypeOK, NEW life \in Nat \union {Forever}
  PROVE  ExpiresAt(life) \in Expiries
  BY DEF TypeOK, ExpiresAt, Expiries

\* A step that leaves the flows alone preserves what is known of them.
LEMMA FlowsAlone ==
  ASSUME IInv, UNCHANGED flowVars
  PROVE  FlowInv'
  BY DEF IInv, FlowInv, FlowPaired, ExchangeMatches, flowVars

\* Before it holds the lock, a call changes nothing that others see.
LEMMA BeforeLockInv ==
  ASSUME IInv, NEW c \in Callers, Start(c) \/ FirstRead(c)
  PROVE  IInv'
  <1> USE OAuthBounds DEF IInv
  <1>0. /\ pc' \in [Callers -> {"idle", "first", "locking"} \union Holding]
        /\ \A d \in Callers : d # c => pc'[d] = pc[d]
        /\ pc[c] \in {"idle", "first"} /\ pc'[c] \in {"idle", "first", "locking"}
        /\ now' \in [Callers -> 0..MaxTime]
        /\ \A d \in Callers : pc'[d] # "idle" => now'[d] <= clock
        /\ UNCHANGED <<clock, token, lock, using, reply, serverVars, flowVars>>
    <2>1. CASE Start(c)
      BY SMTT(30), <2>1 DEF Start, TypeOK, Past
    <2>2. CASE FirstRead(c)
      BY <2>2 DEF FirstRead, TypeOK, Past
    <2> QED
      BY <2>1, <2>2
  <1>1. TypeOK'
    BY <1>0 DEF TypeOK, serverVars, flowVars
  <1>2. TokenInv'
    <2>1. OneRefresh'
      BY <1>0 DEF OneRefresh, Holding
    <2>2. Past'
      BY <1>0 DEF Past
    <2>3. Presentable' /\ RefreshAccepted'
      BY <1>0 DEF Presentable, RefreshAccepted, serverVars
    <2> QED
      BY <2>1, <2>2, <2>3 DEF TokenInv
  <1>3. FlowInv'
    BY FlowsAlone DEF Start, FirstRead
  <1> QED
    BY <1>1, <1>2, <1>3 DEF TokenInv, FlowInv

LEMMA TakeLockInv ==
  ASSUME IInv, NEW c \in Callers, TakeLock(c)
  PROVE  IInv'
  <1> USE OAuthBounds DEF IInv
  <1>1. TypeOK'
    BY DEF TypeOK, TakeLock, serverVars, flowVars, Holding
  <1>2. TokenInv'
    BY DEF TypeOK, TakeLock, serverVars, TokenInv, OneRefresh, Past,
           Presentable, RefreshAccepted, Holding
  <1>3. FlowInv'
    BY FlowsAlone DEF TakeLock
  <1> QED
    BY <1>1, <1>2, <1>3 DEF TokenInv, FlowInv

\* However a call ends, the lock is free if it held it, and what it leaves
\* behind can be presented, if its reply is stored or counted as lost.
LEMMA FinishInv ==
  ASSUME IInv, NEW c \in Callers, Finish(c),
         UNCHANGED <<clock, rotates, issued, live, flowVars>>,
         token' \in [expires : Expiries, refresh : 0..MaxTokens, present : BOOLEAN],
         lost' \subseteq Tokens, lost \subseteq lost',
         \/ token' = token /\ (pc[c] = "granted" => using[c] \in lost')
         \/ token'.refresh \in live \union {0}
  PROVE  IInv'
  <1> USE OAuthBounds DEF IInv, Finish
  <1>1. TypeOK'
    BY SMTT(30) DEF TypeOK, flowVars, NoReply, Holding
  <1>2. OneRefresh' /\ Past'
    BY DEF TypeOK, OneRefresh, Past, Holding
  <1>3. \A d \in Callers : pc'[d] # "idle" => /\ d # c /\ pc'[d] = pc[d]
                                              /\ using'[d] = using[d]
                                              /\ reply'[d] = reply[d]
    BY DEF TypeOK
  <1>4. Presentable'
    BY <1>3 DEF TypeOK, Presentable
  <1>5. RefreshAccepted'
    BY <1>3 DEF TypeOK, RefreshAccepted
  <1>6. FlowInv'
    BY FlowsAlone
  <1> QED
    BY <1>1, <1>2, <1>4, <1>5, <1>6 DEF FlowInv

LEMMA CallEndsInv ==
  ASSUME IInv, NEW c \in Callers,
         \/ SecondReadValid(c) \/ SecondReadNothing(c) \/ RefreshFails(c)
         \/ ReplyLost(c) \/ Store(c) \/ DropCall(c)
  PROVE  IInv'
  <1> USE OAuthBounds DEF IInv, serverVars
  <1>1. CASE SecondReadValid(c) \/ SecondReadNothing(c) \/ RefreshFails(c)
    BY <1>1, FinishInv DEF TypeOK, SecondReadValid, SecondReadNothing, RefreshFails
  <1>2. CASE ReplyLost(c) \/ DropCall(c)
    <2>1. /\ lost' \subseteq Tokens /\ lost \subseteq lost'
          /\ pc[c] = "granted" => using[c] \in lost'
      <3>1. pc[c] = "granted" => using[c] \in Tokens
        BY DEF TypeOK, Tokens
      <3>2. CASE pc[c] = "granted"
        BY <1>2, <3>1, <3>2 DEF TypeOK, ReplyLost, DropCall
      <3>3. CASE pc[c] # "granted"
        BY <1>2, <3>3 DEF TypeOK, ReplyLost, DropCall
      <3> QED
        BY <3>2, <3>3
    <2> QED
      BY <1>2, <2>1, FinishInv DEF TypeOK, ReplyLost, DropCall
  <1>3. CASE Store(c)
    <2>1. reply[c].refresh \in live \union {0} /\ reply[c].refresh \in 0..MaxTokens
      BY <1>3 DEF TypeOK, Store, Presentable
    <2>2. ExpiresAt(reply[c].life) \in Expiries
      BY ExpiryType DEF TypeOK
    <2>3. /\ token' \in [expires : Expiries, refresh : 0..MaxTokens, present : BOOLEAN]
          /\ token'.refresh \in live \union {0}
      BY <1>3, <2>1, <2>2 DEF Store, Token
    <2> QED
      BY <1>3, <2>3, FinishInv DEF TypeOK, Store
  <1> QED
    BY <1>1, <1>2, <1>3

\* The token presented is the stored one: nobody else has a reply on its way.
LEMMA RequestRefreshInv ==
  ASSUME IInv, NEW c \in Callers, RequestRefresh(c)
  PROVE  IInv'
  <1> USE OAuthBounds DEF IInv, RequestRefresh
  <1>1. TypeOK'
    BY DEF TypeOK, serverVars, flowVars, Holding
  <1>2. OneRefresh' /\ Past'
    BY DEF TypeOK, OneRefresh, Past, Holding
  <1>3. \A d \in Callers : pc[d] # "granted" /\ pc'[d] # "granted"
    BY DEF TypeOK, OneRefresh, Holding
  <1>4. token.refresh \in live \union lost
    BY <1>3 DEF TypeOK, Presentable
  <1>5. Presentable' /\ RefreshAccepted'
    BY <1>3, <1>4 DEF TypeOK, Presentable, RefreshAccepted, serverVars
  <1>6. FlowInv'
    BY FlowsAlone
  <1> QED
    BY <1>1, <1>2, <1>5, <1>6 DEF FlowInv

LEMMA GrantInv ==
  ASSUME IInv, NEW c \in Callers, NEW life \in Lives, NEW renewable \in BOOLEAN,
         Grant(c, life, renewable)
  PROVE  IInv'
  <1> USE OAuthBounds DEF IInv, Grant, Issue
  <1>0. /\ NewRefresh(renewable) \in 0..MaxTokens
        /\ NewLive(renewable) \subseteq Tokens
        /\ NewRefresh(renewable) \in NewLive(renewable) \union {0}
    BY DEF TypeOK, NewRefresh, NewLive, Tokens
  <1>1. TypeOK'
    <2>1. life \in Nat \union {Forever}
      BY DEF Lives
    <2>2. reply' \in [Callers -> [life : Nat \union {Forever}, refresh : 0..MaxTokens]]
      BY <1>0, <2>1 DEF TypeOK
    <2>3. live' \subseteq Tokens /\ issued' \in 0..MaxTokens
      BY <1>0 DEF TypeOK
    <2>4. /\ pc' \in [Callers -> {"idle", "first", "locking"} \union Holding]
          /\ \A d \in Callers : pc'[d] \in {"requested", "granted"} => using'[d] # 0
      BY DEF TypeOK, Holding
    <2> QED
      BY <2>2, <2>3, <2>4 DEF TypeOK, flowVars
  <1>2. OneRefresh' /\ Past'
    BY DEF TypeOK, OneRefresh, Past, Holding
  <1>3. \A d \in Callers \ {c} : pc'[d] \notin {"requested", "granted"}
    BY DEF TypeOK, OneRefresh, Holding
  <1>4. pc'[c] = "granted" /\ using'[c] = using[c] /\ reply'[c].refresh \in live' \union {0}
    BY <1>0 DEF TypeOK
  <1>5. \A t \in live \union lost \union {0} : t \in live' \union lost' \union {0} \/ t = using[c]
    OBVIOUS
  <1>6. \A d \in Callers : pc[d] # "granted"
    BY DEF OneRefresh, Holding
  <1>7. Presentable' /\ RefreshAccepted'
    BY <1>3, <1>4, <1>5, <1>6 DEF Presentable, RefreshAccepted
  <1>8. FlowInv'
    BY FlowsAlone
  <1> QED
    BY <1>1, <1>2, <1>7, <1>8 DEF FlowInv

\* A token issued outside get_valid_token is stored at once.
LEMMA IssuedInv ==
  ASSUME IInv, NEW life \in Lives, NEW renewable \in BOOLEAN,
         Issue,
         token' = Token(ExpiresAt(life), NewRefresh(renewable)),
         live' = live \union NewLive(renewable),
         UNCHANGED <<clock, callVars, rotates, lost>>
  PROVE  /\ token' \in [expires : Expiries, refresh : 0..MaxTokens, present : BOOLEAN]
         /\ live' \subseteq Tokens /\ issued' \in 0..MaxTokens
         /\ TokenInv'
  <1> USE OAuthBounds DEF IInv, Issue
  <1>1. /\ NewRefresh(renewable) \in 0..MaxTokens
        /\ NewLive(renewable) \subseteq Tokens
        /\ NewRefresh(renewable) \in live' \union {0}
    BY DEF TypeOK, NewRefresh, NewLive, Tokens
  <1>2. ExpiresAt(life) \in Expiries
    BY ExpiryType DEF Lives
  <1>3. token' \in [expires : Expiries, refresh : 0..MaxTokens, present : BOOLEAN]
    BY <1>1, <1>2 DEF Token
  <1>4. live' \subseteq Tokens /\ issued' \in 0..MaxTokens
    BY <1>1 DEF TypeOK
  <1>5. token'.refresh \in live' \union {0}
    BY <1>1 DEF Token
  <1>6. TokenInv'
    BY <1>5 DEF TokenInv, OneRefresh, Past, Presentable, RefreshAccepted, callVars
  <1> QED
    BY <1>3, <1>4, <1>6

LEMMA SetTokenInv ==
  ASSUME IInv, NEW life \in Lives, NEW renewable \in BOOLEAN,
         SetToken(life, renewable) \/ ExchangeGranted(life, renewable)
  PROVE  IInv'
  <1> USE OAuthBounds DEF IInv, SetToken, ExchangeGranted
  <1>1. /\ token' \in [expires : Expiries, refresh : 0..MaxTokens, present : BOOLEAN]
        /\ live' \subseteq Tokens /\ issued' \in 0..MaxTokens
        /\ TokenInv'
    BY IssuedInv
  <1>2. TypeOK'
    <2>1. exchange' \in [state : 0..MaxFlows, verifier : 0..MaxFlows]
      BY DEF TypeOK, flowVars, NoExchange
    <2> QED
      BY <1>1, <2>1 DEF TypeOK, callVars, flowVars
  <1>3. FlowInv'
    BY DEF FlowInv, FlowPaired, ExchangeMatches, flowVars
  <1> QED
    BY <1>1, <1>2, <1>3 DEF TokenInv, FlowInv

\* A step of the flow that leaves the tokens alone.
LEMMA TokensAlone ==
  ASSUME IInv, UNCHANGED <<clock, token, callVars, serverVars>>
  PROVE  TokenInv'
  BY DEF IInv, TokenInv, OneRefresh, Past, Presentable, RefreshAccepted, callVars,
         serverVars

Requests == [state : 0..MaxFlows, verifier : 0..MaxFlows]

\* The exchanges so far are a sequence of requests, whose states are numbers.
LEMMA ExchangedTyped ==
  ASSUME TypeOK
  PROVE  /\ exchanged \in Seq(Requests)
         /\ \A i \in DOMAIN exchanged : exchanged[i].state \in Nat
  <1>1. exchanged \in Seq(Requests)
    BY DEF TypeOK, Requests
  <1>2. ASSUME NEW i \in DOMAIN exchanged
        PROVE  exchanged[i].state \in Nat
    <2>1. exchanged[i] \in Requests
      BY <1>1, <1>2
    <2> QED
      BY <2>1, OAuthBounds DEF Requests
  <1> QED
    BY <1>1, <1>2

LEMMA GetAuthorizationUrlInv ==
  ASSUME IInv, GetAuthorizationUrl
  PROVE  IInv'
  <1> USE OAuthBounds DEF IInv, GetAuthorizationUrl
  <1>1. TypeOK'
    BY SMTT(30) DEF TypeOK, callVars, serverVars
  <1>2. TokenInv'
    BY TokensAlone
  <1>3. ASSUME NEW i \in DOMAIN exchanged'
        PROVE  exchanged'[i].state <= flows' /\ exchanged'[i].state # csrf'
    <2>1. i \in DOMAIN exchanged /\ exchanged'[i] = exchanged[i]
      OBVIOUS
    <2>2. exchanged[i].state \in Nat
      BY <2>1, ExchangedTyped
    <2>3. exchanged[i].state <= flows /\ flows \in Nat
      BY <2>1 DEF TypeOK, FlowPaired
    <2> QED
      BY <2>1, <2>2, <2>3
  <1>4. FlowPaired' /\ ExchangeMatches'
    <2>1. csrf' \in Nat /\ flows' \in Nat /\ csrf' <= flows' /\ pkce' = csrf'
      BY DEF TypeOK
    <2>2. FlowPaired'
      BY <1>3, <2>1 DEF FlowPaired
    <2>3. ExchangeMatches'
      BY DEF ExchangeMatches
    <2> QED
      BY <2>2, <2>3
  <1> QED
    BY <1>1, <1>2, <1>4 DEF TokenInv

\* The state that is accepted is new, and its verifier its own.
LEMMA ExchangeCodeInv ==
  ASSUME IInv, NEW state \in Flows, ExchangeCode(state)
  PROVE  IInv'
  <1> USE OAuthBounds DEF IInv, ExchangeCode
  <1>1. TokenInv'
    BY TokensAlone
  <1>2. CASE ~(state = csrf /\ pkce # 0)
    <2>1. UNCHANGED <<pkce, exchange, exchanged>>
      BY <1>2
    <2>2. TypeOK'
      BY <2>1 DEF TypeOK, callVars, serverVars
    <2>3. csrf' = 0 /\ flows' = flows /\ exchanged' = exchanged /\ flows \in Nat
      BY <2>1 DEF TypeOK
    <2>4. FlowPaired'
      BY <2>3 DEF FlowPaired
    <2>5. ExchangeMatches'
      BY <2>3 DEF ExchangeMatches
    <2> QED
      BY <1>1, <2>2, <2>4, <2>5 DEF TokenInv
  <1>3. CASE state = csrf /\ pkce # 0
    <2> DEFINE request == [state |-> state, verifier |-> pkce]
    <2>1. /\ exchanged' = Append(exchanged, request) /\ exchange' = request
          /\ pkce' = 0 /\ csrf' = 0
          /\ pkce = state
      BY <1>3 DEF FlowPaired
    <2>2. request \in Requests /\ request.state = state /\ request.verifier = pkce
      BY DEF TypeOK, Flows, Requests
    <2>3. exchanged \in Seq(Requests)
      BY ExchangedTyped
    <2>4. \A i \in DOMAIN exchanged : exchanged[i].state # state
      BY <1>3 DEF FlowPaired
    <2> HIDE DEF request
    <2>5. /\ exchanged' \in Seq(Requests)
          /\ DOMAIN exchanged' = DOMAIN exchanged \union {Len(exchanged) + 1}
          /\ \A i \in DOMAIN exchanged : exchanged'[i] = exchanged[i]
          /\ exchanged'[Len(exchanged) + 1] = request
      <3> HIDE DEF IInv, ExchangeCode
      <3> QED
        BY <2>1, <2>2, <2>3, AppendProperties
    <2>6. ExchangeMatches'
      BY <2>1, <2>2, <2>4, <2>5 DEF ExchangeMatches
    <2>7. FlowPaired'
      BY SMTT(30), <1>3, <2>1, <2>2, <2>5 DEF TypeOK, FlowPaired
    <2>8. TypeOK'
      BY SMTT(30), <2>1, <2>2, <2>5 DEF TypeOK, Requests, callVars, serverVars
    <2> QED
      BY <1>1, <2>6, <2>7, <2>8 DEF TokenInv
  <1> QED
    BY <1>2, <1>3

LEMMA ExchangeFailsInv ==
  ASSUME IInv, ExchangeFails
  PROVE  IInv'
  <1> USE OAuthBounds DEF IInv, ExchangeFails
  <1>1. TypeOK'
    BY SMTT(30) DEF TypeOK, callVars, serverVars, NoExchange
  <1>2. TokenInv'
    BY TokensAlone
  <1>3. FlowPaired' /\ ExchangeMatches'
    BY DEF FlowPaired, ExchangeMatches
  <1> QED
    BY <1>1, <1>2, <1>3 DEF TokenInv

LEMMA TickInv ==
  ASSUME IInv, Tick
  PROVE  IInv'
  <1> USE OAuthBounds DEF IInv, Tick
  <1>1. TypeOK'
    BY SMTT(30) DEF TypeOK, callVars, serverVars, flowVars
  <1>2. Past'
    BY DEF TypeOK, Past, callVars
  <1>3. OneRefresh' /\ Presentable' /\ RefreshAccepted'
    BY DEF OneRefresh, Presentable, RefreshAccepted, callVars, serverVars
  <1>4. FlowInv'
    BY FlowsAlone
  <1> QED
    BY <1>1, <1>2, <1>3, <1>4 DEF FlowInv

\* One case per action.
LEMMA StepInv == IInv /\ [Next]_vars => IInv'
  <1> SUFFICES ASSUME IInv, [Next]_vars PROVE IInv'
    OBVIOUS
  <1>1. CASE Tick
    BY <1>1, TickInv
  <1>2. CASE FlowStep
    BY <1>2, GetAuthorizationUrlInv, ExchangeCodeInv, ExchangeFailsInv, SetTokenInv
    DEF FlowStep
  <1>3. ASSUME NEW c \in Callers, CallStep(c)
        PROVE  IInv'
    <2>1. CASE Start(c) \/ FirstRead(c) \/ TakeLock(c) \/ RequestRefresh(c)
      BY <2>1, BeforeLockInv, TakeLockInv, RequestRefreshInv
    <2>2. CASE \/ SecondReadValid(c) \/ SecondReadNothing(c) \/ RefreshFails(c)
               \/ ReplyLost(c) \/ Store(c) \/ DropCall(c)
      BY <2>2, CallEndsInv
    <2>3. CASE \E life \in Lives, renewable \in BOOLEAN : Grant(c, life, renewable)
      BY <2>3, GrantInv
    <2> QED
      BY <1>3, <2>1, <2>2, <2>3 DEF CallStep
  <1>4. CASE UNCHANGED vars
    <2>1. TypeOK'
      BY <1>4 DEF IInv, TypeOK, vars, callVars, serverVars, flowVars
    <2> QED
      BY <1>4, <2>1, TokensAlone, FlowsAlone DEF vars, IInv, TokenInv, FlowInv
  <1> QED
    BY <1>1, <1>2, <1>3, <1>4 DEF Next

\* The invariant holds in every state of get_valid_token's tasks and of the
\* flows, for any number of them.
THEOREM Invariance == Spec => []IInv
  BY InitInv, StepInv, PTL DEF Spec

\* refresh_lock: at most one task has a refresh under way, and it holds the lock.
THEOREM SingleRefresh == Spec => []OneRefresh
  BY Invariance, PTL DEF IInv

\* refresh_token_inner presents a token the server has replaced only when the
\* reply that brought the replacement was lost.
THEOREM RefreshTokensFresh == Spec => []RefreshAccepted
  BY Invariance, PTL DEF IInv

\* exchange_code pairs every code with the verifier of its own flow, once.
THEOREM FlowsMatch == Spec => []ExchangeMatches
  BY Invariance, PTL DEF IInv

\* Only RequestRefresh starts a refresh, and what had expired when the call
\* began has still expired.
LEMMA RefreshStep ==
  ASSUME IInv, [Next]_vars, NEW c \in Callers,
         pc[c] # "requested", pc'[c] = "requested"
  PROVE  ~ValidAt(token, clock)
  <1>1. RequestRefresh(c)
    <2>1. ASSUME NEW d \in Callers, CallStep(d)
          PROVE  RequestRefresh(c)
      <3>1. CASE RequestRefresh(d)
        BY <3>1 DEF RequestRefresh, IInv, TypeOK
      <3>2. CASE ~RequestRefresh(d)
        BY <2>1, <3>2
        DEF CallStep, Start, FirstRead, TakeLock, SecondReadValid, SecondReadNothing,
            RefreshFails, ReplyLost, Store, DropCall, Finish, Grant, IInv, TypeOK
      <3> QED
        BY <3>1, <3>2
    <2>2. CASE Tick \/ FlowStep \/ UNCHANGED vars
      BY <2>2
      DEF Tick, FlowStep, GetAuthorizationUrl, ExchangeCode, ExchangeFails, SetToken,
          ExchangeGranted, callVars, vars
    <2> QED
      BY <2>1, <2>2 DEF Next
  <1>2. now[c] <= clock /\ now[c] \in Nat /\ clock \in Nat
    BY <1>1 DEF RequestRefresh, IInv, Past, TypeOK
  <1>3. ~ValidAt(token, now[c])
    BY <1>1 DEF RequestRefresh
  <1> QED
    BY <1>2, <1>3, OAuthBounds DEF ValidAt, IInv, TypeOK, Expiries

\* get_valid_token refreshes only a token that has expired: tasks that were
\* waiting for the lock find the one another task has stored.
THEOREM NoNeedlessRefresh == Spec => RefreshOnlyExpired
  <1>1. IInv /\ [Next]_vars =>
          [\A c \in Callers :
             pc[c] # "requested" /\ pc'[c] = "requested" => ~ValidAt(token, clock)]_vars
    BY RefreshStep
  <1> QED
    BY <1>1, Invariance, PTL DEF Spec, RefreshOnlyExpired
=============================================================================
