----------------------- MODULE ClientConnectionProofs -----------------------
(***************************************************************************)
(* Proofs about ClientConnection, for any number of connections, calls and *)
(* server requests, and any capacity.                                      *)
(***************************************************************************)
EXTENDS ClientConnection, TLAPS

-----------------------------------------------------------------------------
(* Sequences and messages. *)

LEMMA AppendAt ==
  ASSUME NEW S, NEW s \in Seq(S), NEW x \in S
  PROVE  /\ Append(s, x) \in Seq(S)
         /\ Len(s) \in Nat /\ DOMAIN s = 1..Len(s)
         /\ DOMAIN Append(s, x) = 1..(Len(s) + 1) /\ Len(s) + 1 \notin DOMAIN s
         /\ \A k \in DOMAIN s : k \in DOMAIN Append(s, x) /\ Append(s, x)[k] = s[k]
         /\ \A k \in DOMAIN Append(s, x) : k = Len(s) + 1 \/ k \in DOMAIN s
         /\ Append(s, x)[Len(s) + 1] = x
  OBVIOUS

LEMMA TailAt ==
  ASSUME NEW S, NEW s \in Seq(S), s # <<>>
  PROVE  /\ Tail(s) \in Seq(S) /\ Head(s) \in S
         /\ 1 \in DOMAIN s /\ Head(s) = s[1]
         /\ \A k \in DOMAIN Tail(s) : /\ k \in Nat /\ k + 1 \in DOMAIN s /\ k + 1 # 1
                                      /\ Tail(s)[k] = s[k + 1]
         /\ \A k \in DOMAIN s : k # 1 => \E l \in DOMAIN Tail(s) : l + 1 = k
  <1>1. /\ Tail(s) \in Seq(S) /\ Head(s) \in S /\ Len(s) \in Nat /\ Len(s) >= 1
        /\ DOMAIN s = 1..Len(s) /\ DOMAIN Tail(s) = 1..(Len(s) - 1) /\ Head(s) = s[1]
        /\ \A k \in 1..(Len(s) - 1) : Tail(s)[k] = s[k + 1]
    OBVIOUS
  <1>2. \A k \in 1..Len(s) : k # 1 => k - 1 \in 1..(Len(s) - 1) /\ (k - 1) + 1 = k
    BY <1>1
  <1>3. \A k \in DOMAIN Tail(s) : k \in Nat /\ k + 1 \in DOMAIN s /\ k + 1 # 1
    BY <1>1
  <1>4. \A k \in DOMAIN s : k # 1 => \E l \in DOMAIN Tail(s) : l + 1 = k
    BY <1>1, <1>2
  <1>5. 1 \in DOMAIN s
    BY <1>1
  <1> QED
    BY <1>1, <1>3, <1>4, <1>5

LEMMA MessageTypes ==
  ASSUME NEW m \in ServerMessages
  PROVE  /\ m.type \in {"response", "error", "request", "note", "ctx"}
         /\ m.type \in {"response", "error"} => m.call \in Calls
         /\ m.type = "request" => m.id \in ServerRequests /\ m = Request(m.id)
  BY DEF ServerMessages, Response, Error, Request, ServerNote, CtxReply

LEMMA MessageKinds ==
  /\ \A n \in Calls : /\ Response(n) \in ServerMessages /\ Response(n).type = "response"
                      /\ Error(n) \in ServerMessages /\ Error(n).type = "error"
                      /\ Response(n).call = n /\ Error(n).call = n
  /\ \A s \in ServerRequests : /\ Request(s) \in ServerMessages /\ Request(s).type = "request"
                               /\ Request(s).id = s
  /\ ServerNote \in ServerMessages /\ ServerNote.type = "note"
  /\ CtxReply \in ServerMessages /\ CtxReply.type = "ctx"
  /\ NoMessage.type = "none"
  BY DEF ServerMessages, Response, Error, Request, ServerNote, CtxReply, NoMessage

LEMMA InboxTypes ==
  ASSUME TypeOK, NEW k \in Conns
  PROVE  /\ inbox[k] \in Seq(ServerMessages)
         /\ \A i \in DOMAIN inbox[k] : i \in Nat /\ inbox[k][i] \in ServerMessages
  <1>1. inbox[k] \in Seq(ServerMessages)
    BY DEF TypeOK
  <1> HIDE DEF ServerMessages
  <1> QED
    BY <1>1

\* A message arrives, and a message is read.
LEMMA ArrivesEffect ==
  ASSUME TypeOK, NEW k \in Conns, NEW m \in ServerMessages, Arrives(k, m)
  PROVE  /\ k <= conn
         /\ inbox' \in [Conns -> Seq(ServerMessages)]
         /\ \A j \in Conns \ {k} : inbox'[j] = inbox[j]
         /\ \E e \in DOMAIN inbox'[k] \ DOMAIN inbox[k] :
              /\ inbox'[k][e] = m
              /\ \A i \in DOMAIN inbox'[k] : i = e \/ i \in DOMAIN inbox[k]
         /\ \A i \in DOMAIN inbox[k] : i \in DOMAIN inbox'[k] /\ inbox'[k][i] = inbox[k][i]
         /\ UNCHANGED <<ownerVars, pending, loop, handling, open, up, asking, noteVars,
                        answered, initialized, hooks>>
  <1>1. /\ inbox \in [Conns -> Seq(ServerMessages)] /\ inbox[k] \in Seq(ServerMessages)
        /\ inbox' = [inbox EXCEPT ![k] = Append(@, m)] /\ k <= conn
        /\ UNCHANGED <<ownerVars, pending, loop, handling, open, up, asking, noteVars,
                       answered, initialized, hooks>>
    BY InboxTypes DEF Arrives, TypeOK
  <1> HIDE DEF ServerMessages
  <1>2. inbox'[k] = Append(inbox[k], m) /\ \A j \in Conns \ {k} : inbox'[j] = inbox[j]
    BY <1>1
  <1>3. /\ Append(inbox[k], m) \in Seq(ServerMessages)
        /\ DOMAIN inbox[k] = 1..Len(inbox[k]) /\ Len(inbox[k]) \in Nat
        /\ DOMAIN inbox'[k] = 1..(Len(inbox[k]) + 1) /\ Len(inbox[k]) + 1 \notin DOMAIN inbox[k]
        /\ \A i \in DOMAIN inbox[k] : i \in DOMAIN inbox'[k] /\ inbox'[k][i] = inbox[k][i]
        /\ \A i \in DOMAIN inbox'[k] : i = Len(inbox[k]) + 1 \/ i \in DOMAIN inbox[k]
        /\ inbox'[k][Len(inbox[k]) + 1] = m
    BY <1>1, <1>2, AppendAt
  <1>4. Len(inbox[k]) + 1 \in DOMAIN inbox'[k] \ DOMAIN inbox[k]
    BY <1>3
  <1> QED
    BY <1>1, <1>2, <1>3, <1>4

LEMMA ReadEffect ==
  ASSUME TypeOK, NEW k \in Conns, ReadMessage(k)
  PROVE  LET m == inbox[k][1] IN
         /\ loop[k] = "select" /\ 1 \in DOMAIN inbox[k] /\ m \in ServerMessages
         /\ inbox' \in [Conns -> Seq(ServerMessages)]
         /\ \A j \in Conns \ {k} : inbox'[j] = inbox[j]
         /\ \A i \in DOMAIN inbox'[k] : /\ i \in Nat /\ i + 1 \in DOMAIN inbox[k] /\ i + 1 # 1
                                        /\ inbox'[k][i] = inbox[k][i + 1]
         /\ \A i \in DOMAIN inbox[k] : i # 1 => \E l \in DOMAIN inbox'[k] : l + 1 = i
         /\ \/ /\ m.type \in {"response", "error"} /\ m.call \in Calls
               /\ Resolve(k, m.call, m.type) /\ UNCHANGED <<loop, handling>>
            \/ /\ m.type \in {"request", "note"}
               /\ loop' = [loop EXCEPT ![k] = "callback"]
               /\ handling' = [handling EXCEPT ![k] = m]
               /\ UNCHANGED <<pending, got>>
            \/ m.type = "ctx" /\ UNCHANGED <<pending, got, loop, handling>>
         /\ UNCHANGED <<owner, conn, call, init, sentOn, open, requested, up, asking,
                        noteVars, answered, initialized, hooks>>
  <1>1. /\ inbox \in [Conns -> Seq(ServerMessages)] /\ inbox[k] \in Seq(ServerMessages)
        /\ inbox[k] # <<>> /\ inbox' = [inbox EXCEPT ![k] = Tail(@)]
    BY InboxTypes DEF ReadMessage, TypeOK
  <1> HIDE DEF ServerMessages
  <1>2. inbox'[k] = Tail(inbox[k]) /\ \A j \in Conns \ {k} : inbox'[j] = inbox[j]
    BY <1>1
  <1>3. /\ inbox'[k] \in Seq(ServerMessages) /\ Head(inbox[k]) \in ServerMessages
        /\ 1 \in DOMAIN inbox[k] /\ Head(inbox[k]) = inbox[k][1]
        /\ \A i \in DOMAIN inbox'[k] : /\ i \in Nat /\ i + 1 \in DOMAIN inbox[k] /\ i + 1 # 1
                                       /\ inbox'[k][i] = inbox[k][i + 1]
        /\ \A i \in DOMAIN inbox[k] : i # 1 => \E l \in DOMAIN inbox'[k] : l + 1 = i
    BY <1>1, <1>2, TailAt
  <1>4. inbox' \in [Conns -> Seq(ServerMessages)]
    BY <1>1, <1>2, <1>3
  <1>5. Head(inbox[k]).type \in {"response", "error"} => Head(inbox[k]).call \in Calls
    BY <1>3, MessageTypes
  <1> QED
    BY <1>2, <1>3, <1>4, <1>5 DEF ReadMessage

\* What the server's steps put into an inbox.
LEMMA AnswerArrives ==
  ASSUME NEW k \in Conns, NEW n \in Calls, ServerAnswers(k, n)
  PROVE  \E m \in ServerMessages :
           /\ Arrives(k, m) /\ m.type \in {"response", "error"}
           /\ m.call = n /\ sentOn[n] = k /\ UNCHANGED requested
  <1> HIDE DEF ServerMessages, Response, Error
  <1> QED
    BY MessageKinds DEF ServerAnswers

LEMMA AskArrives ==
  ASSUME NEW k \in Conns, NEW s \in ServerRequests, ServerAsks(k, s)
  PROVE  /\ Request(s) \in ServerMessages /\ Request(s).type = "request" /\ Request(s).id = s
         /\ Arrives(k, Request(s)) /\ s \notin requested[k]
         /\ requested' = [requested EXCEPT ![k] = @ \union {s}]
  BY MessageKinds DEF ServerAsks

LEMMA OtherArrives ==
  ASSUME NEW k \in Conns, ServerAnswersCtx(k) \/ ServerNotifies(k)
  PROVE  \E m \in ServerMessages :
           Arrives(k, m) /\ m.type \in {"note", "ctx"} /\ UNCHANGED requested
  BY MessageKinds DEF ServerAnswersCtx, ServerNotifies

-----------------------------------------------------------------------------
(* Types.  The hooks run at most once because a loop that has ended does not *)
(* end again, and a connection not yet made has not run on_connect.          *)

LEMMA EndTypes ==
  ASSUME TypeOK, NEW k \in Conns, loop[k] \in {"select", "replying"}, End(k),
         queued' \in [Conns -> 0..Capacity], lagged' = lagged
  PROVE  TypeOK'
  <1>1. hooks[k].shutdown = 0 /\ hooks[k].connect = 1
    BY DEF TypeOK
  <1>2. /\ hooks' \in [Conns -> [connect : 0..1, shutdown : 0..1]]
        /\ hooks'[k].shutdown = 1 /\ hooks'[k].connect = 1
        /\ \A j \in Conns \ {k} : hooks'[j] = hooks[j]
    BY <1>1 DEF TypeOK, End
  <1>3. /\ loop' \in [Conns -> {"none", "select", "callback", "replying", "ended", "panicked"}]
        /\ loop'[k] = "ended" /\ \A j \in Conns \ {k} : loop'[j] = loop[j]
        /\ handling' \in [Conns -> ServerMessages \union {NoMessage}]
    BY DEF TypeOK, End
  <1>4. UNCHANGED <<ownerVars, pending, serverVars, up, asking, answered, initialized>>
    BY DEF End
  <1>5. \A j \in Conns : /\ hooks'[j].shutdown = 1 <=> loop'[j] = "ended"
                         /\ loop'[j] # "none" => hooks'[j].connect = 1
    <2>1. \A j \in Conns \ {k} : /\ hooks[j].shutdown = 1 <=> loop[j] = "ended"
                                 /\ loop[j] # "none" => hooks[j].connect = 1
      BY DEF TypeOK
    <2> QED
      BY <1>2, <1>3, <2>1
  <1>6. /\ owner' = owner /\ conn' = conn /\ call' = call /\ init' = init /\ sentOn' = sentOn
        /\ got' = got /\ pending' = pending /\ inbox' = inbox /\ open' = open
        /\ requested' = requested /\ up' = up /\ asking' = asking /\ answered' = answered
        /\ initialized' = initialized
    BY <1>4 DEF ownerVars, serverVars
  <1> QED
    BY <1>2, <1>3, <1>5, <1>6 DEF TypeOK

LEMMA OwnerTypes ==
  ASSUME TypeOK, Unmade, Calling, OwnerStep
  PROVE  TypeOK'
  <1>1. CASE Connect
    <2>1. /\ conn + 1 \in Conns /\ conn' = conn + 1 /\ conn' \in 0..MaxConns
          /\ hooks' = [hooks EXCEPT ![conn + 1].connect = @ + 1]
      BY <1>1, ClientBounds DEF Connect, TypeOK, Conns
    <2>2. hooks[conn + 1].connect = 0 /\ loop[conn + 1] = "none"
      BY <2>1 DEF Unmade, TypeOK
    <2>3. /\ hooks' \in [Conns -> [connect : 0..1, shutdown : 0..1]]
          /\ hooks'[conn + 1].shutdown = hooks[conn + 1].shutdown
          /\ \A k \in Conns \ {conn + 1} : hooks'[k] = hooks[k]
      <3>1. hooks \in [Conns -> [connect : 0..1, shutdown : 0..1]]
        BY DEF TypeOK
      <3>2. [hooks[conn + 1] EXCEPT !.connect = @ + 1] \in [connect : 0..1, shutdown : 0..1]
        BY <2>1, <2>2, <3>1
      <3> QED
        BY <2>1, <2>2, <3>1, <3>2
    <2>4. /\ call' = call /\ init' = init /\ sentOn' = sentOn /\ pending' = pending
          /\ got' = got /\ loop' = loop /\ handling' = handling /\ inbox' = inbox
          /\ open' = open /\ requested' = requested /\ up' = up /\ asking' = asking
          /\ queued' = queued /\ lagged' = lagged /\ answered' = answered
          /\ initialized' = initialized /\ owner' = "connecting"
      BY <1>1 DEF Connect, serverVars, noteVars
    <2>5. /\ \A k \in Conns : hooks'[k].shutdown = 1 <=> loop'[k] = "ended"
          /\ \A k \in Conns : loop'[k] # "none" => hooks'[k].connect = 1
      <3>1. /\ \A k \in Conns : hooks[k].shutdown = 1 <=> loop[k] = "ended"
            /\ \A k \in Conns : loop[k] # "none" => hooks[k].connect = 1
        BY DEF TypeOK
      <3>2. loop' = loop
        BY <2>4
      <3>3. loop'[conn + 1] = "none" /\ hooks'[conn + 1].shutdown # 1
        BY <2>1, <2>2, <2>3, <3>1, <3>2
      <3> QED
        BY <2>3, <3>1, <3>2, <3>3
    <2> QED
      BY <2>1, <2>3, <2>4, <2>5 DEF TypeOK
  <1>2. ASSUME NEW ok \in BOOLEAN, OnConnectReturns(ok)
        PROVE  TypeOK'
    <2>1. /\ conn \in Conns /\ loop[conn] = "none" /\ hooks[conn].connect = 1
          /\ hooks[conn].shutdown # 1
      BY <1>2, ClientBounds DEF OnConnectReturns, Unmade, Calling, TypeOK, Conns
    <2>2. /\ loop' \in [Conns -> {"none", "select", "callback", "replying", "ended", "panicked"}]
          /\ \A k \in Conns \ {conn} : loop'[k] = loop[k]
          /\ loop'[conn] # "ended"
      BY <1>2, <2>1 DEF OnConnectReturns, TypeOK
    <2>3. /\ call' = call /\ init' = init /\ sentOn' = sentOn /\ pending' = pending
          /\ got' = got /\ conn' = conn /\ handling' = handling /\ inbox' = inbox
          /\ open' = open /\ requested' = requested /\ up' = up /\ asking' = asking
          /\ queued' = queued /\ lagged' = lagged /\ answered' = answered
          /\ initialized' = initialized /\ hooks' = hooks /\ owner' = "idle"
      BY <1>2 DEF OnConnectReturns, serverVars, noteVars
    <2>4. /\ \A k \in Conns : hooks'[k].shutdown = 1 <=> loop'[k] = "ended"
          /\ \A k \in Conns : loop'[k] # "none" => hooks'[k].connect = 1
      <3>1. /\ \A k \in Conns : hooks[k].shutdown = 1 <=> loop[k] = "ended"
            /\ \A k \in Conns : loop[k] # "none" => hooks[k].connect = 1
        BY DEF TypeOK
      <3> QED
        BY <2>1, <2>2, <2>3, <3>1
    <2> QED
      BY <2>2, <2>3, <2>4 DEF TypeOK
  <1>3. ASSUME NEW isInit \in BOOLEAN, Call(isInit)
        PROVE  TypeOK'
    <2>1. call + 1 \in Calls /\ call' = call + 1 /\ call' \in 0..MaxCalls
      BY <1>3, ClientBounds DEF Call, TypeOK, Calls
    <2>2. /\ sentOn' \in [Calls -> 0..MaxConns] /\ pending' \subseteq Calls
          /\ owner' \in {"idle", "calling"} /\ init' \in BOOLEAN
      BY <1>3, <2>1 DEF Call, TypeOK
    <2>3. /\ loop' = loop
          /\ got' = got /\ conn' = conn /\ handling' = handling /\ inbox' = inbox
          /\ open' = open /\ requested' = requested /\ up' = up /\ asking' = asking
          /\ queued' = queued /\ lagged' = lagged /\ answered' = answered
          /\ initialized' = initialized /\ hooks' = hooks
      BY <1>3 DEF Call, serverVars, noteVars
    <2> QED
      BY <2>1, <2>2, <2>3 DEF TypeOK
  <1>4. CASE CallReturns \/ CallDropped \/ DropClient
    <2>1. /\ owner' \in {"idle", "gone"} /\ got' \in {got, NoReply}
          /\ initialized' \in [Conns -> BOOLEAN]
      BY <1>4 DEF CallReturns, CallDropped, DropClient, TypeOK
    <2>2. got' \in [kind : {"none", "response", "error"}, on : 0..MaxConns]
      BY <2>1, ClientBounds DEF TypeOK, NoReply
    <2>3. /\ conn' = conn /\ call' = call /\ init' = init /\ sentOn' = sentOn
          /\ pending' = pending /\ loop' = loop /\ handling' = handling /\ inbox' = inbox
          /\ open' = open /\ requested' = requested /\ up' = up /\ asking' = asking
          /\ queued' = queued /\ lagged' = lagged /\ answered' = answered /\ hooks' = hooks
      BY <1>4 DEF CallReturns, CallDropped, DropClient, serverVars, noteVars
    <2> QED
      BY <2>1, <2>2, <2>3 DEF TypeOK
  <1> QED
    BY <1>1, <1>2, <1>3, <1>4 DEF OwnerStep

\* A loop that goes on, or is ended by a panic: the relation between its state and its hooks is kept.
LEMMA LoopGoesOn ==
  ASSUME TypeOK, NEW k \in Conns, loop[k] \in {"select", "callback", "replying"},
         NEW v \in {"select", "callback", "replying", "panicked"},
         loop' = [loop EXCEPT ![k] = v], hooks' = hooks
  PROVE  /\ loop' \in [Conns -> {"none", "select", "callback", "replying", "ended", "panicked"}]
         /\ \A j \in Conns : hooks'[j].shutdown = 1 <=> loop'[j] = "ended"
         /\ \A j \in Conns : loop'[j] # "none" => hooks'[j].connect = 1
  <1>1. /\ loop' \in [Conns -> {"none", "select", "callback", "replying", "ended", "panicked"}]
        /\ loop'[k] = v /\ \A j \in Conns \ {k} : loop'[j] = loop[j]
    BY DEF TypeOK
  <1> QED
    BY <1>1 DEF TypeOK

LEMMA LoopTypes ==
  ASSUME TypeOK, Handling, NEW k \in Conns, LoopStep(k)
  PROVE  TypeOK'
  <1>1. CASE ReadMessage(k)
    <2> DEFINE m == inbox[k][1]
    <2>1. /\ inbox' \in [Conns -> Seq(ServerMessages)] /\ m \in ServerMessages
          /\ loop[k] = "select"
          /\ \/ /\ m.type \in {"response", "error"} /\ m.call \in Calls
                /\ Resolve(k, m.call, m.type) /\ UNCHANGED <<loop, handling>>
             \/ /\ loop' = [loop EXCEPT ![k] = "callback"]
                /\ handling' = [handling EXCEPT ![k] = m]
                /\ UNCHANGED <<pending, got>>
             \/ UNCHANGED <<pending, got, loop, handling>>
          /\ UNCHANGED <<owner, conn, call, init, sentOn, open, requested, up, asking,
                         noteVars, answered, initialized, hooks>>
      BY <1>1, ReadEffect
    <2> HIDE DEF m
    <2>2. pending' \subseteq Calls /\ handling' \in [Conns -> ServerMessages \union {NoMessage}]
      <3>1. pending \subseteq Calls /\ handling \in [Conns -> ServerMessages \union {NoMessage}]
        BY DEF TypeOK
      <3>2. pending' \subseteq pending
        BY <2>1 DEF Resolve
      <3>3. handling' = handling \/ handling' = [handling EXCEPT ![k] = m]
        BY <2>1
      <3> QED
        BY <2>1, <3>1, <3>2, <3>3
    <2>3. got' \in [kind : {"none", "response", "error"}, on : 0..MaxConns]
      <3>1. got \in [kind : {"none", "response", "error"}, on : 0..MaxConns] /\ k \in 0..MaxConns
        BY ClientBounds DEF TypeOK, Conns
      <3>2. CASE got' = got
        BY <3>1, <3>2
      <3>3. CASE m.type \in {"response", "error"} /\ got' = [kind |-> m.type, on |-> k]
        BY <3>1, <3>3
      <3> QED
        BY <2>1, <3>2, <3>3 DEF Resolve
    <2>4. /\ loop' \in [Conns -> {"none", "select", "callback", "replying", "ended", "panicked"}]
          /\ \A j \in Conns : hooks'[j].shutdown = 1 <=> loop'[j] = "ended"
          /\ \A j \in Conns : loop'[j] # "none" => hooks'[j].connect = 1
      <3>1. CASE loop' = [loop EXCEPT ![k] = "callback"]
        BY <2>1, <3>1, LoopGoesOn
      <3>2. CASE loop' = loop
        BY <2>1, <3>2 DEF TypeOK
      <3> QED
        BY <2>1, <3>1, <3>2
    <2> QED
      BY <2>1, <2>2, <2>3, <2>4 DEF TypeOK, noteVars
  <1>2. CASE CallbackReturns(k) \/ CallbackPanics(k)
    <2>1. /\ loop[k] = "callback" /\ hooks' = hooks
          /\ \/ loop' = [loop EXCEPT ![k] = "replying"]
             \/ loop' = [loop EXCEPT ![k] = "select"]
             \/ loop' = [loop EXCEPT ![k] = "panicked"]
          /\ handling' \in [Conns -> ServerMessages \union {NoMessage}]
          /\ UNCHANGED <<ownerVars, pending, serverVars, up, asking, noteVars, answered,
                         initialized, hooks>>
      BY <1>2 DEF CallbackReturns, CallbackPanics, TypeOK
    <2>2. /\ loop' \in [Conns -> {"none", "select", "callback", "replying", "ended", "panicked"}]
          /\ \A j \in Conns : hooks'[j].shutdown = 1 <=> loop'[j] = "ended"
          /\ \A j \in Conns : loop'[j] # "none" => hooks'[j].connect = 1
      BY <2>1, LoopGoesOn
    <2> QED
      BY <2>1, <2>2 DEF TypeOK, ownerVars, serverVars, noteVars
  <1>3. CASE SendReply(k)
    <2>1. handling[k].id \in ServerRequests
      <3>1. handling[k].type = "request" /\ handling[k] \in ServerMessages \union {NoMessage}
        BY <1>3 DEF SendReply, Handling, TypeOK
      <3> QED
        BY <3>1, MessageTypes, MessageKinds
    <2>2. /\ loop[k] = "replying" /\ hooks' = hooks
          /\ loop' = [loop EXCEPT ![k] = "select"]
          /\ handling' \in [Conns -> ServerMessages \union {NoMessage}]
          /\ answered' \in [Conns -> SUBSET ServerRequests]
          /\ UNCHANGED <<ownerVars, pending, serverVars, up, asking, noteVars,
                         initialized, hooks>>
      BY <1>3, <2>1 DEF SendReply, TypeOK
    <2>3. /\ loop' \in [Conns -> {"none", "select", "callback", "replying", "ended", "panicked"}]
          /\ \A j \in Conns : hooks'[j].shutdown = 1 <=> loop'[j] = "ended"
          /\ \A j \in Conns : loop'[j] # "none" => hooks'[j].connect = 1
      BY <2>2, LoopGoesOn
    <2> QED
      BY <2>2, <2>3 DEF TypeOK, ownerVars, serverVars, noteVars
  <1>4. CASE ReplyBreaks(k) \/ ReadEnds(k)
    <2>1. /\ loop[k] \in {"select", "replying"} /\ End(k)
          /\ queued' \in [Conns -> 0..Capacity] /\ lagged' = lagged
      BY <1>4 DEF ReplyBreaks, ReadEnds, TypeOK, noteVars
    <2> QED
      BY <2>1, EndTypes
  <1>5. CASE SendNotification(k)
    <2>1. /\ loop[k] = "select" /\ lagged' = lagged /\ queued[k] > 0
          /\ queued' = [queued EXCEPT ![k] = @ - 1]
          /\ \/ UNCHANGED <<ownerVars, pending, loop, handling, serverVars, up,
                            asking, answered, initialized, hooks>>
             \/ End(k)
      BY <1>5 DEF SendNotification
    <2>2. queued' \in [Conns -> 0..Capacity]
      <3>1. queued[k] \in 0..Capacity /\ queued[k] - 1 \in 0..Capacity
        BY <2>1, ClientBounds DEF TypeOK
      <3> QED
        BY <2>1, <3>1 DEF TypeOK
    <2>3. CASE End(k)
      BY <2>1, <2>2, <2>3, EndTypes
    <2>4. CASE UNCHANGED <<ownerVars, pending, loop, handling, serverVars, up,
                           asking, answered, initialized, hooks>>
      BY <2>1, <2>2, <2>4 DEF TypeOK, ownerVars, serverVars
    <2> QED
      BY <2>1, <2>3, <2>4
  <1>6. CASE SkipLag(k)
    <2>1. /\ lagged' \in [Conns -> BOOLEAN]
          /\ UNCHANGED <<ownerVars, pending, loop, handling, serverVars, up, asking,
                         queued, answered, initialized, hooks>>
      BY <1>6 DEF SkipLag, TypeOK
    <2> QED
      BY <2>1 DEF TypeOK, ownerVars, serverVars
  <1> QED
    BY <1>1, <1>2, <1>3, <1>4, <1>5, <1>6 DEF LoopStep

LEMMA CtxTypes ==
  ASSUME TypeOK, NEW k \in Conns, CtxStep(k)
  PROVE  TypeOK'
  <1>1. CASE CtxNotifies(k)
    <2>1. /\ UNCHANGED <<ownerVars, pending, loop, handling, serverVars, up, asking,
                         answered, initialized, hooks>>
          /\ lagged' \in [Conns -> BOOLEAN]
          /\ queued' = queued
             \/ (queued[k] # Capacity /\ queued' = [queued EXCEPT ![k] = @ + 1])
      BY <1>1 DEF CtxNotifies, TypeOK
    <2>2. queued' \in [Conns -> 0..Capacity]
      <3>1. queued \in [Conns -> 0..Capacity] /\ queued[k] \in 0..Capacity
        BY DEF TypeOK
      <3>2. queued[k] # Capacity => queued[k] + 1 \in 0..Capacity
        BY <3>1, ClientBounds
      <3> QED
        BY <2>1, <3>1, <3>2
    <2> QED
      BY <2>1, <2>2 DEF TypeOK, ownerVars, serverVars
  <1>2. ASSUME NEW who \in CtxUses \ {"notify"}, CtxRequests(k, who)
        PROVE  TypeOK'
    <2>1. /\ asking' \in [Conns -> {"none", "inline", "spawned"}]
          /\ UNCHANGED <<ownerVars, pending, loop, handling, serverVars, up, noteVars,
                         answered, initialized, hooks>>
      BY <1>2, ClientBounds DEF CtxRequests, TypeOK
    <2> QED
      BY <2>1 DEF TypeOK, ownerVars, serverVars, noteVars
  <1> QED
    BY <1>1, <1>2 DEF CtxStep

LEMMA ArrivalTypes ==
  ASSUME TypeOK, NEW k \in Conns, NEW m \in ServerMessages, Arrives(k, m),
         requested' \in [Conns -> SUBSET ServerRequests]
  PROVE  TypeOK'
  <1>1. /\ inbox' \in [Conns -> Seq(ServerMessages)]
        /\ UNCHANGED <<ownerVars, pending, loop, handling, open, up, asking, noteVars,
                       answered, initialized, hooks>>
    BY ArrivesEffect
  <1> QED
    BY <1>1 DEF TypeOK, ownerVars, noteVars

LEMMA ServerTypes ==
  ASSUME TypeOK, NEW k \in Conns, ServerStep(k)
  PROVE  TypeOK'
  <1>1. requested \in [Conns -> SUBSET ServerRequests]
    BY DEF TypeOK
  <1>2. ASSUME NEW n \in Calls, ServerAnswers(k, n)
        PROVE  TypeOK'
    BY <1>1, <1>2, AnswerArrives, ArrivalTypes
  <1>3. ASSUME NEW s \in ServerRequests, ServerAsks(k, s)
        PROVE  TypeOK'
    <2>1. /\ Request(s) \in ServerMessages /\ Arrives(k, Request(s))
          /\ requested' \in [Conns -> SUBSET ServerRequests]
      BY <1>1, <1>3, AskArrives
    <2> QED
      BY <2>1, ArrivalTypes
  <1>4. CASE ServerAnswersCtx(k) \/ ServerNotifies(k)
    BY <1>1, <1>4, OtherArrives, ArrivalTypes
  <1>5. CASE Disconnect(k) \/ WriteBreaks(k)
    <2>1. /\ open' \in [Conns -> BOOLEAN] /\ up' \in [Conns -> BOOLEAN]
          /\ UNCHANGED <<ownerVars, pending, loop, handling, inbox, requested,
                         asking, noteVars, answered, initialized, hooks>>
      BY <1>5 DEF Disconnect, WriteBreaks, TypeOK, serverVars
    <2> QED
      BY <2>1 DEF TypeOK, ownerVars, noteVars
  <1> QED
    BY <1>2, <1>3, <1>4, <1>5 DEF ServerStep

LEMMA TypesKept ==
  ASSUME TypeOK, Unmade, Calling, Handling, [Next]_vars
  PROVE  TypeOK'
  <1>1. CASE OwnerStep
    BY <1>1, OwnerTypes
  <1>2. ASSUME NEW k \in Conns, LoopStep(k) \/ CtxStep(k) \/ ServerStep(k)
        PROVE  TypeOK'
    BY <1>2, LoopTypes, CtxTypes, ServerTypes
  <1>3. CASE UNCHANGED vars
    BY <1>3 DEF TypeOK, vars, ownerVars, serverVars, noteVars
  <1> QED
    BY <1>1, <1>2, <1>3 DEF Next

-----------------------------------------------------------------------------
(* What a step leaves alone. *)

LEMMA LoopFrame ==
  ASSUME TypeOK, NEW k \in Conns, LoopStep(k)
  PROVE  /\ loop[k] \in {"select", "callback", "replying"} /\ loop'[k] # "none"
         /\ \A j \in Conns \ {k} : /\ loop'[j] = loop[j] /\ handling'[j] = handling[j]
                                   /\ inbox'[j] = inbox[j] /\ answered'[j] = answered[j]
         /\ \A j \in Conns : hooks'[j].connect = hooks[j].connect
         /\ UNCHANGED <<owner, conn, call, init, sentOn, requested, initialized>>
         /\ ReadMessage(k) \/ UNCHANGED <<got, inbox>>
         /\ SendReply(k) \/ UNCHANGED answered
  <1>1. CASE ReadMessage(k)
    <2>1. /\ loop[k] = "select" /\ \A j \in Conns \ {k} : inbox'[j] = inbox[j]
          /\ \/ UNCHANGED <<loop, handling>>
             \/ /\ loop' = [loop EXCEPT ![k] = "callback"]
                /\ handling' = [handling EXCEPT ![k] = inbox[k][1]]
          /\ UNCHANGED <<owner, conn, call, init, sentOn, requested, answered, initialized, hooks>>
      BY <1>1, ReadEffect
    <2> QED
      BY <1>1, <2>1 DEF TypeOK
  <1>2. CASE CallbackReturns(k) \/ CallbackPanics(k)
    BY <1>2 DEF CallbackReturns, CallbackPanics, TypeOK, ownerVars, serverVars
  <1>3. CASE SendReply(k)
    BY <1>3 DEF SendReply, TypeOK, ownerVars, serverVars
  <1>4. ASSUME loop[k] \in {"select", "replying"}, End(k)
        PROVE  /\ loop'[k] # "none"
               /\ \A j \in Conns \ {k} : loop'[j] = loop[j] /\ handling'[j] = handling[j]
               /\ \A j \in Conns : hooks'[j].connect = hooks[j].connect
               /\ UNCHANGED <<owner, conn, call, init, sentOn, requested, initialized,
                              got, inbox, answered>>
    BY <1>4 DEF End, TypeOK, ownerVars, serverVars
  <1>5. CASE ReplyBreaks(k) \/ ReadEnds(k)
    <2>1. loop[k] \in {"select", "replying"} /\ End(k)
      BY <1>5 DEF ReplyBreaks, ReadEnds
    <2> QED
      BY <1>4, <2>1
  <1>6. CASE SendNotification(k)
    <2>1. CASE End(k)
      <3>1. loop[k] \in {"select", "replying"}
        BY <1>6 DEF SendNotification
      <3> QED
        BY <1>4, <2>1, <3>1
    <2>2. CASE ~End(k)
      BY <1>6, <2>2 DEF SendNotification, ownerVars, serverVars
    <2> QED
      BY <2>1, <2>2
  <1>7. CASE SkipLag(k)
    BY <1>7 DEF SkipLag, ownerVars, serverVars
  <1> QED
    BY <1>1, <1>2, <1>3, <1>5, <1>6, <1>7 DEF LoopStep

LEMMA OtherFrame ==
  ASSUME NEW k \in Conns, CtxStep(k) \/ ServerStep(k)
  PROVE  UNCHANGED <<owner, conn, call, init, sentOn, got, loop, handling, answered,
                     initialized, hooks>>
  <1>1. CASE CtxStep(k)
    BY <1>1 DEF CtxStep, CtxNotifies, CtxRequests, ownerVars
  <1>2. CASE ServerStep(k)
    BY <1>2 DEF ServerStep, ServerAnswers, ServerAsks, ServerAnswersCtx, ServerNotifies,
                Arrives, Disconnect, WriteBreaks, ownerVars
  <1> QED
    BY <1>1, <1>2

LEMMA OwnerFrame ==
  ASSUME OwnerStep
  PROVE  UNCHANGED <<handling, inbox, requested, answered>>
  BY DEF OwnerStep, Connect, OnConnectReturns, Call, CallReturns, CallDropped, DropClient,
         serverVars

-----------------------------------------------------------------------------
(* The owner's side. *)

LEMMA UnmadeKept ==
  ASSUME TypeOK, Unmade, Calling, [Next]_vars
  PROVE  Unmade'
  <1>1. CASE Connect
    <2>1. /\ conn + 1 \in Conns /\ conn' = conn + 1 /\ conn \in Nat
          /\ hooks' = [hooks EXCEPT ![conn + 1].connect = @ + 1] /\ loop' = loop
      BY <1>1, ClientBounds DEF Connect, TypeOK, Conns
    <2>2. hooks[conn + 1].connect = 0 /\ loop[conn + 1] = "none"
      BY <2>1 DEF Unmade, TypeOK
    <2>3. /\ hooks'[conn + 1].connect = 1
          /\ \A k \in Conns \ {conn + 1} : hooks'[k] = hooks[k]
      BY <2>1, <2>2 DEF TypeOK
    <2>4. ASSUME NEW k \in Conns
          PROVE  /\ hooks'[k].connect = (IF k > conn' THEN 0 ELSE 1)
                 /\ k > conn' \/ (k = conn' /\ owner' = "connecting") => loop'[k] = "none"
      <3>1. CASE k = conn + 1
        BY <2>1, <2>2, <2>3, <3>1
      <3>2. CASE k # conn + 1
        <4>1. k \in Nat /\ (k > conn + 1 <=> k > conn)
          BY <2>1, <3>2 DEF Conns
        <4> QED
          BY <2>1, <2>3, <3>2, <4>1 DEF Unmade
      <3> QED
        BY <3>1, <3>2
    <2> QED
      BY <2>4 DEF Unmade
  <1>2. ASSUME NEW ok \in BOOLEAN, OnConnectReturns(ok)
        PROVE  Unmade'
    <2>1. /\ owner' = "idle" /\ conn' = conn /\ hooks' = hooks /\ conn \in Conns
          /\ \A k \in Conns \ {conn} : loop'[k] = loop[k]
      BY <1>2, ClientBounds DEF OnConnectReturns, Calling, TypeOK, Conns
    <2> QED
      BY <2>1 DEF Unmade, Conns
  <1>3. CASE (\E isInit \in BOOLEAN : Call(isInit)) \/ CallReturns \/ CallDropped \/ DropClient
    <2>1. conn' = conn /\ hooks' = hooks /\ loop' = loop /\ owner' # "connecting"
      BY <1>3 DEF Call, CallReturns, CallDropped, DropClient
    <2> QED
      BY <2>1 DEF Unmade
  <1>4. ASSUME NEW k \in Conns, LoopStep(k)
        PROVE  Unmade'
    <2>1. /\ loop[k] # "none" /\ \A j \in Conns \ {k} : loop'[j] = loop[j]
          /\ \A j \in Conns : hooks'[j].connect = hooks[j].connect
          /\ conn' = conn /\ owner' = owner
      BY <1>4, LoopFrame
    <2> QED
      BY <2>1 DEF Unmade
  <1>5. ASSUME NEW k \in Conns, CtxStep(k) \/ ServerStep(k)
        PROVE  Unmade'
    BY <1>5, OtherFrame DEF Unmade
  <1>6. CASE UNCHANGED vars
    BY <1>6 DEF Unmade, vars, ownerVars
  <1> QED
    BY <1>1, <1>2, <1>3, <1>4, <1>5, <1>6 DEF Next, OwnerStep

\* A reply that a loop puts into the channel of the call.
LEMMA GotEffect ==
  ASSUME TypeOK, NEW k \in Conns, LoopStep(k)
  PROVE  \/ got' = got
         \/ /\ owner = "calling" /\ ReadMessage(k)
            /\ got' = [kind |-> inbox[k][1].type, on |-> k]
            /\ inbox[k][1].type \in {"response", "error"} /\ inbox[k][1].call = call
  <1>1. CASE ReadMessage(k)
    BY <1>1, ReadEffect DEF Resolve
  <1>2. CASE ~ReadMessage(k)
    BY <1>2, LoopFrame
  <1> QED
    BY <1>1, <1>2

LEMMA CallingKept ==
  ASSUME TypeOK, Calling, [Next]_vars
  PROVE  Calling'
  <1>0. /\ conn \in Nat /\ call \in Nat /\ sentOn \in [Calls -> 0..MaxConns]
        /\ \A n \in Calls : n \in Nat /\ sentOn[n] \in Nat
    BY ClientBounds DEF TypeOK, Calls
  <1>1. CASE Connect
    <2>1. conn' = conn + 1 /\ owner' = "connecting" /\ call' = call /\ sentOn' = sentOn /\ got' = got
      BY <1>1 DEF Connect
    <2>2. \A n \in Calls : sentOn[n] <= conn + 1
      BY <1>0 DEF Calling
    <2> QED
      BY <1>0, <2>1, <2>2 DEF Calling
  <1>2. ASSUME NEW ok \in BOOLEAN, OnConnectReturns(ok)
        PROVE  Calling'
    BY <1>2 DEF Calling, OnConnectReturns
  <1>3. ASSUME NEW isInit \in BOOLEAN, Call(isInit)
        PROVE  Calling'
    <2>1. /\ call + 1 \in Calls /\ call' = call + 1 /\ conn' = conn /\ got' = got
          /\ \/ /\ conn # 0 /\ owner' = "calling"
                /\ sentOn' = [sentOn EXCEPT ![call + 1] = conn]
             \/ owner' = "idle" /\ sentOn' = sentOn
      BY <1>0, <1>3, ClientBounds DEF Call, TypeOK, Calls
    <2>2. CASE owner' = "calling" /\ conn # 0 /\ sentOn' = [sentOn EXCEPT ![call + 1] = conn]
      <3>1. sentOn'[call + 1] = conn /\ \A n \in Calls \ {call + 1} : sentOn'[n] = sentOn[n]
        BY <1>0, <2>1, <2>2
      <3>2. \A n \in Calls : n > call + 1 => sentOn'[n] = 0
        BY <1>0, <3>1 DEF Calling
      <3>3. \A n \in Calls : sentOn'[n] <= conn
        BY <1>0, <3>1 DEF Calling
      <3> QED
        BY <1>0, <2>1, <2>2, <3>1, <3>2, <3>3 DEF Calling
    <2>3. CASE owner' = "idle" /\ sentOn' = sentOn
      <3>1. \A n \in Calls : n > call + 1 => sentOn[n] = 0
        BY <1>0 DEF Calling
      <3> QED
        BY <2>1, <2>3, <3>1 DEF Calling
    <2> QED
      BY <2>1, <2>2, <2>3
  <1>4. CASE CallReturns \/ CallDropped \/ DropClient
    <2>1. /\ owner' \in {"idle", "gone"} /\ got' \in {got, NoReply}
          /\ conn' = conn /\ call' = call /\ sentOn' = sentOn
      BY <1>4 DEF CallReturns, CallDropped, DropClient
    <2> QED
      BY <2>1 DEF Calling
  <1>5. ASSUME NEW k \in Conns, LoopStep(k)
        PROVE  Calling'
    <2>1. UNCHANGED <<owner, conn, call, sentOn>>
      BY <1>5, LoopFrame
    <2>2. got' = got \/ got'.kind \in {"response", "error"}
      BY <1>5, GotEffect
    <2> QED
      BY <2>1, <2>2 DEF Calling
  <1>6. ASSUME NEW k \in Conns, CtxStep(k) \/ ServerStep(k)
        PROVE  Calling'
    BY <1>6, OtherFrame DEF Calling
  <1>7. CASE UNCHANGED vars
    BY <1>7 DEF Calling, vars, ownerVars
  <1> QED
    BY <1>1, <1>2, <1>3, <1>4, <1>5, <1>6, <1>7 DEF Next, OwnerStep

LEMMA ReplyKept ==
  ASSUME TypeOK, RepliesPlaced, ReplyFromOwnConnection, [Next]_vars
  PROVE  ReplyFromOwnConnection'
  <1>1. CASE OwnerStep
    <2>1. \/ owner # "calling" /\ got' = got
          \/ got' = NoReply
      BY <1>1 DEF OwnerStep, Connect, OnConnectReturns, Call, CallReturns, CallDropped, DropClient
    <2> QED
      BY <2>1 DEF ReplyFromOwnConnection
  <1>2. ASSUME NEW k \in Conns, LoopStep(k)
        PROVE  ReplyFromOwnConnection'
    <2>1. UNCHANGED <<owner, call, sentOn>>
      BY <1>2, LoopFrame
    <2>2. CASE got' = got
      BY <2>1, <2>2 DEF ReplyFromOwnConnection
    <2>3. CASE got' # got
      <3>1. /\ owner = "calling" /\ ReadMessage(k)
            /\ got' = [kind |-> inbox[k][1].type, on |-> k]
            /\ inbox[k][1].type \in {"response", "error"} /\ inbox[k][1].call = call
        BY <1>2, <2>3, GotEffect
      <3>2. 1 \in DOMAIN inbox[k]
        BY <3>1, ReadEffect
      <3>3. sentOn[call] = k
        BY <3>1, <3>2 DEF RepliesPlaced
      <3> QED
        BY <2>1, <3>1, <3>3 DEF ReplyFromOwnConnection
    <2> QED
      BY <2>2, <2>3
  <1>3. ASSUME NEW k \in Conns, CtxStep(k) \/ ServerStep(k)
        PROVE  ReplyFromOwnConnection'
    BY <1>3, OtherFrame DEF ReplyFromOwnConnection
  <1>4. CASE UNCHANGED vars
    BY <1>4 DEF ReplyFromOwnConnection, vars, ownerVars
  <1> QED
    BY <1>1, <1>2, <1>3, <1>4 DEF Next

\* An inbox after a step of its connection's context or server: as it was, or with
\* one message more, which is a reply only to a call made on that connection.
LEMMA InboxGrows ==
  ASSUME TypeOK, NEW k \in Conns, CtxStep(k) \/ ServerStep(k)
  PROVE  /\ \A j \in Conns \ {k} : inbox'[j] = inbox[j] /\ requested'[j] = requested[j]
         /\ \/ inbox'[k] = inbox[k] /\ requested'[k] = requested[k]
            \/ \E m \in ServerMessages : \E e \in DOMAIN inbox'[k] \ DOMAIN inbox[k] :
                 /\ inbox'[k][e] = m
                 /\ \A i \in DOMAIN inbox'[k] : i = e \/ i \in DOMAIN inbox[k]
                 /\ \A i \in DOMAIN inbox[k] : /\ i \in DOMAIN inbox'[k]
                                               /\ inbox'[k][i] = inbox[k][i]
                 /\ m.type \in {"response", "error"} => sentOn[m.call] = k
                 /\ m.type = "request" => /\ m.id \in ServerRequests
                                          /\ m.id \notin requested[k]
                                          /\ requested'[k] = requested[k] \union {m.id}
                 /\ m.type # "request" => requested'[k] = requested[k]
  <1> HIDE DEF ServerMessages
  <1>1. ASSUME NEW n \in Calls, ServerAnswers(k, n)
        PROVE  \E m \in ServerMessages :
                 /\ Arrives(k, m) /\ UNCHANGED requested
                 /\ m.type \in {"response", "error"} /\ sentOn[m.call] = k
    BY <1>1, AnswerArrives
  <1>2. ASSUME NEW s \in ServerRequests, ServerAsks(k, s)
        PROVE  /\ Request(s) \in ServerMessages /\ Arrives(k, Request(s))
               /\ Request(s).type = "request" /\ Request(s).id = s
               /\ s \notin requested[k]
               /\ requested'[k] = requested[k] \union {s}
               /\ \A j \in Conns \ {k} : requested'[j] = requested[j]
    BY <1>2, AskArrives DEF TypeOK
  <1>3. CASE ServerAnswersCtx(k) \/ ServerNotifies(k)
    BY SMTT(30), <1>3, OtherArrives, ArrivesEffect
  <1>4. CASE \E n \in Calls : ServerAnswers(k, n)
    <2>1. PICK m \in ServerMessages : /\ Arrives(k, m) /\ UNCHANGED requested
                                      /\ m.type \in {"response", "error"} /\ sentOn[m.call] = k
      BY <1>1, <1>4
    <2> QED
      BY <2>1, ArrivesEffect
  <1>5. ASSUME NEW s \in ServerRequests, ServerAsks(k, s)
        PROVE  \E m \in ServerMessages :
                 /\ Arrives(k, m) /\ m.type = "request" /\ m.id \in ServerRequests
                 /\ m.id \notin requested[k]
                 /\ requested'[k] = requested[k] \union {m.id}
                 /\ \A j \in Conns \ {k} : requested'[j] = requested[j]
    BY <1>2, <1>5
  <1>6. CASE \E s \in ServerRequests : ServerAsks(k, s)
    <2>1. PICK m \in ServerMessages :
            /\ Arrives(k, m) /\ m.type = "request" /\ m.id \in ServerRequests
            /\ m.id \notin requested[k]
            /\ requested'[k] = requested[k] \union {m.id}
            /\ \A j \in Conns \ {k} : requested'[j] = requested[j]
      BY <1>5, <1>6
    <2> QED
      BY <2>1, ArrivesEffect
  <1>7. CASE CtxStep(k) \/ Disconnect(k) \/ WriteBreaks(k)
    BY <1>7 DEF CtxStep, CtxNotifies, CtxRequests, Disconnect, WriteBreaks, serverVars
  <1> QED
    BY <1>3, <1>4, <1>6, <1>7 DEF ServerStep

\* An inbox after a step of its loop: as it was, or without its first message.
LEMMA InboxShrinks ==
  ASSUME TypeOK, NEW k \in Conns, LoopStep(k)
  PROVE  /\ \A j \in Conns \ {k} : inbox'[j] = inbox[j]
         /\ \/ inbox'[k] = inbox[k]
            \/ \A i \in DOMAIN inbox'[k] : /\ i \in Nat /\ i + 1 \in DOMAIN inbox[k] /\ i + 1 # 1
                                           /\ inbox'[k][i] = inbox[k][i + 1]
  <1>1. CASE ReadMessage(k)
    BY <1>1, ReadEffect
  <1>2. CASE ~ReadMessage(k)
    BY <1>2, LoopFrame
  <1> QED
    BY <1>1, <1>2

LEMMA PlacedKept ==
  ASSUME TypeOK, Calling, RepliesPlaced, [Next]_vars
  PROVE  RepliesPlaced'
  <1>1. CASE OwnerStep
    <2>1. inbox' = inbox
      BY <1>1, OwnerFrame
    <2>2. SUFFICES ASSUME NEW k \in Conns, NEW i \in DOMAIN inbox[k],
                          inbox[k][i].type \in {"response", "error"}
                   PROVE  sentOn'[inbox[k][i].call] = k
      BY <2>1 DEF RepliesPlaced
    <2>3. /\ inbox[k][i].call \in Calls /\ sentOn[inbox[k][i].call] = k
      BY <2>2, InboxTypes, MessageTypes DEF RepliesPlaced
    <2>4. CASE \E isInit \in BOOLEAN : Call(isInit)
      <3>1. call \in Nat /\ k # 0
        BY ClientBounds DEF TypeOK, Conns
      <3>2. call + 1 \in Calls => sentOn[call + 1] = 0
        BY <3>1 DEF Calling, Calls
      <3>3. sentOn' = sentOn \/ sentOn' = [sentOn EXCEPT ![call + 1] = conn]
        BY <2>4 DEF Call
      <3> QED
        BY <2>3, <3>1, <3>2, <3>3 DEF TypeOK
    <2>5. CASE sentOn' = sentOn
      BY <2>3, <2>5
    <2> QED
      BY <1>1, <2>4, <2>5 DEF OwnerStep, Connect, OnConnectReturns, CallReturns, CallDropped,
                              DropClient
  <1>2. ASSUME NEW k \in Conns, LoopStep(k)
        PROVE  RepliesPlaced'
    <2>1. sentOn' = sentOn
      BY <1>2, LoopFrame
    <2> QED
      BY <1>2, <2>1, InboxShrinks DEF RepliesPlaced
  <1>3. ASSUME NEW k \in Conns, CtxStep(k) \/ ServerStep(k)
        PROVE  RepliesPlaced'
    <2>1. sentOn' = sentOn
      BY <1>3, OtherFrame
    <2>2. \A j \in Conns \ {k} : inbox'[j] = inbox[j]
      BY <1>3, InboxGrows
    <2>3. \A i \in DOMAIN inbox'[k] :
            inbox'[k][i].type \in {"response", "error"} => sentOn[inbox'[k][i].call] = k
      BY <1>3, InboxGrows DEF RepliesPlaced
    <2> QED
      BY <2>1, <2>2, <2>3 DEF RepliesPlaced
  <1>4. CASE UNCHANGED vars
    BY <1>4 DEF RepliesPlaced, vars, ownerVars, serverVars
  <1> QED
    BY <1>1, <1>2, <1>3, <1>4 DEF Next

-----------------------------------------------------------------------------
(* The server's requests. *)

LEMMA RequestIsNot ==
  ASSUME NEW s \in ServerRequests
  PROVE  /\ Request(s) # NoMessage /\ Request(s).type = "request" /\ Request(s).id = s
  BY DEF Request, NoMessage

LEMMA HandlingKept ==
  ASSUME TypeOK, Unmade, Calling, Handling, [Next]_vars
  PROVE  Handling'
  <1>1. CASE OwnerStep
    <2>1. handling' = handling
      BY <1>1, OwnerFrame
    <2>2. \A k \in Conns : \/ loop'[k] = loop[k]
                           \/ loop[k] = "none" /\ loop'[k] = "select"
      <3>1. ASSUME NEW ok \in BOOLEAN, OnConnectReturns(ok)
            PROVE  /\ conn \in Conns /\ loop[conn] = "none"
                   /\ loop' = loop \/ loop' = [loop EXCEPT ![conn] = "select"]
        BY <3>1, ClientBounds DEF OnConnectReturns, Unmade, Calling, TypeOK, Conns
      <3>2. CASE \E ok \in BOOLEAN : OnConnectReturns(ok)
        BY <3>1, <3>2 DEF TypeOK
      <3>3. CASE loop' = loop
        BY <3>3
      <3> QED
        BY <1>1, <3>2, <3>3 DEF OwnerStep, Connect, Call, CallReturns, CallDropped, DropClient
    <2> QED
      BY <2>1, <2>2 DEF Handling
  <1>2. ASSUME NEW k \in Conns, LoopStep(k)
        PROVE  Handling'
    <2>1. \A j \in Conns \ {k} : loop'[j] = loop[j] /\ handling'[j] = handling[j]
      BY <1>2, LoopFrame
    <2>2. /\ loop'[k] \in {"callback", "replying"} <=> handling'[k] # NoMessage
          /\ loop'[k] = "replying" => handling'[k].type = "request"
          /\ handling'[k].type \in {"request", "note", "none"}
      <3>0. NoMessage.type = "none"
        BY DEF NoMessage
      <3>1. CASE ReadMessage(k)
        <4>1. /\ loop[k] = "select"
              /\ \/ UNCHANGED <<loop, handling>>
                 \/ /\ inbox[k][1].type \in {"request", "note"}
                    /\ loop' = [loop EXCEPT ![k] = "callback"]
                    /\ handling' = [handling EXCEPT ![k] = inbox[k][1]]
          BY <3>1, ReadEffect
        <4> QED
          BY <3>0, <4>1 DEF Handling, TypeOK
      <3>2. CASE CallbackReturns(k) \/ CallbackPanics(k)
        BY <3>0, <3>2 DEF CallbackReturns, CallbackPanics, Handling, TypeOK
      <3>3. CASE SendReply(k)
        BY <3>0, <3>3 DEF SendReply, TypeOK
      <3>4. CASE End(k)
        BY <3>0, <3>4 DEF End, TypeOK
      <3>5. CASE UNCHANGED <<loop, handling>>
        BY <3>5 DEF Handling
      <3> QED
        BY <1>2, <3>1, <3>2, <3>3, <3>4, <3>5
        DEF LoopStep, ReplyBreaks, ReadEnds, SendNotification, SkipLag
    <2> QED
      BY <2>1, <2>2 DEF Handling
  <1>3. ASSUME NEW k \in Conns, CtxStep(k) \/ ServerStep(k)
        PROVE  Handling'
    BY <1>3, OtherFrame DEF Handling
  <1>4. CASE UNCHANGED vars
    BY <1>4 DEF Handling, vars
  <1> QED
    BY <1>1, <1>2, <1>3, <1>4 DEF Next

\* Where a request is stays as it was when nothing it depends on changes.
LEMMA SameHandled ==
  ASSUME NEW k \in Conns, NEW s \in ServerRequests, HandledAt(k, s),
         inbox'[k] = inbox[k], handling'[k] = handling[k], requested'[k] = requested[k],
         answered'[k] = answered[k], Ended(k) => Ended(k)'
  PROVE  HandledAt(k, s)'
  <1>1. Unread(k, s)' <=> Unread(k, s)
    BY DEF Unread
  <1> QED
    BY <1>1 DEF HandledAt

\* The head of an inbox is read: what else waits there waits on.
LEMMA UnreadShrinks ==
  ASSUME TypeOK, NEW k \in Conns, NEW s \in ServerRequests, ReadMessage(k), HandledAt(k, s)
  PROVE  /\ inbox[k][1] # Request(s) => (Unread(k, s)' <=> Unread(k, s))
         /\ inbox[k][1] = Request(s) => Unread(k, s) /\ ~Unread(k, s)'
         /\ \A i, j \in DOMAIN inbox'[k] :
              inbox'[k][i] = Request(s) /\ inbox'[k][j] = Request(s) => i = j
  <1>1. /\ 1 \in DOMAIN inbox[k]
        /\ \A i \in DOMAIN inbox'[k] : /\ i \in Nat /\ i + 1 \in DOMAIN inbox[k] /\ i + 1 # 1
                                       /\ inbox'[k][i] = inbox[k][i + 1]
        /\ \A i \in DOMAIN inbox[k] : i # 1 => \E l \in DOMAIN inbox'[k] : l + 1 = i
    BY ReadEffect
  <1>2. \A i, j \in DOMAIN inbox[k] :
          inbox[k][i] = Request(s) /\ inbox[k][j] = Request(s) => i = j
    BY DEF HandledAt
  <1>3. Unread(k, s)' => \E i \in DOMAIN inbox[k] : i # 1 /\ inbox[k][i] = Request(s)
    BY <1>1 DEF Unread
  <1>4. (\E i \in DOMAIN inbox[k] : i # 1 /\ inbox[k][i] = Request(s)) => Unread(k, s)'
    BY <1>1 DEF Unread
  <1>5. inbox[k][1] # Request(s) => (Unread(k, s)' <=> Unread(k, s))
    BY <1>3, <1>4 DEF Unread
  <1>6. inbox[k][1] = Request(s) => Unread(k, s) /\ ~Unread(k, s)'
    BY <1>1, <1>2, <1>3 DEF Unread
  <1>7. \A i, j \in DOMAIN inbox'[k] :
          inbox'[k][i] = Request(s) /\ inbox'[k][j] = Request(s) => i = j
    <2> SUFFICES ASSUME NEW i \in DOMAIN inbox'[k], NEW j \in DOMAIN inbox'[k],
                        inbox'[k][i] = Request(s), inbox'[k][j] = Request(s)
                 PROVE  i = j
      OBVIOUS
    <2>1. /\ i \in Nat /\ j \in Nat /\ i + 1 \in DOMAIN inbox[k] /\ j + 1 \in DOMAIN inbox[k]
          /\ inbox[k][i + 1] = Request(s) /\ inbox[k][j + 1] = Request(s)
      BY <1>1
    <2>2. i + 1 = j + 1
      BY <1>2, <2>1
    <2> QED
      BY <2>1, <2>2
  <1> QED
    BY <1>5, <1>6, <1>7

LEMMA LoopHandled ==
  ASSUME TypeOK, Handling, NEW k \in Conns, NEW s \in ServerRequests, LoopStep(k), HandledAt(k, s)
  PROVE  HandledAt(k, s)'
  <1>0. /\ Request(s) # NoMessage /\ Request(s).type = "request" /\ Request(s).id = s
        /\ ~Ended(k) /\ requested'[k] = requested[k]
    BY LoopFrame, RequestIsNot DEF Ended
  <1> HIDE DEF Request, NoMessage
  <1>1. CASE ReadMessage(k)
    <2>1. /\ loop[k] = "select" /\ answered'[k] = answered[k]
          /\ \/ inbox[k][1].type # "request" /\ UNCHANGED <<loop, handling>>
             \/ handling' = [handling EXCEPT ![k] = inbox[k][1]]
      BY <1>1, ReadEffect
    <2>2. handling[k] = NoMessage
      BY <2>1 DEF Handling
    <2>3. /\ inbox[k][1] # Request(s) => (Unread(k, s)' <=> Unread(k, s))
          /\ inbox[k][1] = Request(s) => Unread(k, s) /\ ~Unread(k, s)'
          /\ \A i, j \in DOMAIN inbox'[k] :
               inbox'[k][i] = Request(s) /\ inbox'[k][j] = Request(s) => i = j
      BY <1>1, UnreadShrinks
    <2>4. handling'[k] = Request(s) <=> inbox[k][1] = Request(s)
      BY <1>0, <2>1, <2>2 DEF TypeOK
    <2>5. HandledAt(k, s)' <=>
            /\ Unread(k, s)' => handling'[k] # Request(s)
            /\ Unread(k, s)' \/ handling'[k] = Request(s) => s \in requested'[k] \ answered'[k]
            /\ \A i, j \in DOMAIN inbox'[k] :
                 inbox'[k][i] = Request(s) /\ inbox'[k][j] = Request(s) => i = j
            /\ s \in requested'[k] =>
                 \/ Unread(k, s)' \/ handling'[k] = Request(s)
                 \/ s \in answered'[k] \/ Ended(k)'
      BY DEF HandledAt
    <2> QED
      BY <1>0, <2>1, <2>2, <2>3, <2>4, <2>5 DEF HandledAt
  <1>2. CASE CallbackReturns(k)
    <2>1. /\ inbox'[k] = inbox[k] /\ answered'[k] = answered[k]
          /\ \/ handling' = handling
             \/ /\ handling[k].type # "request"
                /\ handling' = [handling EXCEPT ![k] = NoMessage]
      BY <1>2 DEF CallbackReturns, serverVars
    <2>2. handling'[k] = Request(s) <=> handling[k] = Request(s)
      BY <1>0, <2>1 DEF TypeOK
    <2>3. Unread(k, s)' <=> Unread(k, s)
      BY <2>1 DEF Unread
    <2> QED
      BY <1>0, <2>1, <2>2, <2>3 DEF HandledAt
  <1>3. CASE SendReply(k)
    <2>1. /\ inbox'[k] = inbox[k] /\ loop[k] = "replying"
          /\ handling'[k] = NoMessage
          /\ answered'[k] = answered[k] \union {handling[k].id}
      BY <1>3 DEF SendReply, serverVars, TypeOK
    <2>2. handling[k].type = "request" /\ handling[k] \in ServerMessages \union {NoMessage}
      BY <2>1 DEF Handling, TypeOK
    <2>3. handling[k] = Request(handling[k].id)
      BY <2>2, MessageTypes, MessageKinds
    <2>4. handling[k] = Request(s) <=> handling[k].id = s
      BY <1>0, <2>3
    <2>5. Unread(k, s)' <=> Unread(k, s)
      BY <2>1 DEF Unread
    <2> QED
      BY <1>0, <2>1, <2>4, <2>5 DEF HandledAt
  <1>4. CASE End(k) \/ CallbackPanics(k)
    <2>1. /\ inbox'[k] = inbox[k] /\ answered'[k] = answered[k]
          /\ Ended(k)' /\ handling'[k] = NoMessage
      BY <1>4 DEF End, CallbackPanics, Ended, serverVars, TypeOK
    <2>2. Unread(k, s)' <=> Unread(k, s)
      BY <2>1 DEF Unread
    <2> QED
      BY <1>0, <2>1, <2>2 DEF HandledAt
  <1>5. CASE UNCHANGED <<inbox, handling, answered>>
    BY <1>0, <1>5, SameHandled
  <1> QED
    BY <1>1, <1>2, <1>3, <1>4, <1>5
    DEF LoopStep, ReplyBreaks, ReadEnds, SendNotification, SkipLag, serverVars

LEMMA OtherHandled ==
  ASSUME TypeOK, AnswersWhereAsked, NEW k \in Conns, NEW s \in ServerRequests,
         CtxStep(k) \/ ServerStep(k), HandledAt(k, s)
  PROVE  HandledAt(k, s)'
  <1>0. /\ Request(s) # NoMessage /\ Request(s).type = "request" /\ Request(s).id = s
        /\ handling'[k] = handling[k] /\ answered'[k] = answered[k] /\ (Ended(k)' <=> Ended(k))
    BY OtherFrame, RequestIsNot DEF Ended
  <1> HIDE DEF Request, NoMessage, ServerMessages
  <1>1. CASE inbox'[k] = inbox[k] /\ requested'[k] = requested[k]
    BY <1>0, <1>1, SameHandled
  <1>2. ASSUME NEW m \in ServerMessages, NEW e \in DOMAIN inbox'[k] \ DOMAIN inbox[k],
               inbox'[k][e] = m,
               \A i \in DOMAIN inbox'[k] : i = e \/ i \in DOMAIN inbox[k],
               \A i \in DOMAIN inbox[k] : i \in DOMAIN inbox'[k] /\ inbox'[k][i] = inbox[k][i],
               m.type = "request" => /\ m.id \in ServerRequests /\ m.id \notin requested[k]
                                     /\ requested'[k] = requested[k] \union {m.id},
               m.type # "request" => requested'[k] = requested[k]
        PROVE  HandledAt(k, s)'
    <2>1. m.type = "request" => m = Request(m.id)
      BY MessageTypes
    <2>2. CASE m = Request(s)
      <3>1. s \notin requested[k] /\ requested'[k] = requested[k] \union {s}
        BY <1>0, <1>2, <2>2
      <3>2. s \notin answered[k] /\ ~Unread(k, s) /\ handling[k] # Request(s)
        BY <3>1 DEF AnswersWhereAsked, HandledAt
      <3>3. Unread(k, s)'
        BY <1>2, <2>2 DEF Unread
      <3>4. \A i \in DOMAIN inbox'[k] : inbox'[k][i] = Request(s) => i = e
        BY <1>2, <3>2 DEF Unread
      <3> QED
        BY <1>0, <3>1, <3>2, <3>3, <3>4 DEF HandledAt
    <2>3. CASE m # Request(s)
      <3>1. s \in requested'[k] <=> s \in requested[k]
        BY <1>2, <2>1, <2>3
      <3>2. \A i \in DOMAIN inbox'[k] :
              inbox'[k][i] = Request(s) => i \in DOMAIN inbox[k] /\ inbox[k][i] = Request(s)
        BY <1>2, <2>3
      <3>3. Unread(k, s)' <=> Unread(k, s)
        BY <1>2, <3>2 DEF Unread
      <3> QED
        BY <1>0, <3>1, <3>2, <3>3 DEF HandledAt
    <2> QED
      BY <2>2, <2>3
  <1> QED
    BY <1>1, <1>2, InboxGrows

LEMMA HandledKept ==
  ASSUME TypeOK, Unmade, Calling, Handling, AnswersWhereAsked, HandledOnce, [Next]_vars
  PROVE  HandledOnce'
  <1> SUFFICES ASSUME NEW k \in Conns, NEW s \in ServerRequests
               PROVE  HandledAt(k, s)'
    BY DEF HandledOnce
  <1>0. HandledAt(k, s)
    BY DEF HandledOnce
  <1>1. CASE OwnerStep
    <2>1. UNCHANGED <<handling, inbox, requested, answered>>
      BY <1>1, OwnerFrame
    <2>2. Ended(k) => Ended(k)'
      <3>1. ASSUME NEW ok \in BOOLEAN, OnConnectReturns(ok)
            PROVE  /\ conn \in Conns /\ loop[conn] = "none"
                   /\ loop' = loop \/ loop' = [loop EXCEPT ![conn] = "select"]
        BY <3>1, ClientBounds DEF OnConnectReturns, Unmade, Calling, TypeOK, Conns
      <3>2. CASE \E ok \in BOOLEAN : OnConnectReturns(ok)
        BY <3>1, <3>2 DEF TypeOK, Ended
      <3>3. CASE loop' = loop
        BY <3>3 DEF Ended
      <3> QED
        BY <1>1, <3>2, <3>3 DEF OwnerStep, Connect, Call, CallReturns, CallDropped, DropClient
    <2> QED
      BY <1>0, <2>1, <2>2, SameHandled
  <1>2. ASSUME NEW j \in Conns, LoopStep(j)
        PROVE  HandledAt(k, s)'
    <2>1. CASE j = k
      BY <1>0, <1>2, <2>1, LoopHandled
    <2>2. CASE j # k
      <3>1. /\ inbox'[k] = inbox[k] /\ handling'[k] = handling[k] /\ requested'[k] = requested[k]
            /\ answered'[k] = answered[k] /\ loop'[k] = loop[k]
        BY <1>2, <2>2, LoopFrame
      <3> QED
        BY <1>0, <3>1, SameHandled DEF Ended
    <2> QED
      BY <2>1, <2>2
  <1>3. ASSUME NEW j \in Conns, CtxStep(j) \/ ServerStep(j)
        PROVE  HandledAt(k, s)'
    <2>1. CASE j = k
      BY <1>0, <1>3, <2>1, OtherHandled
    <2>2. CASE j # k
      <3>1. inbox'[k] = inbox[k] /\ requested'[k] = requested[k]
        BY <1>3, <2>2, InboxGrows
      <3>2. UNCHANGED <<handling, answered, loop>>
        BY <1>3, OtherFrame
      <3> QED
        BY <1>0, <3>1, <3>2, SameHandled DEF Ended
    <2> QED
      BY <2>1, <2>2
  <1>4. CASE UNCHANGED vars
    BY <1>0, <1>4, SameHandled DEF vars, serverVars, Ended
  <1> QED
    BY <1>1, <1>2, <1>3, <1>4 DEF Next

LEMMA AnswersKept ==
  ASSUME TypeOK, Handling, HandledOnce, AnswersWhereAsked, [Next]_vars
  PROVE  AnswersWhereAsked'
  <1>1. CASE OwnerStep
    BY <1>1, OwnerFrame DEF AnswersWhereAsked
  <1>2. ASSUME NEW k \in Conns, LoopStep(k)
        PROVE  AnswersWhereAsked'
    <2>1. requested' = requested /\ \A j \in Conns \ {k} : answered'[j] = answered[j]
      BY <1>2, LoopFrame
    <2>2. answered'[k] \subseteq requested[k]
      <3>1. CASE SendReply(k)
        <4>1. /\ loop[k] = "replying" /\ handling[k].type = "request"
              /\ handling[k] \in ServerMessages \union {NoMessage}
              /\ answered'[k] = answered[k] \union {handling[k].id}
          BY <3>1 DEF SendReply, Handling, TypeOK
        <4>2. handling[k].id \in ServerRequests /\ handling[k] = Request(handling[k].id)
          BY <4>1, MessageTypes, MessageKinds
        <4>3. handling[k].id \in requested[k]
          BY <4>2 DEF HandledOnce, HandledAt
        <4> QED
          BY <4>1, <4>3 DEF AnswersWhereAsked
      <3>2. CASE answered' = answered
        BY <3>2 DEF AnswersWhereAsked
      <3> QED
        BY <1>2, <3>1, <3>2, LoopFrame
    <2> QED
      BY <2>1, <2>2 DEF AnswersWhereAsked
  <1>3. ASSUME NEW k \in Conns, CtxStep(k) \/ ServerStep(k)
        PROVE  AnswersWhereAsked'
    <2>1. answered' = answered
      BY <1>3, OtherFrame
    <2>2. \A j \in Conns : requested[j] \subseteq requested'[j]
      BY <1>3, InboxGrows
    <2> QED
      BY <2>1, <2>2 DEF AnswersWhereAsked
  <1>4. CASE UNCHANGED vars
    BY <1>4 DEF AnswersWhereAsked, vars, serverVars
  <1> QED
    BY <1>1, <1>2, <1>3, <1>4 DEF Next

-----------------------------------------------------------------------------
(* The theorems. *)

ProvedInv == ClientInv /\ AnswersWhereAsked /\ ReplyFromOwnConnection

LEMMA InitInv == Init => ProvedInv
  <1> SUFFICES ASSUME Init
               PROVE  ProvedInv
    OBVIOUS
  <1>1. TypeOK
    <2>1. /\ inbox \in [Conns -> Seq(ServerMessages)]
          /\ got \in [kind : {"none", "response", "error"}, on : 0..MaxConns]
          /\ hooks \in [Conns -> [connect : 0..1, shutdown : 0..1]]
      BY ClientBounds DEF Init, NoReply
    <2>2. init \in BOOLEAN
      BY Zenon DEF Init
    <2>3. conn \in 0..MaxConns /\ call \in 0..MaxCalls /\ sentOn \in [Calls -> 0..MaxConns]
      BY ClientBounds DEF Init
    <2>4. owner \in {"idle", "connecting", "calling", "gone"} /\ pending \subseteq Calls
      BY DEF Init
    <2>5. /\ loop \in [Conns -> {"none", "select", "callback", "replying", "ended", "panicked"}]
          /\ handling \in [Conns -> ServerMessages \union {NoMessage}]
          /\ open \in [Conns -> BOOLEAN] /\ up \in [Conns -> BOOLEAN]
          /\ asking \in [Conns -> {"none", "inline", "spawned"}]
      BY DEF Init
    <2>6. /\ queued \in [Conns -> 0..Capacity] /\ lagged \in [Conns -> BOOLEAN]
          /\ requested \in [Conns -> SUBSET ServerRequests]
          /\ answered \in [Conns -> SUBSET ServerRequests]
          /\ initialized \in [Conns -> BOOLEAN]
      BY ClientBounds DEF Init
    <2>7. /\ \A k \in Conns : hooks[k].shutdown = 1 <=> loop[k] = "ended"
          /\ \A k \in Conns : loop[k] # "none" => hooks[k].connect = 1
      BY DEF Init
    <2> QED
      BY <2>1, <2>2, <2>3, <2>4, <2>5, <2>6, <2>7 DEF TypeOK
  <1>2. Unmade /\ Calling
    BY ClientBounds DEF Init, Unmade, Calling, Conns, NoReply
  <1>3. Handling /\ RepliesPlaced
    BY DEF Init, Handling, RepliesPlaced, NoMessage
  <1>4. HandledOnce
    <2> SUFFICES ASSUME NEW k \in Conns, NEW s \in ServerRequests
                 PROVE  HandledAt(k, s)
      BY DEF HandledOnce
    <2>1. /\ inbox[k] = <<>> /\ handling[k] = NoMessage /\ requested[k] = {}
          /\ DOMAIN inbox[k] = {}
      BY DEF Init
    <2> QED
      BY <2>1, RequestIsNot DEF HandledAt, Unread
  <1>5. AnswersWhereAsked /\ ReplyFromOwnConnection
    BY DEF Init, AnswersWhereAsked, ReplyFromOwnConnection
  <1> QED
    BY <1>1, <1>2, <1>3, <1>4, <1>5 DEF ProvedInv, ClientInv

LEMMA StepInv == ProvedInv /\ [Next]_vars => ProvedInv'
  <1> SUFFICES ASSUME ProvedInv, [Next]_vars
               PROVE  ProvedInv'
    OBVIOUS
  <1>0. /\ TypeOK /\ Unmade /\ Calling /\ Handling /\ RepliesPlaced /\ HandledOnce
        /\ AnswersWhereAsked /\ ReplyFromOwnConnection
    BY DEF ProvedInv, ClientInv
  <1>1. TypeOK' /\ Unmade' /\ Calling' /\ Handling'
    BY <1>0, TypesKept, UnmadeKept, CallingKept, HandlingKept
  <1>2. RepliesPlaced' /\ HandledOnce'
    BY <1>0, PlacedKept, HandledKept
  <1>3. AnswersWhereAsked' /\ ReplyFromOwnConnection'
    BY <1>0, AnswersKept, ReplyKept
  <1> QED
    BY <1>1, <1>2, <1>3 DEF ProvedInv, ClientInv

LEMMA ProvedInvariance == Spec => []ProvedInv
  BY InitInv, StepInv, PTL DEF Spec

\* Whatever the owner, the loops and the servers do, and in whatever order: every
\* variable keeps its type, on_connect and on_shutdown run at most once for each
\* connection, the owner waits on the connection it has, and a server's request is
\* in one place only until it is answered or its loop is over.
THEOREM ClientInvariance == Spec => []ClientInv
  <1>1. ProvedInv => ClientInv
    BY DEF ProvedInv
  <1> QED
    BY <1>1, ProvedInvariance, PTL

\* A loop answers on its own connection the requests it read there: no server gets
\* an answer to a request that another one made, however many connections were made.
THEOREM AnswersStay == Spec => []AnswersWhereAsked
  <1>1. ProvedInv => AnswersWhereAsked
    BY DEF ProvedInv
  <1> QED
    BY <1>1, ProvedInvariance, PTL

\* The reply a call gets came in on the connection the call went out on, though all
\* loops share the table of pending requests.
THEOREM RepliesStay == Spec => []ReplyFromOwnConnection
  <1>1. ProvedInv => ReplyFromOwnConnection
    BY DEF ProvedInv
  <1> QED
    BY <1>1, ProvedInvariance, PTL

\* notifications/initialized goes out only on the connection whose server has just
\* accepted an initialize request.
THEOREM HandshakeIsOrdered == Spec => HandshakeOrder
  <1>1. ASSUME ProvedInv, [Next]_vars
        PROVE  [\A k \in Conns :
                  initialized'[k] # initialized[k] =>
                      got.kind = "response" /\ got.on = k /\ init]_vars
    <2>1. CASE CallReturns
      <3>1. /\ owner = "calling" /\ got # NoReply
            /\ \/ initialized' = initialized
               \/ /\ init /\ got.kind = "response"
                  /\ initialized' = [initialized EXCEPT ![conn] = TRUE]
        BY <2>1 DEF CallReturns
      <3>2. got.on = conn
        BY <1>1, <3>1 DEF ProvedInv, ClientInv, Calling, ReplyFromOwnConnection
      <3>3. \A k \in Conns : initialized'[k] # initialized[k] =>
              got.kind = "response" /\ got.on = k /\ init
        BY <1>1, <3>1, <3>2 DEF ProvedInv, ClientInv, TypeOK
      <3> QED
        BY <3>3
    <2>2. CASE initialized' = initialized
      BY <2>2
    <2>3. CASE OwnerStep
      BY <2>1, <2>2, <2>3 DEF OwnerStep, Connect, OnConnectReturns, Call, CallDropped, DropClient
    <2>4. ASSUME NEW k \in Conns, LoopStep(k) \/ CtxStep(k) \/ ServerStep(k)
          PROVE  initialized' = initialized
      BY <1>1, <2>4, LoopFrame, OtherFrame DEF ProvedInv, ClientInv
    <2>5. CASE UNCHANGED vars
      BY <2>5
    <2> QED
      BY <1>1, <2>2, <2>3, <2>4, <2>5 DEF Next
  <1> QED
    BY <1>1, ProvedInvariance, PTL DEF Spec, HandshakeOrder
=============================================================================
