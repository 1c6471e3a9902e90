------------------------ MODULE HttpTransportProofs ------------------------
(***************************************************************************)
(* Proofs about HttpTransport, for any number of clients and messages, and *)
(* any of the clients being foreign ones.                                  *)
(***************************************************************************)
EXTENDS HttpTransport, TLAPS

-----------------------------------------------------------------------------
(* Sequences. *)

LEMMA AppendAt ==
  ASSUME NEW S, NEW s \in Seq(S), NEW x \in S
  PROVE  /\ Append(s, x) \in Seq(S)
         /\ Len(s) \in Nat /\ DOMAIN s = 1..Len(s)
         /\ DOMAIN Append(s, x) = 1..(Len(s) + 1) /\ Len(Append(s, x)) = Len(s) + 1
         /\ \A k \in 1..Len(s) : Append(s, x)[k] = s[k]
         /\ Append(s, x)[Len(s) + 1] = x
  OBVIOUS

LEMMA TailAt ==
  ASSUME NEW S, NEW s \in Seq(S), s # <<>>
  PROVE  /\ Tail(s) \in Seq(S) /\ Head(s) \in S
         /\ Len(s) \in Nat /\ Len(s) >= 1 /\ 1 \in DOMAIN s
         /\ DOMAIN s = 1..Len(s) /\ DOMAIN Tail(s) = 1..(Len(s) - 1)
         /\ Head(s) = s[1]
         /\ \A k \in 1..(Len(s) - 1) : Tail(s)[k] = s[k + 1]
  OBVIOUS

LEMMA WithoutAt ==
  ASSUME NEW S, NEW s \in Seq(S), NEW i \in DOMAIN s
  PROVE  /\ Without(s, i) \in Seq(S)
         /\ Len(s) \in Nat /\ DOMAIN s = 1..Len(s) /\ DOMAIN Without(s, i) = 1..(Len(s) - 1)
         /\ \A j \in 1..(Len(s) - 1) : Without(s, i)[j] = IF j < i THEN s[j] ELSE s[j + 1]
  <1>1. Len(s) \in Nat /\ DOMAIN s = 1..Len(s) /\ i \in 1..Len(s) /\ \A j \in 1..Len(s) : s[j] \in S
    OBVIOUS
  <1>2. \A j \in 1..(Len(s) - 1) : (IF j < i THEN s[j] ELSE s[j + 1]) \in S
    BY <1>1
  <1>3. Len(s) - 1 \in Nat
    BY <1>1
  <1> QED
    BY <1>1, <1>2, <1>3 DEF Without

LEMMA ElementAt ==
  ASSUME NEW S, NEW s \in Seq(S)
  PROVE  Len(s) \in Nat /\ DOMAIN s = 1..Len(s) /\ \A i \in DOMAIN s : s[i] \in S
  OBVIOUS

-----------------------------------------------------------------------------
(* POSTs, ids and messages. *)

LEMMA PostFacts ==
  /\ \A p \in Posts : p[1] \in Clients /\ p[2] \in Numbers /\ p = <<p[1], p[2]>>
  /\ \A c \in Clients, n \in Numbers : /\ <<c, n>> \in Posts
                                       /\ <<c, n>>[1] = c /\ <<c, n>>[2] = n
  /\ None \notin Posts
  /\ \A n \in Numbers : n \in Nat /\ n # 0 /\ n \in 0..MaxMessages
  BY HttpBounds DEF Posts, Numbers

LEMMA IdFacts ==
  /\ \A p \in Posts : Id(p) \in Ids
  /\ \A p, q \in Posts : Id(p) = Id(q) => p[2] = q[2] /\ (~shared => p[1] = q[1])
  /\ \A p, q \in Posts : Id(p) = Id(q) /\ p[1] = q[1] => p = q
  /\ ~shared => \A p, q \in Posts : Id(p) = Id(q) => p = q
  /\ shared' = shared => \A p : Id(p)' = Id(p)
  BY PostFacts DEF Id, Ids

LEMMA MessageFacts ==
  /\ \A p \in Posts : /\ Response(p) \in ServerMessages /\ Error(p) \in ServerMessages
                      /\ IsResponse(Response(p)) /\ Response(p).of = p
                      /\ ~IsResponse(Error(p))
  /\ Cast \in ServerMessages /\ ~IsResponse(Cast)
  /\ \A m \in ServerMessages : IsResponse(m) => m.of \in Posts /\ m = Response(m.of)
  <1>1. \A p \in Posts : /\ Response(p) \in ServerMessages /\ Error(p) \in ServerMessages
                      /\ IsResponse(Response(p)) /\ Response(p).of = p
                      /\ ~IsResponse(Error(p))
    BY DEF Response, Error, ServerMessages, IsResponse
  <1>2. Cast \in ServerMessages /\ ~IsResponse(Cast)
    BY DEF Cast, ServerMessages, IsResponse
  <1>3. ASSUME NEW m \in ServerMessages, IsResponse(m)
        PROVE  m.of \in Posts /\ m = Response(m.of)
    <2>1. m # Cast
      BY <1>2, <1>3
    <2>2. m \in [type : {"response", "error"}, of : Posts] /\ m.type = "response"
      BY <1>3, <2>1 DEF ServerMessages, IsResponse
    <2> QED
      BY <2>2 DEF Response
  <1> QED
    BY <1>1, <1>2, <1>3

-----------------------------------------------------------------------------
(* What the steps do, several of them alike. *)

\* A message is sent: it waits in the outbox, or is on the wire at once.
LEMMA MakeEffect ==
  ASSUME TypeOK, NEW c \in Clients, NEW type \in Types, Make(c, type)
  PROVE  LET n == sent[c] + 1 IN
         /\ n \in Numbers /\ <<c, n>> \in Posts
         /\ sent' = [sent EXCEPT ![c] = n] /\ sent' \in [Clients -> 0..MaxMessages]
         /\ kind' = [kind EXCEPT ![<<c, n>>] = type] /\ kind' \in [Posts -> Types]
  <1>1. sent[c] + 1 \in Numbers /\ sent[c] + 1 \in 0..MaxMessages
    BY HttpBounds DEF Make, TypeOK, Numbers
  <1> QED
    BY <1>1, PostFacts DEF Make, TypeOK

LEMMA ToWireEffect ==
  ASSUME TypeOK, NEW p \in Posts, ToWire(p)
  PROVE  /\ stage' = [stage EXCEPT ![p] = "wire"]
         /\ stage' \in [Posts -> {"none", "wire", "begun", "line", "over"}]
         /\ via' = [via EXCEPT ![p] = sid[p[1]]] /\ via' \in [Posts -> Posts \union {None}]
         /\ pending' = pending \union {p} /\ pending' \subseteq Posts
  <1>1. sid[p[1]] \in Posts \union {None}
    BY PostFacts DEF TypeOK
  <1> QED
    BY <1>1 DEF ToWire, TypeOK

LEMMA TakingEffect ==
  ASSUME TypeOK, NEW c \in Clients, Taking(c)
  PROVE  /\ \A p \in pending : p[1] # c
         /\ outbox[c] \in Seq(Numbers) /\ outbox[c] # <<>> /\ 1 \in DOMAIN outbox[c]
         /\ Head(outbox[c]) = outbox[c][1] /\ outbox[c][1] \in Numbers
         /\ <<c, Head(outbox[c])>> \in Posts
         /\ outbox' = [outbox EXCEPT ![c] = Tail(@)]
         /\ outbox' \in [Clients -> Seq(Numbers)]
         /\ DOMAIN outbox'[c] = 1..(Len(outbox[c]) - 1)
         /\ \A i \in DOMAIN outbox'[c] :
                i + 1 \in DOMAIN outbox[c] /\ outbox'[c][i] = outbox[c][i + 1]
         /\ \A i \in DOMAIN outbox[c] : i \in Nat /\ i >= 1 /\ (i # 1 => i > 1)
  <1>1. outbox \in [Clients -> Seq(Numbers)] /\ outbox[c] # <<>>
    BY DEF TypeOK, Taking
  <1>2. outbox' = [outbox EXCEPT ![c] = Tail(@)] /\ \A p \in pending : p[1] # c
    BY DEF Taking
  <1>3. outbox'[c] = Tail(outbox[c])
    BY <1>1, <1>2
  <1>4. outbox[c] \in Seq(Numbers)
    BY <1>1
  <1>5. /\ Tail(outbox[c]) \in Seq(Numbers) /\ Head(outbox[c]) \in Numbers
        /\ Len(outbox[c]) \in Nat /\ 1 \in DOMAIN outbox[c]
        /\ DOMAIN outbox[c] = 1..Len(outbox[c])
        /\ DOMAIN Tail(outbox[c]) = 1..(Len(outbox[c]) - 1)
        /\ Head(outbox[c]) = outbox[c][1]
        /\ \A i \in 1..(Len(outbox[c]) - 1) : Tail(outbox[c])[i] = outbox[c][i + 1]
    BY <1>1, <1>4, TailAt
  <1> QED
    BY <1>1, <1>2, <1>3, <1>4, <1>5, PostFacts

\* Where the message waits, or that it is on the wire.
LEMMA SendEffect ==
  ASSUME TypeOK, NEW c \in Clients, NEW type \in Types, Send(c, type)
  PROVE  /\ c \notin Foreign /\ Make(c, type)
         /\ outbox' = [outbox EXCEPT ![c] = Append(@, sent[c] + 1)]
         /\ outbox' \in [Clients -> Seq(Numbers)]
         /\ DOMAIN outbox'[c] = DOMAIN outbox[c] \union {Len(outbox[c]) + 1}
         /\ \A i \in DOMAIN outbox[c] : i # Len(outbox[c]) + 1 /\ i \in Nat
                                        /\ outbox'[c][i] = outbox[c][i] /\ i < Len(outbox[c]) + 1
         /\ outbox'[c][Len(outbox[c]) + 1] = sent[c] + 1 /\ Len(outbox[c]) \in Nat
         /\ UNCHANGED <<shared, sid, got, postVars, current, queue, serverVars>>
  <1>1. sent[c] + 1 \in Numbers /\ Make(c, type)
    BY MakeEffect DEF Send
  <1>2. outbox \in [Clients -> Seq(Numbers)] /\ outbox[c] \in Seq(Numbers)
    BY DEF TypeOK
  <1>3. outbox' = [outbox EXCEPT ![c] = Append(@, sent[c] + 1)]
    BY DEF Send
  <1>4. outbox'[c] = Append(outbox[c], sent[c] + 1)
    BY <1>2, <1>3
  <1>5. /\ Append(outbox[c], sent[c] + 1) \in Seq(Numbers)
        /\ Len(outbox[c]) \in Nat /\ DOMAIN outbox[c] = 1..Len(outbox[c])
        /\ DOMAIN Append(outbox[c], sent[c] + 1) = 1..(Len(outbox[c]) + 1)
        /\ \A k \in 1..Len(outbox[c]) : Append(outbox[c], sent[c] + 1)[k] = outbox[c][k]
        /\ Append(outbox[c], sent[c] + 1)[Len(outbox[c]) + 1] = sent[c] + 1
    BY <1>1, <1>2, AppendAt
  <1>6. UNCHANGED <<shared, sid, got, postVars, current, queue, serverVars>> /\ c \notin Foreign
    BY DEF Send
  <1> QED
    BY <1>1, <1>2, <1>3, <1>4, <1>5, <1>6

LEMMA ForwardEffect ==
  ASSUME TypeOK, NEW p \in Posts, Forward(p)
  PROVE  /\ incoming' \in Seq(Posts)
         /\ DOMAIN incoming = 1..Len(incoming) /\ Len(incoming) \in Nat
         /\ DOMAIN incoming' = 1..Len(incoming') /\ Len(incoming') \in Nat
         /\ \/ incoming' = incoming
            \/ /\ Len(incoming') = Len(incoming) + 1 /\ incoming'[Len(incoming) + 1] = p
               /\ \A i \in DOMAIN incoming : incoming'[i] = incoming[i]
  <1>1. incoming \in Seq(Posts) /\ incoming' \in {incoming, Append(incoming, p)}
    BY DEF TypeOK, Forward
  <1>2. Append(incoming, p) \in Seq(Posts)
    BY <1>1, AppendAt
  <1>3. incoming' \in Seq(Posts)
    BY <1>1, <1>2
  <1> QED
    BY <1>1, <1>3, AppendAt, ElementAt

\* The handler at i leaves the line of k, and is through.
LineShorter(k, i) ==
  /\ line' \in [Posts -> Seq(Posts)]
  /\ \A l \in Posts : l # k => line'[l] = line[l]
  /\ DOMAIN line'[k] = 1..(Len(line[k]) - 1) /\ DOMAIN line[k] = 1..Len(line[k])
  /\ Len(line[k]) \in Nat
  /\ \A j \in DOMAIN line'[k] : line'[k][j] = IF j < i THEN line[k][j] ELSE line[k][j + 1]

Finishes(k, i) ==
  /\ i \in DOMAIN line[k] /\ line[k][i] \in Posts
  /\ LineShorter(k, i)
  /\ stage' = [stage EXCEPT ![line[k][i]] = "over"]
  /\ pending' = pending \ {line[k][i]}

LEMMA ReleaseShorter ==
  ASSUME TypeOK, NEW k \in Posts, line[k] # <<>>
  PROVE  /\ 1 \in DOMAIN line[k] /\ Head(line[k]) = line[k][1] /\ line[k][1] \in Posts
         /\ Release(k) => LineShorter(k, 1)
  <1>1. line \in [Posts -> Seq(Posts)] /\ line[k] \in Seq(Posts)
    BY DEF TypeOK
  <1>2. /\ Tail(line[k]) \in Seq(Posts) /\ Head(line[k]) \in Posts
        /\ Len(line[k]) \in Nat /\ 1 \in DOMAIN line[k]
        /\ DOMAIN line[k] = 1..Len(line[k]) /\ DOMAIN Tail(line[k]) = 1..(Len(line[k]) - 1)
        /\ Head(line[k]) = line[k][1]
        /\ \A j \in 1..(Len(line[k]) - 1) : Tail(line[k])[j] = line[k][j + 1]
    BY <1>1, TailAt
  <1>3. ASSUME Release(k) PROVE LineShorter(k, 1)
    <2>1. line' = [line EXCEPT ![k] = Tail(@)]
      BY <1>3 DEF Release
    <2>2. line' \in [Posts -> Seq(Posts)] /\ line'[k] = Tail(line[k])
          /\ \A l \in Posts : l # k => line'[l] = line[l]
      BY <1>1, <1>2, <2>1
    <2> QED
      BY <1>2, <2>2 DEF LineShorter
  <1> QED
    BY <1>2, <1>3

LEMMA LeaveShorter ==
  ASSUME TypeOK, NEW k \in Posts, NEW i \in DOMAIN line[k]
  PROVE  line[k][i] \in Posts /\ (Leave(k, i) => LineShorter(k, i))
  <1>1. line \in [Posts -> Seq(Posts)] /\ line[k] \in Seq(Posts)
    BY DEF TypeOK
  <1>2. /\ Without(line[k], i) \in Seq(Posts) /\ Len(line[k]) \in Nat
        /\ DOMAIN line[k] = 1..Len(line[k]) /\ DOMAIN Without(line[k], i) = 1..(Len(line[k]) - 1)
        /\ \A j \in 1..(Len(line[k]) - 1) :
              Without(line[k], i)[j] = IF j < i THEN line[k][j] ELSE line[k][j + 1]
    BY <1>1, WithoutAt
  <1>3. ASSUME Leave(k, i) PROVE LineShorter(k, i)
    <2>1. line' = [line EXCEPT ![k] = Without(@, i)]
      BY <1>3 DEF Leave
    <2>2. line' \in [Posts -> Seq(Posts)] /\ line'[k] = Without(line[k], i)
          /\ \A l \in Posts : l # k => line'[l] = line[l]
      BY <1>1, <1>2, <2>1
    <2> QED
      BY <1>2, <2>2 DEF LineShorter
  <1>4. line[k][i] \in Posts
    BY <1>1, ElementAt
  <1> QED
    BY <1>3, <1>4

\* The next message of channel k is taken.
LEMMA TakeEffect ==
  ASSUME TypeOK, NEW k \in Posts, Take(k)
  PROVE  /\ queue[k] # <<>> /\ 1 \in DOMAIN queue[k] /\ Head(queue[k]) = queue[k][1]
         /\ Head(queue[k]) \in ServerMessages
         /\ queue' \in [Posts -> Seq(ServerMessages)]
         /\ \A l \in Posts : l # k => queue'[l] = queue[l]
         /\ DOMAIN queue[k] = 1..Len(queue[k]) /\ Len(queue[k]) \in Nat
         /\ DOMAIN queue'[k] = 1..(Len(queue[k]) - 1)
         /\ \A j \in DOMAIN queue'[k] : queue'[k][j] = queue[k][j + 1]
  <1>1. queue \in [Posts -> Seq(ServerMessages)] /\ queue[k] \in Seq(ServerMessages)
    BY DEF TypeOK
  <1>2. queue[k] # <<>> /\ queue' = [queue EXCEPT ![k] = Tail(@)]
    BY DEF Take
  <1>3. /\ Tail(queue[k]) \in Seq(ServerMessages) /\ Head(queue[k]) \in ServerMessages
        /\ Len(queue[k]) \in Nat /\ 1 \in DOMAIN queue[k]
        /\ DOMAIN queue[k] = 1..Len(queue[k]) /\ DOMAIN Tail(queue[k]) = 1..(Len(queue[k]) - 1)
        /\ Head(queue[k]) = queue[k][1]
        /\ \A j \in 1..(Len(queue[k]) - 1) : Tail(queue[k])[j] = queue[k][j + 1]
    BY <1>1, <1>2, TailAt
  <1>4. queue' \in [Posts -> Seq(ServerMessages)] /\ queue'[k] = Tail(queue[k])
        /\ \A l \in Posts : l # k => queue'[l] = queue[l]
    BY <1>1, <1>2, <1>3
  <1> QED
    BY <1>2, <1>3, <1>4

LEMMA DeliverEffect ==
  ASSUME TypeOK, NEW p \in Posts, NEW m \in ServerMessages, NEW n \in 0..MaxMessages,
         Deliver(p, m, n)
  PROVE  LET c == p[1] IN
         /\ got' \in [Clients -> Seq([message : ServerMessages, to : 0..MaxMessages])]
         /\ \A d \in Clients : d # c => got'[d] = got[d]
         /\ DOMAIN got[c] = 1..Len(got[c]) /\ Len(got[c]) \in Nat
         /\ DOMAIN got'[c] = 1..(Len(got[c]) + 1)
         /\ \A i \in DOMAIN got[c] : got'[c][i] = got[c][i]
         /\ got'[c][Len(got[c]) + 1].message = m /\ got'[c][Len(got[c]) + 1].to = n
  <1> DEFINE c == p[1]
             E == [message : ServerMessages, to : 0..MaxMessages]
             e == [message |-> m, to |-> n]
  <1>1. e \in E /\ e.message = m /\ e.to = n
    OBVIOUS
  <1>2. got \in [Clients -> Seq(E)] /\ c \in Clients
    BY PostFacts DEF TypeOK
  <1>3. got' = [got EXCEPT ![c] = Append(@, e)]
    BY DEF Deliver
  <1> HIDE DEF E, e, c
  <1>4. got[c] \in Seq(E)
    BY <1>2
  <1>5. /\ Append(got[c], e) \in Seq(E) /\ Len(got[c]) \in Nat /\ DOMAIN got[c] = 1..Len(got[c])
        /\ DOMAIN Append(got[c], e) = 1..(Len(got[c]) + 1)
        /\ \A i \in 1..Len(got[c]) : Append(got[c], e)[i] = got[c][i]
        /\ Append(got[c], e)[Len(got[c]) + 1] = e
    BY <1>1, <1>4, AppendAt
  <1>6. got' \in [Clients -> Seq(E)] /\ got'[c] = Append(got[c], e)
        /\ \A d \in Clients : d # c => got'[d] = got[d]
    BY <1>2, <1>3, <1>5
  <1> QED
    BY <1>1, <1>5, <1>6 DEF E, c

\* Channel k has one message more.
Longer(k, m) ==
  /\ DOMAIN queue[k] = 1..Len(queue[k]) /\ Len(queue[k]) \in Nat
  /\ DOMAIN queue'[k] = 1..(Len(queue[k]) + 1)
  /\ \A i \in DOMAIN queue[k] : queue'[k][i] = queue[k][i]
  /\ queue'[k][Len(queue[k]) + 1] = m

LEMMA AppendLonger ==
  ASSUME TypeOK, NEW k \in Posts, NEW m \in ServerMessages
  PROVE  /\ Append(queue[k], m) \in Seq(ServerMessages)
         /\ queue'[k] = Append(queue[k], m) => Longer(k, m)
  <1>1. queue[k] \in Seq(ServerMessages)
    BY DEF TypeOK
  <1> QED
    BY <1>1, AppendAt DEF Longer

LEMMA ToAllEffect ==
  ASSUME TypeOK, NEW m \in ServerMessages, ToAll(m)
  PROVE  /\ queue' \in [Posts -> Seq(ServerMessages)]
         /\ \A k \in Posts : \/ queue'[k] = queue[k]
                             \/ Longer(k, m) /\ \E s \in Posts : current[s] = k
  <1>1. \A k \in Posts : /\ queue[k] \in Seq(ServerMessages)
                         /\ Append(queue[k], m) \in Seq(ServerMessages)
    BY AppendLonger DEF TypeOK
  <1>2. queue' = [k \in Posts |-> IF \E s \in Posts : current[s] = k
                                  THEN Append(queue[k], m) ELSE queue[k]]
    BY DEF ToAll
  <1> QED
    BY <1>1, <1>2, AppendLonger

\* A response goes to the session its id leads to, if any.
LEMMA RespondEffect ==
  ASSUME TypeOK, SessionsOwned, NEW p \in running, Respond(p)
  PROVE  LET s == route[Id(p)]
             k == current[s] IN
         /\ p \in Posts /\ Id(p) \in Ids /\ running' = running \ {p}
         /\ route' = [route EXCEPT ![Id(p)] = None]
         /\ route' \in [Ids -> Posts \union {None}]
         /\ queue' \in [Posts -> Seq(ServerMessages)]
         /\ \/ s = None /\ queue' = queue
            \/ /\ s \in Posts /\ k \in Posts /\ via[k] = s /\ Handled(k) /\ k[1] = s[1]
               /\ Longer(k, Response(p))
               /\ \A l \in Posts : l # k => queue'[l] = queue[l]
         /\ UNCHANGED <<shared, clientVars, sid, got, postVars, current, incoming, read,
                        casts, up>>
  <1> DEFINE s == route[Id(p)]
             k == current[s]
  <1>1. p \in Posts /\ Id(p) \in Ids
    BY IdFacts DEF TypeOK
  <1>2. /\ running' = running \ {p} /\ route' = [route EXCEPT ![Id(p)] = None]
        /\ queue' = IF s # None THEN [queue EXCEPT ![k] = Append(@, Response(p))] ELSE queue
        /\ UNCHANGED <<shared, clientVars, sid, got, postVars, current, incoming, read,
                       casts, up>>
    BY DEF Respond
  <1>3. route' \in [Ids -> Posts \union {None}] /\ s \in Posts \union {None}
    BY <1>1, <1>2 DEF TypeOK
  <1>4. queue \in [Posts -> Seq(ServerMessages)]
    BY DEF TypeOK
  <1>5. CASE s = None
    BY <1>1, <1>2, <1>3, <1>4, <1>5
  <1>6. CASE s # None
    <2>1. s \in Posts /\ k # None
      BY <1>1, <1>3, <1>6 DEF SessionsOwned
    <2>2. k \in Posts /\ Handled(k) /\ via[k] = s
      BY <2>1 DEF SessionsOwned, TypeOK
    <2>3. k[1] = s[1]
      BY <1>6, <2>2 DEF SessionsOwned
    <2>4. Append(queue[k], Response(p)) \in Seq(ServerMessages)
      BY <1>1, <2>2, MessageFacts, AppendLonger
    <2>5. queue' = [queue EXCEPT ![k] = Append(queue[k], Response(p))]
      BY <1>2, <1>6
    <2>6. queue' \in [Posts -> Seq(ServerMessages)] /\ queue'[k] = Append(queue[k], Response(p))
          /\ \A l \in Posts : l # k => queue'[l] = queue[l]
      BY <1>4, <2>2, <2>4, <2>5
    <2>7. Longer(k, Response(p))
      BY <1>1, <2>2, <2>6, MessageFacts, AppendLonger
    <2> QED
      BY <1>1, <1>2, <1>3, <2>1, <2>2, <2>3, <2>6, <2>7
  <1> QED
    BY <1>5, <1>6

LEMMA ReceiveEffect ==
  ASSUME TypeOK, Receive
  PROVE  LET p == incoming[read + 1] IN
         /\ p \in Posts /\ Id(p) \in Ids /\ read + 1 \in DOMAIN incoming
         /\ read' = read + 1 /\ read \in Nat /\ read' \in 0..Len(incoming)
         /\ DOMAIN incoming = 1..Len(incoming) /\ Len(incoming) \in Nat
         /\ \/ /\ kind[p] \in Requests
               /\ running' = running \union {p} /\ route' = [route EXCEPT ![Id(p)] = via[p]]
               /\ route' \in [Ids -> Posts \union {None}]
            \/ kind[p] \notin Requests /\ UNCHANGED <<running, route>>
         /\ UNCHANGED <<shared, clientVars, sid, got, postVars, current, queue, incoming,
                        casts, up>>
  <1>1. incoming \in Seq(Posts) /\ read \in 0..Len(incoming) /\ read < Len(incoming)
    BY DEF TypeOK, Receive
  <1>2. DOMAIN incoming = 1..Len(incoming) /\ Len(incoming) \in Nat
    BY <1>1, ElementAt
  <1>3. read \in Nat /\ read + 1 \in DOMAIN incoming /\ read + 1 \in 0..Len(incoming)
    BY <1>1, <1>2
  <1>4. incoming[read + 1] \in Posts
    BY <1>1, <1>3, ElementAt
  <1>5. Id(incoming[read + 1]) \in Ids /\ via[incoming[read + 1]] \in Posts \union {None}
    BY <1>4, IdFacts DEF TypeOK
  <1> QED
    BY <1>2, <1>3, <1>4, <1>5 DEF Receive, TypeOK

\* An error, or something of the server's own, goes to every session.
Casts == SendToAll \/ \E p \in running : Fail(p)

LEMMA CastsEffect ==
  ASSUME TypeOK, Casts
  PROVE  /\ \E m \in ServerMessages : ToAll(m) /\ ~IsResponse(m)
         /\ running' \subseteq running /\ casts' \in Nat /\ casts' # 0
         /\ UNCHANGED <<shared, clientVars, sid, got, postVars, current, incoming, read,
                        route, up>>
  <1>1. casts + 1 \in Nat /\ casts + 1 # 0
    BY DEF TypeOK
  <1>2. CASE SendToAll
    BY <1>1, <1>2, MessageFacts DEF SendToAll
  <1>3. ASSUME NEW p \in running, Fail(p)
        PROVE  /\ Error(p) \in ServerMessages /\ ~IsResponse(Error(p)) /\ ToAll(Error(p))
               /\ running' \subseteq running /\ casts' \in Nat /\ casts' # 0
    BY <1>1, <1>3, MessageFacts DEF Fail, TypeOK
  <1>4. CASE \E p \in running : Fail(p)
    <2>1. UNCHANGED <<shared, clientVars, sid, got, postVars, current, incoming, read, route, up>>
      BY <1>4 DEF Fail
    <2> QED
      BY <1>3, <1>4, <2>1
  <1> QED
    BY <1>2, <1>4 DEF Casts

\* A handler waits no longer: its stream or its time is over, or its client gone.
Ends(k) == StreamEnd(k) \/ \E i \in DOMAIN line[k] : TimeOut(k, i) \/ Drop(k, i)

LEMMA EndsEffect ==
  ASSUME TypeOK, NEW k \in Posts, Ends(k)
  PROVE  /\ \E i \in DOMAIN line[k] :
                /\ Finishes(k, i)
                /\ lost' = lost \/ lost' = lost \union {line[k][i]}
         /\ lost \subseteq lost' /\ lost' \subseteq Posts
         /\ UNCHANGED <<shared, clientVars, sid, via, got, current, queue, serverVars>>
  <1>1. CASE StreamEnd(k)
    <2>1. line[k] # <<>> /\ Over(Head(line[k])) /\ Release(k)
      BY <1>1 DEF StreamEnd, Holds
    <2>2. 1 \in DOMAIN line[k] /\ Finishes(k, 1) /\ lost' = lost
      BY <1>1, <2>1, ReleaseShorter DEF Finishes, Over, StreamEnd
    <2> QED
      BY <1>1, <2>2 DEF StreamEnd, TypeOK
  <1>2. ASSUME NEW i \in DOMAIN line[k], TimeOut(k, i) \/ Drop(k, i)
        PROVE  Finishes(k, i) /\ lost' \in {lost, lost \union {line[k][i]}} /\ line[k][i] \in Posts
    BY <1>2, LeaveShorter DEF Finishes, Over, TimeOut, Drop
  <1>3. CASE \E i \in DOMAIN line[k] : TimeOut(k, i) \/ Drop(k, i)
    <2>1. UNCHANGED <<shared, clientVars, sid, via, got, current, queue, serverVars>>
      BY <1>3 DEF TimeOut, Drop
    <2>2. PICK i \in DOMAIN line[k] : TimeOut(k, i) \/ Drop(k, i)
      BY <1>3
    <2> QED
      BY <1>2, <2>1, <2>2 DEF TypeOK
  <1> QED
    BY <1>1, <1>3 DEF Ends

\* The holder of a receiver takes a message, which may reach its client.
Takes(k) == Reply(k) \/ ReplyCut(k) \/ StreamNext(k)

LEMMA HeadLined ==
  ASSUME TypeOK, SessionsOwned, Lined, NEW k \in Posts, line[k] # <<>>
  PROVE  LET p == line[k][1] IN
         /\ 1 \in DOMAIN line[k] /\ Head(line[k]) = p /\ p \in Posts /\ p[1] = k[1]
         /\ p[2] \in 0..MaxMessages /\ p[2] # 0
         /\ stage[p] = "line" /\ via[p] \in Posts /\ via[p][1] = p[1] /\ current[via[p]] # None
         /\ Release(k) => LineShorter(k, 1)
  <1>1. /\ 1 \in DOMAIN line[k] /\ Head(line[k]) = line[k][1] /\ line[k][1] \in Posts
        /\ Release(k) => LineShorter(k, 1)
    BY ReleaseShorter
  <1>2. line[k][1][1] = k[1] /\ stage[line[k][1]] = "line"
    BY <1>1 DEF Lined
  <1>3. via[line[k][1]] # None /\ via[line[k][1]] \in Posts \union {None}
    BY <1>1, <1>2 DEF SessionsOwned, TypeOK
  <1> QED
    BY <1>1, <1>2, <1>3, PostFacts DEF SessionsOwned

LEMMA TakesEffect ==
  ASSUME TypeOK, SessionsOwned, Lined, NEW k \in Posts, Takes(k)
  PROVE  LET p == line[k][1]
             m == queue[k][1] IN
         /\ 1 \in DOMAIN line[k] /\ Head(line[k]) = p /\ p \in Posts /\ p[1] = k[1]
         /\ stage[p] = "line" /\ via[p] \in Posts /\ via[p][1] = p[1] /\ current[via[p]] # None
         /\ Take(k) /\ m \in ServerMessages /\ Head(queue[k]) = m
         /\ Finishes(k, 1) \/ UNCHANGED <<stage, pending, line>>
         /\ lost' = lost \/ lost' = lost \union {p}
         /\ sid' = sid \/ sid' = [sid EXCEPT ![p[1]] = via[p]]
         /\ got' = got \/ (p \in pending /\ \E n \in 0..MaxMessages : Deliver(p, m, n))
         /\ UNCHANGED <<shared, clientVars, via, current, serverVars>>
  <1> DEFINE p == line[k][1]
             m == queue[k][1]
  <1>1. line[k] # <<>> /\ Take(k)
    BY DEF Takes, Reply, ReplyCut, StreamNext, Holds
  <1>2. /\ 1 \in DOMAIN line[k] /\ Head(line[k]) = p /\ p \in Posts /\ p[1] = k[1]
        /\ p[2] \in 0..MaxMessages
        /\ stage[p] = "line" /\ via[p] \in Posts /\ via[p][1] = p[1] /\ current[via[p]] # None
        /\ Release(k) => LineShorter(k, 1)
    BY <1>1, HeadLined
  <1>3. m \in ServerMessages /\ Head(queue[k]) = m
    BY <1>1, TakeEffect
  <1>4. Over(p) /\ Release(k) => Finishes(k, 1)
    BY <1>2 DEF Over, Finishes
  <1>5. Learn(p) => sid' = sid \/ sid' = [sid EXCEPT ![p[1]] = via[p]]
    BY DEF Learn
  <1>6. 0 \in 0..MaxMessages
    BY HttpBounds
  <1> HIDE DEF p, m
  <1>7. CASE Reply(k)
    <2>1. /\ Release(k) /\ Over(p) /\ lost' = lost
          /\ IF p \in pending THEN Deliver(p, m, p[2]) /\ Learn(p) ELSE UNCHANGED <<got, sid>>
          /\ UNCHANGED <<shared, clientVars, via, current, serverVars>>
      BY <1>2, <1>3, <1>7 DEF Reply
    <2> QED
      BY <1>1, <1>2, <1>3, <1>4, <1>5, <2>1 DEF p, m
  <1>8. CASE ReplyCut(k)
    <2>1. /\ Release(k) /\ Over(p) /\ lost' = lost \union {p} /\ Learn(p) /\ got' = got
          /\ UNCHANGED <<shared, clientVars, via, current, serverVars>>
      BY <1>2, <1>3, <1>8 DEF ReplyCut
    <2> QED
      BY <1>1, <1>2, <1>3, <1>4, <1>5, <2>1 DEF p, m
  <1>9. CASE StreamNext(k)
    <2>1. /\ IF p \in pending THEN Deliver(p, m, 0) ELSE UNCHANGED got
          /\ (Over(p) /\ Release(k)) \/ UNCHANGED <<stage, pending, line>>
          /\ UNCHANGED <<shared, clientVars, sid, via, lost, current, serverVars>>
      BY <1>2, <1>3, <1>9 DEF StreamNext
    <2> QED
      BY <1>1, <1>2, <1>3, <1>4, <1>6, <2>1 DEF p, m
  <1> QED
    BY <1>7, <1>8, <1>9 DEF Takes

\* handle_post, or handle_get, takes a message from the wire and has a handler wait.
Begins(p) == HandleRequest(p) \/ HandleGet(p)

LEMMA BeginsEffect ==
  ASSUME TypeOK, NEW p \in Posts, Begins(p)
  PROVE  /\ stage[p] = "wire" /\ via[p] # None
         /\ stage' = [stage EXCEPT ![p] = "begun"]
         /\ incoming' = incoming \/ Forward(p)
         /\ UNCHANGED <<shared, clientVars, sid, via, pending, lost, got, current, queue, line,
                        read, route, running, casts, up>>
  BY DEF Begins, HandleRequest, HandleGet, serverVars

\* It answers at once.
Answers(p) == HandleOther(p) \/ Refuse(p)

LEMMA AnswersEffect ==
  ASSUME TypeOK, NEW p \in Posts, Answers(p)
  PROVE  /\ stage[p] = "wire"
         /\ stage' = [stage EXCEPT ![p] = "over"] /\ pending' = pending \ {p}
         /\ \/ incoming' = incoming
            \/ Forward(p) /\ kind[p] = "other"
         /\ UNCHANGED <<shared, clientVars, sid, via, lost, got, current, queue, line,
                        read, route, running, casts, up>>
  BY DEF Answers, HandleOther, Refuse, Over, serverVars

LEMMA InitEffect ==
  ASSUME TypeOK, SessionsOwned, NEW p \in Posts, HandleInit(p)
  PROVE  \E s \in Posts :
         /\ stage[p] = "wire" /\ s[1] = p[1] /\ (via[p] # None => s = via[p])
         /\ via' = [via EXCEPT ![p] = s] /\ current' = [current EXCEPT ![s] = p]
         /\ Forward(p) /\ stage' = [stage EXCEPT ![p] = "begun"]
         /\ UNCHANGED <<shared, clientVars, sid, pending, lost, got, queue, line, read, route,
                        running, casts, up>>
  <1> DEFINE s == IF via[p] = None THEN p ELSE via[p]
  <1>1. s \in Posts /\ s[1] = p[1]
    BY DEF TypeOK, SessionsOwned
  <1>2. /\ stage[p] = "wire" /\ via' = [via EXCEPT ![p] = s]
        /\ current' = [current EXCEPT ![s] = p]
        /\ Forward(p) /\ stage' = [stage EXCEPT ![p] = "begun"]
        /\ UNCHANGED <<shared, clientVars, sid, pending, lost, got, queue, line, read, route,
                       running, casts, up>>
    BY DEF HandleInit
  <1> QED
    BY <1>1, <1>2

LEMMA AttachEffect ==
  ASSUME TypeOK, SessionsOwned, NEW p \in Posts, Attach(p)
  PROVE  \E k \in Posts :
         /\ stage[p] = "begun" /\ k[1] = p[1]
         /\ stage' = [stage EXCEPT ![p] = "line"]
         /\ line' \in [Posts -> Seq(Posts)] /\ \A l \in Posts : l # k => line'[l] = line[l]
         /\ DOMAIN line[k] = 1..Len(line[k]) /\ Len(line[k]) \in Nat
         /\ DOMAIN line'[k] = 1..(Len(line[k]) + 1)
         /\ \A i \in DOMAIN line[k] : line'[k][i] = line[k][i]
         /\ line'[k][Len(line[k]) + 1] = p
         /\ UNCHANGED <<shared, clientVars, sid, via, pending, lost, got, current, queue,
                        serverVars>>
  <1> DEFINE k == IF kind[p] = "init" THEN p ELSE current[via[p]]
  <1>1. stage[p] = "begun" /\ via[p] # None /\ via[p] \in Posts /\ via[p][1] = p[1]
    BY DEF Attach, SessionsOwned, TypeOK
  <1>2. current[via[p]] # None /\ current[via[p]] \in Posts
    BY <1>1 DEF SessionsOwned, TypeOK
  <1>3. via[current[via[p]]] = via[p]
    BY <1>1, <1>2 DEF SessionsOwned
  <1>4. current[via[p]][1] = p[1]
    BY <1>1, <1>2, <1>3 DEF SessionsOwned
  <1>5. k \in Posts /\ k[1] = p[1]
    BY <1>2, <1>4
  <1>6. /\ line' = [line EXCEPT ![k] = Append(@, p)] /\ stage' = [stage EXCEPT ![p] = "line"]
        /\ UNCHANGED <<shared, clientVars, sid, via, pending, lost, got, current, queue,
                       serverVars>>
    BY DEF Attach
  <1> HIDE DEF k
  <1>7. line \in [Posts -> Seq(Posts)] /\ line[k] \in Seq(Posts)
    BY <1>5 DEF TypeOK
  <1>8. /\ Append(line[k], p) \in Seq(Posts) /\ Len(line[k]) \in Nat
        /\ DOMAIN line[k] = 1..Len(line[k]) /\ DOMAIN Append(line[k], p) = 1..(Len(line[k]) + 1)
        /\ \A i \in 1..Len(line[k]) : Append(line[k], p)[i] = line[k][i]
        /\ Append(line[k], p)[Len(line[k]) + 1] = p
    BY <1>7, AppendAt
  <1>9. line' \in [Posts -> Seq(Posts)] /\ line'[k] = Append(line[k], p)
        /\ \A l \in Posts : l # k => line'[l] = line[l]
    BY <1>5, <1>6, <1>7, <1>8
  <1> QED
    BY <1>1, <1>5, <1>6, <1>8, <1>9

\* Every step is one of these.
LEMMA StepCases ==
  ASSUME [Next]_vars
  PROVE  \/ \E c \in Clients :
                \/ \E type \in Types : Send(c, type) /\ type \notin Streams
                \/ \E type \in Types : SendForeign(c, type)
                \/ PostNext(c) \/ SkipMessage(c)
         \/ \E p \in Posts :
                \/ GiveUp(p) \/ HandleInit(p) \/ Begins(p) \/ Answers(p) \/ Attach(p)
                \/ Ends(p) \/ Takes(p)
         \/ Receive \/ Casts \/ Stop \/ \E p \in running : Respond(p)
         \/ UNCHANGED vars
  <1>1. ForeignTypes \subseteq Types
    BY HttpBounds
  <1>2. ASSUME NEW c \in Clients, ClientStep(c)
        PROVE  \/ \E type \in Types : Send(c, type) /\ type \notin Streams
               \/ \E type \in Types : SendForeign(c, type)
               \/ PostNext(c) \/ SkipMessage(c)
    BY <1>1, <1>2 DEF ClientStep, Types, Requests, Streams
  <1>3. ASSUME NEW p \in Posts, PostStep(p) \/ ChannelStep(p)
        PROVE  \/ GiveUp(p) \/ HandleInit(p) \/ Begins(p) \/ Answers(p) \/ Attach(p)
               \/ Ends(p) \/ Takes(p)
    BY <1>3 DEF PostStep, ChannelStep, Begins, Answers, Ends, Takes
  <1>4. ServerStep => Receive \/ Casts \/ Stop \/ \E p \in running : Respond(p)
    BY DEF ServerStep, Casts
  <1> QED
    BY <1>2, <1>3, <1>4 DEF Next

-----------------------------------------------------------------------------
(* Types. *)

LEMMA StageTypes ==
  ASSUME TypeOK, NEW p \in Posts, NEW x \in {"wire", "begun", "line", "over"},
         stage' = [stage EXCEPT ![p] = x]
  PROVE  stage' \in [Posts -> {"none", "wire", "begun", "line", "over"}]
  BY DEF TypeOK

LEMMA TypeClient ==
  ASSUME TypeOK, NEW c \in Clients,
         \/ \E type \in Types : Send(c, type) \/ SendForeign(c, type)
         \/ PostNext(c) \/ SkipMessage(c)
  PROVE  TypeOK'
  <1>1. ASSUME NEW type \in Types, Send(c, type)
        PROVE  TypeOK'
    <2>1. sent' \in [Clients -> 0..MaxMessages] /\ kind' \in [Posts -> Types]
          /\ outbox' \in [Clients -> Seq(Numbers)]
          /\ UNCHANGED <<shared, sid, got, postVars, current, queue, serverVars>>
      BY <1>1, SendEffect, MakeEffect
    <2> QED
      BY <2>1 DEF TypeOK, postVars, serverVars
  <1>2. ASSUME NEW type \in Types, SendForeign(c, type)
        PROVE  TypeOK'
    <2>1. sent' \in [Clients -> 0..MaxMessages] /\ kind' \in [Posts -> Types]
          /\ <<c, sent[c] + 1>> \in Posts
      BY <1>2, MakeEffect DEF SendForeign
    <2>2. /\ stage' \in [Posts -> {"none", "wire", "begun", "line", "over"}]
          /\ via' \in [Posts -> Posts \union {None}] /\ pending' \subseteq Posts
      BY <1>2, <2>1, ToWireEffect DEF SendForeign
    <2>3. UNCHANGED <<shared, outbox, sid, lost, got, current, queue, line, serverVars>>
      BY <1>2 DEF SendForeign
    <2> QED
      BY <2>1, <2>2, <2>3 DEF TypeOK, serverVars
  <1>3. CASE PostNext(c)
    <2>1. outbox' \in [Clients -> Seq(Numbers)] /\ <<c, Head(outbox[c])>> \in Posts
      BY <1>3, TakingEffect DEF PostNext
    <2>2. /\ stage' \in [Posts -> {"none", "wire", "begun", "line", "over"}]
          /\ via' \in [Posts -> Posts \union {None}] /\ pending' \subseteq Posts
      BY <1>3, <2>1, ToWireEffect DEF PostNext
    <2>3. UNCHANGED <<shared, sent, kind, sid, lost, got, current, queue, line, serverVars>>
      BY <1>3 DEF PostNext
    <2> QED
      BY <2>1, <2>2, <2>3 DEF TypeOK, serverVars
  <1>4. CASE SkipMessage(c)
    <2>1. outbox' \in [Clients -> Seq(Numbers)]
          /\ UNCHANGED <<shared, sent, kind, sid, got, postVars, current, queue, serverVars>>
      BY <1>4, TakingEffect DEF SkipMessage
    <2> QED
      BY <2>1 DEF TypeOK, postVars, serverVars
  <1> QED
    BY <1>1, <1>2, <1>3, <1>4

LEMMA ReadType ==
  ASSUME TypeOK, NEW p \in Posts, Forward(p), read' = read
  PROVE  incoming' \in Seq(Posts) /\ read' \in 0..Len(incoming')
  <1>1. incoming' \in Seq(Posts) /\ Len(incoming) \in Nat
        /\ (incoming' = incoming \/ Len(incoming') = Len(incoming) + 1)
    BY ForwardEffect
  <1> QED
    BY <1>1 DEF TypeOK

LEMMA TypePost ==
  ASSUME TypeOK, SessionsOwned, Lined, NEW p \in Posts,
         \/ GiveUp(p) \/ HandleInit(p) \/ Begins(p) \/ Answers(p) \/ Attach(p)
         \/ Ends(p) \/ Takes(p)
  PROVE  TypeOK'
  <1>1. CASE GiveUp(p)
    BY <1>1 DEF GiveUp, TypeOK, clientVars, serverVars
  <1>2. CASE HandleInit(p)
    <2>1. PICK s \in Posts :
             /\ via' = [via EXCEPT ![p] = s] /\ current' = [current EXCEPT ![s] = p]
             /\ Forward(p) /\ stage' = [stage EXCEPT ![p] = "begun"]
             /\ UNCHANGED <<shared, clientVars, sid, pending, lost, got, queue, line, read,
                            route, running, casts, up>>
      BY <1>2, InitEffect
    <2>2. incoming' \in Seq(Posts) /\ read' \in 0..Len(incoming')
      BY <2>1, ReadType
    <2>3. /\ via' \in [Posts -> Posts \union {None}] /\ current' \in [Posts -> Posts \union {None}]
          /\ stage' \in [Posts -> {"none", "wire", "begun", "line", "over"}]
      BY <2>1, StageTypes DEF TypeOK
    <2> QED
      BY <2>1, <2>2, <2>3 DEF TypeOK, clientVars
  <1>3. CASE Begins(p)
    <2>1. /\ stage' = [stage EXCEPT ![p] = "begun"] /\ (incoming' = incoming \/ Forward(p))
          /\ UNCHANGED <<shared, clientVars, sid, via, pending, lost, got, current, queue, line,
                         read, route, running, casts, up>>
      BY <1>3, BeginsEffect
    <2>2. incoming' \in Seq(Posts) /\ read' \in 0..Len(incoming')
      BY <2>1, ReadType DEF TypeOK
    <2> QED
      BY <2>1, <2>2, StageTypes DEF TypeOK, clientVars
  <1>4. CASE Answers(p)
    <2>1. /\ stage' = [stage EXCEPT ![p] = "over"] /\ pending' = pending \ {p}
          /\ (incoming' = incoming \/ Forward(p))
          /\ UNCHANGED <<shared, clientVars, sid, via, lost, got, current, queue, line,
                         read, route, running, casts, up>>
      BY <1>4, AnswersEffect
    <2>2. incoming' \in Seq(Posts) /\ read' \in 0..Len(incoming')
      BY <2>1, ReadType DEF TypeOK
    <2> QED
      BY <2>1, <2>2, StageTypes DEF TypeOK, clientVars
  <1>5. CASE Attach(p)
    <2>1. /\ stage' = [stage EXCEPT ![p] = "line"] /\ line' \in [Posts -> Seq(Posts)]
          /\ UNCHANGED <<shared, clientVars, sid, via, pending, lost, got, current, queue,
                         serverVars>>
      BY <1>5, AttachEffect
    <2> QED
      BY <2>1, StageTypes DEF TypeOK, clientVars, serverVars
  <1>6. CASE Ends(p)
    <2>1. /\ \E i \in DOMAIN line[p] : Finishes(p, i)
          /\ lost' \subseteq Posts
          /\ UNCHANGED <<shared, clientVars, sid, via, got, current, queue, serverVars>>
      BY <1>6, EndsEffect
    <2>2. PICK i \in DOMAIN line[p] : Finishes(p, i)
      BY <2>1
    <2>3. /\ line[p][i] \in Posts /\ stage' = [stage EXCEPT ![line[p][i]] = "over"]
          /\ pending' = pending \ {line[p][i]} /\ line' \in [Posts -> Seq(Posts)]
      BY <2>2 DEF Finishes, LineShorter
    <2> QED
      BY <2>1, <2>3, StageTypes DEF TypeOK, clientVars, serverVars
  <1>7. CASE Takes(p)
    <2> DEFINE q == line[p][1]
    <2>1. /\ q \in Posts /\ via[q] \in Posts /\ Take(p)
          /\ Finishes(p, 1) \/ UNCHANGED <<stage, pending, line>>
          /\ lost' = lost \/ lost' = lost \union {q}
          /\ sid' = sid \/ sid' = [sid EXCEPT ![q[1]] = via[q]]
          /\ got' = got \/ (q \in pending /\ \E n \in 0..MaxMessages : Deliver(q, queue[p][1], n))
          /\ queue[p][1] \in ServerMessages
          /\ UNCHANGED <<shared, clientVars, via, current, serverVars>>
      BY <1>7, TakesEffect
    <2> HIDE DEF q
    <2>2. queue' \in [Posts -> Seq(ServerMessages)]
      BY <2>1, TakeEffect
    <2>3. got' \in [Clients -> Seq([message : ServerMessages, to : 0..MaxMessages])]
      BY <2>1, DeliverEffect DEF TypeOK
    <2>4. /\ line' \in [Posts -> Seq(Posts)] /\ pending' \subseteq Posts
          /\ stage' \in [Posts -> {"none", "wire", "begun", "line", "over"}]
      <3>1. CASE UNCHANGED <<stage, pending, line>>
        BY <3>1 DEF TypeOK
      <3>2. CASE Finishes(p, 1)
        BY <3>2, StageTypes DEF TypeOK, Finishes, LineShorter
      <3> QED
        BY <2>1, <3>1, <3>2
    <2>5. sid' \in [Clients -> Posts \union {None}] /\ lost' \subseteq Posts
      BY <2>1 DEF TypeOK
    <2> QED
      BY <2>1, <2>2, <2>3, <2>4, <2>5 DEF TypeOK, clientVars, serverVars
  <1> QED
    BY <1>1, <1>2, <1>3, <1>4, <1>5, <1>6, <1>7

LEMMA TypeStep ==
  ASSUME TypeOK, SessionsOwned, Lined, [Next]_vars
  PROVE  TypeOK'
  <1>1. CASE Receive
    <2>1. /\ read' \in 0..Len(incoming)
          /\ running' \subseteq Posts /\ route' \in [Ids -> Posts \union {None}]
          /\ UNCHANGED <<shared, clientVars, sid, got, postVars, current, queue, incoming,
                         casts, up>>
      BY <1>1, ReceiveEffect DEF TypeOK
    <2> QED
      BY <2>1 DEF TypeOK, clientVars, postVars
  <1>2. CASE Casts
    <2>1. /\ queue' \in [Posts -> Seq(ServerMessages)]
          /\ running' \subseteq running /\ casts' \in Nat
          /\ UNCHANGED <<shared, clientVars, sid, got, postVars, current, incoming, read,
                         route, up>>
      BY <1>2, CastsEffect, ToAllEffect
    <2> QED
      BY <2>1 DEF TypeOK, clientVars, postVars
  <1>3. CASE Stop
    BY <1>3 DEF Stop, TypeOK, clientVars, postVars
  <1>4. ASSUME NEW p \in running, Respond(p)
        PROVE  TypeOK'
    <2>1. /\ running' = running \ {p} /\ route' \in [Ids -> Posts \union {None}]
          /\ queue' \in [Posts -> Seq(ServerMessages)]
          /\ UNCHANGED <<shared, clientVars, sid, got, postVars, current, incoming, read,
                         casts, up>>
      BY <1>4, RespondEffect
    <2> QED
      BY <2>1 DEF TypeOK, clientVars, postVars
  <1>5. CASE UNCHANGED vars
    BY <1>5 DEF vars, TypeOK, clientVars, postVars, serverVars
  <1> QED
    BY <1>1, <1>2, <1>3, <1>4, <1>5, StepCases, TypeClient, TypePost

-----------------------------------------------------------------------------
(* What no step changes. *)

\* A message that leaves has not left before.
LEMMA FirstTime ==
  ASSUME TypeOK, Outboxes, NEW c \in Clients
  PROVE  /\ sent[c] + 1 \in Numbers => stage[<<c, sent[c] + 1>>] = "none"
         /\ outbox[c] # <<>> => stage[<<c, Head(outbox[c])>>] = "none"
  <1>1. ASSUME sent[c] + 1 \in Numbers
        PROVE  stage[<<c, sent[c] + 1>>] = "none"
    <2>1. sent[c] \in Nat /\ ~(sent[c] + 1 <= sent[c])
      BY DEF TypeOK
    <2>2. <<c, sent[c] + 1>> \in Posts /\ <<c, sent[c] + 1>>[1] = c
          /\ <<c, sent[c] + 1>>[2] = sent[c] + 1
      BY <1>1, PostFacts
    <2> QED
      BY <2>1, <2>2 DEF Outboxes
  <1>2. ASSUME outbox[c] # <<>>
        PROVE  stage[<<c, Head(outbox[c])>>] = "none"
    <2>1. outbox[c] \in Seq(Numbers)
      BY DEF TypeOK
    <2>2. Head(outbox[c]) \in Numbers /\ 1 \in DOMAIN outbox[c] /\ Head(outbox[c]) = outbox[c][1]
      BY <1>2, <2>1, TailAt
    <2>3. stage[<<c, outbox[c][1]>>] # "none" => outbox[c][1] < outbox[c][1]
      BY <2>2 DEF Outboxes
    <2>4. outbox[c][1] \in Nat
      BY <2>2, PostFacts
    <2> QED
      BY <2>2, <2>3, <2>4
  <1> QED
    BY <1>1, <1>2

\* A POST moves on, with its type, and from the server on with its session.
Onward(p) ==
  /\ \/ stage'[p] = stage[p]
     \/ stage[p] = "none" /\ stage'[p] = "wire"
     \/ stage[p] = "wire" /\ stage'[p] \in {"begun", "over"}
     \/ stage[p] = "begun" /\ stage'[p] = "line"
     \/ stage[p] = "line" /\ stage'[p] = "over"
  /\ stage[p] # "none" => kind'[p] = kind[p]
  /\ Handled(p) => via'[p] = via[p]

LEMMA OnwardSame ==
  ASSUME UNCHANGED <<stage, via, kind>>
  PROVE  \A p \in Posts : Onward(p)
  BY DEF Onward

LEMMA OnwardClient ==
  ASSUME TypeOK, Outboxes, NEW c \in Clients,
         \/ \E type \in Types : Send(c, type) \/ SendForeign(c, type)
         \/ PostNext(c) \/ SkipMessage(c)
  PROVE  \A p \in Posts : Onward(p)
  <1>1. ASSUME NEW type \in Types, Send(c, type), NEW p \in Posts
        PROVE  Onward(p)
    <2>1. kind' = [kind EXCEPT ![<<c, sent[c] + 1>>] = type] /\ sent[c] + 1 \in Numbers
      BY <1>1, SendEffect, MakeEffect
    <2>2. stage[<<c, sent[c] + 1>>] = "none"
      BY <2>1, FirstTime
    <2> QED
      BY <1>1, <2>1, <2>2 DEF Onward, Send, postVars, TypeOK
  <1>2. ASSUME NEW type \in Types, SendForeign(c, type), NEW p \in Posts
        PROVE  Onward(p)
    <2>1. kind' = [kind EXCEPT ![<<c, sent[c] + 1>>] = type] /\ sent[c] + 1 \in Numbers
      BY <1>2, MakeEffect DEF SendForeign
    <2>2. stage[<<c, sent[c] + 1>>] = "none"
      BY <2>1, FirstTime
    <2>3. /\ stage' = [stage EXCEPT ![<<c, sent[c] + 1>>] = "wire"]
          /\ \E x : via' = [via EXCEPT ![<<c, sent[c] + 1>>] = x]
      BY <1>2 DEF SendForeign, ToWire
    <2> QED
      BY <2>1, <2>2, <2>3 DEF Onward, TypeOK, Handled
  <1>3. ASSUME PostNext(c), NEW p \in Posts
        PROVE  Onward(p)
    <2>1. stage[<<c, Head(outbox[c])>>] = "none" /\ kind' = kind
      BY <1>3, FirstTime DEF PostNext, Taking
    <2>2. /\ stage' = [stage EXCEPT ![<<c, Head(outbox[c])>>] = "wire"]
          /\ \E x : via' = [via EXCEPT ![<<c, Head(outbox[c])>>] = x]
      BY <1>3 DEF PostNext, ToWire
    <2> QED
      BY <2>1, <2>2 DEF Onward, TypeOK, Handled
  <1>4. CASE SkipMessage(c)
    BY <1>4, OnwardSame DEF SkipMessage, postVars
  <1> QED
    BY <1>1, <1>2, <1>3, <1>4

LEMMA OnwardPost ==
  ASSUME TypeOK, SessionsOwned, Lined, NEW p \in Posts,
         \/ GiveUp(p) \/ HandleInit(p) \/ Begins(p) \/ Answers(p) \/ Attach(p)
         \/ Ends(p) \/ Takes(p)
  PROVE  \A q \in Posts : Onward(q)
  <1>1. CASE GiveUp(p)
    BY <1>1, OnwardSame DEF GiveUp, clientVars
  <1>2. CASE HandleInit(p)
    <2>1. /\ stage[p] = "wire" /\ stage' = [stage EXCEPT ![p] = "begun"] /\ kind' = kind
          /\ \E s : via' = [via EXCEPT ![p] = s]
      BY <1>2, InitEffect DEF clientVars
    <2> QED
      BY <2>1 DEF Onward, TypeOK, Handled
  <1>3. CASE Begins(p)
    BY <1>3, BeginsEffect DEF Onward, TypeOK, clientVars
  <1>4. CASE Answers(p)
    BY <1>4, AnswersEffect DEF Onward, TypeOK, clientVars
  <1>5. CASE Attach(p)
    <2>1. /\ stage[p] = "begun" /\ stage' = [stage EXCEPT ![p] = "line"] /\ via' = via /\ kind' = kind
      BY <1>5 DEF Attach, clientVars
    <2> QED
      BY <2>1 DEF Onward, TypeOK
  <1>6. ASSUME NEW i \in DOMAIN line[p], Finishes(p, i), UNCHANGED <<via, kind>>
        PROVE  \A q \in Posts : Onward(q)
    <2>1. stage' = [stage EXCEPT ![line[p][i]] = "over"] /\ line[p][i] \in Posts
      BY <1>6 DEF Finishes
    <2>2. stage[line[p][i]] = "line"
      BY <1>6 DEF Lined
    <2> QED
      BY <1>6, <2>1, <2>2 DEF Onward, TypeOK
  <1>7. CASE Ends(p)
    BY <1>6, <1>7, EndsEffect DEF clientVars
  <1>8. CASE Takes(p)
    <2>1. /\ 1 \in DOMAIN line[p] /\ UNCHANGED <<via, kind>>
          /\ Finishes(p, 1) \/ UNCHANGED <<stage, pending, line>>
      BY <1>8, TakesEffect DEF clientVars
    <2> QED
      BY <1>6, <2>1, OnwardSame
  <1> QED
    BY <1>1, <1>2, <1>3, <1>4, <1>5, <1>7, <1>8

LEMMA OnwardStep ==
  ASSUME TypeOK, SessionsOwned, Lined, Outboxes, [Next]_vars
  PROVE  \A p \in Posts : Onward(p)
  <1>1. Receive \/ Casts \/ Stop \/ (\E p \in running : Respond(p)) \/ UNCHANGED vars
        => UNCHANGED <<stage, via, kind>>
    BY CastsEffect DEF Receive, Stop, Respond, vars, clientVars, postVars
  <1> QED
    BY <1>1, OnwardSame, OnwardClient, OnwardPost, StepCases

\* Nothing is forgotten: what was lost, sent to all, made or read.
Grows ==
  /\ shared' = shared
  /\ lost \subseteq lost'
  /\ casts' = 0 => casts = 0
  /\ \A s \in Posts : current[s] # None => current'[s] # None
  /\ \A j \in 1..read : j \in 1..read'

LEMMA GrowsStep ==
  ASSUME TypeOK, SessionsOwned, Lined, [Next]_vars
  PROVE  Grows
  <1>1. ASSUME NEW c \in Clients,
               \/ \E type \in Types : Send(c, type) \/ SendForeign(c, type)
               \/ PostNext(c) \/ SkipMessage(c)
        PROVE  Grows
    <2>1. UNCHANGED <<shared, lost, casts, current, read>>
      BY <1>1 DEF Send, SendForeign, PostNext, SkipMessage, postVars, serverVars
    <2> QED
      BY <2>1 DEF Grows
  <1>2. ASSUME NEW p \in Posts, HandleInit(p)
        PROVE  Grows
    <2>1. /\ \E s \in Posts : current' = [current EXCEPT ![s] = p]
          /\ UNCHANGED <<shared, lost, casts, read>>
      BY <1>2, InitEffect
    <2>2. p # None
      BY PostFacts
    <2> QED
      BY <2>1, <2>2 DEF Grows, TypeOK
  <1>3. ASSUME NEW p \in Posts, Begins(p) \/ Answers(p) \/ Attach(p)
        PROVE  Grows
    <2>1. UNCHANGED <<shared, lost, casts, current, read>>
      BY <1>3, BeginsEffect, AnswersEffect DEF Attach, serverVars
    <2> QED
      BY <2>1 DEF Grows
  <1>4. ASSUME NEW p \in Posts, GiveUp(p) \/ Ends(p)
        PROVE  Grows
    <2>1. UNCHANGED <<shared, casts, current, read>> /\ lost \subseteq lost'
      BY <1>4, EndsEffect DEF GiveUp, serverVars
    <2> QED
      BY <2>1 DEF Grows
  <1>5. ASSUME NEW p \in Posts, Takes(p)
        PROVE  Grows
    <2>1. UNCHANGED <<shared, casts, current, read>> /\ lost \subseteq lost'
      BY <1>5, TakesEffect DEF serverVars
    <2> QED
      BY <2>1 DEF Grows
  <1>6. CASE Receive
    <2>1. UNCHANGED <<shared, casts, current, lost>> /\ read' = read + 1 /\ read \in Nat
      BY <1>6, ReceiveEffect DEF Receive, postVars
    <2> QED
      BY <2>1 DEF Grows
  <1>7. CASE Casts
    <2>1. UNCHANGED <<shared, current, lost, read>> /\ casts' # 0
      BY <1>7, CastsEffect DEF postVars
    <2> QED
      BY <2>1 DEF Grows
  <1>8. CASE Stop \/ (\E p \in running : Respond(p)) \/ UNCHANGED vars
    BY <1>8 DEF Grows, Stop, Respond, vars, postVars, serverVars
  <1> QED
    BY <1>1, <1>2, <1>3, <1>4, <1>5, <1>6, <1>7, <1>8, StepCases

\* One POST at most gets from the wire to the server.
Forwards(p) ==
  /\ Len(incoming') = Len(incoming) + 1
  /\ \A i \in DOMAIN incoming : incoming'[i] = incoming[i]
  /\ incoming'[Len(incoming) + 1] = p
  /\ stage[p] = "wire" /\ stage'[p] \in {"begun", "over"}

LEMMA IncomingStep ==
  ASSUME TypeOK, SessionsOwned, Lined, [Next]_vars
  PROVE  /\ DOMAIN incoming = 1..Len(incoming) /\ Len(incoming) \in Nat
         /\ \/ incoming' = incoming
            \/ /\ DOMAIN incoming' = 1..Len(incoming')
               /\ read' = read /\ pending' \subseteq pending /\ lost' = lost /\ kind' = kind
               /\ \E p \in Posts : Forwards(p)
  <1>1. DOMAIN incoming = 1..Len(incoming) /\ Len(incoming) \in Nat
    BY ElementAt DEF TypeOK
  <1>2. ASSUME NEW p \in Posts, Forward(p), read' = read, pending' \subseteq pending, lost' = lost,
               stage[p] = "wire", stage'[p] \in {"begun", "over"}, kind' = kind
        PROVE  \/ incoming' = incoming
               \/ /\ DOMAIN incoming' = 1..Len(incoming')
                  /\ read' = read /\ pending' \subseteq pending /\ lost' = lost /\ kind' = kind
                  /\ \E q \in Posts : Forwards(q)
    BY <1>2, ForwardEffect DEF Forwards
  <1>3. ASSUME NEW c \in Clients,
               \/ \E type \in Types : Send(c, type) \/ SendForeign(c, type)
               \/ PostNext(c) \/ SkipMessage(c)
        PROVE  incoming' = incoming
    BY <1>3 DEF Send, SendForeign, PostNext, SkipMessage, serverVars
  <1>4. ASSUME NEW p \in Posts, HandleInit(p)
        PROVE  /\ Forward(p) /\ UNCHANGED <<read, pending, lost, kind>>
               /\ stage[p] = "wire" /\ stage'[p] = "begun"
    <2>1. /\ stage[p] = "wire" /\ stage' = [stage EXCEPT ![p] = "begun"] /\ Forward(p)
          /\ UNCHANGED <<clientVars, read, pending, lost>>
      BY <1>4, InitEffect
    <2> QED
      BY <2>1 DEF TypeOK, clientVars
  <1>5. ASSUME NEW p \in Posts, Begins(p)
        PROVE  /\ incoming' = incoming \/ Forward(p)
               /\ UNCHANGED <<read, pending, lost, kind>>
               /\ stage[p] = "wire" /\ stage'[p] = "begun"
    <2>1. /\ stage[p] = "wire" /\ stage' = [stage EXCEPT ![p] = "begun"]
          /\ incoming' = incoming \/ Forward(p)
          /\ UNCHANGED <<clientVars, read, pending, lost>>
      BY <1>5, BeginsEffect
    <2>2. stage'[p] = "begun"
      BY <2>1 DEF TypeOK
    <2> QED
      BY <2>1, <2>2 DEF clientVars
  <1>6. ASSUME NEW p \in Posts, Answers(p)
        PROVE  /\ incoming' = incoming \/ Forward(p)
               /\ UNCHANGED <<read, lost, kind>> /\ pending' \subseteq pending
               /\ stage[p] = "wire" /\ stage'[p] = "over"
    <2>1. /\ stage[p] = "wire" /\ stage' = [stage EXCEPT ![p] = "over"]
          /\ incoming' = incoming \/ Forward(p)
          /\ UNCHANGED <<clientVars, read, lost>> /\ pending' \subseteq pending
      BY <1>6, AnswersEffect
    <2>2. stage'[p] = "over"
      BY <2>1 DEF TypeOK
    <2> QED
      BY <2>1, <2>2 DEF clientVars
  <1>7. ASSUME NEW p \in Posts, GiveUp(p) \/ Attach(p) \/ Ends(p) \/ Takes(p)
        PROVE  incoming' = incoming
    BY <1>7, EndsEffect, TakesEffect DEF GiveUp, Attach, serverVars
  <1>8. Receive \/ Casts \/ Stop \/ (\E p \in running : Respond(p)) \/ UNCHANGED vars
        => incoming' = incoming
    BY CastsEffect DEF Receive, Stop, Respond, vars, serverVars
  <1> QED
    BY <1>1, <1>2, <1>3, <1>4, <1>5, <1>6, <1>7, <1>8, StepCases

\* What a client has asked under an id it has asked for good.
AskedThen(c, id) ==
  \E j \in 1..read' : /\ incoming'[j][1] = c /\ id = Id(incoming'[j])
                      /\ kind'[incoming'[j]] \in Requests

LEMMA AskedStays ==
  ASSUME TypeOK, SessionsOwned, Lined, Outboxes, Arrived, [Next]_vars,
         NEW c \in Clients, NEW id \in Ids, Asked(c, id)
  PROVE  AskedThen(c, id)
  <1>1. PICK j \in 1..read : /\ incoming[j][1] = c /\ id = Id(incoming[j])
                             /\ kind[incoming[j]] \in Requests
    BY DEF Asked
  <1>2. j \in DOMAIN incoming /\ incoming[j] \in Posts
    BY ElementAt DEF TypeOK
  <1>3. incoming'[j] = incoming[j] /\ j \in 1..read' /\ shared' = shared
    BY <1>2, IncomingStep, GrowsStep DEF Forwards, Grows
  <1>4. kind'[incoming[j]] = kind[incoming[j]]
    BY <1>2, OnwardStep DEF Onward, Arrived, Handled
  <1> QED
    BY <1>1, <1>3, <1>4 DEF AskedThen

-----------------------------------------------------------------------------
(* SessionsOwned: whose a session is. *)

LEMMA OwnedClient ==
  ASSUME TypeOK, SessionsOwned, Outboxes, NEW c \in Clients,
         \/ \E type \in Types : Send(c, type) /\ type \notin Streams
         \/ \E type \in Types : SendForeign(c, type)
         \/ PostNext(c) \/ SkipMessage(c),
         \A q \in Posts : Onward(q)
  PROVE  SessionsOwned'
  <1>1. ASSUME NEW p \in Posts, ToWire(p), p[1] = c, stage[p] = "none",
               UNCHANGED <<sid, current, route>>,
               \A d \in Clients \ Foreign : \A n \in Numbers : kind'[<<d, n>>] \notin Streams
        PROVE  SessionsOwned'
    <2>1. stage' = [stage EXCEPT ![p] = "wire"] /\ via' = [via EXCEPT ![p] = sid[c]]
      BY <1>1, ToWireEffect
    <2>2. sid[c] # None => sid[c][1] = p[1] /\ current[sid[c]] # None
      BY <1>1 DEF SessionsOwned
    <2>3. \A q \in Posts : via'[q] # None => via'[q][1] = q[1] /\ current[via'[q]] # None
      BY <2>1, <2>2 DEF SessionsOwned, TypeOK
    <2>4. \A q \in Posts : stage'[q] \in {"begun", "line"} => via'[q] # None
      BY <1>1, <2>1 DEF SessionsOwned, TypeOK
    <2>5. \A q \in Posts : current[q] # None => /\ current[q] \in Posts
                                                /\ Handled(current[q]) /\ via[current[q]] = q
      BY DEF SessionsOwned, TypeOK
    <2>6. \A q \in Posts : current[q] # None => current[q] # p
      BY <1>1, <2>5 DEF Handled
    <2>7. \A q \in Posts : current[q] # None => /\ stage'[current[q]] \in {"begun", "line", "over"}
                                                /\ via'[current[q]] = q
      BY <2>1, <2>5, <2>6 DEF Handled, TypeOK
    <2> QED
      BY <1>1, <2>3, <2>4, <2>7 DEF SessionsOwned, Handled
  <1>2. ASSUME NEW type \in Types, Make(c, type), c \in Foreign \/ type \notin Streams
        PROVE  \A d \in Clients \ Foreign : \A n \in Numbers : kind'[<<d, n>>] \notin Streams
    <2>1. kind' = [kind EXCEPT ![<<c, sent[c] + 1>>] = type] /\ kind \in [Posts -> Types]
      BY <1>2, MakeEffect DEF TypeOK
    <2>2. \A d \in Clients \ Foreign : \A n \in Numbers :
            /\ kind[<<d, n>>] \notin Streams /\ <<d, n>> \in Posts
            /\ kind'[<<d, n>>] # kind[<<d, n>>] => d = c /\ kind'[<<d, n>>] = type
      BY <2>1, PostFacts DEF SessionsOwned
    <2> QED
      BY <1>2, <2>2
  <1>3. ASSUME NEW type \in Types, Send(c, type), type \notin Streams
        PROVE  SessionsOwned'
    <2>1. UNCHANGED <<sid, stage, via, current, route>>
      BY <1>3 DEF Send, postVars, serverVars
    <2>2. \A d \in Clients \ Foreign : \A n \in Numbers : kind'[<<d, n>>] \notin Streams
      BY <1>2, <1>3 DEF Send
    <2> QED
      BY <2>1, <2>2 DEF SessionsOwned, Handled
  <1>4. ASSUME NEW type \in Types, SendForeign(c, type)
        PROVE  SessionsOwned'
    <2>1. <<c, sent[c] + 1>> \in Posts /\ sent[c] + 1 \in Numbers
      BY <1>4, MakeEffect DEF SendForeign
    <2>2. <<c, sent[c] + 1>>[1] = c /\ stage[<<c, sent[c] + 1>>] = "none"
      BY <2>1, PostFacts, FirstTime
    <2>3. ToWire(<<c, sent[c] + 1>>) /\ UNCHANGED <<sid, current, route>>
      BY <1>4 DEF SendForeign, serverVars
    <2> QED
      BY <1>1, <1>2, <1>4, <2>1, <2>2, <2>3 DEF SendForeign
  <1>5. CASE PostNext(c)
    <2>1. <<c, Head(outbox[c])>> \in Posts /\ <<c, Head(outbox[c])>>[1] = c
      BY <1>5, TakingEffect DEF PostNext
    <2>2. stage[<<c, Head(outbox[c])>>] = "none"
      BY <1>5, FirstTime DEF PostNext, Taking
    <2>3. ToWire(<<c, Head(outbox[c])>>) /\ UNCHANGED <<sid, current, route, kind>>
      BY <1>5 DEF PostNext, serverVars
    <2> QED
      BY <1>1, <2>1, <2>2, <2>3 DEF SessionsOwned
  <1>6. CASE SkipMessage(c)
    BY <1>6 DEF SkipMessage, SessionsOwned, Handled, postVars, serverVars
  <1> QED
    BY <1>3, <1>4, <1>5, <1>6

LEMMA OwnedInit ==
  ASSUME TypeOK, SessionsOwned, NEW p \in Posts, HandleInit(p)
  PROVE  SessionsOwned'
  <1>1. PICK s \in Posts :
          /\ stage[p] = "wire" /\ s[1] = p[1]
          /\ via' = [via EXCEPT ![p] = s] /\ current' = [current EXCEPT ![s] = p]
          /\ stage' = [stage EXCEPT ![p] = "begun"]
          /\ UNCHANGED <<clientVars, sid, route>>
    BY InitEffect
  <1>2. /\ via' \in [Posts -> Posts \union {None}] /\ via'[p] = s
        /\ \A q \in Posts : q # p => via'[q] = via[q]
    BY <1>1 DEF TypeOK
  <1>3. current'[s] = p /\ \A t \in Posts : t # s => current'[t] = current[t]
    BY <1>1 DEF TypeOK
  <1>4. stage'[p] = "begun" /\ \A q \in Posts : q # p => stage'[q] = stage[q]
    BY <1>1 DEF TypeOK
  <1>5. p # None /\ s # None
    BY PostFacts
  <1>6. \A t \in Posts : current[t] # None => current'[t] # None
    BY <1>3, <1>5
  <1>7. ASSUME NEW c \in Clients, sid'[c] # None
        PROVE  sid'[c][1] = c /\ current'[sid'[c]] # None
    BY <1>1, <1>6, <1>7 DEF SessionsOwned, TypeOK
  <1>8. ASSUME NEW q \in Posts, via'[q] # None
        PROVE  via'[q][1] = q[1] /\ current'[via'[q]] # None
    BY <1>1, <1>2, <1>3, <1>5, <1>6, <1>8 DEF SessionsOwned, TypeOK
  <1>9. ASSUME NEW q \in Posts, stage'[q] \in {"begun", "line"}
        PROVE  via'[q] # None
    BY <1>2, <1>4, <1>5, <1>9 DEF SessionsOwned
  <1>10. ASSUME NEW t \in Posts, current'[t] # None
         PROVE  stage'[current'[t]] \in {"begun", "line", "over"} /\ via'[current'[t]] = t
    <2>1. CASE t = s
      BY <1>2, <1>3, <1>4, <2>1 DEF Handled
    <2>2. CASE t # s
      <3>1. current'[t] = current[t] /\ current[t] \in Posts
        BY <1>3, <1>10, <2>2 DEF TypeOK
      <3>2. Handled(current[t]) /\ via[current[t]] = t
        BY <1>10, <3>1 DEF SessionsOwned
      <3>3. current[t] # p
        BY <1>1, <3>2 DEF Handled
      <3> QED
        BY <1>2, <1>4, <3>1, <3>2, <3>3 DEF Handled
    <2> QED
      BY <2>1, <2>2
  <1>11. ASSUME NEW id \in Ids, route'[id] # None
         PROVE  current'[route'[id]] # None
    BY <1>1, <1>6, <1>11 DEF SessionsOwned, TypeOK
  <1>12. kind' = kind
    BY <1>1 DEF clientVars
  <1> QED
    BY <1>7, <1>8, <1>9, <1>10, <1>11, <1>12 DEF SessionsOwned, Handled

LEMMA OwnedStep ==
  ASSUME TypeOK, SessionsOwned, Lined, Outboxes, [Next]_vars
  PROVE  SessionsOwned'
  <1>1. \A q \in Posts : Onward(q)
    BY OnwardStep
  <1>2. ASSUME UNCHANGED <<via, current, kind>>,
               \A q \in Posts : stage'[q] \in {"begun", "line"} => via[q] # None,
               \A c \in Clients : sid'[c] # None => sid'[c][1] = c /\ current[sid'[c]] # None,
               \A id \in Ids : route'[id] # None => current[route'[id]] # None
        PROVE  SessionsOwned'
    <2>1. ASSUME NEW t \in Posts, current[t] # None
          PROVE  stage'[current[t]] \in {"begun", "line", "over"} /\ via[current[t]] = t
      <3>1. current[t] \in Posts /\ Handled(current[t]) /\ via[current[t]] = t
        BY <2>1 DEF SessionsOwned, TypeOK
      <3> QED
        BY <1>1, <3>1 DEF Onward, Handled
    <2> QED
      BY <1>2, <2>1 DEF SessionsOwned, Handled
  <1>3. \A c \in Clients : sid[c] # None => sid[c][1] = c /\ current[sid[c]] # None
    BY DEF SessionsOwned
  <1>4. \A id \in Ids : route[id] # None => current[route[id]] # None
    BY DEF SessionsOwned
  <1>5. \A q \in Posts : stage[q] \in {"begun", "line"} => via[q] # None
    BY DEF SessionsOwned
  <1>6. ASSUME NEW p \in Posts, GiveUp(p) \/ Begins(p) \/ Answers(p) \/ Attach(p) \/ Ends(p)
        PROVE  SessionsOwned'
    <2>1. UNCHANGED <<sid, via, current, kind, route>>
      BY <1>6, BeginsEffect, AnswersEffect, EndsEffect
      DEF GiveUp, Attach, clientVars, serverVars
    <2>2. \A q \in Posts : stage'[q] \in {"begun", "line"} => via[q] # None
      <3>1. CASE Begins(p)
        BY <1>5, <3>1, BeginsEffect DEF TypeOK
      <3>2. CASE ~Begins(p)
        <4>1. stage' = stage \/ Attach(p) \/ \E q \in Posts : stage' = [stage EXCEPT ![q] = "over"]
          BY <1>6, <3>2, AnswersEffect, EndsEffect DEF GiveUp, Finishes
        <4>2. Attach(p) => stage[p] = "begun" /\ stage' = [stage EXCEPT ![p] = "line"]
          BY DEF Attach
        <4> QED
          BY <1>5, <4>1, <4>2 DEF TypeOK
      <3> QED
        BY <3>1, <3>2
    <2> QED
      BY <1>2, <1>3, <1>4, <2>1, <2>2
  <1>7. ASSUME NEW k \in Posts, Takes(k)
        PROVE  SessionsOwned'
    <2> DEFINE p == line[k][1]
    <2>1. /\ p \in Posts /\ via[p] \in Posts /\ via[p][1] = p[1] /\ current[via[p]] # None
          /\ Finishes(k, 1) \/ UNCHANGED <<stage, pending, line>>
          /\ sid' = sid \/ sid' = [sid EXCEPT ![p[1]] = via[p]]
          /\ UNCHANGED <<via, current, kind, route>>
      BY <1>7, TakesEffect DEF clientVars, serverVars
    <2> HIDE DEF p
    <2>2. \A q \in Posts : stage'[q] \in {"begun", "line"} => via[q] # None
      BY <1>5, <2>1 DEF Finishes, TypeOK
    <2>3. \A c \in Clients : sid'[c] # None => sid'[c][1] = c /\ current[sid'[c]] # None
      BY <1>3, <2>1 DEF TypeOK
    <2> QED
      BY <1>2, <1>4, <2>1, <2>2, <2>3
  <1>8. CASE Receive
    <2> DEFINE p == incoming[read + 1]
    <2>1. /\ p \in Posts
          /\ route' = route \/ route' = [route EXCEPT ![Id(p)] = via[p]]
          /\ UNCHANGED <<clientVars, sid, postVars, current>>
      BY <1>8, ReceiveEffect
    <2> HIDE DEF p
    <2>2. via[p] # None => current[via[p]] # None
      BY <2>1 DEF SessionsOwned
    <2>3. \A id \in Ids : route'[id] # None => current[route'[id]] # None
      BY <1>4, <2>1, <2>2 DEF TypeOK
    <2> QED
      BY <1>2, <1>3, <1>5, <2>1, <2>3 DEF clientVars, postVars
  <1>9. CASE Casts
    BY <1>2, <1>3, <1>4, <1>5, <1>9, CastsEffect DEF clientVars, postVars
  <1>10. CASE Stop
    <2>1. \A id \in Ids : route'[id] = None
      BY <1>10 DEF Stop
    <2>2. UNCHANGED <<clientVars, sid, postVars, current>>
      BY <1>10 DEF Stop
    <2> QED
      BY <1>2, <1>3, <1>5, <2>1, <2>2 DEF clientVars, postVars
  <1>11. ASSUME NEW p \in running, Respond(p)
         PROVE  SessionsOwned'
    <2>1. /\ route' = [route EXCEPT ![Id(p)] = None]
          /\ UNCHANGED <<clientVars, sid, postVars, current>>
      BY <1>11, RespondEffect
    <2>2. \A id \in Ids : route'[id] # None => current[route'[id]] # None
      BY <1>4, <2>1 DEF TypeOK
    <2> QED
      BY <1>2, <1>3, <1>5, <2>1, <2>2 DEF clientVars, postVars
  <1>12. CASE UNCHANGED vars
    BY <1>2, <1>3, <1>4, <1>5, <1>12 DEF vars, clientVars, postVars, serverVars
  <1> QED
    BY <1>1, <1>6, <1>7, <1>8, <1>9, <1>10, <1>11, <1>12, StepCases, OwnedClient, OwnedInit

-----------------------------------------------------------------------------
(* Lined: who waits at a receiver. *)

\* Those who stay in line are the others, in their order.
LEMMA ShorterPlaces ==
  ASSUME TypeOK, NEW k \in Posts, NEW i \in DOMAIN line[k], LineShorter(k, i)
  PROVE  \A l \in Posts : \A j \in DOMAIN line'[l] :
            \E m \in DOMAIN line[l] :
                /\ j \in Nat /\ i \in Nat
                /\ line'[l][j] = line[l][m] /\ ~(l = k /\ m = i)
                /\ m = IF l = k /\ ~(j < i) THEN j + 1 ELSE j
  <1> SUFFICES ASSUME NEW l \in Posts, NEW j \in DOMAIN line'[l]
               PROVE  \E m \in DOMAIN line[l] :
                        /\ j \in Nat /\ i \in Nat
                        /\ line'[l][j] = line[l][m] /\ ~(l = k /\ m = i)
                        /\ m = IF l = k /\ ~(j < i) THEN j + 1 ELSE j
    OBVIOUS
  <1>1. DOMAIN line[k] = 1..Len(line[k]) /\ Len(line[k]) \in Nat /\ i \in Nat
    BY DEF LineShorter
  <1>2. CASE l # k
    <2>1. line'[l] = line[l] /\ DOMAIN line[l] = 1..Len(line[l]) /\ Len(line[l]) \in Nat
      BY <1>2, ElementAt DEF LineShorter, TypeOK
    <2> QED
      BY <1>1, <1>2, <2>1
  <1>3. CASE l = k
    <2>1. j \in 1..(Len(line[k]) - 1) /\ line'[k][j] = IF j < i THEN line[k][j] ELSE line[k][j + 1]
      BY <1>3 DEF LineShorter
    <2>2. (IF j < i THEN j ELSE j + 1) \in DOMAIN line[k] /\ (IF j < i THEN j ELSE j + 1) # i
      BY <1>1, <2>1
    <2> QED
      BY <1>1, <1>3, <2>1, <2>2
  <1> QED
    BY <1>2, <1>3

LEMMA LinedSame ==
  ASSUME Lined, line' = line, \A q \in Posts : stage[q] = "line" => stage'[q] = "line", TypeOK
  PROVE  Lined'
  <1>1. \A k \in Posts : \A i \in DOMAIN line[k] : line[k][i] \in Posts
    BY ElementAt DEF TypeOK
  <1> QED
    BY <1>1 DEF Lined

LEMMA LinedShorter ==
  ASSUME TypeOK, Lined, NEW k \in Posts, NEW i \in DOMAIN line[k], Finishes(k, i)
  PROVE  Lined'
  <1>1. \A l \in Posts : \A j \in DOMAIN line'[l] :
            \E m \in DOMAIN line[l] :
                /\ j \in Nat /\ i \in Nat
                /\ line'[l][j] = line[l][m] /\ ~(l = k /\ m = i)
                /\ m = IF l = k /\ ~(j < i) THEN j + 1 ELSE j
    BY ShorterPlaces DEF Finishes
  <1>2. stage' = [stage EXCEPT ![line[k][i]] = "over"] /\ stage \in [Posts -> {"none", "wire", "begun", "line", "over"}]
    BY DEF Finishes, TypeOK
  <1>3. ASSUME NEW l \in Posts, NEW j \in DOMAIN line'[l]
        PROVE  line'[l][j][1] = l[1] /\ stage'[line'[l][j]] = "line"
    <2>1. PICK m \in DOMAIN line[l] : line'[l][j] = line[l][m] /\ ~(l = k /\ m = i)
      BY <1>1
    <2>2. line[l][m][1] = l[1] /\ stage[line[l][m]] = "line" /\ line[l][m] # line[k][i]
      BY <2>1 DEF Lined
    <2>3. line[l][m] \in Posts
      BY ElementAt DEF TypeOK
    <2> QED
      BY <1>2, <2>1, <2>2, <2>3
  <1>4. ASSUME NEW l \in Posts, NEW j \in DOMAIN line'[l],
               NEW h \in Posts, NEW n \in DOMAIN line'[h], line'[l][j] = line'[h][n]
        PROVE  l = h /\ j = n
    <2>1. PICK a \in DOMAIN line[l] : /\ line'[l][j] = line[l][a] /\ j \in Nat /\ i \in Nat
                                      /\ a = IF l = k /\ ~(j < i) THEN j + 1 ELSE j
      BY <1>1
    <2>2. PICK b \in DOMAIN line[h] : /\ line'[h][n] = line[h][b] /\ n \in Nat
                                      /\ b = IF h = k /\ ~(n < i) THEN n + 1 ELSE n
      BY <1>1
    <2>3. line[l][a] = line[h][b]
      BY <1>4, <2>1, <2>2
    <2>4. l = h /\ a = b
      <3>1. \A f, g \in Posts : \A x \in DOMAIN line[f], y \in DOMAIN line[g] :
                line[f][x] = line[g][y] => f = g /\ x = y
        BY DEF Lined
      <3> QED
        BY <2>3, <3>1
    <2> QED
      BY <2>1, <2>2, <2>4
  <1> QED
    BY <1>3, <1>4 DEF Lined

LEMMA LinedAttach ==
  ASSUME TypeOK, SessionsOwned, Lined, NEW p \in Posts, Attach(p)
  PROVE  Lined'
  <1>1. PICK k \in Posts :
          /\ stage[p] = "begun" /\ k[1] = p[1] /\ stage' = [stage EXCEPT ![p] = "line"]
          /\ \A l \in Posts : l # k => line'[l] = line[l]
          /\ DOMAIN line[k] = 1..Len(line[k]) /\ Len(line[k]) \in Nat
          /\ DOMAIN line'[k] = 1..(Len(line[k]) + 1)
          /\ \A i \in DOMAIN line[k] : line'[k][i] = line[k][i]
          /\ line'[k][Len(line[k]) + 1] = p
    BY AttachEffect
  <1>2. \A l \in Posts : \A i \in DOMAIN line[l] : line[l][i] \in Posts /\ line[l][i] # p
    BY <1>1, ElementAt DEF TypeOK, Lined
  <1>3. \A l \in Posts : \A i \in DOMAIN line'[l] :
            \/ i \in DOMAIN line[l] /\ line'[l][i] = line[l][i]
            \/ l = k /\ i = Len(line[k]) + 1 /\ line'[l][i] = p
    BY <1>1
  <1>4. stage'[p] = "line" /\ \A q \in Posts : stage[q] = "line" => stage'[q] = "line"
    BY <1>1 DEF TypeOK
  <1>5. \A l \in Posts : \A i \in DOMAIN line'[l] : line'[l][i][1] = l[1] /\ stage'[line'[l][i]] = "line"
    BY <1>1, <1>2, <1>3, <1>4 DEF Lined
  <1>6. \A l, h \in Posts : \A i \in DOMAIN line'[l], j \in DOMAIN line'[h] :
            line'[l][i] = line'[h][j] => l = h /\ i = j
    BY <1>2, <1>3 DEF Lined
  <1> QED
    BY <1>5, <1>6 DEF Lined

LEMMA LinedStep ==
  ASSUME TypeOK, SessionsOwned, Lined, Outboxes, [Next]_vars
  PROVE  Lined'
  <1>1. ASSUME NEW p \in Posts, NEW x, stage[p] # "line" \/ x = "line",
               stage' = [stage EXCEPT ![p] = x], line' = line
        PROVE  Lined'
    BY <1>1, LinedSame DEF TypeOK
  <1>2. ASSUME UNCHANGED <<stage, line>>
        PROVE  Lined'
    BY <1>2, LinedSame
  <1>3. ASSUME NEW c \in Clients, NEW type \in Types, SendForeign(c, type)
        PROVE  Lined'
    <2>1. sent[c] + 1 \in Numbers /\ <<c, sent[c] + 1>> \in Posts
      BY <1>3, MakeEffect DEF SendForeign
    <2>2. stage[<<c, sent[c] + 1>>] = "none"
      BY <2>1, FirstTime
    <2>3. stage' = [stage EXCEPT ![<<c, sent[c] + 1>>] = "wire"] /\ line' = line
      BY <1>3 DEF SendForeign, ToWire
    <2> QED
      BY <1>1, <2>1, <2>2, <2>3
  <1>4. ASSUME NEW c \in Clients, PostNext(c)
        PROVE  Lined'
    <2>1. <<c, Head(outbox[c])>> \in Posts
      BY <1>4, TakingEffect DEF PostNext
    <2>2. stage[<<c, Head(outbox[c])>>] = "none"
      BY <1>4, FirstTime DEF PostNext, Taking
    <2>3. stage' = [stage EXCEPT ![<<c, Head(outbox[c])>>] = "wire"] /\ line' = line
      BY <1>4 DEF PostNext, ToWire
    <2> QED
      BY <1>1, <2>1, <2>2, <2>3
  <1>5. ASSUME NEW c \in Clients, (\E type \in Types : Send(c, type)) \/ SkipMessage(c)
        PROVE  Lined'
    BY <1>2, <1>5 DEF Send, SkipMessage, postVars
  <1>6. ASSUME NEW p \in Posts, HandleInit(p) \/ Begins(p) \/ Answers(p)
        PROVE  Lined'
    <2>1. stage[p] = "wire" /\ \E x : stage' = [stage EXCEPT ![p] = x] /\ line' = line
      BY <1>6, InitEffect, BeginsEffect, AnswersEffect
    <2> QED
      BY <1>1, <2>1
  <1>7. ASSUME NEW p \in Posts, Ends(p)
        PROVE  Lined'
    BY <1>7, EndsEffect, LinedShorter
  <1>8. ASSUME NEW p \in Posts, Takes(p)
        PROVE  Lined'
    <2>1. 1 \in DOMAIN line[p] /\ (Finishes(p, 1) \/ UNCHANGED <<stage, pending, line>>)
      BY <1>8, TakesEffect
    <2> QED
      BY <1>2, <2>1, LinedShorter
  <1>9. \A p \in Posts : GiveUp(p) => UNCHANGED <<stage, line>>
    BY DEF GiveUp
  <1>10. Receive \/ Casts \/ Stop \/ (\E p \in running : Respond(p)) \/ UNCHANGED vars
         => UNCHANGED <<stage, line>>
    BY CastsEffect DEF Receive, Stop, Respond, vars, postVars
  <1> QED
    BY <1>2, <1>3, <1>4, <1>5, <1>6, <1>7, <1>8, <1>9, <1>10, StepCases, LinedAttach

-----------------------------------------------------------------------------
(* Outboxes, Waits, Overtaken: the way to the server. *)

\* A step of a client's, and any other step.
ClientActs(c) ==
  \/ \E type \in Types : Send(c, type) \/ SendForeign(c, type)
  \/ PostNext(c) \/ SkipMessage(c)

Elsewhere ==
  /\ UNCHANGED clientVars
  /\ \A p \in Posts : /\ stage[p] = "none" => stage'[p] = "none"
                      /\ stage'[p] = "wire" => stage[p] = "wire"
  /\ pending' \subseteq pending
  /\ \A p \in pending : \/ p \in pending' /\ (stage'[p] = "over" => stage[p] = "over")
                        \/ p \notin pending' /\ (p \in lost' \/ stage'[p] = "over")

LEMMA ElsewhereStep ==
  ASSUME TypeOK, SessionsOwned, Lined, [Next]_vars
  PROVE  (\E c \in Clients : ClientActs(c)) \/ Elsewhere
  <1>1. ASSUME NEW p \in Posts, GiveUp(p)
        PROVE  Elsewhere
    BY <1>1 DEF GiveUp, Elsewhere
  <1>2. ASSUME NEW p \in Posts, HandleInit(p) \/ Begins(p)
        PROVE  Elsewhere
    <2>1. /\ stage[p] = "wire" /\ stage' = [stage EXCEPT ![p] = "begun"]
          /\ UNCHANGED <<clientVars, pending>>
      BY <1>2, InitEffect, BeginsEffect
    <2> QED
      BY <2>1 DEF Elsewhere, TypeOK
  <1>3. ASSUME NEW p \in Posts, Answers(p)
        PROVE  Elsewhere
    <2>1. /\ stage[p] = "wire" /\ stage' = [stage EXCEPT ![p] = "over"]
          /\ UNCHANGED clientVars /\ pending' = pending \ {p}
      BY <1>3, AnswersEffect
    <2> QED
      BY <2>1 DEF Elsewhere, TypeOK
  <1>4. ASSUME NEW p \in Posts, Attach(p)
        PROVE  Elsewhere
    <2>1. /\ stage[p] = "begun" /\ stage' = [stage EXCEPT ![p] = "line"]
          /\ UNCHANGED <<clientVars, pending>>
      BY <1>4 DEF Attach
    <2> QED
      BY <2>1 DEF Elsewhere, TypeOK
  <1>5. ASSUME NEW k \in Posts, NEW i \in DOMAIN line[k], Finishes(k, i), UNCHANGED clientVars
        PROVE  Elsewhere
    <2>1. /\ line[k][i] \in Posts /\ stage' = [stage EXCEPT ![line[k][i]] = "over"]
          /\ pending' = pending \ {line[k][i]}
      BY <1>5 DEF Finishes
    <2>2. stage[line[k][i]] = "line"
      BY DEF Lined
    <2> QED
      BY <1>5, <2>1, <2>2 DEF Elsewhere, TypeOK
  <1>6. ASSUME NEW p \in Posts, Ends(p)
        PROVE  Elsewhere
    BY <1>5, <1>6, EndsEffect
  <1>7. ASSUME UNCHANGED <<stage, pending, clientVars>>
        PROVE  Elsewhere
    BY <1>7 DEF Elsewhere
  <1>8. ASSUME NEW p \in Posts, Takes(p)
        PROVE  Elsewhere
    <2>1. /\ 1 \in DOMAIN line[p] /\ (Finishes(p, 1) \/ UNCHANGED <<stage, pending, line>>)
          /\ UNCHANGED clientVars
      BY <1>8, TakesEffect
    <2> QED
      BY <1>5, <1>7, <2>1
  <1>9. Receive \/ Casts \/ Stop \/ (\E p \in running : Respond(p)) \/ UNCHANGED vars
        => UNCHANGED <<stage, pending, clientVars>>
    BY CastsEffect DEF Receive, Stop, Respond, vars, postVars
  <1> QED
    BY <1>1, <1>2, <1>3, <1>4, <1>6, <1>7, <1>8, <1>9, StepCases DEF ClientActs

LEMMA OutboxTypes ==
  ASSUME TypeOK, Outboxes
  PROVE  /\ \A c \in Clients : /\ sent[c] \in Nat
                               /\ \A i \in DOMAIN outbox[c] : outbox[c][i] \in Nat /\ i \in Nat
         /\ \A p \in Posts : p[2] \in Nat
  <1>1. \A c \in Clients : \A i \in DOMAIN outbox[c] : outbox[c][i] \in Numbers /\ i \in Nat
    BY ElementAt DEF TypeOK
  <1> QED
    BY <1>1, PostFacts DEF TypeOK, Numbers

LEMMA OutboxSend ==
  ASSUME TypeOK, Outboxes, NEW c \in Clients, NEW type \in Types, Send(c, type)
  PROVE  Outboxes'
  <1> DEFINE n == sent[c] + 1
             last == Len(outbox[c]) + 1
  <1>1. /\ c \notin Foreign /\ stage' = stage
        /\ outbox' = [outbox EXCEPT ![c] = Append(@, sent[c] + 1)]
        /\ DOMAIN outbox'[c] = DOMAIN outbox[c] \union {last}
        /\ \A i \in DOMAIN outbox[c] : i # last /\ i \in Nat
                                       /\ outbox'[c][i] = outbox[c][i] /\ i < last
        /\ outbox'[c][last] = n /\ Len(outbox[c]) \in Nat
    BY SendEffect DEF postVars
  <1>2. sent' = [sent EXCEPT ![c] = n]
    BY SendEffect, MakeEffect
  <1>3. sent[c] \in Nat
    BY OutboxTypes
  <1>4. ASSUME NEW p \in Posts, stage'[p] # "none"
        PROVE  p[2] <= sent'[p[1]]
    <2>1. p[2] <= sent[p[1]] /\ p[2] \in Nat /\ p[1] \in Clients /\ sent[p[1]] \in Nat
      BY <1>1, <1>4, OutboxTypes, PostFacts DEF Outboxes
    <2> QED
      BY <1>2, <2>1 DEF TypeOK
  <1>5. ASSUME NEW d \in Foreign PROVE outbox'[d] = <<>>
    BY <1>1, HttpBounds DEF Outboxes, TypeOK
  <1>6. ASSUME NEW d \in Clients, d # c, NEW i \in DOMAIN outbox'[d]
        PROVE  /\ outbox'[d][i] <= sent'[d]
               /\ \A m \in Numbers : stage'[<<d, m>>] # "none" => m < outbox'[d][i]
               /\ \A j \in DOMAIN outbox'[d] : i < j => outbox'[d][i] < outbox'[d][j]
    <2>1. outbox'[d] = outbox[d] /\ sent'[d] = sent[d]
      BY <1>1, <1>2, <1>6 DEF TypeOK
    <2> QED
      BY <1>1, <1>6, <2>1 DEF Outboxes
  <1>7. ASSUME NEW i \in DOMAIN outbox'[c]
        PROVE  /\ outbox'[c][i] <= sent'[c]
               /\ \A m \in Numbers : stage'[<<c, m>>] # "none" => m < outbox'[c][i]
               /\ \A j \in DOMAIN outbox'[c] : i < j => outbox'[c][i] < outbox'[c][j]
    <2>1. sent'[c] = n
      BY <1>2 DEF TypeOK
    <2>2. CASE i = last
      <3>1. \A m \in Numbers : stage[<<c, m>>] # "none" => m <= sent[c] /\ m \in Nat
        BY PostFacts DEF Outboxes
      <3>2. \A j \in DOMAIN outbox'[c] : ~(i < j)
        BY <1>1, <2>2
      <3> QED
        BY <1>1, <1>3, <2>1, <2>2, <3>1, <3>2
    <2>3. CASE i \in DOMAIN outbox[c]
      <3>1. /\ outbox[c][i] \in Nat /\ outbox[c][i] <= sent[c]
            /\ \A m \in Numbers : stage[<<c, m>>] # "none" => m < outbox[c][i]
            /\ \A j \in DOMAIN outbox[c] : i < j => outbox[c][i] < outbox[c][j]
        BY <2>3, OutboxTypes DEF Outboxes
      <3>2. \A j \in DOMAIN outbox'[c] : i < j => outbox'[c][i] < outbox'[c][j]
        BY <1>1, <1>3, <2>3, <3>1
      <3> QED
        BY <1>1, <1>3, <2>1, <2>3, <3>1, <3>2
    <2> QED
      BY <1>1, <2>2, <2>3
  <1> QED
    BY <1>4, <1>5, <1>6, <1>7 DEF Outboxes

LEMMA OutboxTaken ==
  ASSUME TypeOK, Outboxes, NEW c \in Clients, Taking(c), sent' = sent,
         stage' = stage \/ stage' = [stage EXCEPT ![<<c, Head(outbox[c])>>] = "wire"]
  PROVE  Outboxes'
  <1> DEFINE p == <<c, Head(outbox[c])>>
  <1>1. /\ 1 \in DOMAIN outbox[c] /\ Head(outbox[c]) = outbox[c][1]
        /\ p \in Posts /\ p[1] = c /\ p[2] = outbox[c][1] /\ outbox[c][1] \in Nat
        /\ outbox' = [outbox EXCEPT ![c] = Tail(@)]
        /\ \A i \in DOMAIN outbox'[c] :
                i + 1 \in DOMAIN outbox[c] /\ outbox'[c][i] = outbox[c][i + 1]
        /\ \A i \in DOMAIN outbox[c] : i \in Nat /\ i >= 1 /\ (i # 1 => i > 1)
        /\ DOMAIN outbox'[c] = 1..(Len(outbox[c]) - 1)
    BY TakingEffect, OutboxTypes
  <1> HIDE DEF p
  <1>2. \A q \in Posts : stage'[q] # "none" => stage[q] # "none" \/ q = p
    BY <1>1 DEF TypeOK, p
  <1>3. ASSUME NEW q \in Posts, stage'[q] # "none"
        PROVE  q[2] <= sent[q[1]]
    <2>1. outbox[c][1] <= sent[c]
      BY <1>1 DEF Outboxes
    <2> QED
      BY <1>1, <1>2, <1>3, <2>1 DEF Outboxes
  <1>4. ASSUME NEW d \in Clients, d # c
        PROVE  /\ outbox'[d] = outbox[d]
               /\ \A m \in Numbers : stage'[<<d, m>>] # "none" => stage[<<d, m>>] # "none"
    <2>1. \A m \in Numbers : <<d, m>> \in Posts /\ <<d, m>>[1] = d
      BY PostFacts
    <2> QED
      BY <1>1, <1>2, <1>4, <2>1 DEF TypeOK
  <1>5. c \notin Foreign
    BY <1>1 DEF Outboxes
  <1>6. ASSUME NEW i \in DOMAIN outbox'[c]
        PROVE  /\ outbox'[c][i] <= sent[c]
               /\ \A m \in Numbers : stage'[<<c, m>>] # "none" => m < outbox'[c][i]
               /\ \A j \in DOMAIN outbox'[c] : i < j => outbox'[c][i] < outbox'[c][j]
    <2>1. i + 1 \in DOMAIN outbox[c] /\ outbox'[c][i] = outbox[c][i + 1] /\ i \in Nat /\ 1 < i + 1
      BY <1>1
    <2>2. outbox[c][1] < outbox[c][i + 1] /\ outbox[c][i + 1] <= sent[c]
      BY <1>1, <2>1 DEF Outboxes
    <2>3. ASSUME NEW m \in Numbers, stage'[<<c, m>>] # "none"
          PROVE  m < outbox'[c][i]
      <3>1. <<c, m>> \in Posts /\ <<c, m>>[2] = m
        BY PostFacts
      <3>2. CASE <<c, m>> = p
        BY <1>1, <2>1, <2>2, <3>1, <3>2
      <3>3. CASE stage[<<c, m>>] # "none"
        BY <2>1, <3>3 DEF Outboxes
      <3> QED
        BY <1>2, <2>3, <3>1, <3>2, <3>3
    <2>4. ASSUME NEW j \in DOMAIN outbox'[c], i < j
          PROVE  outbox'[c][i] < outbox'[c][j]
      <3>1. j + 1 \in DOMAIN outbox[c] /\ outbox'[c][j] = outbox[c][j + 1] /\ j \in Nat /\ i + 1 < j + 1
        BY <1>1, <2>1, <2>4
      <3> QED
        BY <2>1, <3>1 DEF Outboxes
    <2> QED
      BY <2>1, <2>2, <2>3, <2>4
  <1>7. \A d \in Clients : \A i \in DOMAIN outbox'[d] :
          /\ outbox'[d][i] <= sent'[d]
          /\ \A m \in Numbers : stage'[<<d, m>>] # "none" => m < outbox'[d][i]
          /\ \A j \in DOMAIN outbox'[d] : i < j => outbox'[d][i] < outbox'[d][j]
    BY <1>4, <1>6 DEF Outboxes
  <1>8. \A d \in Foreign : outbox'[d] = <<>>
    BY <1>4, <1>5, HttpBounds DEF Outboxes
  <1> QED
    BY <1>3, <1>7, <1>8 DEF Outboxes

LEMMA OutboxStep ==
  ASSUME TypeOK, SessionsOwned, Lined, Outboxes, [Next]_vars
  PROVE  Outboxes'
  <1>1. ASSUME NEW c \in Clients, NEW type \in Types, SendForeign(c, type)
        PROVE  Outboxes'
    <2> DEFINE n == sent[c] + 1
    <2>1. /\ c \in Foreign /\ n \in Numbers /\ <<c, n>> \in Posts
          /\ sent' = [sent EXCEPT ![c] = n] /\ outbox' = outbox
          /\ stage' = [stage EXCEPT ![<<c, n>>] = "wire"]
      BY <1>1, MakeEffect DEF SendForeign, ToWire
    <2>2. outbox[c] = <<>> /\ DOMAIN <<>> = {} /\ sent[c] \in Nat
      BY <2>1, OutboxTypes DEF Outboxes
    <2>3. \A p \in Posts : stage'[p] # "none" => p[2] <= sent'[p[1]]
      <3> SUFFICES ASSUME NEW p \in Posts, stage'[p] # "none" PROVE p[2] <= sent'[p[1]]
        OBVIOUS
      <3>1. p[1] \in Clients /\ p[2] \in Nat /\ sent[p[1]] \in Nat /\ <<c, n>>[1] = c /\ <<c, n>>[2] = n
        BY PostFacts, OutboxTypes
      <3>2. CASE p = <<c, n>>
        BY <2>1, <2>2, <3>1, <3>2 DEF TypeOK
      <3>3. CASE p # <<c, n>>
        <4>1. p[2] <= sent[p[1]]
          BY <2>1, <3>3 DEF Outboxes, TypeOK
        <4> QED
          BY <2>1, <2>2, <3>1, <4>1 DEF TypeOK
      <3> QED
        BY <3>2, <3>3
    <2>4. \A d \in Clients : d # c => /\ sent'[d] = sent[d]
                                      /\ \A m \in Numbers : stage'[<<d, m>>] = stage[<<d, m>>]
      BY <2>1, PostFacts DEF TypeOK
    <2> QED
      BY <2>1, <2>2, <2>3, <2>4 DEF Outboxes
  <1>2. ASSUME NEW c \in Clients, PostNext(c) \/ SkipMessage(c)
        PROVE  Outboxes'
    <2>1. Taking(c) /\ sent' = sent
          /\ (stage' = stage \/ stage' = [stage EXCEPT ![<<c, Head(outbox[c])>>] = "wire"])
      BY <1>2 DEF PostNext, SkipMessage, ToWire, postVars
    <2> QED
      BY <2>1, OutboxTaken
  <1>3. CASE Elsewhere
    <2>1. UNCHANGED <<sent, outbox>> /\ \A p \in Posts : stage'[p] # "none" => stage[p] # "none"
      BY <1>3 DEF Elsewhere, clientVars
    <2> QED
      BY <2>1, PostFacts DEF Outboxes
  <1> QED
    BY <1>1, <1>2, <1>3, ElsewhereStep, OutboxSend DEF ClientActs

\* A message leaves: at once from a foreign client, or when none of the client waits.
Leaves(p) ==
  /\ p \in Posts /\ stage[p] = "none" /\ stage' = [stage EXCEPT ![p] = "wire"]
  /\ pending' = pending \union {p} /\ lost' = lost
  /\ \/ p[1] \in Foreign
     \/ /\ \A q \in pending : q[1] # p[1]
        /\ \A q \in Posts : q[1] = p[1] /\ stage[q] # "none" => q[2] < p[2]

LEMMA LeavesStep ==
  ASSUME TypeOK, Outboxes, NEW c \in Clients, ClientActs(c)
  PROVE  UNCHANGED <<stage, pending, lost>> \/ \E p \in Posts : Leaves(p)
  <1>1. ASSUME NEW type \in Types, SendForeign(c, type)
        PROVE  Leaves(<<c, sent[c] + 1>>)
    <2>1. sent[c] + 1 \in Numbers
      BY <1>1, MakeEffect DEF SendForeign
    <2>2. <<c, sent[c] + 1>> \in Posts /\ <<c, sent[c] + 1>>[1] = c
          /\ stage[<<c, sent[c] + 1>>] = "none"
      BY <2>1, FirstTime, PostFacts
    <2> QED
      BY <1>1, <2>2 DEF SendForeign, ToWire, Leaves
  <1>2. ASSUME PostNext(c)
        PROVE  Leaves(<<c, Head(outbox[c])>>)
    <2> DEFINE p == <<c, Head(outbox[c])>>
    <2>1. /\ 1 \in DOMAIN outbox[c] /\ Head(outbox[c]) = outbox[c][1] /\ p \in Posts
          /\ p[1] = c /\ p[2] = outbox[c][1] /\ \A q \in pending : q[1] # c
      BY <1>2, TakingEffect DEF PostNext
    <2>2. stage[p] = "none"
      BY <1>2, FirstTime DEF PostNext, Taking
    <2>3. \A q \in Posts : q[1] = c /\ stage[q] # "none" => q[2] < p[2]
      <3>1. \A n \in Numbers : stage[<<c, n>>] # "none" => n < p[2]
        BY <2>1 DEF Outboxes
      <3> QED
        BY <3>1, PostFacts
    <2> QED
      BY <1>2, <2>1, <2>2, <2>3 DEF PostNext, ToWire, Leaves
  <1>3. ASSUME SkipMessage(c) \/ \E type \in Types : Send(c, type)
        PROVE  UNCHANGED <<stage, pending, lost>>
    BY <1>3 DEF SkipMessage, Send, postVars
  <1>4. \A p : Leaves(p) => p \in Posts
    BY DEF Leaves
  <1> QED
    BY <1>1, <1>2, <1>3, <1>4 DEF ClientActs

LEMMA WaitsStep ==
  ASSUME TypeOK, SessionsOwned, Lined, Outboxes, Waits, [Next]_vars
  PROVE  Waits'
  <1>1. ASSUME NEW p \in Posts, Leaves(p)
        PROVE  Waits'
    <2>1. \A q \in pending' : stage'[q] \in {"wire", "begun", "line"}
      BY <1>1 DEF Leaves, Waits, TypeOK
    <2>2. ASSUME NEW q \in pending', NEW r \in pending', q[1] = r[1], q[1] \notin Foreign
          PROVE  q = r
      BY <1>1, <2>2 DEF Leaves, Waits
    <2> QED
      BY <2>1, <2>2 DEF Waits
  <1>2. CASE Elsewhere
    <2>1. ASSUME NEW q \in pending'
          PROVE  stage'[q] \in {"wire", "begun", "line"}
      <3>1. /\ q \in pending /\ q \in Posts /\ stage[q] \in {"wire", "begun", "line"}
            /\ (stage'[q] = "over" => stage[q] = "over")
        BY <1>2, <2>1 DEF Elsewhere, Waits, TypeOK
      <3>2. Onward(q)
        BY <3>1, OnwardStep
      <3> QED
        BY <3>1, <3>2 DEF Onward
    <2> QED
      BY <1>2, <2>1 DEF Waits, Elsewhere
  <1>3. CASE UNCHANGED <<stage, pending, lost>>
    BY <1>3 DEF Waits
  <1> QED
    BY <1>1, <1>2, <1>3, LeavesStep, ElsewhereStep

LEMMA OvertakenStep ==
  ASSUME TypeOK, SessionsOwned, Lined, Outboxes, Overtaken, [Next]_vars
  PROVE  Overtaken'
  <1>1. ASSUME NEW p \in Posts, Leaves(p), NEW q \in Posts, NEW r \in Posts,
               stage'[q] = "wire", q[1] \notin Foreign
        PROVE  /\ q \in pending' \union lost'
               /\ r[1] = q[1] /\ stage'[r] # "none" /\ q[2] < r[2] => q \in lost'
    <2>1. CASE q = p
      <3>1. r[1] = q[1] /\ stage'[r] # "none" => r = q \/ r[2] < q[2]
        BY <1>1, <2>1 DEF Leaves, TypeOK
      <3>2. q[2] \in Nat /\ r[2] \in Nat
        BY OutboxTypes
      <3> QED
        BY <1>1, <2>1, <3>1, <3>2 DEF Leaves
    <2>2. CASE q # p /\ q[1] = p[1]
      <3>1. stage[q] = "wire"
        BY <1>1, <2>2 DEF Leaves, TypeOK
      <3>2. q \in pending \union lost /\ q \notin pending
        BY <1>1, <2>2, <3>1 DEF Leaves, Overtaken
      <3> QED
        BY <1>1, <3>2 DEF Leaves
    <2>3. CASE q # p /\ q[1] # p[1]
      <3>1. stage[q] = "wire" /\ (r[1] = q[1] => stage'[r] = stage[r])
        BY <1>1, <2>3 DEF Leaves, TypeOK
      <3> QED
        BY <1>1, <3>1 DEF Leaves, Overtaken
    <2> QED
      BY <2>1, <2>2, <2>3
  <1>2. ASSUME Elsewhere, NEW q \in Posts, NEW r \in Posts,
               stage'[q] = "wire", q[1] \notin Foreign
        PROVE  /\ q \in pending' \union lost'
               /\ r[1] = q[1] /\ stage'[r] # "none" /\ q[2] < r[2] => q \in lost'
    <2>1. stage[q] = "wire" /\ (stage'[r] # "none" => stage[r] # "none")
      BY <1>2 DEF Elsewhere
    <2>2. /\ q \in pending \union lost
          /\ r[1] = q[1] /\ stage[r] # "none" /\ q[2] < r[2] => q \in lost
      BY <1>2, <2>1 DEF Overtaken
    <2>3. lost \subseteq lost'
      BY GrowsStep DEF Grows
    <2> QED
      BY <1>2, <2>1, <2>2, <2>3 DEF Elsewhere
  <1>3. CASE UNCHANGED <<stage, pending, lost>>
    BY <1>3 DEF Overtaken
  <1>4. ASSUME NEW p \in Posts, Leaves(p) PROVE Overtaken'
    BY <1>1, <1>4 DEF Overtaken
  <1>5. CASE Elsewhere
    BY <1>2, <1>5 DEF Overtaken
  <1> QED
    BY <1>3, <1>4, <1>5, LeavesStep, ElsewhereStep

-----------------------------------------------------------------------------
(* Arrived: the order at the server. *)

LEMMA InTurnStays ==
  ASSUME NEW i \in DOMAIN incoming, NEW j \in DOMAIN incoming, InTurn(i, j),
         incoming'[i] = incoming[i], incoming'[j] = incoming[j], lost \subseteq lost'
  PROVE  InTurn(i, j)'
  BY DEF InTurn

LEMMA ArrivedStep ==
  ASSUME TypeOK, SessionsOwned, Lined, Outboxes, Overtaken, Arrived, [Next]_vars
  PROVE  Arrived'
  <1>1. DOMAIN incoming = 1..Len(incoming) /\ Len(incoming) \in Nat /\ lost \subseteq lost'
    BY IncomingStep, GrowsStep DEF Grows
  <1>2. \A i \in DOMAIN incoming : incoming[i] \in Posts
    BY ElementAt DEF TypeOK
  <1>3. \A i \in DOMAIN incoming : stage'[incoming[i]] \in {"begun", "line", "over"}
    BY <1>2, OnwardStep DEF Onward, Arrived, Handled
  <1>4. CASE incoming' = incoming
    <2>1. \A i, j \in DOMAIN incoming' : i < j => InTurn(i, j)'
      BY <1>1, <1>4, InTurnStays DEF Arrived
    <2>2. \A i \in DOMAIN incoming' : Handled(incoming[i])'
      BY <1>3, <1>4 DEF Handled
    <2> QED
      BY <1>4, <2>1, <2>2 DEF Arrived
  <1>5. ASSUME NEW p \in Posts, Forwards(p), DOMAIN incoming' = 1..Len(incoming'), lost' = lost
        PROVE  Arrived'
    <2> DEFINE last == Len(incoming) + 1
    <2>1. /\ \A i \in DOMAIN incoming : incoming'[i] = incoming[i]
          /\ incoming'[last] = p /\ Len(incoming') = last
          /\ stage[p] = "wire" /\ stage'[p] \in {"begun", "over"}
      BY <1>5 DEF Forwards
    <2>2. \A i \in DOMAIN incoming' : i = last \/ i \in DOMAIN incoming
      BY <1>1, <1>5, <2>1
    <2>3. \A i \in DOMAIN incoming' : stage'[incoming'[i]] \in {"begun", "line", "over"}
      BY <1>3, <2>1, <2>2
    <2>4. ASSUME NEW i \in DOMAIN incoming', NEW j \in DOMAIN incoming', i < j
          PROVE  InTurn(i, j)'
      <3>1. i \in DOMAIN incoming
        BY <1>1, <1>5, <2>1, <2>4
      <3>2. CASE j \in DOMAIN incoming
        BY <1>1, <2>1, <2>4, <3>1, <3>2, InTurnStays DEF Arrived
      <3>3. CASE j = last
        <4> DEFINE q == incoming[i]
        <4>1. q \in Posts /\ Handled(q) /\ q # p
          BY <1>2, <2>1, <3>1 DEF Arrived, Handled
        <4>2. p[1] \notin Foreign /\ q[1] = p[1] /\ p[2] < q[2] => p \in lost
          BY <2>1, <4>1 DEF Overtaken, Handled
        <4>3. incoming'[i] = q /\ incoming'[j] = p
          BY <2>1, <3>1, <3>3
        <4> QED
          BY <1>5, <4>1, <4>2, <4>3 DEF InTurn
      <3> QED
        BY <2>2, <3>2, <3>3
    <2> QED
      BY <2>3, <2>4 DEF Arrived, Handled
  <1> QED
    BY <1>4, <1>5, IncomingStep

\* What the server has read is in order because what has arrived is.
LEMMA ArrivedInOrder ==
  ASSUME TypeOK, Arrived
  PROVE  InOrder
  <1>1. 1..read \subseteq DOMAIN incoming
    BY ElementAt DEF TypeOK
  <1> QED
    BY <1>1 DEF Arrived, InOrder

-----------------------------------------------------------------------------
(* What is in the channels. *)

\* An entry that was there before, at most one place further back.
Kept(off, k, i) ==
  i \in Nat /\ i + off[k] \in DOMAIN queue[k] /\ queue'[k][i] = queue[k][i + off[k]]

\* A new one that goes to all.
ToEach(k, i) == casts' # 0 /\ ~IsResponse(queue'[k][i]) /\ \E s \in Posts : current[s] = k

\* A new one that answers p.
AnswerTo(p, k, i) ==
  /\ p \in running /\ Respond(p) /\ queue'[k][i] = Response(p) /\ i = Len(queue[k]) + 1
  /\ Handled(k)
  /\ route[Id(p)] # None /\ k = current[route[Id(p)]]
  /\ via[k] = route[Id(p)] /\ k[1] = route[Id(p)][1]

LEMMA QueueTypes ==
  ASSUME TypeOK
  PROVE  \A k \in Posts : /\ DOMAIN queue[k] = 1..Len(queue[k]) /\ Len(queue[k]) \in Nat
                          /\ \A i \in DOMAIN queue[k] : i \in Nat /\ queue[k][i] \in ServerMessages
  <1>1. \A k \in Posts : queue[k] \in Seq(ServerMessages)
    BY DEF TypeOK
  <1> QED
    BY <1>1, ElementAt

LEMMA QueueStep ==
  ASSUME TypeOK, SessionsOwned, Lined, [Next]_vars
  PROVE  \E off \in [Posts -> {0, 1}] :
            /\ \A k \in Posts : off[k] = 1 => Takes(k)
            /\ \A k \in Posts : \A i \in DOMAIN queue'[k] :
                  \/ Kept(off, k, i) \/ ToEach(k, i) \/ \E p \in running : AnswerTo(p, k, i)
  <1> DEFINE still == [k \in Posts |-> 0]
  <1>1. still \in [Posts -> {0, 1}] /\ \A k \in Posts : still[k] = 0 /\ ~(still[k] = 1)
    OBVIOUS
  <1>2. \A k \in Posts : /\ DOMAIN queue[k] = 1..Len(queue[k]) /\ Len(queue[k]) \in Nat
                         /\ \A i \in DOMAIN queue[k] : i \in Nat /\ queue[k][i] \in ServerMessages
    BY QueueTypes
  <1> HIDE DEF still
  <1>3. ASSUME NEW k \in Posts, NEW i \in DOMAIN queue[k], queue'[k][i] = queue[k][i]
        PROVE  Kept(still, k, i)
    BY <1>1, <1>2, <1>3 DEF Kept
  <1>4. CASE queue' = queue
    BY <1>1, <1>3, <1>4
  <1>5. ASSUME NEW t \in Posts, Takes(t)
        PROVE  \E off \in [Posts -> {0, 1}] :
                  /\ \A k \in Posts : off[k] = 1 => Takes(k)
                  /\ \A k \in Posts : \A i \in DOMAIN queue'[k] : Kept(off, k, i)
    <2> DEFINE moved == [still EXCEPT ![t] = 1]
    <2>1. moved \in [Posts -> {0, 1}] /\ moved[t] = 1 /\ \A k \in Posts : k # t => moved[k] = 0
      BY <1>1
    <2> HIDE DEF moved
    <2>2. /\ DOMAIN queue'[t] = 1..(Len(queue[t]) - 1)
          /\ \A j \in DOMAIN queue'[t] : queue'[t][j] = queue[t][j + 1]
          /\ \A k \in Posts : k # t => queue'[k] = queue[k]
      BY <1>5, TakesEffect, TakeEffect
    <2>3. \A j \in DOMAIN queue'[t] : j + 1 \in DOMAIN queue[t] /\ j \in Nat
      BY <1>2, <2>2
    <2>4. ASSUME NEW k \in Posts, NEW i \in DOMAIN queue'[k]
          PROVE  Kept(moved, k, i)
      BY <1>2, <2>1, <2>2, <2>3 DEF Kept
    <2>5. ASSUME NEW k \in Posts, moved[k] = 1
          PROVE  Takes(k)
      BY <1>5, <2>1, <2>5
    <2> QED
      BY <2>1, <2>4, <2>5
  <1>6. CASE Casts
    <2>1. PICK m \in ServerMessages : ToAll(m) /\ ~IsResponse(m)
      BY <1>6, CastsEffect
    <2>2. casts' # 0
      BY <1>6, CastsEffect
    <2>3. ASSUME NEW k \in Posts, NEW i \in DOMAIN queue'[k]
          PROVE  Kept(still, k, i) \/ ToEach(k, i)
      <3>1. CASE queue'[k] = queue[k]
        BY <1>3, <3>1
      <3>2. CASE Longer(k, m) /\ \E s \in Posts : current[s] = k
        <4>1. i \in DOMAIN queue[k] \/ i = Len(queue[k]) + 1
          BY <3>2 DEF Longer
        <4>2. CASE i \in DOMAIN queue[k]
          BY <1>3, <3>2, <4>2 DEF Longer
        <4>3. CASE i = Len(queue[k]) + 1
          BY <2>1, <2>2, <3>2, <4>3 DEF Longer, ToEach
        <4> QED
          BY <4>1, <4>2, <4>3
      <3> QED
        BY <2>1, <3>1, <3>2, ToAllEffect
    <2> QED
      BY <1>1, <2>3
  <1>7. ASSUME NEW p \in running, Respond(p)
        PROVE  \A k \in Posts : \A i \in DOMAIN queue'[k] : Kept(still, k, i) \/ AnswerTo(p, k, i)
    <2> SUFFICES ASSUME NEW k \in Posts, NEW i \in DOMAIN queue'[k]
                 PROVE  Kept(still, k, i) \/ AnswerTo(p, k, i)
      OBVIOUS
    <2>1. CASE queue'[k] = queue[k]
      BY <1>3, <2>1
    <2>2. CASE queue'[k] # queue[k]
      <3>1. /\ route[Id(p)] \in Posts /\ k = current[route[Id(p)]] /\ via[k] = route[Id(p)]
            /\ Handled(k) /\ k[1] = route[Id(p)][1] /\ Longer(k, Response(p))
        BY <1>7, <2>2, RespondEffect
      <3>2. i \in DOMAIN queue[k] \/ i = Len(queue[k]) + 1
        BY <3>1 DEF Longer
      <3>3. CASE i \in DOMAIN queue[k]
        BY <1>3, <3>1, <3>3 DEF Longer
      <3>4. CASE i = Len(queue[k]) + 1
        <4>1. queue'[k][i] = Response(p) /\ route[Id(p)] # None
          BY <3>1, <3>4, PostFacts DEF Longer
        <4> QED
          BY <1>7, <3>1, <3>4, <4>1 DEF AnswerTo
      <3> QED
        BY <3>2, <3>3, <3>4
    <2> QED
      BY <2>1, <2>2
  <1>8. ASSUME NEW c \in Clients, ClientActs(c)
        PROVE  queue' = queue
    BY <1>8 DEF ClientActs, Send, SendForeign, PostNext, SkipMessage
  <1>9. ASSUME NEW p \in Posts, GiveUp(p) \/ HandleInit(p) \/ Begins(p) \/ Answers(p) \/ Attach(p) \/ Ends(p)
        PROVE  queue' = queue
    BY <1>9, InitEffect, BeginsEffect, AnswersEffect, EndsEffect DEF GiveUp, Attach
  <1>10. Receive \/ Stop \/ UNCHANGED vars => queue' = queue
    BY DEF Receive, Stop, vars
  <1>11. CASE \E p \in running : Respond(p)
    BY <1>1, <1>7, <1>11
  <1> QED
    BY <1>4, <1>5, <1>6, <1>8, <1>9, <1>10, <1>11, StepCases DEF ClientActs

\* The first entry of t is taken, and the others stay.
LEMMA TakesQueue ==
  ASSUME TypeOK, SessionsOwned, Lined, NEW t \in Posts, Takes(t)
  PROVE  \A k \in Posts : \A i \in DOMAIN queue'[k] :
            \E j \in DOMAIN queue[k] : /\ queue'[k][i] = queue[k][j]
                                       /\ ~(k = t /\ j = 1)
  <1>1. /\ DOMAIN queue[t] = 1..Len(queue[t]) /\ Len(queue[t]) \in Nat
        /\ DOMAIN queue'[t] = 1..(Len(queue[t]) - 1)
        /\ \A j \in DOMAIN queue'[t] : queue'[t][j] = queue[t][j + 1]
        /\ \A k \in Posts : k # t => queue'[k] = queue[k]
    BY TakesEffect, TakeEffect
  <1>2. \A i \in DOMAIN queue'[t] : i + 1 \in DOMAIN queue[t] /\ i + 1 # 1
    BY <1>1
  <1>3. ASSUME NEW k \in Posts, NEW i \in DOMAIN queue'[k]
        PROVE  \E j \in DOMAIN queue[k] : queue'[k][i] = queue[k][j] /\ ~(k = t /\ j = 1)
    BY <1>1, <1>2
  <1> QED
    BY <1>3

\* Nothing but Receive makes an entry of request_sessions, or a running request.
LEMMA RouteStep ==
  ASSUME TypeOK, SessionsOwned, Lined, [Next]_vars, ~Receive
  PROVE  running' \subseteq running /\ \A id \in Ids : route'[id] = None \/ route'[id] = route[id]
  <1>1. ASSUME UNCHANGED <<running, route>>
        PROVE  running' \subseteq running /\ \A id \in Ids : route'[id] = None \/ route'[id] = route[id]
    BY <1>1
  <1>2. ASSUME NEW c \in Clients, ClientActs(c)
        PROVE  UNCHANGED <<running, route>>
    BY <1>2 DEF ClientActs, Send, SendForeign, PostNext, SkipMessage, serverVars
  <1>3. ASSUME NEW p \in Posts, \/ GiveUp(p) \/ HandleInit(p) \/ Begins(p) \/ Answers(p)
                                \/ Attach(p) \/ Ends(p) \/ Takes(p)
        PROVE  UNCHANGED <<running, route>>
    BY <1>3, InitEffect, BeginsEffect, AnswersEffect, EndsEffect, TakesEffect
    DEF GiveUp, Attach, serverVars
  <1>4. CASE Casts
    BY <1>4, CastsEffect
  <1>5. CASE Stop
    BY <1>5 DEF Stop
  <1>6. ASSUME NEW p \in running, Respond(p)
        PROVE  running' \subseteq running /\ \A id \in Ids : route'[id] = None \/ route'[id] = route[id]
    BY <1>6, RespondEffect DEF TypeOK
  <1>7. UNCHANGED vars => UNCHANGED <<running, route>>
    BY DEF vars, serverVars
  <1> QED
    BY <1>1, <1>2, <1>3, <1>4, <1>5, <1>6, <1>7, StepCases DEF ClientActs

\* A client gains the first message of k.
Gains(k) ==
  LET c == k[1] IN
  /\ Takes(k)
  /\ DOMAIN got[c] = 1..Len(got[c]) /\ Len(got[c]) \in Nat
  /\ DOMAIN got'[c] = 1..(Len(got[c]) + 1)
  /\ \A i \in DOMAIN got[c] : got'[c][i] = got[c][i]
  /\ got'[c][Len(got[c]) + 1].message = queue[k][1]
  /\ \A d \in Clients : d # c => got'[d] = got[d]

LEMMA GotStep ==
  ASSUME TypeOK, SessionsOwned, Lined, [Next]_vars
  PROVE  got' = got \/ \E k \in Posts : Gains(k)
  <1>1. ASSUME NEW c \in Clients, ClientActs(c)
        PROVE  got' = got
    BY <1>1 DEF ClientActs, Send, SendForeign, PostNext, SkipMessage
  <1>2. ASSUME NEW p \in Posts, \/ GiveUp(p) \/ HandleInit(p) \/ Begins(p) \/ Answers(p)
                                \/ Attach(p) \/ Ends(p)
        PROVE  got' = got
    BY <1>2, InitEffect, BeginsEffect, AnswersEffect, EndsEffect DEF GiveUp, Attach
  <1>3. Receive \/ Casts \/ Stop \/ (\E p \in running : Respond(p)) \/ UNCHANGED vars
        => got' = got
    BY CastsEffect DEF Receive, Stop, Respond, vars
  <1>4. ASSUME NEW k \in Posts, Takes(k), got' # got
        PROVE  Gains(k)
    <2> DEFINE p == line[k][1]
    <2>1. PICK n \in 0..MaxMessages : Deliver(p, queue[k][1], n)
      BY <1>4, TakesEffect
    <2>2. p \in Posts /\ p[1] = k[1] /\ queue[k][1] \in ServerMessages
      BY <1>4, TakesEffect
    <2> HIDE DEF p
    <2>3. LET c == p[1] IN
          /\ \A d \in Clients : d # c => got'[d] = got[d]
          /\ DOMAIN got[c] = 1..Len(got[c]) /\ Len(got[c]) \in Nat
          /\ DOMAIN got'[c] = 1..(Len(got[c]) + 1)
          /\ \A i \in DOMAIN got[c] : got'[c][i] = got[c][i]
          /\ got'[c][Len(got[c]) + 1].message = queue[k][1]
      BY <2>1, <2>2, DeliverEffect
    <2> QED
      BY <1>4, <2>2, <2>3 DEF Gains
  <1> QED
    BY <1>1, <1>2, <1>3, <1>4, StepCases DEF ClientActs

-----------------------------------------------------------------------------
(* Reached, RunningRouted, Routed. *)

LEMMA HandledStays ==
  ASSUME TypeOK, SessionsOwned, Lined, Outboxes, [Next]_vars, NEW p \in Posts, Handled(p)
  PROVE  Handled(p)' /\ via'[p] = via[p]
  BY OnwardStep DEF Onward, Handled

LEMMA ReachedStep ==
  ASSUME TypeOK, SessionsOwned, Lined, Outboxes, Arrived, Reached, [Next]_vars
  PROVE  Reached'
  <1>1. ASSUME NEW p \in running'
        PROVE  Handled(p)'
    <2>1. p \in Posts /\ Handled(p)
      <3>1. CASE Receive
        <4>1. running' \subseteq running \union {incoming[read + 1]} /\ read + 1 \in DOMAIN incoming
              /\ incoming[read + 1] \in Posts
          BY <3>1, ReceiveEffect
        <4> QED
          BY <1>1, <4>1 DEF Reached, Arrived, TypeOK
      <3>2. CASE ~Receive
        BY <1>1, <3>2, RouteStep DEF Reached, TypeOK
      <3> QED
        BY <3>1, <3>2
    <2> QED
      BY <2>1, HandledStays
  <1>2. ASSUME NEW k \in Posts, NEW i \in DOMAIN queue'[k]
        PROVE  /\ stage'[k] \in {"begun", "line", "over"}
               /\ IsResponse(queue'[k][i]) =>
                    stage'[queue'[k][i].of] \in {"begun", "line", "over"}
    <2>1. Handled(k) /\ (IsResponse(queue'[k][i]) =>
                            queue'[k][i].of \in Posts /\ Handled(queue'[k][i].of))
      <3>1. PICK off \in [Posts -> {0, 1}] :
                \/ Kept(off, k, i) \/ ToEach(k, i) \/ \E p \in running : AnswerTo(p, k, i)
        BY QueueStep
      <3>2. CASE Kept(off, k, i)
        BY <3>2, QueueTypes, MessageFacts DEF Kept, Reached
      <3>3. CASE ToEach(k, i)
        BY <3>3, PostFacts DEF ToEach, SessionsOwned
      <3>4. ASSUME NEW p \in running, AnswerTo(p, k, i)
            PROVE  /\ Handled(k) /\ queue'[k][i].of = p /\ p \in Posts /\ Handled(p)
        BY <3>4, MessageFacts DEF AnswerTo, Reached, TypeOK
      <3> QED
        BY <3>1, <3>2, <3>3, <3>4
    <2>2. \A q \in Posts : Handled(q) => stage'[q] \in {"begun", "line", "over"}
      BY HandledStays DEF Handled
    <2> QED
      BY <2>1, <2>2 DEF Handled
  <1> QED
    BY <1>1, <1>2 DEF Reached, Handled

LEMMA IdStays ==
  ASSUME TypeOK, SessionsOwned, Lined, [Next]_vars
  PROVE  shared' = shared /\ \A p : Id(p)' = Id(p)
  BY GrowsStep, IdFacts DEF Grows

LEMMA AskedAfter ==
  ASSUME shared' = shared
  PROVE  Answering' <=>
            /\ \A id \in Ids : route'[id] # None => AskedThen(route'[id][1], id)
            /\ \A k \in Posts : \A i \in DOMAIN queue'[k] :
                  queue'[k][i].type = "response" => AskedThen(k[1], Id(queue'[k][i].of))
  BY DEF Answering, Asked, AskedThen, Id, IsResponse

LEMMA RunningRoutedStep ==
  ASSUME TypeOK, SessionsOwned, Lined, Outboxes, Arrived, Reached, RunningRouted, [Next]_vars
  PROVE  RunningRouted'
  <1> SUFFICES ASSUME ~shared, NEW p \in running'
               PROVE  route'[Id(p)] = via'[p]
    BY IdStays DEF RunningRouted
  <1>1. ASSUME NEW q \in running
        PROVE  q \in Posts /\ Id(q) \in Ids /\ route[Id(q)] = via[q] /\ via'[q] = via[q]
    BY HandledStays, IdFacts DEF RunningRouted, Reached, TypeOK
  <1>2. CASE Receive
    <2> DEFINE r == incoming[read + 1]
    <2>1. /\ r \in Posts /\ via' = via
          /\ \/ running' = running \union {r} /\ route' = [route EXCEPT ![Id(r)] = via[r]]
             \/ running' = running /\ route' = route
      BY <1>2, ReceiveEffect DEF Receive, postVars
    <2> HIDE DEF r
    <2>2. p \in Posts /\ Id(p) \in Ids /\ (p \in running \/ p = r)
      BY <2>1, IdFacts DEF TypeOK
    <2>3. p # r => Id(p) # Id(r)
      BY <2>1, <2>2, IdFacts
    <2> QED
      BY <1>1, <2>1, <2>2, <2>3 DEF TypeOK
  <1>3. ASSUME NEW q \in running, Respond(q)
        PROVE  route'[Id(p)] = via'[p]
    <2>1. q \in Posts /\ running' = running \ {q} /\ route' = [route EXCEPT ![Id(q)] = None]
      BY <1>3, RespondEffect
    <2>2. p \in running /\ p # q /\ p \in Posts
      BY <2>1 DEF TypeOK
    <2>3. Id(p) # Id(q)
      BY <2>1, <2>2, IdFacts
    <2> QED
      BY <1>1, <2>1, <2>2, <2>3 DEF TypeOK
  <1>4. CASE Stop
    BY <1>4 DEF Stop
  <1>5. ASSUME p \in running, route' = route
        PROVE  route'[Id(p)] = via'[p]
    BY <1>1, <1>5
  <1>6. CASE Casts
    BY <1>5, <1>6, CastsEffect
  <1>7. ASSUME NEW c \in Clients, ClientActs(c)
        PROVE  UNCHANGED <<running, route>>
    BY <1>7 DEF ClientActs, Send, SendForeign, PostNext, SkipMessage, serverVars
  <1>8. ASSUME NEW q \in Posts, \/ GiveUp(q) \/ HandleInit(q) \/ Begins(q) \/ Answers(q)
                                \/ Attach(q) \/ Ends(q) \/ Takes(q)
        PROVE  UNCHANGED <<running, route>>
    BY <1>8, InitEffect, BeginsEffect, AnswersEffect, EndsEffect, TakesEffect
    DEF GiveUp, Attach, serverVars
  <1>9. UNCHANGED vars => UNCHANGED <<running, route>>
    BY DEF vars, serverVars
  <1> QED
    BY <1>2, <1>3, <1>4, <1>5, <1>6, <1>7, <1>8, <1>9, StepCases DEF ClientActs

LEMMA RoutedStep ==
  ASSUME TypeOK, SessionsOwned, Lined, Outboxes, Reached, RunningRouted, Routed, [Next]_vars
  PROVE  Routed'
  <1> SUFFICES ASSUME ~shared, NEW k \in Posts, NEW i \in DOMAIN queue'[k], IsResponse(queue'[k][i])
               PROVE  via'[queue'[k][i].of] = via'[k]
    BY IdStays DEF Routed, RoutedAlways, IsResponse
  <1>1. PICK off \in [Posts -> {0, 1}] :
            Kept(off, k, i) \/ ToEach(k, i) \/ \E p \in running : AnswerTo(p, k, i)
    BY QueueStep
  <1>2. CASE Kept(off, k, i)
    <2>1. i + off[k] \in DOMAIN queue[k] /\ queue'[k][i] = queue[k][i + off[k]]
      BY <1>2 DEF Kept
    <2>2. /\ queue'[k][i].of \in Posts /\ Handled(queue'[k][i].of) /\ Handled(k)
      BY <2>1, QueueTypes, MessageFacts DEF Reached
    <2>3. via[queue'[k][i].of] = via[k]
      BY <2>1 DEF Routed, RoutedAlways
    <2> QED
      BY <2>2, <2>3, HandledStays
  <1>3. CASE ToEach(k, i)
    BY <1>3 DEF ToEach
  <1>4. ASSUME NEW p \in running, AnswerTo(p, k, i)
        PROVE  via'[queue'[k][i].of] = via'[k]
    <2>1. /\ p \in Posts /\ Handled(p) /\ Handled(k) /\ queue'[k][i].of = p
          /\ via[k] = route[Id(p)] /\ route[Id(p)] = via[p]
      BY <1>4, MessageFacts DEF AnswerTo, Reached, RunningRouted, TypeOK
    <2> QED
      BY <2>1, HandledStays
  <1> QED
    BY <1>1, <1>2, <1>3, <1>4

-----------------------------------------------------------------------------
(* Answering, OneResponse, OnePlace. *)

LEMMA AnsweringStep ==
  ASSUME TypeOK, SessionsOwned, Lined, Outboxes, Arrived, Answering, [Next]_vars
  PROVE  Answering'
  <1>1. ASSUME NEW id \in Ids, route'[id] # None
        PROVE  AskedThen(route'[id][1], id)
    <2>1. ASSUME route'[id] = route[id]
          PROVE  AskedThen(route[id][1], id)
      <3>1. route[id][1] \in Clients /\ Asked(route[id][1], id)
        BY <1>1, <2>1, PostFacts DEF Answering, TypeOK
      <3> QED
        BY <3>1, AskedStays
    <2>2. CASE Receive
      <3> DEFINE p == incoming[read + 1]
      <3>1. /\ p \in Posts /\ read' = read + 1 /\ read \in Nat
            /\ \/ kind[p] \in Requests /\ route' = [route EXCEPT ![Id(p)] = via[p]]
               \/ route' = route
            /\ UNCHANGED <<clientVars, incoming, postVars>>
        BY <2>2, ReceiveEffect
      <3>2. CASE route'[id] # route[id]
        <4>1. id = Id(p) /\ route'[id] = via[p] /\ kind[p] \in Requests
          BY <3>1, <3>2 DEF TypeOK
        <4>2. via[p][1] = p[1]
          BY <1>1, <3>1, <4>1 DEF SessionsOwned
        <4>3. read + 1 \in 1..read' /\ incoming'[read + 1] = p /\ kind' = kind
          BY <3>1 DEF clientVars
        <4> QED
          BY <4>1, <4>2, <4>3 DEF AskedThen
      <3> QED
        BY <2>1, <3>2
    <2> QED
      BY <1>1, <2>1, <2>2, RouteStep
  <1>2. ASSUME NEW k \in Posts, NEW i \in DOMAIN queue'[k], IsResponse(queue'[k][i])
        PROVE  AskedThen(k[1], Id(queue'[k][i].of))
    <2>1. Asked(k[1], Id(queue'[k][i].of)) /\ queue'[k][i].of \in Posts
      <3>1. PICK off \in [Posts -> {0, 1}] :
                Kept(off, k, i) \/ ToEach(k, i) \/ \E p \in running : AnswerTo(p, k, i)
        BY QueueStep
      <3>2. CASE Kept(off, k, i)
        BY <1>2, <3>2, QueueTypes, MessageFacts DEF Kept, Answering
      <3>3. ASSUME NEW p \in running, AnswerTo(p, k, i)
            PROVE  Asked(k[1], Id(queue'[k][i].of)) /\ queue'[k][i].of \in Posts
        BY <3>3, MessageFacts, IdFacts DEF AnswerTo, Answering, TypeOK
      <3> QED
        BY <1>2, <3>1, <3>2, <3>3 DEF ToEach
    <2> QED
      BY <2>1, AskedStays, PostFacts, IdFacts
  <1> QED
    BY <1>1, <1>2, IdStays, AskedAfter DEF IsResponse

LEMMA GotTypes ==
  ASSUME TypeOK
  PROVE  \A c \in Clients : \A i \in DOMAIN got[c] :
            /\ got[c][i].message \in ServerMessages
            /\ IsResponse(got[c][i].message) =>
                 got[c][i].message.of \in Posts /\ Id(got[c][i].message.of) \in Ids
  <1> SUFFICES ASSUME NEW c \in Clients, NEW i \in DOMAIN got[c]
               PROVE  /\ got[c][i].message \in ServerMessages
                      /\ IsResponse(got[c][i].message) =>
                           got[c][i].message.of \in Posts /\ Id(got[c][i].message.of) \in Ids
    OBVIOUS
  <1> DEFINE E == [message : ServerMessages, to : 0..MaxMessages]
  <1>1. got \in [Clients -> Seq(E)]
    BY DEF TypeOK
  <1> HIDE DEF E
  <1>2. got[c][i] \in E
    BY <1>1, ElementAt
  <1>3. got[c][i].message \in ServerMessages
    BY <1>2 DEF E
  <1> QED
    BY <1>3, MessageFacts, IdFacts

\* A request that is read has not been read before.
LEMMA NotAsked ==
  ASSUME TypeOK, Arrived, Receive
  PROVE  ~Asked(incoming[read + 1][1], Id(incoming[read + 1]))
  <1> DEFINE p == incoming[read + 1]
  <1>1. /\ p \in Posts /\ read + 1 \in DOMAIN incoming /\ DOMAIN incoming = 1..Len(incoming)
        /\ Len(incoming) \in Nat /\ read \in Nat
    BY ReceiveEffect
  <1>2. ASSUME NEW j \in 1..read, incoming[j][1] = p[1], Id(p) = Id(incoming[j])
        PROVE  FALSE
    <2>1. j \in DOMAIN incoming /\ j < read + 1 /\ incoming[j] \in Posts
      BY <1>1, ElementAt DEF TypeOK
    <2>2. incoming[j] # p
      BY <1>1, <1>2, <2>1 DEF Arrived, InTurn
    <2> QED
      BY <1>1, <1>2, <2>1, <2>2, IdFacts
  <1> QED
    BY <1>2 DEF Asked

LEMMA OneResponseStep ==
  ASSUME TypeOK, SessionsOwned, Lined, Outboxes, Arrived, Answering, OnePlace, OneResponse,
         [Next]_vars
  PROVE  OneResponse'
  <1> DEFINE Answer(c, i) == got'[c][i].message
  <1>1. SUFFICES \A c \in Clients : \A i \in DOMAIN got'[c] : IsResponse(Answer(c, i)) =>
            /\ AskedThen(c, Id(Answer(c, i).of))
            /\ \A j \in DOMAIN got'[c] \ {i} :
                  IsResponse(Answer(c, j)) => Id(Answer(c, j).of) # Id(Answer(c, i).of)
    BY IdStays DEF OneResponse, AskedThen, Asked, Id, IsResponse
  <1>2. ASSUME NEW c \in Clients, NEW i \in DOMAIN got[c], IsResponse(got[c][i].message)
        PROVE  AskedThen(c, Id(got[c][i].message.of))
    BY <1>2, AskedStays, GotTypes DEF OneResponse
  <1>3. CASE got' = got
    BY <1>2, <1>3 DEF OneResponse
  <1>4. ASSUME NEW k \in Posts, Gains(k)
        PROVE  \A c \in Clients : \A i \in DOMAIN got'[c] : IsResponse(Answer(c, i)) =>
            /\ AskedThen(c, Id(Answer(c, i).of))
            /\ \A j \in DOMAIN got'[c] \ {i} :
                  IsResponse(Answer(c, j)) => Id(Answer(c, j).of) # Id(Answer(c, i).of)
    <2> DEFINE d == k[1]
               m == queue[k][1]
               last == Len(got[d]) + 1
    <2>1. /\ d \in Clients /\ 1 \in DOMAIN queue[k] /\ m \in ServerMessages
      BY <1>4, TakesEffect, TakeEffect, PostFacts DEF Gains
    <2>2. /\ \A i \in DOMAIN got'[d] : i = last \/ i \in DOMAIN got[d]
          /\ \A i \in DOMAIN got[d] : got'[d][i] = got[d][i]
          /\ Answer(d, last) = m /\ \A c \in Clients : c # d => got'[c] = got[c]
      BY <1>4 DEF Gains
    <2>3. IsResponse(m) => /\ AskedThen(d, Id(m.of))
                           /\ \A i \in DOMAIN got[d] : IsResponse(got[d][i].message) =>
                                 Id(got[d][i].message.of) # Id(m.of)
      <3> SUFFICES ASSUME IsResponse(m)
                   PROVE  /\ AskedThen(d, Id(m.of))
                          /\ \A i \in DOMAIN got[d] : IsResponse(got[d][i].message) =>
                                Id(got[d][i].message.of) # Id(m.of)
        OBVIOUS
      <3>1. m.of \in Posts /\ Id(m.of) \in Ids /\ Asked(d, Id(m.of)) /\ ~HasGot(d, Id(m.of))
        BY <2>1, MessageFacts, IdFacts DEF Answering, OnePlace
      <3> QED
        BY <2>1, <3>1, AskedStays DEF HasGot, SameResponse
    <2> HIDE DEF d, m, last, Answer
    <2>4. ASSUME NEW c \in Clients, c # d, NEW i \in DOMAIN got'[c], IsResponse(Answer(c, i))
          PROVE  /\ AskedThen(c, Id(Answer(c, i).of))
                 /\ \A j \in DOMAIN got'[c] \ {i} :
                      IsResponse(Answer(c, j)) => Id(Answer(c, j).of) # Id(Answer(c, i).of)
      BY <1>2, <2>2, <2>4 DEF OneResponse, Answer
    <2>5. ASSUME NEW i \in DOMAIN got'[d], IsResponse(Answer(d, i))
          PROVE  /\ AskedThen(d, Id(Answer(d, i).of))
                 /\ \A j \in DOMAIN got'[d] \ {i} :
                      IsResponse(Answer(d, j)) => Id(Answer(d, j).of) # Id(Answer(d, i).of)
      <3>1. CASE i = last
        BY <2>2, <2>3, <2>5, <3>1 DEF Answer
      <3>2. CASE i \in DOMAIN got[d]
        <4>1. Answer(d, i) = got[d][i].message /\ AskedThen(d, Id(Answer(d, i).of))
          BY <1>2, <2>1, <2>2, <2>5, <3>2 DEF Answer
        <4>2. ASSUME NEW j \in DOMAIN got'[d] \ {i}, IsResponse(Answer(d, j))
              PROVE  Id(Answer(d, j).of) # Id(Answer(d, i).of)
          <5>1. CASE j = last
            BY <2>2, <2>3, <2>5, <3>2, <4>1, <4>2, <5>1
          <5>2. CASE j \in DOMAIN got[d]
            <6>1. Answer(d, j) = got[d][j].message
              BY <2>2, <5>2 DEF Answer
            <6> QED
              BY <2>1, <2>5, <3>2, <4>1, <4>2, <5>2, <6>1 DEF OneResponse
          <5> QED
            BY <2>2, <4>2, <5>1, <5>2
        <4> QED
          BY <4>1, <4>2
      <3> QED
        BY <2>2, <3>1, <3>2
    <2> QED
      BY <2>4, <2>5
  <1> QED
    BY <1>1, <1>3, <1>4, GotStep

\* ToCome and HasGot after the step.
ToComeThen(c, id) == route'[id] # None /\ route'[id][1] = c
HasGotThen(c, id) == \E i \in DOMAIN got'[c] : SameResponse(got'[c][i].message, id)

LEMMA PlaceAfter ==
  ASSUME shared' = shared,
         \A id \in Ids : route'[id] # None => ~HasGotThen(route'[id][1], id),
         \A k \in Posts : \A i \in DOMAIN queue'[k] : IsResponse(queue'[k][i]) =>
            LET id == Id(queue'[k][i].of) IN
            /\ ~ToComeThen(k[1], id) /\ ~HasGotThen(k[1], id)
            /\ \A l \in Posts : \A j \in DOMAIN queue'[l] :
                 l[1] = k[1] /\ SameResponse(queue'[l][j], id) => l = k /\ j = i
  PROVE  OnePlace'
  <1>1. \A id \in Ids : route'[id] # None => ~(HasGot(route[id][1], id)')
    BY DEF HasGot, HasGotThen, SameResponse, IsResponse, Id
  <1>2. ASSUME NEW k \in Posts, NEW i \in DOMAIN queue'[k], IsResponse(queue'[k][i])
        PROVE  /\ ~(ToCome(k[1], Id(queue[k][i].of))')
               /\ ~(HasGot(k[1], Id(queue[k][i].of))')
               /\ \A l \in Posts : \A j \in DOMAIN queue'[l] :
                    l[1] = k[1] /\ SameResponse(queue[l][j], Id(queue[k][i].of))' => l = k /\ j = i
    BY <1>2 DEF ToCome, ToComeThen, HasGot, HasGotThen, SameResponse, IsResponse, Id
  <1> QED
    BY <1>1, <1>2 DEF OnePlace, IsResponse

\* A response that a client has then it has now, or gains.
LEMMA HasGotStep ==
  ASSUME TypeOK, SessionsOwned, Lined, [Next]_vars, NEW c \in Clients, NEW id,
         HasGotThen(c, id), ~HasGot(c, id)
  PROVE  \E k \in Posts : /\ Takes(k) /\ k[1] = c /\ 1 \in DOMAIN queue[k]
                          /\ SameResponse(queue[k][1], id)
  <1>1. got' # got
    BY DEF HasGot, HasGotThen
  <1>2. PICK k \in Posts : Gains(k)
    BY <1>1, GotStep
  <1>3. Takes(k) /\ 1 \in DOMAIN queue[k]
    BY <1>2, TakesEffect, TakeEffect DEF Gains
  <1>4. PICK i \in DOMAIN got'[c] : SameResponse(got'[c][i].message, id)
    BY DEF HasGotThen
  <1>5. c = k[1]
    BY <1>2, <1>4 DEF Gains, HasGot
  <1>6. i = Len(got[c]) + 1
    BY <1>2, <1>4, <1>5 DEF Gains, HasGot
  <1> QED
    BY <1>2, <1>3, <1>4, <1>5, <1>6 DEF Gains

\* A response that is to come then is to come now, or has never been asked.
LEMMA ToComeStep ==
  ASSUME TypeOK, SessionsOwned, Lined, Arrived, [Next]_vars, NEW c, NEW id \in Ids,
         ToComeThen(c, id), ~ToCome(c, id)
  PROVE  ~Asked(c, id) /\ got' = got /\ queue' = queue
  <1>1. CASE Receive
    <2> DEFINE p == incoming[read + 1]
    <2>1. /\ p \in Posts /\ (route' = route \/ route' = [route EXCEPT ![Id(p)] = via[p]])
          /\ got' = got /\ queue' = queue
      BY <1>1, ReceiveEffect
    <2>2. ~Asked(p[1], Id(p))
      BY <1>1, NotAsked
    <2> HIDE DEF p
    <2>3. id = Id(p) /\ route'[id] = via[p]
      BY <2>1 DEF TypeOK, ToCome, ToComeThen
    <2>4. via[p][1] = p[1]
      BY <2>1, <2>3 DEF SessionsOwned, ToComeThen
    <2> QED
      BY <2>1, <2>2, <2>3, <2>4 DEF ToComeThen
  <1>2. CASE ~Receive
    BY <1>2, RouteStep DEF ToCome, ToComeThen
  <1> QED
    BY <1>1, <1>2

LEMMA ToComeNotGot ==
  ASSUME TypeOK, SessionsOwned, Lined, Outboxes, Arrived, OneResponse, OnePlace, [Next]_vars,
         NEW c \in Clients, NEW id \in Ids, ToComeThen(c, id)
  PROVE  ~HasGotThen(c, id)
  <1>1. CASE ToCome(c, id)
    <2>1. ~HasGot(c, id)
      BY <1>1 DEF OnePlace, ToCome
    <2>2. ASSUME HasGotThen(c, id)
          PROVE  FALSE
      <3>1. PICK k \in Posts : k[1] = c /\ 1 \in DOMAIN queue[k] /\ SameResponse(queue[k][1], id)
        BY <2>1, <2>2, HasGotStep
      <3> QED
        BY <1>1, <3>1 DEF OnePlace, SameResponse
    <2> QED
      BY <2>2
  <1>2. CASE ~ToCome(c, id)
    <2>1. ~Asked(c, id) /\ got' = got
      BY <1>2, ToComeStep
    <2>2. ~HasGot(c, id)
      BY <2>1 DEF HasGot, SameResponse, OneResponse
    <2> QED
      BY <2>1, <2>2 DEF HasGot, HasGotThen
  <1> QED
    BY <1>1, <1>2

\* A response in a channel that was there before.
LEMMA PlacedStays ==
  ASSUME TypeOK, SessionsOwned, Lined, Outboxes, Arrived, Answering, OnePlace, [Next]_vars,
         NEW off \in [Posts -> {0, 1}], NEW k \in Posts, NEW i \in DOMAIN queue'[k],
         off[k] = 1 => Takes(k), Kept(off, k, i),
         NEW id \in Ids, SameResponse(queue'[k][i], id)
  PROVE  /\ ~ToCome(k[1], id) /\ ~ToComeThen(k[1], id) /\ ~HasGotThen(k[1], id)
         /\ \A l \in Posts : \A j \in DOMAIN queue[l] :
              l[1] = k[1] /\ SameResponse(queue[l][j], id) => l = k /\ j = i + off[k]
  <1> DEFINE a == i + off[k]
  <1>1. a \in DOMAIN queue[k] /\ SameResponse(queue[k][a], id) /\ k[1] \in Clients
    BY PostFacts DEF Kept
  <1>2. /\ ~ToCome(k[1], id) /\ ~HasGot(k[1], id) /\ Asked(k[1], id)
        /\ \A l \in Posts : \A j \in DOMAIN queue[l] :
             l[1] = k[1] /\ SameResponse(queue[l][j], id) => l = k /\ j = a
    BY <1>1 DEF OnePlace, SameResponse, Answering
  <1>3. ~ToComeThen(k[1], id)
    BY <1>1, <1>2, ToComeStep
  <1>4. ASSUME HasGotThen(k[1], id)
        PROVE  FALSE
    <2>1. PICK t \in Posts : /\ Takes(t) /\ t[1] = k[1] /\ 1 \in DOMAIN queue[t]
                             /\ SameResponse(queue[t][1], id)
      BY <1>1, <1>2, <1>4, HasGotStep
    <2>2. PICK j \in DOMAIN queue[k] : queue'[k][i] = queue[k][j] /\ ~(k = t /\ j = 1)
      BY <2>1, TakesQueue
    <2> QED
      BY <1>2, <2>1, <2>2
  <1> QED
    BY <1>2, <1>3, <1>4

\* A response that is put there in this step.
LEMMA PlacedNew ==
  ASSUME TypeOK, SessionsOwned, Lined, OnePlace,
         NEW p \in running, NEW k \in Posts, NEW i \in DOMAIN queue'[k], AnswerTo(p, k, i)
  PROVE  /\ p \in Posts /\ Id(p) \in Ids /\ queue'[k][i].of = p
         /\ ToCome(k[1], Id(p)) /\ ~ToComeThen(k[1], Id(p)) /\ ~HasGotThen(k[1], Id(p))
  <1>1. p \in Posts /\ Id(p) \in Ids /\ route'[Id(p)] = None /\ got' = got
    <2>1. /\ p \in Posts /\ Id(p) \in Ids /\ route' = [route EXCEPT ![Id(p)] = None] /\ got' = got
      BY RespondEffect DEF AnswerTo
    <2> QED
      BY <2>1 DEF TypeOK
  <1>2. ToCome(k[1], Id(p)) /\ ~HasGot(k[1], Id(p))
    BY <1>1 DEF AnswerTo, ToCome, OnePlace
  <1> QED
    BY <1>1, <1>2, MessageFacts DEF AnswerTo, ToComeThen, HasGot, HasGotThen

LEMMA OnePlaceStep ==
  ASSUME TypeOK, SessionsOwned, Lined, Outboxes, Arrived, Answering, OneResponse, OnePlace,
         [Next]_vars
  PROVE  OnePlace'
  <1>1. PICK off \in [Posts -> {0, 1}] :
            /\ \A k \in Posts : off[k] = 1 => Takes(k)
            /\ \A k \in Posts : \A i \in DOMAIN queue'[k] :
                  \/ Kept(off, k, i) \/ ToEach(k, i) \/ \E p \in running : AnswerTo(p, k, i)
    BY QueueStep
  <1>2. ASSUME NEW id \in Ids, route'[id] # None
        PROVE  ~HasGotThen(route'[id][1], id)
    <2>1. route'[id][1] \in Clients
      <3>1. route' \in [Ids -> Posts \union {None}]
        BY TypeStep DEF TypeOK
      <3>2. route'[id] \in Posts
        BY <1>2, <3>1
      <3> QED
        BY <3>2, PostFacts
    <2>2. ToComeThen(route'[id][1], id)
      BY <1>2 DEF ToComeThen
    <2>3. \A c \in Clients : ToComeThen(c, id) => ~HasGotThen(c, id)
      BY ToComeNotGot
    <2> QED
      BY <2>1, <2>2, <2>3
  <1>3. ASSUME NEW k \in Posts, NEW i \in DOMAIN queue'[k], NEW id \in Ids,
               SameResponse(queue'[k][i], id)
        PROVE  /\ ~ToComeThen(k[1], id) /\ ~HasGotThen(k[1], id)
               /\ \/ Kept(off, k, i)
                  \/ /\ ToCome(k[1], id) /\ i = Len(queue[k]) + 1
                     /\ \E p \in running : Id(p) = id /\ AnswerTo(p, k, i)
    <2>1. ~ToEach(k, i)
      BY <1>3 DEF ToEach, SameResponse
    <2>2. CASE Kept(off, k, i)
      BY <1>1, <1>3, <2>2, PlacedStays
    <2>3. ASSUME NEW p \in running, AnswerTo(p, k, i)
          PROVE  Id(p) = id
      BY <1>3, <2>3, PlacedNew DEF SameResponse
    <2> QED
      BY <1>1, <1>3, <2>1, <2>2, <2>3, PlacedNew DEF AnswerTo
  <1>4. ASSUME NEW k \in Posts, NEW i \in DOMAIN queue'[k], NEW id \in Ids,
               NEW l \in Posts, NEW j \in DOMAIN queue'[l], l[1] = k[1],
               SameResponse(queue'[k][i], id), SameResponse(queue'[l][j], id)
        PROVE  l = k /\ j = i
    <2>1. CASE Kept(off, k, i) /\ Kept(off, l, j)
      <3>1. j + off[l] \in DOMAIN queue[l] /\ SameResponse(queue[l][j + off[l]], id)
        BY <1>4, <2>1 DEF Kept
      <3>2. l = k /\ j + off[l] = i + off[k]
        BY <1>1, <1>4, <2>1, <3>1, PlacedStays
      <3>3. off[k] \in Nat /\ i \in Nat /\ j \in Nat
        BY <2>1 DEF Kept
      <3> QED
        BY <3>2, <3>3
    <2>2. CASE Kept(off, k, i) /\ ~Kept(off, l, j)
      BY <1>1, <1>3, <1>4, <2>2, PlacedStays
    <2>3. CASE ~Kept(off, k, i) /\ Kept(off, l, j)
      BY <1>1, <1>3, <1>4, <2>3, PlacedStays
    <2>4. CASE ~Kept(off, k, i) /\ ~Kept(off, l, j)
      BY <1>3, <1>4, <2>4 DEF AnswerTo
    <2> QED
      BY <2>1, <2>2, <2>3, <2>4
  <1>5. ASSUME NEW k \in Posts, NEW i \in DOMAIN queue'[k], IsResponse(queue'[k][i])
        PROVE  Id(queue'[k][i].of) \in Ids /\ SameResponse(queue'[k][i], Id(queue'[k][i].of))
    <2>1. queue'[k][i] \in ServerMessages
      BY TypeStep, ElementAt DEF TypeOK
    <2> QED
      BY <1>5, <2>1, MessageFacts, IdFacts DEF SameResponse
  <1>6. ASSUME NEW k \in Posts, NEW i \in DOMAIN queue'[k], IsResponse(queue'[k][i])
        PROVE  LET id == Id(queue'[k][i].of) IN
               /\ ~ToComeThen(k[1], id) /\ ~HasGotThen(k[1], id)
               /\ \A l \in Posts : \A j \in DOMAIN queue'[l] :
                    l[1] = k[1] /\ SameResponse(queue'[l][j], id) => l = k /\ j = i
    BY <1>3, <1>4, <1>5, <1>6
  <1> QED
    BY <1>2, <1>6, IdStays, PlaceAfter

-----------------------------------------------------------------------------
(* Conversation, DirectWhenCalm. *)

\* Conversation, for one client.
UnderWay == {"wire", "begun", "line"}
Talk(c) ==
  /\ \A n \in Numbers : stage[<<c, n>>] \in UnderWay => <<c, n>> \in pending
  /\ \A j \in DOMAIN incoming :
        j > read /\ incoming[j][1] = c /\ kind[incoming[j]] \in Requests => incoming[j] \in pending
  /\ \A p \in running : p[1] = c => p \in pending
  /\ \A k \in Posts : k[1] = c => \A i \in DOMAIN queue[k] :
        IsResponse(queue[k][i]) /\ queue[k][i].of[1] = c /\ queue[k][i].of \in pending

LEMMA TalkConversation ==
  /\ Conversation <=> (~shared => \A c \in Clients \ Foreign : Calm(c) => Talk(c))
  /\ Conversation' <=> (~shared' => \A c \in Clients \ Foreign : Calm(c)' => Talk(c)')
  BY DEF Conversation, Talk, UnderWay

LEMMA CalmBefore ==
  ASSUME TypeOK, SessionsOwned, Lined, [Next]_vars, NEW c, Calm(c)'
  PROVE  /\ Calm(c) /\ casts' = 0 /\ \A p \in lost' : p[1] # c
  BY GrowsStep DEF Grows, Calm

\* What is under way for a client stays its waiting POST's, when its POST waits on.
LEMMA TalkStays ==
  ASSUME NEW c, Talk(c),
         \A q \in pending : q[1] = c => q \in pending',
         \A n \in Numbers : stage'[<<c, n>>] \in UnderWay =>
            stage[<<c, n>>] \in UnderWay \/ <<c, n>> \in pending',
         \A j \in DOMAIN incoming' : j > read' /\ incoming'[j][1] = c =>
            \/ /\ j \in DOMAIN incoming /\ j > read /\ incoming'[j] = incoming[j]
               /\ kind'[incoming[j]] = kind[incoming[j]]
            \/ incoming'[j] \in pending',
         \A p \in running' : p[1] = c => p \in running \/ p \in pending,
         \A k \in Posts : k[1] = c => \A i \in DOMAIN queue'[k] :
            \/ \E j \in DOMAIN queue[k] : queue'[k][i] = queue[k][j]
            \/ /\ IsResponse(queue'[k][i]) /\ queue'[k][i].of[1] = c
               /\ queue'[k][i].of \in pending
  PROVE  Talk(c)'
  <1>1. \A n \in Numbers : stage'[<<c, n>>] \in UnderWay => <<c, n>> \in pending'
    BY DEF Talk
  <1>2. ASSUME NEW j \in DOMAIN incoming', j > read', incoming'[j][1] = c,
               kind'[incoming'[j]] \in Requests
        PROVE  incoming'[j] \in pending'
    BY <1>2 DEF Talk
  <1>3. \A p \in running' : p[1] = c => p \in pending'
    BY DEF Talk
  <1>4. ASSUME NEW k \in Posts, k[1] = c, NEW i \in DOMAIN queue'[k]
        PROVE  /\ IsResponse(queue'[k][i]) /\ queue'[k][i].of[1] = c
               /\ queue'[k][i].of \in pending'
    BY <1>4 DEF Talk
  <1> QED
    BY <1>1, <1>2, <1>3, <1>4 DEF Talk, UnderWay, IsResponse, Requests

\* It is one POST's.
LEMMA TalkOne ==
  ASSUME TypeOK, Waits, NEW c \in Clients \ Foreign, Talk(c), NEW q \in pending, q[1] = c
  PROVE  /\ \A n \in Numbers : stage[<<c, n>>] \in UnderWay => <<c, n>> = q
         /\ \A j \in DOMAIN incoming :
               j > read /\ incoming[j][1] = c /\ kind[incoming[j]] \in Requests => incoming[j] = q
         /\ \A p \in running : p[1] = c => p = q
         /\ \A k \in Posts : k[1] = c => \A i \in DOMAIN queue[k] :
               IsResponse(queue[k][i]) /\ queue[k][i].of = q
  <1>1. \A p \in pending : p[1] = c => p = q
    BY DEF Waits
  <1>2. \A n \in Numbers : <<c, n>>[1] = c
    BY PostFacts
  <1> QED
    BY <1>1, <1>2 DEF Talk

\* When it is answered nothing of the client is under way.
LEMMA TalkOver ==
  ASSUME NEW c,
         \A n \in Numbers : stage'[<<c, n>>] \notin UnderWay,
         \A j \in DOMAIN incoming' :
            j > read' /\ incoming'[j][1] = c => kind'[incoming'[j]] \notin Requests,
         \A p \in running' : p[1] # c,
         \A k \in Posts : k[1] = c => DOMAIN queue'[k] = {}
  PROVE  Talk(c)'
  BY DEF Talk, UnderWay, Requests

LEMMA OwnKind ==
  ASSUME SessionsOwned, NEW p \in Posts, p[1] \notin Foreign
  PROVE  kind[p] \notin Streams
  BY PostFacts DEF SessionsOwned

\* A handler of this library's client that does not reply leaves its POST lost.
LEMMA EndsOwn ==
  ASSUME TypeOK, SessionsOwned, NEW k \in Posts, Ends(k)
  PROVE  \E i \in DOMAIN line[k] :
            /\ Finishes(k, i)
            /\ \/ line[k][i][1] \in Foreign \/ line[k][i] \in lost' \/ line[k][i] \notin pending
  <1>1. CASE StreamEnd(k)
    <2>1. line[k] # <<>> /\ Over(Head(line[k])) /\ Release(k) /\ kind[Head(line[k])] \in Streams
      BY <1>1 DEF StreamEnd, Holds
    <2>2. 1 \in DOMAIN line[k] /\ Head(line[k]) = line[k][1] /\ Finishes(k, 1)
      BY <2>1, ReleaseShorter DEF Finishes, Over
    <2>3. line[k][1][1] \in Foreign
      BY <2>1, <2>2, OwnKind DEF Finishes
    <2> QED
      BY <2>2, <2>3
  <1>2. ASSUME NEW i \in DOMAIN line[k], TimeOut(k, i) \/ Drop(k, i)
        PROVE  Finishes(k, i) /\ (line[k][i] \in lost' \/ line[k][i] \notin pending)
    BY <1>2, LeaveShorter DEF Finishes, Over, TimeOut, Drop
  <1> QED
    BY <1>1, <1>2 DEF Ends

\* One that takes a message ends with it.
LEMMA TakesOwn ==
  ASSUME TypeOK, SessionsOwned, Lined, NEW k \in Posts, Takes(k), k[1] \notin Foreign
  PROVE  LET p == line[k][1] IN
         /\ Finishes(k, 1)
         /\ \/ got' = got
            \/ p \in pending /\ Deliver(p, queue[k][1], p[2]) /\ p[2] \in 0..MaxMessages
         /\ p[2] # 0
  <1> DEFINE p == line[k][1]
  <1>1. line[k] # <<>> /\ Take(k)
    BY DEF Takes, Reply, ReplyCut, StreamNext, Holds
  <1>2. /\ 1 \in DOMAIN line[k] /\ Head(line[k]) = p /\ p \in Posts /\ p[1] = k[1]
        /\ p[2] \in 0..MaxMessages /\ p[2] # 0
        /\ Release(k) => LineShorter(k, 1)
    BY <1>1, HeadLined
  <1>3. Head(queue[k]) = queue[k][1]
    BY <1>1, TakeEffect
  <1>4. kind[p] \notin Streams
    BY <1>2, OwnKind
  <1>5. ~StreamNext(k)
    BY <1>2, <1>4 DEF StreamNext, Holds
  <1> HIDE DEF p
  <1>6. /\ Release(k) /\ Over(p)
        /\ got' = got \/ (p \in pending /\ Deliver(p, queue[k][1], p[2]))
    BY <1>2, <1>3, <1>5 DEF Takes, Reply, ReplyCut
  <1>7. Finishes(k, 1)
    BY <1>2, <1>6 DEF Over, Finishes, p
  <1> QED
    BY <1>2, <1>6, <1>7 DEF p

\* In calm the message is the response to the POST that waits.
LEMMA TakesAnswer ==
  ASSUME TypeOK, SessionsOwned, Lined, Waits, NEW k \in Posts, Takes(k), k[1] \notin Foreign,
         Talk(k[1])
  PROVE  LET p == line[k][1] IN
         /\ p \in pending /\ p \in Posts /\ p[1] = k[1] /\ stage[p] = "line"
         /\ IsResponse(queue[k][1]) /\ queue[k][1].of = p /\ queue[k][1] = Response(p)
         /\ 1 \in DOMAIN queue[k]
  <1> DEFINE p == line[k][1]
  <1>1. /\ p \in Posts /\ p[1] = k[1] /\ stage[p] = "line" /\ Take(k)
        /\ queue[k][1] \in ServerMessages
    BY TakesEffect
  <1>2. 1 \in DOMAIN queue[k] /\ k[1] \in Clients \ Foreign
    BY <1>1, TakeEffect, PostFacts
  <1> HIDE DEF p
  <1>3. p \in pending
    BY <1>1, PostFacts DEF Talk, UnderWay
  <1>4. IsResponse(queue[k][1]) /\ queue[k][1].of = p
    BY <1>1, <1>2, <1>3, TalkOne
  <1> QED
    BY <1>1, <1>2, <1>3, <1>4, MessageFacts DEF p

LEMMA TalkTakes ==
  ASSUME TypeOK, SessionsOwned, Lined, Waits, Arrived, Answering, OnePlace, RunningRouted,
         NEW k \in Posts, Takes(k), k[1] \notin Foreign, ~shared, Talk(k[1])
  PROVE  Talk(k[1])'
  <1> DEFINE c == k[1]
             q == line[k][1]
  <1>1. /\ q \in pending /\ q \in Posts /\ q[1] = c /\ stage[q] = "line"
        /\ IsResponse(queue[k][1]) /\ queue[k][1].of = q /\ 1 \in DOMAIN queue[k]
        /\ c \in Clients \ Foreign
    BY TakesAnswer, PostFacts
  <1>2. /\ via[q] \in Posts /\ via[q] # None /\ via[q][1] = c /\ UNCHANGED <<clientVars, serverVars>>
    BY TakesEffect, PostFacts
  <1>3. stage' = [stage EXCEPT ![q] = "over"]
    BY TakesOwn DEF Finishes
  <1> HIDE DEF c, q
  <1>4. /\ \A n \in Numbers : stage[<<c, n>>] \in UnderWay => <<c, n>> = q
        /\ \A j \in DOMAIN incoming :
              j > read /\ incoming[j][1] = c /\ kind[incoming[j]] \in Requests => incoming[j] = q
        /\ \A p \in running : p[1] = c => p = q
        /\ \A l \in Posts : l[1] = c => \A i \in DOMAIN queue[l] :
              IsResponse(queue[l][i]) /\ queue[l][i].of = q
    BY <1>1, TalkOne DEF c
  <1>5. Asked(c, Id(q)) /\ ~ToCome(c, Id(q)) /\ Id(q) \in Ids
    BY <1>1, IdFacts DEF Answering, OnePlace, c
  <1>6. \A n \in Numbers : stage'[<<c, n>>] \notin UnderWay
    BY <1>1, <1>3, <1>4, PostFacts DEF TypeOK, UnderWay
  <1>7. ASSUME NEW j \in DOMAIN incoming, j > read, incoming[j] = q
        PROVE  FALSE
    <2>1. PICK a \in 1..read : incoming[a][1] = c /\ Id(q) = Id(incoming[a])
      BY <1>5 DEF Asked
    <2>2. a \in DOMAIN incoming /\ a < j /\ incoming[a] \in Posts
      BY <1>7, <2>1, ElementAt DEF TypeOK
    <2>3. incoming[a] = q
      BY <1>1, <2>1, <2>2, IdFacts
    <2> QED
      BY <1>7, <2>2, <2>3 DEF Arrived, InTurn
  <1>8. ASSUME q \in running
        PROVE  FALSE
    <2>1. route[Id(q)] = via[q]
      BY <1>8 DEF RunningRouted
    <2> QED
      BY <1>2, <1>5, <2>1 DEF ToCome
  <1>9. ASSUME NEW l \in Posts, l[1] = c
        PROVE  DOMAIN queue'[l] = {}
    <2>1. ASSUME NEW i \in DOMAIN queue'[l]
          PROVE  FALSE
      <3>1. PICK j \in DOMAIN queue[l] : ~(l = k /\ j = 1)
        BY TakesQueue
      <3>2. IsResponse(queue[l][j]) /\ queue[l][j].of = q
        BY <1>4, <1>9
      <3>3. l = k /\ j = 1
        BY <1>1, <1>9, <3>2 DEF OnePlace, SameResponse, c
      <3> QED
        BY <3>1, <3>3
    <2> QED
      BY <2>1
  <1>10. ASSUME NEW j \in DOMAIN incoming', j > read', incoming'[j][1] = c
         PROVE  kind'[incoming'[j]] \notin Requests
    BY <1>2, <1>4, <1>7, <1>10 DEF serverVars, clientVars
  <1>11. \A p \in running' : p[1] # c
    BY <1>2, <1>4, <1>8 DEF serverVars
  <1> QED
    BY <1>6, <1>9, <1>10, <1>11, TalkOver DEF c

\* A POST that is answered at once was the client's only one, and no request.
LEMMA TalkAnswers ==
  ASSUME TypeOK, SessionsOwned, Lined, Waits, Arrived, Reached,
         NEW q \in Posts, Answers(q), q[1] \notin Foreign, Talk(q[1])
  PROVE  Talk(q[1])'
  <1> DEFINE c == q[1]
  <1>1. /\ stage[q] = "wire" /\ stage' = [stage EXCEPT ![q] = "over"]
        /\ incoming' = incoming \/ (Forward(q) /\ kind[q] = "other")
        /\ UNCHANGED <<clientVars, queue, read, running>>
    BY AnswersEffect
  <1>2. c \in Clients \ Foreign /\ q \in pending
    BY <1>1, PostFacts DEF Talk, UnderWay
  <1>3. ~Handled(q)
    BY <1>1 DEF Handled
  <1> HIDE DEF c
  <1>4. /\ \A n \in Numbers : stage[<<c, n>>] \in UnderWay => <<c, n>> = q
        /\ \A j \in DOMAIN incoming :
              j > read /\ incoming[j][1] = c => kind[incoming[j]] \notin Requests
        /\ \A p \in running : p[1] # c
        /\ \A k \in Posts : k[1] = c => DOMAIN queue[k] = {}
    <2>1. \A j \in DOMAIN incoming : incoming[j] # q
      BY <1>3 DEF Arrived
    <2>2. q \notin running
      BY <1>3 DEF Reached
    <2>3. \A k \in Posts : \A i \in DOMAIN queue[k] :
            ~(IsResponse(queue[k][i]) /\ queue[k][i].of = q)
      BY <1>3 DEF Reached
    <2> QED
      BY <1>2, <2>1, <2>2, <2>3, TalkOne DEF c
  <1>5. \A n \in Numbers : stage'[<<c, n>>] \notin UnderWay
    BY <1>1, <1>2, <1>4, PostFacts DEF TypeOK, UnderWay
  <1>6. ASSUME NEW j \in DOMAIN incoming', j > read', incoming'[j][1] = c
        PROVE  kind'[incoming'[j]] \notin Requests
    <2>1. kind' = kind /\ read' = read
      BY <1>1 DEF clientVars
    <2>2. CASE incoming' = incoming
      BY <1>4, <1>6, <2>1, <2>2
    <2>3. CASE Forward(q) /\ kind[q] = "other"
      <3>1. incoming'[j] = q \/ (j \in DOMAIN incoming /\ incoming'[j] = incoming[j])
        BY <1>6, <2>3, ForwardEffect
      <3> QED
        BY <1>4, <1>6, <2>1, <2>3, <3>1 DEF Requests
    <2> QED
      BY <1>1, <2>2, <2>3
  <1>7. /\ \A p \in running' : p[1] # c
        /\ \A k \in Posts : k[1] = c => DOMAIN queue'[k] = {}
    BY <1>1, <1>4
  <1> QED
    BY <1>5, <1>6, <1>7, TalkOver DEF c

LEMMA TalkStep ==
  ASSUME TypeOK, SessionsOwned, Lined, Outboxes, Waits, Arrived, Reached, Answering, OnePlace,
         RunningRouted, [Next]_vars,
         NEW c \in Clients \ Foreign, ~shared, Talk(c), casts' = 0, \A p \in lost' : p[1] # c
  PROVE  Talk(c)'
  <1> DEFINE Pending == \A q \in pending : q[1] = c => q \in pending'
             Stages == \A n \in Numbers : stage'[<<c, n>>] \in UnderWay =>
                          stage[<<c, n>>] \in UnderWay \/ <<c, n>> \in pending'
  <1>1. ASSUME Pending, Stages, UNCHANGED <<incoming, read, running, queue>>
        PROVE  Talk(c)'
    <2>1. \A j \in DOMAIN incoming : kind'[incoming[j]] = kind[incoming[j]]
      <3>1. \A j \in DOMAIN incoming : incoming[j] \in Posts /\ stage[incoming[j]] # "none"
        BY ElementAt DEF TypeOK, Arrived, Handled
      <3> QED
        BY <3>1, OnwardStep DEF Onward
    <2> QED
      BY <1>1, <2>1, TalkStays
  <1>2. ASSUME NEW d \in Clients, ClientActs(d)
        PROVE  Talk(c)'
    <2>1. UNCHANGED <<incoming, read, running, queue>>
      BY <1>2 DEF ClientActs, Send, SendForeign, PostNext, SkipMessage, serverVars
    <2>2. ASSUME NEW p \in Posts, Leaves(p)
          PROVE  Pending /\ Stages
      <3>1. /\ pending' = pending \union {p} /\ stage' = [stage EXCEPT ![p] = "wire"]
            /\ \A n \in Numbers : <<c, n>> \in Posts
        BY <2>2, PostFacts DEF Leaves
      <3>2. \A n \in Numbers : <<c, n>> = p \/ stage'[<<c, n>>] = stage[<<c, n>>]
        BY <3>1 DEF TypeOK
      <3> QED
        BY <3>1, <3>2
    <2>3. UNCHANGED <<stage, pending, lost>> => Pending /\ Stages
      OBVIOUS
    <2>4. Pending /\ Stages
      BY <1>2, <2>2, <2>3, LeavesStep
    <2> QED
      BY <1>1, <2>1, <2>4
  <1>3. ASSUME NEW p \in Posts, GiveUp(p)
        PROVE  Talk(c)'
    <2>1. p[1] # c /\ pending' = pending \ {p} /\ UNCHANGED <<stage, incoming, read, running, queue>>
      BY <1>3 DEF GiveUp, serverVars
    <2> QED
      BY <1>1, <2>1
  <1>4. ASSUME NEW p \in Posts, stage[p] = "wire", NEW x, stage' = [stage EXCEPT ![p] = x],
               incoming' = incoming \/ Forward(p), Pending,
               UNCHANGED <<kind, read, running, queue>>,
               p \in pending' \/ p[1] # c
        PROVE  Talk(c)'
    <2>1. Stages
      <3>1. \A n \in Numbers : <<c, n>> = p \/ stage'[<<c, n>>] = stage[<<c, n>>]
        BY <1>4, PostFacts DEF TypeOK
      <3>2. stage[p] \in UnderWay
        BY <1>4 DEF UnderWay
      <3> QED
        BY <3>1, <3>2
    <2>2. ASSUME NEW j \in DOMAIN incoming', j > read', incoming'[j][1] = c
          PROVE  \/ j \in DOMAIN incoming /\ j > read /\ incoming'[j] = incoming[j]
                 \/ incoming'[j] \in pending'
      <3>1. \/ j \in DOMAIN incoming /\ incoming'[j] = incoming[j]
            \/ incoming'[j] = p
        BY <1>4, <2>2, ForwardEffect
      <3> QED
        BY <1>4, <2>2, <3>1
    <2> QED
      BY <1>4, <2>1, <2>2, TalkStays
  <1>5. ASSUME NEW p \in Posts, HandleInit(p) \/ Begins(p)
        PROVE  Talk(c)'
    <2>1. /\ stage[p] = "wire" /\ stage' = [stage EXCEPT ![p] = "begun"]
          /\ incoming' = incoming \/ Forward(p)
          /\ UNCHANGED <<clientVars, pending, read, running, queue>>
      BY <1>5, InitEffect, BeginsEffect
    <2>2. p \in pending \/ p[1] # c
      BY <2>1, PostFacts DEF Talk, UnderWay
    <2> QED
      BY <1>4, <2>1, <2>2 DEF clientVars
  <1>6. ASSUME NEW p \in Posts, Answers(p)
        PROVE  Talk(c)'
    <2>1. CASE p[1] = c
      BY <1>6, <2>1, TalkAnswers
    <2>2. CASE p[1] # c
      <3>1. /\ stage[p] = "wire" /\ stage' = [stage EXCEPT ![p] = "over"]
            /\ pending' = pending \ {p} /\ (incoming' = incoming \/ Forward(p))
            /\ UNCHANGED <<clientVars, read, running, queue>>
        BY <1>6, AnswersEffect
      <3> QED
        BY <1>4, <2>2, <3>1 DEF clientVars
    <2> QED
      BY <2>1, <2>2
  <1>7. ASSUME NEW p \in Posts, Attach(p)
        PROVE  Talk(c)'
    <2>1. /\ stage[p] = "begun" /\ stage' = [stage EXCEPT ![p] = "line"]
          /\ UNCHANGED <<pending, incoming, read, running, queue>>
      BY <1>7 DEF Attach, serverVars
    <2>2. Stages
      BY <2>1, PostFacts DEF TypeOK, UnderWay
    <2> QED
      BY <1>1, <2>1, <2>2
  <1>8. ASSUME NEW k \in Posts, NEW i \in DOMAIN line[k], Finishes(k, i),
               line[k][i] \in pending => line[k][i][1] # c
        PROVE  Pending /\ Stages
    <2>1. /\ line[k][i] \in Posts /\ stage' = [stage EXCEPT ![line[k][i]] = "over"]
          /\ pending' = pending \ {line[k][i]}
      BY <1>8 DEF Finishes
    <2>2. stage[line[k][i]] = "line"
      BY DEF Lined
    <2>3. \A n \in Numbers : stage'[<<c, n>>] = "over" \/ stage'[<<c, n>>] = stage[<<c, n>>]
      BY <2>1, PostFacts DEF TypeOK
    <2>4. "over" \notin UnderWay
      BY DEF UnderWay
    <2> QED
      BY <1>8, <2>1, <2>3, <2>4
  <1>9. ASSUME NEW k \in Posts, Ends(k)
        PROVE  Talk(c)'
    <2>1. PICK i \in DOMAIN line[k] :
            /\ Finishes(k, i)
            /\ line[k][i][1] \in Foreign \/ line[k][i] \in lost' \/ line[k][i] \notin pending
      BY <1>9, EndsOwn
    <2>2. line[k][i] \in pending => line[k][i][1] # c
      BY <2>1
    <2>3. UNCHANGED <<incoming, read, running, queue>>
      BY <1>9, EndsEffect DEF serverVars
    <2> QED
      BY <1>1, <1>8, <2>1, <2>2, <2>3
  <1>10. ASSUME NEW k \in Posts, Takes(k)
         PROVE  Talk(c)'
    <2>1. CASE k[1] = c
      BY <1>10, <2>1, TalkTakes
    <2>2. CASE k[1] # c
      <3>1. /\ 1 \in DOMAIN line[k] /\ line[k][1][1] = k[1]
            /\ Finishes(k, 1) \/ UNCHANGED <<stage, pending, line>>
            /\ UNCHANGED <<clientVars, incoming, read, running>>
        BY <1>10, TakesEffect DEF serverVars
      <3>2. Pending /\ Stages
        BY <1>8, <2>2, <3>1
      <3>3. \A l \in Posts : \A i \in DOMAIN queue'[l] :
              \E j \in DOMAIN queue[l] : queue'[l][i] = queue[l][j]
        BY <1>10, TakesQueue
      <3> QED
        BY <3>1, <3>2, <3>3, TalkStays DEF clientVars
    <2> QED
      BY <2>1, <2>2
  <1>11. CASE Receive
    <2> DEFINE p == incoming[read + 1]
    <2>1. /\ p \in Posts /\ read + 1 \in DOMAIN incoming /\ read' = read + 1 /\ read \in Nat
          /\ DOMAIN incoming = 1..Len(incoming)
          /\ \/ kind[p] \in Requests /\ running' = running \union {p}
             \/ running' = running
          /\ UNCHANGED <<clientVars, postVars, queue, incoming>>
      BY <1>11, ReceiveEffect
    <2>2. kind[p] \in Requests /\ p[1] = c => p \in pending
      BY <2>1 DEF Talk
    <2>3. \A q \in running' : q[1] = c => q \in running \/ q \in pending
      BY <2>1, <2>2
    <2>4. UNCHANGED <<stage, pending, kind, incoming, queue>>
      BY <2>1 DEF clientVars, postVars
    <2>5. \A j \in DOMAIN incoming : j > read' => j > read
      BY <2>1
    <2> QED
      BY <2>3, <2>4, <2>5, TalkStays
  <1>12. ~Casts
    BY CastsEffect
  <1>13. CASE Stop
    <2>1. running' = {} /\ UNCHANGED <<stage, pending, kind, incoming, read, queue>>
      BY <1>13 DEF Stop, postVars, clientVars
    <2> QED
      BY <2>1, TalkStays
  <1>14. ASSUME NEW p \in running, Respond(p)
         PROVE  Talk(c)'
    <2>1. running' = running \ {p} /\ UNCHANGED <<stage, pending, kind, incoming, read>>
      BY <1>14 DEF Respond, postVars, clientVars
    <2>2. ASSUME NEW k \in Posts, k[1] = c, NEW i \in DOMAIN queue'[k]
          PROVE  \/ \E j \in DOMAIN queue[k] : queue'[k][i] = queue[k][j]
                 \/ /\ IsResponse(queue'[k][i]) /\ queue'[k][i].of[1] = c
                    /\ queue'[k][i].of \in pending
      <3>1. PICK off \in [Posts -> {0, 1}] :
                Kept(off, k, i) \/ ToEach(k, i) \/ \E q \in running : AnswerTo(q, k, i)
        BY QueueStep
      <3>2. ASSUME NEW q \in running, AnswerTo(q, k, i)
            PROVE  /\ IsResponse(queue'[k][i]) /\ queue'[k][i].of[1] = c
                   /\ queue'[k][i].of \in pending
        <4>1. /\ q \in Posts /\ IsResponse(queue'[k][i]) /\ queue'[k][i].of = q
              /\ k[1] = route[Id(q)][1] /\ route[Id(q)] # None /\ route[Id(q)] = via[q]
          BY <3>2, MessageFacts DEF AnswerTo, RunningRouted, TypeOK
        <4>2. via[q][1] = q[1]
          BY <4>1 DEF SessionsOwned
        <4> QED
          BY <2>2, <4>1, <4>2 DEF Talk
      <3> QED
        BY <3>1, <3>2 DEF Kept, ToEach
    <2> QED
      BY <2>1, <2>2, TalkStays
  <1>15. UNCHANGED vars => Pending /\ Stages /\ UNCHANGED <<incoming, read, running, queue>>
    BY DEF vars, postVars, serverVars
  <1> QED
    BY <1>1, <1>2, <1>3, <1>5, <1>6, <1>7, <1>9, <1>10, <1>11, <1>12, <1>13, <1>14, <1>15, StepCases
    DEF ClientActs

LEMMA ConversationStep ==
  ASSUME TypeOK, SessionsOwned, Lined, Outboxes, Waits, Arrived, Reached, Answering, OnePlace,
         RunningRouted, Conversation, [Next]_vars
  PROVE  Conversation'
  <1>1. ASSUME NEW c \in Clients \ Foreign, ~shared, Calm(c)'
        PROVE  Talk(c)'
    <2>1. Calm(c) /\ casts' = 0 /\ \A p \in lost' : p[1] # c
      BY <1>1, CalmBefore
    <2>2. Talk(c)
      BY <1>1, <2>1, TalkConversation
    <2> QED
      BY <1>1, <2>1, <2>2, TalkStep
  <1> QED
    BY <1>1, IdStays, TalkConversation

LEMMA DirectStep ==
  ASSUME TypeOK, SessionsOwned, Lined, Waits, Conversation, DirectWhenCalm, [Next]_vars
  PROVE  DirectWhenCalm'
  <1> SUFFICES ASSUME ~shared, NEW c \in Clients \ Foreign, Calm(c)',
                      NEW i \in DOMAIN got'[c], got'[c][i].to # 0
               PROVE  got'[c][i].message = Response(<<c, got'[c][i].to>>)
    BY IdStays DEF DirectWhenCalm, Response
  <1>1. Calm(c)
    BY CalmBefore
  <1>2. CASE got'[c] = got[c]
    BY <1>1, <1>2 DEF DirectWhenCalm
  <1>3. CASE got'[c] # got[c]
    <2>1. PICK k \in Posts : Gains(k)
      BY <1>3, GotStep
    <2>2. Takes(k) /\ k[1] = c
      BY <1>3, <2>1 DEF Gains
    <2> DEFINE p == line[k][1]
               m == queue[k][1]
               n == p[2]
    <2>3. Talk(c)
      BY <1>1, TalkConversation
    <2>4. /\ p \in Posts /\ p[1] = c /\ m = Response(p)
      BY <2>2, <2>3, TakesAnswer
    <2>5. /\ got' = got \/ Deliver(p, m, n)
          /\ n \in 0..MaxMessages /\ m \in ServerMessages
      BY <2>2, <2>4, TakesOwn, TakesEffect, PostFacts
    <2>6. p = <<c, n>>
      BY <2>4, PostFacts
    <2> HIDE DEF p, m, n
    <2>7. /\ DOMAIN got[c] = 1..Len(got[c]) /\ Len(got[c]) \in Nat
          /\ DOMAIN got'[c] = 1..(Len(got[c]) + 1)
          /\ \A j \in DOMAIN got[c] : got'[c][j] = got[c][j]
          /\ got'[c][Len(got[c]) + 1].message = m
          /\ got'[c][Len(got[c]) + 1].to = n
      <3>1. Deliver(p, m, n)
        BY <1>3, <2>5
      <3>2. LET d == p[1] IN
            /\ DOMAIN got[d] = 1..Len(got[d]) /\ Len(got[d]) \in Nat
            /\ DOMAIN got'[d] = 1..(Len(got[d]) + 1)
            /\ \A j \in DOMAIN got[d] : got'[d][j] = got[d][j]
            /\ got'[d][Len(got[d]) + 1].message = m
            /\ got'[d][Len(got[d]) + 1].to = n
        BY <2>4, <2>5, <3>1, DeliverEffect
      <3> QED
        BY <2>4, <3>2
    <2>8. CASE i \in DOMAIN got[c]
      BY <1>1, <2>7, <2>8 DEF DirectWhenCalm
    <2>9. CASE i = Len(got[c]) + 1
      BY <2>4, <2>6, <2>7, <2>9
    <2> QED
      BY <2>7, <2>8, <2>9
  <1> QED
    BY <1>2, <1>3

-----------------------------------------------------------------------------
(* The inductive invariant, and what follows. *)

Inductive == HttpInv /\ Routed /\ OneResponse /\ DirectWhenCalm

LEMMA InitInductive ==
  ASSUME Init
  PROVE  Inductive
  <1> USE HttpBounds DEF Init
  <1>1. TypeOK
    <2>1. 0 \in 0..MaxMessages /\ 0 \in 0..Len(<<>>) /\ "other" \in Types
      BY DEF Types
    <2>2. /\ sent \in [Clients -> 0..MaxMessages] /\ kind \in [Posts -> Types]
          /\ sid \in [Clients -> Posts \union {None}] /\ via \in [Posts -> Posts \union {None}]
          /\ current \in [Posts -> Posts \union {None}] /\ route \in [Ids -> Posts \union {None}]
          /\ stage \in [Posts -> {"none", "wire", "begun", "line", "over"}]
      BY <2>1
    <2>3. /\ outbox \in [Clients -> Seq(Numbers)] /\ line \in [Posts -> Seq(Posts)]
          /\ queue \in [Posts -> Seq(ServerMessages)] /\ incoming \in Seq(Posts)
      OBVIOUS
    <2>4. got \in [Clients -> Seq([message : ServerMessages, to : 0..MaxMessages])]
      OBVIOUS
    <2> QED
      BY <2>1, <2>2, <2>3, <2>4 DEF TypeOK
  <1>2. SessionsOwned /\ Lined
    BY PostFacts DEF SessionsOwned, Lined, Streams
  <1>3. Outboxes /\ Waits /\ Overtaken /\ Arrived
    BY DEF Outboxes, Waits, Overtaken, Arrived
  <1>4. Reached /\ Answering /\ OnePlace
    BY DEF Reached, Answering, OnePlace
  <1>5. RunningRouted /\ Conversation
    BY PostFacts DEF RunningRouted, Conversation
  <1>6. OneResponse /\ DirectWhenCalm /\ Routed
    BY DEF OneResponse, DirectWhenCalm, Routed, RoutedAlways
  <1> QED
    BY <1>1, <1>2, <1>3, <1>4, <1>5, <1>6 DEF Inductive, HttpInv

LEMMA StepInductive ==
  ASSUME Inductive, [Next]_vars
  PROVE  Inductive'
  <1>1. /\ TypeOK /\ SessionsOwned /\ Lined /\ Outboxes /\ Waits /\ Overtaken /\ Arrived
        /\ Reached /\ Answering /\ OnePlace /\ RunningRouted /\ Conversation
        /\ Routed /\ OneResponse /\ DirectWhenCalm
    BY DEF Inductive, HttpInv
  <1>2. TypeOK' /\ SessionsOwned' /\ Lined'
    BY <1>1, TypeStep, OwnedStep, LinedStep
  <1>3. Outboxes' /\ Waits' /\ Overtaken' /\ Arrived'
    BY <1>1, OutboxStep, WaitsStep, OvertakenStep, ArrivedStep
  <1>4. Reached' /\ RunningRouted' /\ Routed'
    BY <1>1, ReachedStep, RunningRoutedStep, RoutedStep
  <1>5. Answering' /\ OneResponse' /\ OnePlace'
    BY <1>1, AnsweringStep, OneResponseStep, OnePlaceStep
  <1>6. Conversation' /\ DirectWhenCalm'
    BY <1>1, ConversationStep, DirectStep
  <1> QED
    BY <1>2, <1>3, <1>4, <1>5, <1>6 DEF Inductive, HttpInv

LEMMA AlwaysInductive == Spec => []Inductive
  BY InitInductive, StepInductive, PTL DEF Spec

\* The invariant the other theorems rest on: whose a session and a place in a line
\* are, what a POST still on the wire may have been overtaken by, that the server
\* answers what has reached it, that a response is in one place, and that in calm
\* all that is under way belongs to the POST that waits.
THEOREM HttpInvariance == Spec => []HttpInv
  <1>1. Inductive => HttpInv
    BY DEF Inductive
  <1> QED
    BY <1>1, AlwaysInductive, PTL

\* http.rs:525: as long as no two clients use the same id, every response waits in a
\* channel of the session its request came in, through sessions made anew, errors,
\* late POSTs and a stop.
THEOREM ResponsesRouted == Spec => []Routed
  <1>1. Inductive => Routed
    BY DEF Inductive
  <1> QED
    BY <1>1, AlwaysInductive, PTL

\* Even with shared ids a client gets a response only to what it asked, and gets one
\* response for an id, through POSTs and streams together.
THEOREM ResponsesOnce == Spec => []OneResponse
  <1>1. Inductive => OneResponse
    BY DEF Inductive
  <1> QED
    BY <1>1, AlwaysInductive, PTL

\* However late POSTs are read, none is read twice; and a message of this library's
\* client that is read after a later one is one whose POST http_task gave up
\* (http.rs:334).
THEOREM MessagesInOrder == Spec => []InOrder
  <1>1. Inductive => InOrder
    BY ArrivedInOrder DEF Inductive, HttpInv
  <1> QED
    BY <1>1, AlwaysInductive, PTL

\* http.rs:696: what handle_post returns for a request of this library's client is
\* the response to it, as long as nothing has been sent to all sessions, the client
\* has given up no POST, and no two clients use one id.
THEOREM DirectReplies == Spec => []DirectWhenCalm
  <1>1. Inductive => DirectWhenCalm
    BY DEF Inductive
  <1> QED
    BY <1>1, AlwaysInductive, PTL
=============================================================================
