----------------------- MODULE ServerConnectionProofs -----------------------
(***************************************************************************)
(* Proofs about ServerConnection, for any number of requests and           *)
(* notifications and any capacity of the channel and the wire.             *)
(***************************************************************************)
EXTENDS ServerConnection, TLAPS

-----------------------------------------------------------------------------
(* Sequences. *)

Contains(s, x) == \E k \in 1..Len(s) : s[k] = x
Distinct(s) == \A i, j \in 1..Len(s) : s[i] = s[j] => i = j

LEMMA AppendFacts ==
  ASSUME NEW S, NEW s \in Seq(S), NEW x \in S
  PROVE  /\ Append(s, x) \in Seq(S)
         /\ Len(s) \in Nat /\ Len(Append(s, x)) = Len(s) + 1
         /\ \A k \in 1..Len(s) : Append(s, x)[k] = s[k]
         /\ Append(s, x)[Len(s) + 1] = x
  OBVIOUS

LEMMA TailFacts ==
  ASSUME NEW S, NEW s \in Seq(S), s # <<>>
  PROVE  /\ Tail(s) \in Seq(S) /\ Head(s) \in S
         /\ Len(s) \in Nat /\ Len(s) >= 1 /\ Len(Tail(s)) = Len(s) - 1
         /\ Head(s) = s[1]
         /\ \A k \in 1..Len(Tail(s)) : k + 1 \in 1..Len(s) /\ Tail(s)[k] = s[k + 1]
  OBVIOUS

LEMMA AppendContains ==
  ASSUME NEW S, NEW s \in Seq(S), NEW x \in S, NEW y
  PROVE  Contains(Append(s, x), y) <=> Contains(s, y) \/ y = x
  <1> DEFINE t == Append(s, x)
  <1>1. ASSUME Contains(s, y) PROVE Contains(t, y)
    <2>1. PICK k \in 1..Len(s) : s[k] = y
      BY <1>1 DEF Contains
    <2>2. k \in 1..Len(t) /\ t[k] = y
      BY <2>1, AppendFacts
    <2> QED
      BY <2>2 DEF Contains
  <1>2. ASSUME y = x PROVE Contains(t, y)
    <2>1. Len(s) + 1 \in 1..Len(t) /\ t[Len(s) + 1] = y
      BY <1>2, AppendFacts
    <2> QED
      BY <2>1 DEF Contains
  <1>3. ASSUME Contains(t, y), y # x PROVE Contains(s, y)
    <2>1. PICK k \in 1..Len(t) : t[k] = y
      BY <1>3 DEF Contains
    <2>2. k \in 1..Len(s) /\ s[k] = y
      BY <1>3, <2>1, AppendFacts
    <2> QED
      BY <2>2 DEF Contains
  <1> QED
    BY <1>1, <1>2, <1>3

LEMMA TailContains ==
  ASSUME NEW S, NEW s \in Seq(S), s # <<>>, NEW y
  PROVE  Contains(s, y) <=> Contains(Tail(s), y) \/ y = Head(s)
  <1>1. ASSUME Contains(Tail(s), y) PROVE Contains(s, y)
    <2>1. PICK k \in 1..Len(Tail(s)) : Tail(s)[k] = y
      BY <1>1 DEF Contains
    <2>2. k + 1 \in 1..Len(s) /\ s[k + 1] = y
      BY <2>1, TailFacts
    <2> QED
      BY <2>2 DEF Contains
  <1>2. ASSUME y = Head(s) PROVE Contains(s, y)
    <2>1. 1 \in 1..Len(s) /\ s[1] = y
      BY <1>2, TailFacts
    <2> QED
      BY <2>1 DEF Contains
  <1>3. ASSUME Contains(s, y), y # Head(s) PROVE Contains(Tail(s), y)
    <2>1. PICK k \in 1..Len(s) : s[k] = y
      BY <1>3 DEF Contains
    <2>2. k # 1
      BY <1>3, <2>1, TailFacts
    <2>3. k - 1 \in 1..Len(Tail(s)) /\ Tail(s)[k - 1] = s[(k - 1) + 1]
      BY <2>1, <2>2, TailFacts
    <2> QED
      BY <2>1, <2>3 DEF Contains
  <1> QED
    BY <1>1, <1>2, <1>3

LEMMA AppendDistinct ==
  ASSUME NEW S, NEW s \in Seq(S), NEW x \in S, Distinct(s), ~Contains(s, x)
  PROVE  Distinct(Append(s, x))
  <1> SUFFICES ASSUME NEW i \in 1..Len(Append(s, x)), NEW j \in 1..Len(Append(s, x)),
                      Append(s, x)[i] = Append(s, x)[j]
               PROVE  i = j
    BY DEF Distinct
  <1>1. \A k \in 1..Len(s) : s[k] # x
    BY DEF Contains
  <1> QED
    BY <1>1, AppendFacts DEF Distinct

LEMMA TailDistinct ==
  ASSUME NEW S, NEW s \in Seq(S), s # <<>>, Distinct(s)
  PROVE  Distinct(Tail(s)) /\ ~Contains(Tail(s), Head(s))
  <1>1. Distinct(Tail(s))
    <2> SUFFICES ASSUME NEW i \in 1..Len(Tail(s)), NEW j \in 1..Len(Tail(s)),
                        Tail(s)[i] = Tail(s)[j]
                 PROVE  i = j
      BY DEF Distinct
    <2>1. i + 1 \in 1..Len(s) /\ j + 1 \in 1..Len(s) /\ s[i + 1] = s[j + 1]
      BY TailFacts
    <2> QED
      BY <2>1 DEF Distinct
  <1>2. ASSUME NEW k \in 1..Len(Tail(s)) PROVE Tail(s)[k] # Head(s)
    <2>1. k + 1 \in 1..Len(s) /\ 1 \in 1..Len(s) /\ Tail(s)[k] = s[k + 1] /\ Head(s) = s[1]
      BY TailFacts
    <2> QED
      BY <2>1 DEF Distinct
  <1> QED
    BY <1>1, <1>2 DEF Contains

LEMMA AppendAscending ==
  ASSUME NEW S, NEW s \in Seq(S), NEW x \in S, Ascending(s),
         \A k \in 1..Len(s) : s[k][1] < x[1]
  PROVE  Ascending(Append(s, x))
  <1> DEFINE t == Append(s, x)
  <1> SUFFICES ASSUME NEW i \in 1..Len(t), NEW j \in 1..Len(t), i < j
               PROVE  t[i][1] < t[j][1]
    BY DEF Ascending
  <1>1. /\ Len(s) \in Nat /\ Len(t) = Len(s) + 1 /\ t[Len(s) + 1] = x
        /\ \A k \in 1..Len(s) : t[k] = s[k]
    BY AppendFacts
  <1>2. i \in 1..Len(s) /\ t[i] = s[i]
    BY <1>1
  <1>3. CASE j = Len(s) + 1
    BY <1>1, <1>2, <1>3
  <1>4. CASE j \in 1..Len(s)
    BY <1>1, <1>2, <1>4 DEF Ascending
  <1> QED
    BY <1>1, <1>3, <1>4

LEMMA TailAscending ==
  ASSUME NEW S, NEW s \in Seq(S), s # <<>>, Ascending(s)
  PROVE  Ascending(Tail(s)) /\ \A k \in 1..Len(Tail(s)) : Head(s)[1] < Tail(s)[k][1]
  <1>1. /\ 1 \in 1..Len(s) /\ Head(s) = s[1]
        /\ \A k \in 1..Len(Tail(s)) : k + 1 \in 1..Len(s) /\ Tail(s)[k] = s[k + 1]
    BY TailFacts
  <1> QED
    BY <1>1 DEF Ascending

-----------------------------------------------------------------------------
(* Messages. *)

LEMMA MessageFacts ==
  /\ \A r : Request(r).type = "request" /\ Request(r).of = r
  /\ \A r : Response(r).type = "response" /\ Response(r).of = r
  /\ \A a : Reply(a).type = "reply" /\ Reply(a).of = a
  /\ \A a : Ask(a).type = "ask" /\ Ask(a).of = a
  /\ \A n : Note(n).type = "note" /\ Note(n).number = n[1] /\ Note(n).kind = n[2]
  /\ ClientNote.type = "note" /\ NoMessage.type = "none"
  BY DEF Request, Response, Reply, Ask, Note, ClientNote, NoMessage

LEMMA InboundFacts ==
  ASSUME NEW m \in InboundMessages
  PROVE  \/ \E r \in Requests : m = Request(r)
         \/ \E a \in Askers : m = Reply(a)
         \/ m = ClientNote
  BY DEF InboundMessages

\* What the loop does with a message of the client's.
LEMMA DispatchEffect ==
  ASSUME NEW m \in InboundMessages, Dispatch(m)
  PROVE  \/ /\ \E r \in Requests : m = Request(r) /\ task' = [task EXCEPT ![r] = "running"]
            /\ phase' = "select" /\ message' = NoMessage /\ pending' = pending
         \/ /\ m = ClientNote
            /\ phase' = "on_notification" /\ message' = m
            /\ task' = task /\ pending' = pending
         \/ /\ \E a \in Askers : m = Reply(a) /\ pending' = pending \ {a}
            /\ phase' = "select" /\ message' = NoMessage /\ task' = task
  <1>1. CASE \E r \in Requests : m = Request(r)
    BY <1>1, MessageFacts DEF Dispatch
  <1>2. CASE \E a \in Askers : m = Reply(a)
    BY <1>2, MessageFacts DEF Dispatch
  <1>3. CASE m = ClientNote
    BY <1>3, MessageFacts DEF Dispatch
  <1> QED
    BY <1>1, <1>2, <1>3, InboundFacts

\* The steps that leave the loop, and nothing else.
Leaves == Cancelled \/ ReadEnds \/ OnConnectFails \/ SendBreaks

LEMMA LeavesEffect ==
  ASSUME Leaves
  PROVE  /\ phase' = IF factory THEN "on_shutdown" ELSE "stopped"
         /\ phase \in InHook \union {"select", "sending"}
         /\ message' = NoMessage
         /\ UNCHANGED <<connected, factory, hooks, handle, linkVars, taskVars, noteVars, answers>>
  BY DEF Leaves, Cancelled, ReadEnds, OnConnectFails, SendBreaks, Break, HookDone, InHook

\* The steps that end the loop's task: what is queued is lost.
Ends == OnShutdown \/ HookPanics

LEMMA EndsEffect ==
  ASSUME Ends
  PROVE  /\ phase \in InHook \union {"on_shutdown"} /\ Ended'
         /\ phase' = IF phase = "on_shutdown" THEN "stopped" ELSE "panicked"
         /\ message' \in {message, NoMessage}
         /\ phase \in InHook => message' = NoMessage
         /\ hooks' = IF phase = "on_shutdown" THEN [hooks EXCEPT !["on_shutdown"] = @ + 1]
                     ELSE hooks
         /\ responses' = <<>> /\ ring' = <<>>
         /\ UNCHANGED <<connected, factory, handle, linkVars, task, pending, issued, lagged,
                        noted, answers>>
  BY DEF Ends, OnShutdown, HookPanics, HookDone, InHook, Ended

\* The steps of a handler: it asks, sends what it asks, ends, or notifies.
LEMMA HandlerEffect ==
  ASSUME NEW r \in Requests, HandlerStep(r)
  PROVE  /\ UNCHANGED <<loopVars, handle, inbound, reading, writing, answers, noted>>
         /\ \/ /\ task[r] = "running" /\ task' = [task EXCEPT ![r] = "asking"]
               /\ pending' = pending \union {r}
               /\ UNCHANGED <<wire, responses, ring, issued>>
            \/ /\ task[r] = "asking" /\ task' = [task EXCEPT ![r] = "waiting"]
               /\ Put(Ask(r))
               /\ UNCHANGED <<pending, responses, ring, issued>>
            \/ /\ task[r] \in {"running", "asking", "waiting"}
               /\ task' = [task EXCEPT ![r] = "returned"]
               /\ responses' = IF Ended THEN responses
                               ELSE Append(responses, Response(r))
               /\ UNCHANGED <<wire, pending, ring, issued>>
            \/ /\ task[r] \in {"running", "asking", "waiting"}
               /\ task' = [task EXCEPT ![r] = "panicked"]
               /\ UNCHANGED <<wire, pending, responses, ring, issued>>
            \/ /\ UNCHANGED <<wire, task, pending, responses>>
               /\ \E kind \in Kinds : Issue(kind)
  <1>1. CASE HandlerAsks(r)
    BY <1>1 DEF HandlerAsks, linkVars, noteVars
  <1>2. CASE HandlerSends(r)
    BY <1>2 DEF HandlerSends, linkVars, noteVars
  <1>3. CASE HandlerReturns(r)
    BY <1>3 DEF HandlerReturns, HandlerDone, linkVars, noteVars
  <1>4. CASE HandlerPanics(r)
    BY <1>4 DEF HandlerPanics, HandlerDone, linkVars, noteVars
  <1>5. CASE \E kind \in Kinds : HandlerNotifies(r, kind)
    BY <1>5 DEF HandlerNotifies, Issue, linkVars, taskVars
  <1> QED
    BY <1>1, <1>2, <1>3, <1>4, <1>5 DEF HandlerStep

-----------------------------------------------------------------------------
(* Types, and what the loop holds. *)

LEMMA OutboundFacts ==
  /\ \A r \in Requests : Response(r) \in OutboundMessages
  /\ \A a \in Askers : Ask(a) \in OutboundMessages
  /\ \A n \in Notes : Note(n) \in OutboundMessages
  /\ \A r \in Requests : Request(r) \in InboundMessages
  /\ \A a \in Askers : Reply(a) \in InboundMessages
  /\ ClientNote \in InboundMessages
  BY DEF OutboundMessages, InboundMessages

LEMMA PutType ==
  ASSUME TypeOK, NEW m \in OutboundMessages, Put(m)
  PROVE  wire' \in Seq(OutboundMessages) /\ Len(wire') <= WireSize
  BY ServerBounds, AppendFacts DEF TypeOK, Put, CanSend

LEMMA IssueType ==
  ASSUME TypeOK, NEW kind \in Kinds, Issue(kind)
  PROVE  /\ issued' \in 0..MaxNotes /\ lagged' \in BOOLEAN /\ noted' = noted
         /\ ring' \in Seq(Notes) /\ Len(ring') <= Capacity
  <1> DEFINE n == <<issued + 1, kind>>
             kept == Append(ring, n)
  <1>1. issued + 1 \in 1..MaxNotes /\ n \in Notes
    BY ServerBounds DEF Issue, TypeOK, Notes
  <1>2. ring \in Seq(Notes) /\ Len(ring) <= Capacity
    BY DEF TypeOK
  <1>3. kept \in Seq(Notes) /\ Len(ring) \in Nat /\ Len(kept) = Len(ring) + 1
    BY <1>1, <1>2, AppendFacts
  <1>4. kept # <<>>
    BY <1>3
  <1>5. Tail(kept) \in Seq(Notes) /\ Len(Tail(kept)) = Len(ring)
    BY <1>3, <1>4, TailFacts
  <1>6. /\ ring' = IF Len(ring) = Capacity THEN Tail(kept) ELSE kept
        /\ issued' = issued + 1 /\ noted' = noted
    BY DEF Issue
  <1>7. lagged' \in BOOLEAN
    BY DEF Issue, TypeOK
  <1>8. ring' \in Seq(Notes) /\ Len(ring') <= Capacity
    BY <1>2, <1>3, <1>5, <1>6, ServerBounds
  <1> QED
    BY <1>1, <1>6, <1>7, <1>8, ServerBounds

LEMMA TypeStep ==
  ASSUME TypeOK, Holding, [Next]_vars
  PROVE  TypeOK' /\ Holding'
  <1> USE ServerBounds
  <1>1. CASE Leaves
    <2>1. TypeOK'
      BY <1>1, LeavesEffect DEF TypeOK, Phases, linkVars, taskVars, noteVars
    <2> QED
      BY <1>1, <2>1, LeavesEffect DEF Holding, InHook
  <1>2. CASE ReadMessage
    <2>1. Head(inbound) \in InboundMessages /\ Tail(inbound) \in Seq(InboundMessages)
      BY <1>2, TailFacts DEF ReadMessage, TypeOK
    <2>2. CASE ~factory
      BY <1>2, <2>1, <2>2 DEF ReadMessage, Break, TypeOK, Holding, Phases, InHook, noteVars
    <2>3. CASE factory /\ connected
      <3>1. task' \in [Requests -> TaskStates] /\ pending' \subseteq Askers
        BY <1>2, <2>1, <2>3, DispatchEffect DEF ReadMessage, TypeOK, TaskStates
      <3>2. /\ phase' \in {"select", "on_notification"}
            /\ phase' = "select" => message' = NoMessage
            /\ phase' = "on_notification" => message' = ClientNote
        BY <1>2, <2>1, <2>3, DispatchEffect DEF ReadMessage
      <3> QED
        BY <1>2, <2>1, <2>3, <3>1, <3>2, OutboundFacts
        DEF ReadMessage, TypeOK, Holding, Phases, InHook, noteVars
    <2>4. CASE factory /\ ~connected
      BY SMTT(30), <1>2, <2>1, <2>4 DEF ReadMessage, TypeOK, Holding, Phases, InHook, noteVars
    <2> QED
      BY <2>2, <2>3, <2>4 DEF TypeOK
  <1>3. CASE HookAsks
    BY <1>3 DEF HookAsks, TypeOK, Holding, Phases, InHook, Askers, linkVars, noteVars
  <1>4. CASE HookSends
    <2>1. wire' \in Seq(OutboundMessages) /\ Len(wire') <= WireSize
      BY <1>4, PutType, OutboundFacts DEF HookSends, Askers
    <2> QED
      BY <1>4, <2>1 DEF HookSends, TypeOK, Holding, Phases, InHook, taskVars, noteVars
  <1>5. CASE OnConnectOk
    <2>1. message \in InboundMessages
      BY <1>5 DEF OnConnectOk, HookDone, Holding, InHook
    <2>2. task' \in [Requests -> TaskStates] /\ pending' \subseteq Askers
      BY <1>5, <2>1, DispatchEffect DEF OnConnectOk, TypeOK, TaskStates
    <2>3. /\ phase' \in {"select", "on_notification"}
          /\ phase' = "select" => message' = NoMessage
          /\ phase' = "on_notification" => message' = ClientNote
      BY <1>5, <2>1, DispatchEffect DEF OnConnectOk
    <2> QED
      BY <1>5, <2>1, <2>2, <2>3, OutboundFacts
      DEF OnConnectOk, TypeOK, Holding, Phases, InHook, linkVars, noteVars
  <1>6. CASE OnNotificationReturns
    BY <1>6
    DEF OnNotificationReturns, TypeOK, Holding, Phases, InHook, linkVars, taskVars, noteVars
  <1>7. CASE TakeLagged
    BY <1>7 DEF TakeLagged, TypeOK, Holding, loopVars, linkVars, taskVars
  <1>8. CASE TakeNotification
    <2>1. Head(ring) \in Notes /\ Tail(ring) \in Seq(Notes) /\ Len(Tail(ring)) <= Capacity
      BY <1>8, TailFacts DEF TakeNotification, TypeOK
    <2> QED
      BY <1>8, <2>1, OutboundFacts
      DEF TakeNotification, TypeOK, Holding, Phases, InHook, linkVars, taskVars
  <1>9. CASE TakeResponse
    <2>1. /\ \E r \in Requests : Head(responses) = Response(r)
          /\ Tail(responses) \in Seq({Response(r) : r \in Requests})
      BY <1>9, TailFacts DEF TakeResponse, TypeOK
    <2> QED
      BY <1>9, <2>1, OutboundFacts
      DEF TakeResponse, TypeOK, Holding, Phases, InHook, linkVars, noteVars
  <1>10. CASE SendMessage
    <2>1. \/ \E r \in Requests : message = Response(r)
          \/ \E n \in Notes : message = Note(n)
      BY <1>10 DEF SendMessage, Holding
    <2>2. wire' \in Seq(OutboundMessages) /\ Len(wire') <= WireSize
      BY <1>10, <2>1, PutType, OutboundFacts DEF SendMessage
    <2>3. answers' \in [Requests -> Nat] /\ noted' \in Seq(Notes)
      <3>1. ASSUME NEW r \in Requests, message = Response(r)
            PROVE  answers' \in [Requests -> Nat] /\ noted' \in Seq(Notes)
        <4>1. message.type = "response" /\ message.of = r
          BY <3>1, MessageFacts
        <4>2. answers' = [answers EXCEPT ![r] = @ + 1] /\ noted' = noted
          BY <1>10, <4>1 DEF SendMessage
        <4>3. noted \in Seq(Notes) /\ answers \in [Requests -> Nat]
          BY DEF TypeOK
        <4> QED
          BY <4>2, <4>3
      <3>2. ASSUME NEW n \in Notes, message = Note(n)
            PROVE  answers' \in [Requests -> Nat] /\ noted' \in Seq(Notes)
        <4>1. /\ message.type = "note" /\ message.number = n[1] /\ message.kind = n[2]
              /\ <<n[1], n[2]>> = n
          BY <3>2, MessageFacts DEF Notes
        <4>2. answers' = answers /\ noted' = Append(noted, n)
          BY <1>10, <4>1 DEF SendMessage
        <4>3. noted \in Seq(Notes) /\ answers \in [Requests -> Nat]
          BY DEF TypeOK
        <4>4. Append(noted, n) \in Seq(Notes)
          BY <4>3, AppendFacts
        <4> QED
          BY <4>2, <4>3, <4>4
      <3> QED
        BY <2>1, <3>1, <3>2
    <2> QED
      BY <1>10, <2>2, <2>3
      DEF SendMessage, TypeOK, Holding, Phases, InHook, taskVars
  <1>11. CASE Ends
    <2>1. message' = NoMessage
      BY <1>11, EndsEffect DEF Holding, InHook
    <2>2. ring' \in Seq(Notes) /\ Len(ring') <= Capacity
          /\ responses' \in Seq({Response(r) : r \in Requests})
      BY <1>11, EndsEffect, ServerBounds
    <2>3. hooks' \in [{"on_connect", "on_shutdown"} -> Nat]
      BY <1>11, EndsEffect DEF TypeOK
    <2> QED
      BY <1>11, <2>1, <2>2, <2>3, EndsEffect
      DEF TypeOK, Holding, Phases, InHook, linkVars
  <1>12. ASSUME NEW r \in Requests, HandlerStep(r) PROVE TypeOK' /\ Holding'
    <2>1. CASE HandlerAsks(r)
      BY <2>1
      DEF HandlerAsks, TypeOK, Holding, TaskStates, Askers, loopVars, linkVars, noteVars
    <2>2. CASE HandlerSends(r)
      <3>1. wire' \in Seq(OutboundMessages) /\ Len(wire') <= WireSize
        BY <2>2, PutType, OutboundFacts DEF HandlerSends, Askers
      <3> QED
        BY <2>2, <3>1 DEF HandlerSends, TypeOK, Holding, TaskStates, loopVars, noteVars
    <2>3. CASE HandlerReturns(r)
      <3>1. responses' \in Seq({Response(q) : q \in Requests})
        BY <2>3, AppendFacts DEF HandlerReturns, TypeOK
      <3> QED
        BY <2>3, <3>1 DEF HandlerReturns, TypeOK, Holding, TaskStates, loopVars, linkVars, noteVars
    <2>4. CASE HandlerPanics(r)
      BY <2>4 DEF HandlerPanics, TypeOK, Holding, TaskStates, loopVars, linkVars, noteVars
    <2>5. ASSUME NEW kind \in Kinds, HandlerNotifies(r, kind) PROVE TypeOK' /\ Holding'
      BY SMTT(30), <2>5, IssueType DEF HandlerNotifies, TypeOK, Holding, loopVars, linkVars, taskVars
    <2> QED
      BY <1>12, <2>1, <2>2, <2>3, <2>4, <2>5 DEF HandlerStep
  <1>13. CASE HandleStep
    <2>1. CASE Stop \/ DropHandle
      BY <2>1 DEF Stop, DropHandle, TypeOK, Holding, loopVars, linkVars, taskVars, noteVars
    <2>2. ASSUME NEW kind \in Kinds, HandleNotifies(kind) PROVE TypeOK' /\ Holding'
      BY <2>2, IssueType DEF HandleNotifies, TypeOK, Holding, loopVars, linkVars, taskVars
    <2> QED
      BY <1>13, <2>1, <2>2 DEF HandleStep
  <1>14. CASE ClientStep
    <2>1. ASSUME NEW m \in InboundMessages, Arrives(m), wire' \in Seq(OutboundMessages),
                 Len(wire') <= WireSize
          PROVE  TypeOK' /\ Holding'
      <3>1. inbound' \in Seq(InboundMessages)
        BY <2>1, AppendFacts DEF Arrives, TypeOK
      <3> QED
        BY <2>1, <3>1 DEF Arrives, TypeOK, Holding, loopVars, taskVars, noteVars
    <2>2. CASE (\E r \in Requests : ClientRequests(r)) \/ ClientNotifies
      BY <2>1, <2>2, OutboundFacts DEF ClientRequests, ClientNotifies, TypeOK
    <2>3. CASE ClientReads
      <3>1. /\ wire' \in Seq(OutboundMessages) /\ Len(wire') <= WireSize
            /\ Head(wire) \in OutboundMessages
        BY <2>3, TailFacts DEF ClientReads, TypeOK
      <3>2. CASE Head(wire).type = "ask" /\ reading = "open"
        <4>1. Reply(Head(wire).of) \in InboundMessages
          BY <3>1, <3>2, MessageFacts, OutboundFacts DEF OutboundMessages
        <4> QED
          BY <2>1, <2>3, <3>1, <3>2, <4>1 DEF ClientReads
      <3>3. CASE ~(Head(wire).type = "ask" /\ reading = "open")
        BY SMTT(30), <2>3, <3>1, <3>3 DEF ClientReads, TypeOK, Holding, loopVars, taskVars, noteVars
      <3> QED
        BY <3>2, <3>3
    <2>4. CASE ReadHalfEnds \/ WriteHalfBreaks
      BY <2>4 DEF ReadHalfEnds, WriteHalfBreaks, TypeOK, Holding, loopVars, taskVars, noteVars
    <2> QED
      BY <1>14, <2>2, <2>3, <2>4 DEF ClientStep
  <1>15. CASE UNCHANGED vars
    BY <1>15 DEF vars, TypeOK, Holding, loopVars, linkVars, taskVars, noteVars
  <1> QED
    BY <1>1, <1>2, <1>3, <1>4, <1>5, <1>6, <1>7, <1>8, <1>9, <1>10, <1>11, <1>12, <1>13,
       <1>14, <1>15 DEF Next, LoopStep, Leaves, Ends

-----------------------------------------------------------------------------
(* Requests: under way once, until the handler is spawned. *)

Once(s, x) == \A i, j \in 1..Len(s) : s[i] = x /\ s[j] = x => i = j

LEMMA AppendOnce ==
  ASSUME NEW S, NEW s \in Seq(S), NEW y \in S, NEW x, Once(s, x), y = x => ~Contains(s, x)
  PROVE  Once(Append(s, y), x)
  <1> DEFINE t == Append(s, y)
  <1> SUFFICES ASSUME NEW i \in 1..Len(t), NEW j \in 1..Len(t), t[i] = x, t[j] = x
               PROVE  i = j
    BY DEF Once
  <1>1. /\ Len(s) \in Nat /\ Len(t) = Len(s) + 1 /\ t[Len(s) + 1] = y
        /\ \A k \in 1..Len(s) : t[k] = s[k]
    BY AppendFacts
  <1>2. CASE y = x
    BY <1>1, <1>2 DEF Contains
  <1>3. CASE y # x
    BY <1>1, <1>3 DEF Once
  <1> QED
    BY <1>2, <1>3

LEMMA TailOnce ==
  ASSUME NEW S, NEW s \in Seq(S), s # <<>>, NEW x, Once(s, x)
  PROVE  Once(Tail(s), x) /\ (Head(s) = x => ~Contains(Tail(s), x))
  <1>1. /\ 1 \in 1..Len(s) /\ Head(s) = s[1]
        /\ \A k \in 1..Len(Tail(s)) : k \in Nat /\ k + 1 \in 1..Len(s) /\ Tail(s)[k] = s[k + 1]
    BY TailFacts
  <1>2. Once(Tail(s), x)
    BY <1>1 DEF Once
  <1>3. ASSUME NEW k \in 1..Len(Tail(s)), Head(s) = x, Tail(s)[k] = x PROVE FALSE
    <2>1. s[1] = x /\ s[k + 1] = x /\ k + 1 \in 1..Len(s)
      BY <1>1, <1>3
    <2>2. 1 = k + 1
      BY <1>1, <2>1 DEF Once
    <2> QED
      BY <2>2, <1>1
  <1> QED
    BY <1>2, <1>3 DEF Contains

\* AskedOnce, in terms of the above.
LEMMA AskedFacts ==
  AskedOnce <=> \A r \in Requests :
                    /\ Contains(inbound, Request(r)) \/ message = Request(r)
                        => task[r] = "unread"
                    /\ message = Request(r) => ~Contains(inbound, Request(r))
                    /\ Once(inbound, Request(r))
  BY DEF AskedOnce, Coming, Contains, Once

LEMMA AskedFactsNext ==
  AskedOnce' <=> \A r \in Requests :
                    /\ Contains(inbound', Request(r)) \/ message' = Request(r)
                        => task'[r] = "unread"
                    /\ message' = Request(r) => ~Contains(inbound', Request(r))
                    /\ Once(inbound', Request(r))
  BY DEF AskedOnce, Coming, Contains, Once

\* A message other than a request in hand disturbs nothing.
LEMMA AskedKept ==
  ASSUME AskedOnce, UNCHANGED <<inbound, task>>,
         message' # message => \A r \in Requests : message' # Request(r)
  PROVE  AskedOnce'
  BY AskedFacts, AskedFactsNext

LEMMA AskedStep ==
  ASSUME TypeOK, Holding, AskedOnce, [Next]_vars
  PROVE  AskedOnce'
  <1>0. /\ inbound \in Seq(InboundMessages)
        /\ task \in [Requests -> TaskStates]
    BY DEF TypeOK
  <1>1. CASE \/ Leaves \/ HookAsks \/ HookSends \/ OnNotificationReturns \/ TakeLagged
             \/ SendMessage \/ Ends \/ HandleStep \/ ReadHalfEnds \/ WriteHalfBreaks
             \/ UNCHANGED vars
    <2>1. UNCHANGED <<inbound, task>> /\ message' \in {message, NoMessage}
      BY <1>1, LeavesEffect, EndsEffect
      DEF HookAsks, HookSends, OnNotificationReturns, TakeLagged, SendMessage, HandleStep,
           Stop, DropHandle, HandleNotifies, ReadHalfEnds, WriteHalfBreaks,
          vars, loopVars, linkVars, taskVars
    <2>2. \A r \in Requests : NoMessage # Request(r)
      BY MessageFacts
    <2> QED
      BY <2>1, <2>2, AskedKept
  <1>2. CASE TakeNotification \/ TakeResponse
    <2>1. UNCHANGED <<inbound, task>>
      BY <1>2 DEF TakeNotification, TakeResponse, linkVars, taskVars
    <2>2. message'.type \in {"note", "response"}
      <3>1. CASE TakeNotification
        BY <3>1, MessageFacts DEF TakeNotification
      <3>2. CASE TakeResponse
        <4>1. \E r \in Requests : Head(responses) = Response(r)
          BY <3>2, TailFacts DEF TakeResponse, TypeOK
        <4> QED
          BY <3>2, <4>1, MessageFacts DEF TakeResponse
      <3> QED
        BY <1>2, <3>1, <3>2
    <2>3. \A r \in Requests : Request(r) # message'
      BY <2>2, MessageFacts
    <2> QED
      BY <2>1, <2>3, AskedKept
  <1>3. CASE ReadMessage
    <2> DEFINE m == Head(inbound)
    <2>1. /\ inbound # <<>> /\ inbound' = Tail(inbound) /\ m \in InboundMessages
          /\ message = NoMessage
      BY <1>0, <1>3, TailFacts DEF ReadMessage, Holding, InHook
    <2>2. \/ UNCHANGED task /\ message' = NoMessage
          \/ UNCHANGED task /\ message' = m
          \/ \E r \in Requests : m = Request(r) /\ task' = [task EXCEPT ![r] = "running"]
                                 /\ message' = NoMessage
      <3>1. CASE ~factory
        BY <1>3, <3>1 DEF ReadMessage, Break
      <3>2. CASE factory /\ connected
        BY <1>3, <2>1, <3>2, DispatchEffect DEF ReadMessage
      <3>3. CASE factory /\ ~connected
        BY <1>3, <3>3 DEF ReadMessage
      <3> QED
        BY <3>1, <3>2, <3>3 DEF TypeOK
    <2>3. ASSUME NEW r \in Requests
          PROVE  /\ Contains(inbound, Request(r)) <=>
                        Contains(inbound', Request(r)) \/ m = Request(r)
                 /\ Once(inbound', Request(r))
                 /\ m = Request(r) => ~Contains(inbound', Request(r))
      <3>1. Once(inbound, Request(r))
        BY AskedFacts
      <3> QED
        BY <1>0, <2>1, <3>1, TailContains, TailOnce
    <2>4. \A r \in Requests : NoMessage # Request(r)
      BY MessageFacts
    <2>5. \A r, q \in Requests : Request(r) = Request(q) => r = q
      BY DEF Request
    <2> QED
      BY <1>0, <2>1, <2>2, <2>3, <2>4, <2>5, AskedFacts, AskedFactsNext
  <1>4. CASE OnConnectOk
    <2>1. message \in InboundMessages /\ inbound' = inbound
      BY <1>4 DEF OnConnectOk, HookDone, Holding, InHook, linkVars
    <2>2. \/ UNCHANGED task /\ message' \in {message, NoMessage}
          \/ \E r \in Requests : message = Request(r) /\ message' = NoMessage
                                 /\ task' = [task EXCEPT ![r] = "running"]
      BY <1>4, <2>1, DispatchEffect DEF OnConnectOk
    <2>3. \A r \in Requests : NoMessage # Request(r)
      BY MessageFacts
    <2>4. \A r, q \in Requests : Request(r) = Request(q) => r = q
      BY DEF Request
    <2> QED
      BY <1>0, <2>1, <2>2, <2>3, <2>4, AskedFacts, AskedFactsNext
  <1>5. ASSUME NEW r \in Requests, HandlerStep(r) PROVE AskedOnce'
    <2>1. UNCHANGED <<inbound, message>>
      BY <1>5, HandlerEffect DEF loopVars
    <2>2. \/ task' = task
          \/ task[r] # "unread" /\ \E t \in TaskStates : task' = [task EXCEPT ![r] = t]
      BY <1>5, HandlerEffect DEF TaskStates
    <2> QED
      BY <1>0, <2>1, <2>2, AskedFacts, AskedFactsNext
  <1>6. ASSUME NEW m \in InboundMessages, inbound' = Append(inbound, m), UNCHANGED <<task, message>>,
               \A r \in Requests : m = Request(r) =>
                  task[r] = "unread" /\ ~Contains(inbound, m) /\ message # m
        PROVE  AskedOnce'
    <2>1. ASSUME NEW r \in Requests
          PROVE  /\ Contains(inbound', Request(r)) <=> Contains(inbound, Request(r)) \/ m = Request(r)
                 /\ Once(inbound', Request(r))
      <3>1. Once(inbound, Request(r))
        BY AskedFacts
      <3>2. Contains(Append(inbound, m), Request(r)) <=> Contains(inbound, Request(r)) \/ Request(r) = m
        BY <1>0, AppendContains
      <3>3. Once(Append(inbound, m), Request(r))
        BY <1>0, <1>6, <3>1, AppendOnce
      <3> QED
        BY <1>6, <3>2, <3>3
    <2> QED
      BY <1>6, <2>1, AskedFacts, AskedFactsNext
  <1>7. ASSUME NEW r \in Requests, ClientRequests(r) PROVE AskedOnce'
    <2>1. /\ inbound' = Append(inbound, Request(r)) /\ UNCHANGED <<task, message>>
          /\ task[r] = "unread" /\ ~Contains(inbound, Request(r)) /\ message # Request(r)
      BY <1>7 DEF ClientRequests, Arrives, loopVars, taskVars, Contains
    <2>2. \A q \in Requests : Request(r) = Request(q) => r = q
      BY DEF Request
    <2> QED
      BY <2>1, <2>2, <1>6, OutboundFacts
  <1>8. CASE ClientNotifies
    <2>1. inbound' = Append(inbound, ClientNote) /\ UNCHANGED <<task, message>>
      BY <1>8 DEF ClientNotifies, Arrives, loopVars, taskVars
    <2>2. \A q \in Requests : ClientNote # Request(q)
      BY MessageFacts
    <2> QED
      BY <2>1, <2>2, <1>6, OutboundFacts
  <1>9. CASE ClientReads
    <2>1. CASE Head(wire).type = "ask" /\ reading = "open"
      <3>1. Head(wire) \in OutboundMessages
        BY <1>9, TailFacts DEF ClientReads, TypeOK
      <3>2. PICK a \in Askers : Head(wire) = Ask(a)
        BY <2>1, <3>1, MessageFacts DEF OutboundMessages
      <3>3. inbound' = Append(inbound, Reply(a)) /\ UNCHANGED <<task, message>>
        BY <1>9, <2>1, <3>2, MessageFacts DEF ClientReads, Arrives, loopVars, taskVars
      <3>4. \A q \in Requests : Reply(a) # Request(q)
        BY MessageFacts
      <3> QED
        BY <3>3, <3>4, <1>6, OutboundFacts
    <2>2. CASE ~(Head(wire).type = "ask" /\ reading = "open")
      BY <1>9, <2>2, AskedKept DEF ClientReads, loopVars, taskVars
    <2> QED
      BY <2>1, <2>2
  <1> QED
    BY <1>1, <1>2, <1>3, <1>4, <1>5, <1>7, <1>8, <1>9 DEF Next, LoopStep, ClientStep, Leaves, Ends

-----------------------------------------------------------------------------
(* Callbacks. *)

LEMMA CallbackStep ==
  ASSUME TypeOK, Holding, InTurn, CallbackOrder, [Next]_vars
  PROVE  InTurn' /\ CallbackOrder'
  <1>0. /\ task \in [Requests -> TaskStates]
        /\ hooks \in [{"on_connect", "on_shutdown"} -> Nat]
        /\ inbound \in Seq(InboundMessages)
        /\ connected \in BOOLEAN /\ factory \in BOOLEAN
    BY DEF TypeOK
  <1>1. CASE HandleStep \/ ClientStep \/ UNCHANGED vars
    <2>1. UNCHANGED <<phase, connected, factory, hooks, task>>
      BY <1>1
      DEF HandleStep, Stop, DropHandle, HandleNotifies, ClientStep, ClientRequests,
          ClientNotifies, ClientReads, Arrives, ReadHalfEnds, WriteHalfBreaks, vars,
          loopVars, taskVars
    <2> QED
      BY <2>1 DEF InTurn, CallbackOrder, InHook
  <1>2. ASSUME NEW r \in Requests, HandlerStep(r) PROVE InTurn' /\ CallbackOrder'
    <2>1. UNCHANGED <<phase, connected, factory, hooks>>
      BY <1>2, HandlerEffect DEF loopVars
    <2>2. \/ task' = task
          \/ task[r] # "unread" /\ \E t \in TaskStates : task' = [task EXCEPT ![r] = t]
      BY <1>2, HandlerEffect DEF TaskStates
    <2>3. \A q \in Requests : task'[q] # "unread" => connected
      BY <1>0, <2>2 DEF CallbackOrder
    <2> QED
      BY <2>1, <2>3 DEF InTurn, CallbackOrder, InHook
  <1>3. CASE Leaves
    BY <1>3, LeavesEffect DEF InTurn, CallbackOrder, InHook, taskVars
  <1>4. CASE Ends
    BY <1>0, <1>4, EndsEffect DEF InTurn, CallbackOrder, InHook
  <1>5. CASE ReadMessage
    <2>1. CASE ~factory
      BY <1>5, <2>1 DEF ReadMessage, Break, InTurn, CallbackOrder, InHook
    <2>2. CASE factory /\ connected
      <3>1. Head(inbound) \in InboundMessages /\ Dispatch(Head(inbound))
        BY <1>0, <1>5, <2>2, TailFacts DEF ReadMessage
      <3>2. phase' \in {"select", "on_notification"}
        BY <3>1, DispatchEffect
      <3>3. UNCHANGED <<connected, factory, hooks>> /\ phase = "select"
        BY <1>5, <2>2 DEF ReadMessage
      <3> QED
        BY <2>2, <3>2, <3>3 DEF InTurn, CallbackOrder, InHook
    <2>3. CASE factory /\ ~connected
      <3>1. /\ UNCHANGED <<connected, factory, task>> /\ phase = "select"
            /\ phase' = "on_connect"
            /\ hooks' = [hooks EXCEPT !["on_connect"] = @ + 1]
        BY <1>5, <2>3 DEF ReadMessage
      <3>2. hooks["on_connect"] = 0
        BY <2>3, <3>1 DEF InTurn
      <3> QED
        BY <1>0, <2>3, <3>1, <3>2 DEF InTurn, CallbackOrder, InHook
    <2> QED
      BY <1>0, <2>1, <2>2, <2>3
  <1>6. CASE OnConnectOk
    <2>1. message \in InboundMessages /\ Dispatch(message) /\ phase \in InHook
      BY <1>6 DEF OnConnectOk, HookDone, Holding, InHook
    <2>2. phase' \in {"select", "on_notification"}
      BY <2>1, DispatchEffect
    <2>3. UNCHANGED <<factory, hooks>> /\ connected' = TRUE
      BY <1>6 DEF OnConnectOk
    <2> QED
      BY <2>1, <2>2, <2>3 DEF InTurn, CallbackOrder, InHook
  <1>7. CASE HookAsks \/ HookSends
    <2>1. UNCHANGED <<connected, factory, hooks, task>> /\ phase \in InHook /\ phase' \in InHook
      BY <1>7 DEF HookAsks, HookSends, InHook, taskVars
    <2> QED
      BY <2>1 DEF InTurn, CallbackOrder, InHook
  <1>8. CASE OnNotificationReturns
    BY <1>8 DEF OnNotificationReturns, HookDone, InTurn, CallbackOrder, InHook, taskVars
  <1>9. CASE TakeLagged \/ TakeNotification \/ TakeResponse \/ SendMessage
    <2>1. /\ UNCHANGED <<connected, factory, hooks, task>>
          /\ phase \in {"select", "sending"} /\ phase' \in {"select", "sending"}
      BY <1>9
      DEF TakeLagged, TakeNotification, TakeResponse, SendMessage, loopVars, taskVars
    <2> QED
      BY <2>1 DEF InTurn, CallbackOrder, InHook
  <1> QED
    BY <1>1, <1>2, <1>3, <1>4, <1>5, <1>6, <1>7, <1>8, <1>9 DEF Next, LoopStep, Leaves, Ends

-----------------------------------------------------------------------------
(* Responses. *)

LEMMA ConservedFacts ==
  ResponsesConserved /\ SentReturned <=>
    /\ Distinct(responses)
    /\ \A r \in Requests :
        /\ answers[r] <= 1
        /\ answers[r] = 1 => ~Contains(responses, Response(r)) /\ message # Response(r)
        /\ message = Response(r) => ~Contains(responses, Response(r)) /\ task[r] = "returned"
        /\ Contains(responses, Response(r)) \/ answers[r] = 1 => task[r] = "returned"
        /\ task[r] = "returned" =>
            Contains(responses, Response(r)) \/ message = Response(r) \/ answers[r] = 1 \/ Over
  BY DEF ResponsesConserved, SentReturned, Sending, Queued, Distinct, Contains

LEMMA ConservedFactsNext ==
  ResponsesConserved' /\ SentReturned' <=>
    /\ Distinct(responses')
    /\ \A r \in Requests :
        /\ answers'[r] <= 1
        /\ answers'[r] = 1 => ~Contains(responses', Response(r)) /\ message' # Response(r)
        /\ message' = Response(r) => ~Contains(responses', Response(r)) /\ task'[r] = "returned"
        /\ Contains(responses', Response(r)) \/ answers'[r] = 1 => task'[r] = "returned"
        /\ task'[r] = "returned" =>
            Contains(responses', Response(r)) \/ message' = Response(r) \/ answers'[r] = 1 \/ Over'
  BY DEF ResponsesConserved, SentReturned, Sending, Queued, Distinct, Contains

\* A step that leaves the queue and the answers alone: handlers start, others stay,
\* and the loop lets go of a response only when it ends.
LEMMA ConservedKept ==
  ASSUME ResponsesConserved, SentReturned, UNCHANGED <<responses, answers>>,
         Over => Over',
         \A r \in Requests : \/ task'[r] = task[r]
                             \/ task[r] = "unread" /\ task'[r] # "returned",
         \A r \in Requests : message' = Response(r) => message = Response(r),
         \A r \in Requests : message = Response(r) => message' = message \/ Over'
  PROVE  ResponsesConserved' /\ SentReturned'
  BY ConservedFacts, ConservedFactsNext

LEMMA ConservedStep ==
  ASSUME TypeOK, Holding, AskedOnce, ResponsesConserved, SentReturned, [Next]_vars
  PROVE  ResponsesConserved' /\ SentReturned'
  <1>0. /\ task \in [Requests -> TaskStates] /\ answers \in [Requests -> Nat]
        /\ responses \in Seq({Response(r) : r \in Requests})
        /\ inbound \in Seq(InboundMessages)
        /\ connected \in BOOLEAN /\ factory \in BOOLEAN
    BY DEF TypeOK
  <1>00. /\ \A r \in Requests : NoMessage # Response(r)
         /\ \A m \in InboundMessages : \A r \in Requests : m # Response(r)
         /\ \A n, r : Note(n) # Response(r)
    <2>1. \A m \in InboundMessages : m.type \in {"request", "reply", "note"}
      BY MessageFacts, InboundFacts
    <2> QED
      BY <2>1, MessageFacts
  <1>000. \A q, r : Response(q) = Response(r) => q = r
    BY DEF Response
  <1>1. CASE HandleStep \/ ClientStep \/ UNCHANGED vars \/ TakeLagged
    <2>1. UNCHANGED <<phase, message, responses, task, answers>>
      BY <1>1
      DEF HandleStep, Stop, DropHandle, HandleNotifies, ClientStep, ClientRequests,
          ClientNotifies, ClientReads, Arrives, ReadHalfEnds, WriteHalfBreaks, TakeLagged,
          vars, loopVars, taskVars
    <2> QED
      BY <2>1, ConservedKept DEF Over, Ended
  <1>2. ASSUME NEW r \in Requests, HandlerStep(r)
        PROVE  ResponsesConserved' /\ SentReturned'
    <2>0. UNCHANGED <<phase, message, answers>>
      BY <1>2, HandlerEffect DEF loopVars
    <2>1. CASE /\ task[r] \in {"running", "asking", "waiting"}
               /\ task' = [task EXCEPT ![r] = "returned"]
               /\ responses' = IF Ended THEN responses
                               ELSE Append(responses, Response(r))
      <3>1. ~Contains(responses, Response(r)) /\ message # Response(r) /\ answers[r] # 1
        BY <2>1, ConservedFacts
      <3>2. CASE Ended
        BY <1>0, <2>0, <2>1, <3>1, <3>2, ConservedFacts, ConservedFactsNext DEF Over, Ended
      <3>3. CASE ~Ended
        <4>1. responses' = Append(responses, Response(r))
          BY <2>1, <3>3
        <4>2. Response(r) \in {Response(q) : q \in Requests}
          OBVIOUS
        <4>3. Distinct(responses)
          BY ConservedFacts
        <4>4. Distinct(responses')
          BY <1>0, <3>1, <4>1, <4>2, <4>3, AppendDistinct
        <4>5. \A q \in Requests : Contains(responses', Response(q)) <=>
                                    Contains(responses, Response(q)) \/ q = r
          BY <1>0, <1>000, <4>1, <4>2, AppendContains
        <4> QED
          BY <1>0, <2>0, <2>1, <3>1, <4>4, <4>5, ConservedFacts, ConservedFactsNext DEF Over, Ended
      <3> QED
        BY <3>2, <3>3
    <2>2. CASE /\ responses' = responses
               /\ \/ task' = task
                  \/ /\ task[r] \in {"running", "asking", "waiting"}
                     /\ \E t \in TaskStates \ {"returned"} : task' = [task EXCEPT ![r] = t]
      BY <1>0, <2>0, <2>2, ConservedFacts, ConservedFactsNext DEF Over, Ended
    <2> QED
      BY <1>2, <2>1, <2>2, HandlerEffect DEF TaskStates
  <1>3. CASE Leaves
    BY <1>3, <1>00, LeavesEffect, ConservedKept DEF Over, Ended, taskVars
  <1>4. CASE Ends
    <2>1. /\ Over' /\ responses' = <<>> /\ message' = NoMessage
          /\ UNCHANGED <<task, answers>>
      BY <1>4, EndsEffect DEF Holding, InHook, Over, Ended
    <2>2. Distinct(<<>>) /\ \A x : ~Contains(<<>>, x)
      BY DEF Distinct, Contains
    <2> QED
      BY <1>00, <2>1, <2>2, ConservedFacts, ConservedFactsNext DEF Over, Ended
  <1>5. CASE ReadMessage
    <2> DEFINE m == Head(inbound)
    <2>1. /\ m \in InboundMessages /\ message = NoMessage /\ phase = "select"
          /\ UNCHANGED <<responses, answers>> /\ Contains(inbound, m)
      BY <1>0, <1>5, TailFacts, TailContains DEF ReadMessage, Holding, InHook
    <2>2. \/ UNCHANGED task
          \/ \E r \in Requests : m = Request(r) /\ task' = [task EXCEPT ![r] = "running"]
      <3>1. CASE ~factory
        BY <1>5, <3>1 DEF ReadMessage
      <3>2. CASE factory /\ connected
        BY <1>5, <2>1, <3>2, DispatchEffect DEF ReadMessage
      <3>3. CASE factory /\ ~connected
        BY <1>5, <3>3 DEF ReadMessage
      <3> QED
        BY <1>0, <3>1, <3>2, <3>3
    <2>3. message' \in InboundMessages \union {NoMessage}
      <3>1. CASE ~factory
        BY <1>5, <3>1 DEF ReadMessage, Break
      <3>2. CASE factory /\ connected
        BY <1>5, <2>1, <3>2, DispatchEffect DEF ReadMessage
      <3>3. CASE factory /\ ~connected
        BY <1>5, <2>1, <3>3 DEF ReadMessage
      <3> QED
        BY <1>0, <3>1, <3>2, <3>3
    <2>4. \A r \in Requests :
            \/ task'[r] = task[r]
            \/ task[r] = "unread" /\ task'[r] # "returned"
      BY <1>0, <2>1, <2>2, AskedFacts
    <2> QED
      BY <1>00, <2>1, <2>3, <2>4, ConservedKept DEF Over, Ended
  <1>6. CASE OnConnectOk
    <2>1. message \in InboundMessages /\ UNCHANGED <<responses, answers>> /\ ~Over
      BY <1>6 DEF OnConnectOk, HookDone, Holding, InHook, Over, Ended
    <2>2. /\ message' \in {message, NoMessage}
          /\ \/ UNCHANGED task
             \/ \E r \in Requests : message = Request(r) /\ task' = [task EXCEPT ![r] = "running"]
      BY <1>6, <2>1, DispatchEffect DEF OnConnectOk
    <2>3. \A r \in Requests :
            \/ task'[r] = task[r]
            \/ task[r] = "unread" /\ task'[r] # "returned"
      BY <1>0, <2>1, <2>2, AskedFacts
    <2> QED
      BY <1>00, <2>1, <2>2, <2>3, ConservedKept
  <1>7. CASE HookAsks \/ HookSends \/ OnNotificationReturns
    <2>1. /\ UNCHANGED <<responses, answers, task>> /\ ~Over
          /\ message' \in {message, NoMessage} /\ message \in InboundMessages
      BY <1>7
      DEF HookAsks, HookSends, OnNotificationReturns, HookDone, Holding, InHook, Over, Ended, taskVars
    <2> QED
      BY <1>00, <2>1, ConservedKept
  <1>8. CASE TakeNotification
    <2>1. /\ UNCHANGED <<responses, answers, task>> /\ ~Over
          /\ message = NoMessage /\ \E n : message' = Note(n)
      BY <1>8 DEF TakeNotification, Holding, InHook, Over, Ended, taskVars
    <2> QED
      BY <1>00, <2>1, ConservedKept
  <1>9. CASE TakeResponse
    <2>1. /\ responses # <<>> /\ responses' = Tail(responses) /\ message' = Head(responses)
          /\ UNCHANGED <<answers, task>> /\ message = NoMessage /\ ~Over
      BY <1>9 DEF TakeResponse, Holding, InHook, Over, Ended
    <2>2. Distinct(responses)
      BY ConservedFacts
    <2>3. Distinct(responses') /\ ~Contains(responses', message')
      BY <1>0, <2>1, <2>2, TailDistinct
    <2>4. \A x : Contains(responses, x) <=> Contains(responses', x) \/ x = message'
      BY <1>0, <2>1, TailContains
    <2> QED
      BY <1>00, <2>1, <2>3, <2>4, ConservedFacts, ConservedFactsNext
  <1>10. CASE SendMessage
    <2>1. /\ UNCHANGED <<responses, task>> /\ message' = NoMessage /\ ~Over
          /\ phase = "sending"
      BY <1>10 DEF SendMessage, Over, Ended, taskVars
    <2>2. ASSUME NEW r \in Requests, message = Response(r)
          PROVE  ResponsesConserved' /\ SentReturned'
      <3>1. answers' = [answers EXCEPT ![r] = @ + 1]
        BY <1>10, <2>2, MessageFacts DEF SendMessage
      <3>2. /\ answers[r] = 0 /\ ~Contains(responses, Response(r)) /\ task[r] = "returned"
            /\ \A q \in Requests : message = Response(q) => q = r
        BY <1>0, <1>000, <2>2, ConservedFacts
      <3> QED
        BY <1>0, <1>00, <2>1, <3>1, <3>2, ConservedFacts, ConservedFactsNext
    <2>3. ASSUME NEW n \in Notes, message = Note(n)
          PROVE  ResponsesConserved' /\ SentReturned'
      <3>1. answers' = answers
        BY <1>10, <2>3, MessageFacts DEF SendMessage
      <3> QED
        BY <1>00, <2>1, <2>3, <3>1, ConservedKept
    <2> QED
      BY <2>1, <2>2, <2>3 DEF Holding
  <1> QED
    BY <1>1, <1>2, <1>3, <1>4, <1>5, <1>6, <1>7, <1>8, <1>9, <1>10 DEF Next, LoopStep, Leaves, Ends

-----------------------------------------------------------------------------
(* Notifications. *)

LEMMA NoteNumbers ==
  ASSUME TypeOK
  PROVE  /\ ring \in Seq(Notes) /\ noted \in Seq(Notes) /\ issued \in Nat
         /\ \A k \in 1..Len(ring) : ring[k][1] \in Nat
         /\ \A k \in 1..Len(noted) : noted[k][1] \in Nat
  <1>1. ring \in Seq(Notes) /\ noted \in Seq(Notes) /\ issued \in 0..MaxNotes
    BY DEF TypeOK
  <1>2. \A n \in Notes : n[1] \in Nat
    BY ServerBounds DEF Notes
  <1>3. /\ \A k \in 1..Len(ring) : ring[k] \in Notes
        /\ \A k \in 1..Len(noted) : noted[k] \in Notes
    BY <1>1
  <1> QED
    BY <1>1, <1>2, <1>3, ServerBounds

\* However the channel overwrites, what is in it stays in order.
LEMMA IssueEffect ==
  ASSUME TypeOK, Ascending(ring), \A k \in 1..Len(ring) : ring[k][1] <= issued,
         NEW kind \in Kinds, Issue(kind)
  PROVE  /\ issued' = issued + 1 /\ noted' = noted
         /\ Ascending(ring')
         /\ \A k \in 1..Len(ring') :
                \/ ring'[k][1] = issued + 1
                \/ \E j \in 1..Len(ring) : ring'[k] = ring[j]
  <1> DEFINE n == <<issued + 1, kind>>
             kept == Append(ring, n)
  <1>1. n \in Notes /\ n[1] = issued + 1
    BY ServerBounds DEF Issue, TypeOK, Notes
  <1>2. ring \in Seq(Notes) /\ issued \in Nat /\ \A k \in 1..Len(ring) : ring[k][1] \in Nat
    BY NoteNumbers
  <1>3. /\ kept \in Seq(Notes) /\ Len(ring) \in Nat /\ Len(kept) = Len(ring) + 1
        /\ kept[Len(ring) + 1] = n
        /\ \A k \in 1..Len(ring) : kept[k] = ring[k]
    BY <1>1, <1>2, AppendFacts
  <1>4. \A k \in 1..Len(ring) : ring[k][1] < n[1]
    BY <1>1, <1>2
  <1>5. Ascending(kept)
    BY <1>1, <1>2, <1>4, AppendAscending
  <1>6. \A k \in 1..Len(kept) : kept[k] = n \/ \E j \in 1..Len(ring) : kept[k] = ring[j]
    BY <1>3
  <1>7. kept # <<>>
    BY <1>3
  <1>8. Ascending(Tail(kept))
    BY <1>3, <1>5, <1>7, TailAscending
  <1>9. \A k \in 1..Len(Tail(kept)) : k + 1 \in 1..Len(kept) /\ Tail(kept)[k] = kept[k + 1]
    BY <1>3, <1>7, TailFacts
  <1>10. ring' = kept \/ ring' = Tail(kept)
    BY DEF Issue
  <1>11. issued' = issued + 1 /\ noted' = noted
    BY DEF Issue
  <1>12. CASE ring' = kept
    BY <1>1, <1>5, <1>6, <1>11, <1>12
  <1>13. CASE ring' = Tail(kept)
    <2>1. ASSUME NEW k \in 1..Len(ring')
          PROVE  \/ ring'[k][1] = issued + 1
                 \/ \E j \in 1..Len(ring) : ring'[k] = ring[j]
      <3>1. k + 1 \in 1..Len(kept) /\ ring'[k] = kept[k + 1]
        BY <1>9, <1>13
      <3> QED
        BY <1>1, <1>6, <3>1
    <2> QED
      BY <1>8, <1>11, <1>13, <2>1
  <1> QED
    BY <1>10, <1>12, <1>13

\* The same, for the whole of what is queued.
LEMMA IssueStep ==
  ASSUME TypeOK, NotesQueued, NotesInOrder, NEW kind \in Kinds, Issue(kind),
         UNCHANGED <<phase, message>>,
         phase = "sending" /\ message.type = "note" => message.number \in Nat
  PROVE  NotesQueued' /\ NotesInOrder'
  <1>1. /\ issued \in Nat
        /\ \A k \in 1..Len(ring) : ring[k][1] \in Nat
        /\ \A k \in 1..Len(noted) : noted[k][1] \in Nat
    BY NoteNumbers
  <1>2. /\ Ascending(ring)
        /\ \A k \in 1..Len(ring) : ring[k][1] <= issued
        /\ \A k \in 1..Len(noted) : noted[k][1] <= issued
        /\ \A i \in 1..Len(noted), j \in 1..Len(ring) : noted[i][1] < ring[j][1]
    BY DEF NotesQueued
  <1>3. /\ issued' = issued + 1 /\ noted' = noted
        /\ Ascending(ring')
        /\ \A k \in 1..Len(ring') :
                \/ ring'[k][1] = issued + 1
                \/ \E j \in 1..Len(ring) : ring'[k] = ring[j]
    BY <1>2, IssueEffect
  <1>4. ASSUME NEW k \in 1..Len(ring')
        PROVE  /\ ring'[k][1] <= issued'
               /\ \A i \in 1..Len(noted) : noted[i][1] < ring'[k][1]
               /\ phase = "sending" /\ message.type = "note" => message.number < ring'[k][1]
    <2>1. CASE ring'[k][1] = issued + 1
      BY <1>1, <1>2, <1>3, <2>1 DEF NotesQueued
    <2>2. CASE \E j \in 1..Len(ring) : ring'[k] = ring[j]
      BY <1>1, <1>2, <1>3, <2>2 DEF NotesQueued
    <2> QED
      BY <1>3, <2>1, <2>2
  <1>5. phase = "sending" /\ message.type = "note" =>
            /\ message.number <= issued'
            /\ \A k \in 1..Len(noted) : noted[k][1] < message.number
    BY <1>1, <1>3 DEF NotesQueued
  <1>6. \A k \in 1..Len(noted) : noted[k][1] <= issued'
    BY <1>1, <1>2, <1>3
  <1>7. NotesQueued'
    BY <1>3, <1>4, <1>5, <1>6 DEF NotesQueued, Ascending
  <1> QED
    BY <1>3, <1>7 DEF NotesInOrder

LEMMA NotesStep ==
  ASSUME TypeOK, Holding, NotesQueued, NotesInOrder, [Next]_vars
  PROVE  NotesQueued' /\ NotesInOrder'
  <1>0. /\ ring \in Seq(Notes) /\ noted \in Seq(Notes) /\ issued \in Nat
        /\ \A k \in 1..Len(ring) : ring[k][1] \in Nat
        /\ \A k \in 1..Len(noted) : noted[k][1] \in Nat
    BY NoteNumbers
  <1>00. phase = "sending" /\ message.type = "note" =>
            \E n \in Notes : message = Note(n) /\ message.number = n[1] /\ n[1] \in Nat
    <2>1. \A n \in Notes : n[1] \in Nat
      BY ServerBounds DEF Notes
    <2> QED
      BY <2>1, MessageFacts DEF Holding
  <1>1. ASSUME UNCHANGED <<ring, noted, issued>>,
               phase' # "sending" \/ UNCHANGED <<phase, message>>
        PROVE  NotesQueued' /\ NotesInOrder'
    BY <1>1 DEF NotesQueued, NotesInOrder, Ascending
  <1>2. CASE Leaves
    BY <1>1, <1>2, LeavesEffect DEF noteVars
  <1>3. CASE ReadMessage
    <2>1. phase' # "sending"
      <3>1. CASE ~factory
        BY <1>3, <3>1 DEF ReadMessage, Break
      <3>2. CASE factory /\ connected
        <4>1. Head(inbound) \in InboundMessages
          BY <1>3, TailFacts DEF ReadMessage, TypeOK
        <4> QED
          BY <1>3, <3>2, <4>1, DispatchEffect DEF ReadMessage
      <3>3. CASE factory /\ ~connected
        BY <1>3, <3>3 DEF ReadMessage
      <3> QED
        BY <3>1, <3>2, <3>3 DEF TypeOK
    <2> QED
      BY <1>1, <1>3, <2>1 DEF ReadMessage, noteVars
  <1>4. CASE OnConnectOk
    <2>1. message \in InboundMessages
      BY <1>4 DEF OnConnectOk, HookDone, Holding, InHook
    <2>2. phase' # "sending"
      BY <1>4, <2>1, DispatchEffect DEF OnConnectOk
    <2> QED
      BY <1>1, <1>4, <2>2 DEF OnConnectOk, noteVars
  <1>5. CASE HookAsks \/ HookSends \/ OnNotificationReturns \/ TakeLagged
    BY <1>1, <1>5
    DEF HookAsks, HookSends, OnNotificationReturns, TakeLagged, loopVars, noteVars
  <1>6. CASE TakeNotification
    <2> DEFINE n == Head(ring)
    <2>1. /\ ring # <<>> /\ ring' = Tail(ring) /\ message' = Note(n)
          /\ UNCHANGED <<noted, issued>>
      BY <1>6 DEF TakeNotification
    <2>2. /\ 1 \in 1..Len(ring) /\ n = ring[1]
          /\ \A k \in 1..Len(ring') : k + 1 \in 1..Len(ring) /\ ring'[k] = ring[k + 1]
      BY <1>0, <2>1, TailFacts
    <2>3. Ascending(ring') /\ \A k \in 1..Len(ring') : n[1] < ring'[k][1]
      BY <1>0, <2>1, TailAscending DEF NotesQueued
    <2>4. message'.number = n[1]
      BY <2>1, MessageFacts
    <2>5. n[1] <= issued /\ \A k \in 1..Len(noted) : noted[k][1] < n[1]
      BY <2>2 DEF NotesQueued
    <2>6. /\ \A k \in 1..Len(ring') : ring'[k][1] <= issued
          /\ \A k \in 1..Len(noted) : noted[k][1] <= issued
          /\ \A i \in 1..Len(noted), j \in 1..Len(ring') : noted[i][1] < ring'[j][1]
      BY <2>2 DEF NotesQueued
    <2>7. NotesQueued'
      BY <2>1, <2>3, <2>4, <2>5, <2>6 DEF NotesQueued, Ascending
    <2> QED
      BY <2>1, <2>7 DEF NotesInOrder
  <1>7. CASE TakeResponse
    <2>1. \E r \in Requests : Head(responses) = Response(r)
      BY <1>7, TailFacts DEF TakeResponse, TypeOK
    <2>2. message'.type = "response" /\ UNCHANGED <<ring, noted, issued>>
      BY <1>7, <2>1, MessageFacts DEF TakeResponse, noteVars
    <2> QED
      BY <2>2 DEF NotesQueued, NotesInOrder, Ascending
  <1>8. CASE SendMessage
    <2>1. UNCHANGED <<ring, issued>> /\ phase = "sending" /\ phase' = "select"
      BY <1>8 DEF SendMessage
    <2>2. ASSUME NEW r \in Requests, message = Response(r)
          PROVE  NotesQueued' /\ NotesInOrder'
      <3>1. noted' = noted
        BY <1>8, <2>2, MessageFacts DEF SendMessage
      <3> QED
        BY <1>1, <2>1, <3>1
    <2>3. ASSUME NEW n \in Notes, message = Note(n)
          PROVE  NotesQueued' /\ NotesInOrder'
      <3>1. /\ message.type = "note" /\ message.number = n[1] /\ message.kind = n[2]
            /\ <<n[1], n[2]>> = n
        BY <2>3, MessageFacts DEF Notes
      <3>2. noted' = Append(noted, n)
        BY <1>8, <3>1 DEF SendMessage
      <3>3. /\ n[1] <= issued
            /\ \A k \in 1..Len(noted) : noted[k][1] < n[1]
            /\ \A k \in 1..Len(ring) : n[1] < ring[k][1]
        BY <2>1, <3>1 DEF NotesQueued
      <3>4. Ascending(noted)
        BY DEF NotesInOrder, Ascending
      <3>5. Ascending(noted')
        BY <1>0, <3>2, <3>3, <3>4, AppendAscending
      <3>6. \A k \in 1..Len(noted') : noted'[k] = n \/ \E j \in 1..Len(noted) : noted'[k] = noted[j]
        BY <1>0, <3>2, AppendFacts
      <3>7. /\ \A k \in 1..Len(noted') : noted'[k][1] <= issued
            /\ \A i \in 1..Len(noted'), j \in 1..Len(ring) : noted'[i][1] < ring[j][1]
        BY <3>3, <3>6 DEF NotesQueued
      <3>8. Ascending(ring) /\ \A k \in 1..Len(ring) : ring[k][1] <= issued
        BY DEF NotesQueued
      <3>9. NotesQueued'
        BY <2>1, <3>7, <3>8 DEF NotesQueued, Ascending
      <3> QED
        BY <3>5, <3>9 DEF NotesInOrder, Ascending
    <2> QED
      BY <2>1, <2>2, <2>3 DEF Holding
  <1>9. CASE Ends
    <2>1. ring' = <<>> /\ UNCHANGED <<noted, issued>> /\ phase' \in {"stopped", "panicked"}
      BY <1>9, EndsEffect
    <2> QED
      BY <2>1 DEF NotesQueued, NotesInOrder, Ascending
  <1>10. ASSUME NEW r \in Requests, HandlerStep(r) PROVE NotesQueued' /\ NotesInOrder'
    <2>1. UNCHANGED <<phase, message, noted>>
      BY <1>10, HandlerEffect DEF loopVars
    <2>2. UNCHANGED <<ring, issued>> \/ \E kind \in Kinds : Issue(kind)
      BY <1>10, HandlerEffect
    <2> QED
      BY <1>00, <1>1, <2>1, <2>2, IssueStep
  <1>11. CASE HandleStep
    <2>1. UNCHANGED <<phase, message>>
      BY <1>11 DEF HandleStep, Stop, DropHandle, HandleNotifies, loopVars
    <2>2. UNCHANGED <<ring, issued, noted>> \/ \E kind \in Kinds : Issue(kind)
      BY <1>11 DEF HandleStep, Stop, DropHandle, HandleNotifies, noteVars
    <2> QED
      BY <1>00, <1>1, <2>1, <2>2, IssueStep
  <1>12. CASE ClientStep \/ UNCHANGED vars
    <2>1. UNCHANGED <<phase, message, ring, noted, issued>>
      BY <1>12
      DEF ClientStep, ClientRequests, ClientNotifies, ClientReads, Arrives, ReadHalfEnds,
          WriteHalfBreaks, vars, loopVars, noteVars
    <2> QED
      BY <1>1, <2>1
  <1> QED
    BY <1>2, <1>3, <1>4, <1>5, <1>6, <1>7, <1>8, <1>9, <1>10, <1>11, <1>12
    DEF Next, LoopStep, Leaves, Ends

-----------------------------------------------------------------------------
(* Asks. *)

LEMMA UnderwayFacts ==
  ASSUME NEW a
  PROVE  /\ Underway(a) <=> \/ Contains(wire, Ask(a)) \/ Contains(inbound, Reply(a))
                            \/ message = Reply(a)
         /\ Underway(a)' <=> \/ Contains(wire', Ask(a)) \/ Contains(inbound', Reply(a))
                             \/ message' = Reply(a)
  BY DEF Underway, Contains

\* A step that starts no wait and loses nothing that an asker waits for.
LEMMA AsksKept ==
  ASSUME NoAskLost,
         \A a \in Askers : Waiting(a)' => Waiting(a) /\ (Underway(a) => Underway(a)'),
         reading = "ended" => reading' = "ended",
         Over => Over'
  PROVE  NoAskLost'
  BY DEF NoAskLost

LEMMA AsksStep ==
  ASSUME TypeOK, Holding, NoAskLost, [Next]_vars
  PROVE  NoAskLost'
  <1>0. /\ inbound \in Seq(InboundMessages) /\ wire \in Seq(OutboundMessages)
        /\ task \in [Requests -> TaskStates]
        /\ connected \in BOOLEAN /\ factory \in BOOLEAN
        /\ reading \in {"open", "ended"}
    BY DEF TypeOK
  <1>00. /\ \A r, a : Request(r) # Reply(a) /\ Response(r) # Reply(a)
         /\ \A n, a : Note(n) # Reply(a)
         /\ \A a : ClientNote # Reply(a) /\ NoMessage # Reply(a)
    BY MessageFacts
  <1>000. \A a, b : (Reply(a) = Reply(b) => a = b) /\ (Ask(a) = Ask(b) => a = b)
    BY DEF Reply, Ask
  <1>1. CASE Leaves \/ Ends
    <2>1. Over'
      BY <1>1, LeavesEffect, EndsEffect DEF Over, Ended
    <2> QED
      BY <2>1 DEF NoAskLost
  <1>2. CASE ReadMessage
    <2> DEFINE m == Head(inbound)
    <2>1. /\ m \in InboundMessages /\ inbound # <<>> /\ inbound' = Tail(inbound)
          /\ message = NoMessage /\ phase = "select" /\ UNCHANGED <<reading, wire>>
      BY <1>0, <1>2, TailFacts DEF ReadMessage, Holding, InHook
    <2>2. \A a : Contains(inbound, Reply(a)) <=> Contains(inbound', Reply(a)) \/ m = Reply(a)
      BY <1>0, <2>1, TailContains
    <2>3. CASE ~factory
      <3>1. Over'
        BY <1>2, <2>3 DEF ReadMessage, Break, Over, Ended
      <3> QED
        BY <3>1 DEF NoAskLost
    <2>4. CASE factory /\ connected
      <3>1. Dispatch(m)
        BY <1>2, <2>4 DEF ReadMessage
      <3>2. /\ phase' # "waiting"
            /\ \A r \in Requests : task'[r] = "waiting" => task[r] = "waiting"
            /\ pending' \subseteq pending
            /\ \A a \in Askers : m = Reply(a) => a \notin pending'
        BY <1>0, <1>00, <1>000, <2>1, <3>1, DispatchEffect DEF TaskStates
      <3>3. \A a \in Askers : Waiting(a)' => Waiting(a) /\ m # Reply(a)
        BY <3>2, ServerBounds DEF Waiting, Askers
      <3>4. \A a \in Askers : Waiting(a)' => Waiting(a) /\ (Underway(a) => Underway(a)')
        BY <1>00, <2>1, <2>2, <3>3, UnderwayFacts
      <3> QED
        BY <2>1, <3>4, AsksKept DEF Over, Ended
    <2>5. CASE factory /\ ~connected
      <3>1. phase' = "on_connect" /\ message' = m /\ UNCHANGED <<task, pending>>
        BY <1>2, <2>5 DEF ReadMessage
      <3>2. \A a \in Askers : Waiting(a)' => Waiting(a)
        BY <3>1 DEF Waiting
      <3>3. \A a \in Askers : Underway(a) => Underway(a)'
        BY <1>00, <2>1, <2>2, <3>1, UnderwayFacts
      <3> QED
        BY <2>1, <3>2, <3>3, AsksKept DEF Over, Ended
    <2> QED
      BY <1>0, <2>3, <2>4, <2>5
  <1>3. CASE OnConnectOk
    <2>1. /\ message \in InboundMessages /\ Dispatch(message) /\ UNCHANGED <<reading, wire, inbound>>
          /\ ~Over
      BY <1>3 DEF OnConnectOk, HookDone, Holding, InHook, linkVars, Over, Ended
    <2>2. /\ phase' # "waiting"
          /\ \A r \in Requests : task'[r] = "waiting" => task[r] = "waiting"
          /\ pending' \subseteq pending
          /\ \A a \in Askers : message = Reply(a) => a \notin pending'
      BY <1>0, <1>00, <1>000, <2>1, DispatchEffect DEF TaskStates
    <2>3. \A a \in Askers : Waiting(a)' => Waiting(a) /\ message # Reply(a)
      BY <2>2, ServerBounds DEF Waiting, Askers
    <2>4. \A a \in Askers : Waiting(a)' => Waiting(a) /\ (Underway(a) => Underway(a)')
      BY <2>1, <2>3, UnderwayFacts
    <2> QED
      BY <2>1, <2>4, AsksKept
  <1>4. CASE HookAsks
    <2>1. /\ UNCHANGED <<message, inbound, wire, reading, task>> /\ phase' = "asking" /\ ~Over
          /\ pending' = pending \union {Hook}
      BY <1>4 DEF HookAsks, linkVars, Over, Ended
    <2>2. \A a \in Askers : Waiting(a)' => Waiting(a)
      BY <2>1 DEF Waiting
    <2>3. \A a \in Askers : Underway(a) => Underway(a)'
      BY <2>1, UnderwayFacts
    <2> QED
      BY <2>1, <2>2, <2>3, AsksKept
  <1>5. CASE HookSends
    <2>1. /\ UNCHANGED <<message, inbound, reading, task, pending>> /\ ~Over
          /\ wire' = Append(wire, Ask(Hook))
      BY <1>5 DEF HookSends, Put, Over, Ended, taskVars
    <2>2. Hook \in Askers /\ Ask(Hook) \in OutboundMessages
      BY OutboundFacts DEF Askers
    <2>3. \A x : Contains(wire', x) <=> Contains(wire, x) \/ x = Ask(Hook)
      BY <1>0, <2>1, <2>2, AppendContains
    <2>4. \A a \in Askers : Underway(a) => Underway(a)'
      BY <2>1, <2>3, UnderwayFacts
    <2>5. Underway(Hook)'
      BY <2>3, UnderwayFacts
    <2>6. \A a \in Askers : a # Hook /\ Waiting(a)' => Waiting(a)
      BY <2>1 DEF Waiting
    <2>7. ASSUME NEW a \in Askers, Waiting(a)'
          PROVE  Underway(a)' \/ reading' = "ended" \/ Over'
      <3>1. CASE a = Hook
        BY <2>5, <3>1
      <3>2. CASE a # Hook
        <4>1. Underway(a) \/ reading = "ended" \/ Over
          BY <2>6, <2>7, <3>2 DEF NoAskLost
        <4> QED
          BY <2>1, <2>4, <4>1
      <3> QED
        BY <3>1, <3>2
    <2> QED
      BY <2>7 DEF NoAskLost
  <1>6. CASE OnNotificationReturns
    <2>1. /\ UNCHANGED <<inbound, wire, reading, task, pending>> /\ phase' = "select" /\ ~Over
          /\ message = ClientNote
      BY <1>6
      DEF OnNotificationReturns, HookDone, Holding, InHook, Over, Ended, linkVars, taskVars
    <2>2. \A a \in Askers : Waiting(a)' => Waiting(a)
      BY <2>1 DEF Waiting
    <2>3. \A a \in Askers : Underway(a) => Underway(a)'
      BY <1>00, <2>1, UnderwayFacts
    <2> QED
      BY <2>1, <2>2, <2>3, AsksKept
  <1>7. CASE TakeNotification \/ TakeResponse
    <2>1. /\ UNCHANGED <<inbound, wire, reading, task, pending>> /\ phase' = "sending" /\ ~Over
          /\ message = NoMessage
      BY <1>7
      DEF TakeNotification, TakeResponse, Holding, InHook, Over, Ended, linkVars, taskVars
    <2>2. \A a \in Askers : Waiting(a)' => Waiting(a)
      BY <2>1 DEF Waiting
    <2>3. \A a \in Askers : Underway(a) => Underway(a)'
      BY <1>00, <2>1, UnderwayFacts
    <2> QED
      BY <2>1, <2>2, <2>3, AsksKept
  <1>8. CASE SendMessage
    <2>1. /\ UNCHANGED <<inbound, reading, task, pending>> /\ phase' = "select" /\ ~Over
          /\ wire' = Append(wire, message)
      BY <1>8 DEF SendMessage, Put, Over, Ended, taskVars
    <2>2. \A a : message # Reply(a)
      BY <1>8, <1>00 DEF SendMessage, Holding
    <2>3. message \in OutboundMessages
      BY <1>8, OutboundFacts DEF SendMessage, Holding
    <2>4. \A x : Contains(wire, x) => Contains(wire', x)
      BY <1>0, <2>1, <2>3, AppendContains
    <2>5. \A a \in Askers : Waiting(a)' => Waiting(a)
      BY <2>1 DEF Waiting
    <2>6. \A a \in Askers : Underway(a) => Underway(a)'
      BY <2>1, <2>2, <2>4, UnderwayFacts
    <2> QED
      BY <2>1, <2>5, <2>6, AsksKept
  <1>9. CASE TakeLagged \/ HandleStep \/ WriteHalfBreaks \/ UNCHANGED vars
    <2>1. UNCHANGED <<phase, message, inbound, wire, reading, task, pending>>
      BY <1>9
      DEF TakeLagged, HandleStep, Stop, DropHandle, HandleNotifies, WriteHalfBreaks, vars,
          loopVars, linkVars, taskVars
    <2>2. \A a \in Askers : Waiting(a)' => Waiting(a)
      BY <2>1 DEF Waiting
    <2>3. \A a \in Askers : Underway(a) => Underway(a)'
      BY <2>1, UnderwayFacts
    <2> QED
      BY <2>1, <2>2, <2>3, AsksKept DEF Over, Ended
  <1>10. ASSUME NEW r \in Requests, HandlerStep(r) PROVE NoAskLost'
    <2>0. /\ UNCHANGED <<phase, message, inbound, reading>> /\ r \in Askers /\ r # Hook
      BY <1>10, HandlerEffect, ServerBounds DEF loopVars, Askers
    <2>1. CASE task[r] = "asking" /\ task' = [task EXCEPT ![r] = "waiting"]
               /\ Put(Ask(r)) /\ pending' = pending
      <3>1. wire' = Append(wire, Ask(r)) /\ Ask(r) \in OutboundMessages
        BY <2>0, <2>1, OutboundFacts DEF Put
      <3>2. \A x : Contains(wire', x) <=> Contains(wire, x) \/ x = Ask(r)
        BY <1>0, <3>1, AppendContains
      <3>3. Underway(r)' /\ \A a \in Askers : Underway(a) => Underway(a)'
        BY <2>0, <3>2, UnderwayFacts
      <3>4. \A a \in Askers : a # r /\ Waiting(a)' => Waiting(a)
        BY <1>0, <2>0, <2>1, ServerBounds DEF Waiting, Askers
      <3>5. ASSUME NEW a \in Askers, Waiting(a)'
            PROVE  Underway(a)' \/ reading' = "ended" \/ Over'
        <4>1. CASE a = r
          BY <3>3, <4>1
        <4>2. CASE a # r
          <5>1. Underway(a) \/ reading = "ended" \/ Over
            BY <3>4, <3>5, <4>2 DEF NoAskLost
          <5> QED
            BY <2>0, <3>3, <5>1 DEF Over, Ended
        <4> QED
          BY <4>1, <4>2
      <3> QED
        BY <3>5 DEF NoAskLost
    <2>2. CASE /\ wire' = wire
               /\ \A q \in Requests : task'[q] = "waiting" => task[q] = "waiting" /\ q # r
               /\ pending' \subseteq pending \union {r}
      <3>1. \A a \in Askers : Waiting(a)' => Waiting(a)
        BY <2>0, <2>2, ServerBounds DEF Waiting, Askers
      <3>2. \A a \in Askers : Underway(a) => Underway(a)'
        BY <2>0, <2>2, UnderwayFacts
      <3> QED
        BY <2>0, <3>1, <3>2, AsksKept DEF Over, Ended
    <2>3. CASE UNCHANGED <<wire, task, pending>>
      <3>1. \A a \in Askers : Waiting(a)' => Waiting(a)
        BY <2>0, <2>3 DEF Waiting
      <3>2. \A a \in Askers : Underway(a) => Underway(a)'
        BY <2>0, <2>3, UnderwayFacts
      <3> QED
        BY <2>0, <3>1, <3>2, AsksKept DEF Over, Ended
    <2>4. CASE /\ \E t \in TaskStates \ {"waiting"} : task' = [task EXCEPT ![r] = t]
               /\ wire' = wire /\ pending' \subseteq pending \union {r}
      BY <1>0, <2>2, <2>4
    <2> QED
      BY <1>10, <2>1, <2>3, <2>4, HandlerEffect DEF TaskStates
  <1>11. ASSUME NEW m \in InboundMessages, Arrives(m),
                \A a \in Askers : Contains(wire, Ask(a)) => Contains(wire', Ask(a)) \/ m = Reply(a)
         PROVE  NoAskLost'
    <2>1. /\ UNCHANGED <<phase, message, reading, task, pending>>
          /\ inbound' = Append(inbound, m)
      BY <1>11 DEF Arrives, loopVars, taskVars
    <2>2. \A x : Contains(inbound', x) <=> Contains(inbound, x) \/ x = m
      BY <1>0, <2>1, AppendContains
    <2>3. \A a \in Askers : Waiting(a)' => Waiting(a)
      BY <2>1 DEF Waiting
    <2>4. \A a \in Askers : Underway(a) => Underway(a)'
      BY <1>11, <2>1, <2>2, UnderwayFacts
    <2> QED
      BY <2>1, <2>3, <2>4, AsksKept DEF Over, Ended
  <1>12. CASE (\E r \in Requests : ClientRequests(r)) \/ ClientNotifies
    BY <1>11, <1>12, OutboundFacts DEF ClientRequests, ClientNotifies
  <1>13. CASE ClientReads
    <2>1. /\ wire # <<>> /\ wire' = Tail(wire) /\ Head(wire) \in OutboundMessages
      BY <1>0, <1>13, TailFacts DEF ClientReads
    <2>2. \A x : Contains(wire, x) <=> Contains(wire', x) \/ x = Head(wire)
      BY <1>0, <2>1, TailContains
    <2>3. CASE Head(wire).type = "ask" /\ reading = "open"
      <3>1. PICK b \in Askers : Head(wire) = Ask(b)
        BY <2>1, <2>3, MessageFacts DEF OutboundMessages
      <3>2. Arrives(Reply(b)) /\ Reply(b) \in InboundMessages
        BY <1>13, <2>3, <3>1, MessageFacts, OutboundFacts DEF ClientReads
      <3>3. \A a \in Askers : Contains(wire, Ask(a)) => Contains(wire', Ask(a)) \/ Reply(b) = Reply(a)
        BY <1>000, <2>2, <3>1
      <3> QED
        BY <1>11, <3>2, <3>3
    <2>4. CASE Head(wire).type # "ask" /\ reading = "open"
      <3>1. UNCHANGED <<phase, message, reading, task, pending, inbound>>
        BY <1>13, <2>4 DEF ClientReads, loopVars, taskVars
      <3>2. \A a \in Askers : Waiting(a)' => Waiting(a)
        BY <3>1 DEF Waiting
      <3>3. \A a : Head(wire) # Ask(a)
        BY <2>4, MessageFacts
      <3>4. \A a \in Askers : Underway(a) => Underway(a)'
        BY <2>2, <3>1, <3>3, UnderwayFacts
      <3> QED
        BY <3>1, <3>2, <3>4, AsksKept DEF Over, Ended
    <2>5. CASE reading = "ended"
      <3>1. reading' = "ended"
        BY <1>13, <2>5 DEF ClientReads
      <3> QED
        BY <3>1 DEF NoAskLost
    <2> QED
      BY <1>0, <2>3, <2>4, <2>5
  <1>14. CASE ReadHalfEnds
    BY <1>14 DEF ReadHalfEnds, NoAskLost
  <1> QED
    BY <1>1, <1>2, <1>3, <1>4, <1>5, <1>6, <1>7, <1>8, <1>9, <1>10, <1>12, <1>13, <1>14
    DEF Next, LoopStep, ClientStep, Leaves, Ends

-----------------------------------------------------------------------------
(* The theorems. *)

LEMMA ServerInit ==
  ASSUME Init
  PROVE  ServerInv
  <1>1. TypeOK
    <2>0. message \in InboundMessages \union OutboundMessages \union {NoMessage}
      BY DEF Init
    <2>1. /\ phase \in Phases /\ connected \in BOOLEAN /\ factory \in BOOLEAN
          /\ handle \in {"held", "stopping", "gone"} /\ pending \subseteq Askers
          /\ reading \in {"open", "ended"} /\ writing \in {"open", "broken"}
          /\ lagged \in BOOLEAN
      BY DEF Init, Phases
    <2>7. issued \in 0..MaxNotes
      BY ServerBounds DEF Init
    <2>2. /\ \A S : <<>> \in Seq(S)
          /\ Len(<<>>) = 0
      OBVIOUS
    <2>3. /\ wire = <<>> /\ inbound = <<>> /\ responses = <<>> /\ ring = <<>> /\ noted = <<>>
      BY DEF Init
    <2>4. /\ Len(wire) <= WireSize /\ Len(ring) <= Capacity
      BY <2>2, <2>3, ServerBounds
    <2>5. task \in [Requests -> TaskStates] /\ answers \in [Requests -> Nat]
      BY DEF Init, TaskStates
    <2>6. hooks \in [{"on_connect", "on_shutdown"} -> Nat]
      BY DEF Init
    <2> QED
      BY <2>0, <2>1, <2>2, <2>3, <2>4, <2>5, <2>6, <2>7 DEF TypeOK
  <1>2. Holding /\ AskedOnce /\ SentReturned /\ InTurn /\ CallbackOrder
    BY MessageFacts
    DEF Init, Holding, AskedOnce, Coming, SentReturned, Sending, InTurn, CallbackOrder, InHook
  <1>3. NotesQueued /\ NotesInOrder
    BY DEF Init, NotesQueued, NotesInOrder, Ascending
  <1>4. NoAskLost
    BY DEF Init, NoAskLost, Waiting
  <1>5. ResponsesConserved
    BY MessageFacts DEF Init, ResponsesConserved, Queued, Sending
  <1> QED
    BY <1>1, <1>2, <1>3, <1>4, <1>5 DEF ServerInv

LEMMA ServerStep ==
  ASSUME ServerInv, [Next]_vars
  PROVE  ServerInv'
  <1>1. /\ TypeOK /\ Holding /\ AskedOnce /\ SentReturned /\ InTurn /\ NotesQueued
        /\ NoAskLost /\ ResponsesConserved /\ CallbackOrder /\ NotesInOrder
    BY DEF ServerInv
  <1>2. TypeOK' /\ Holding'
    BY <1>1, TypeStep
  <1>3. AskedOnce'
    BY <1>1, AskedStep
  <1>4. InTurn' /\ CallbackOrder'
    BY <1>1, CallbackStep
  <1>5. ResponsesConserved' /\ SentReturned'
    BY <1>1, ConservedStep
  <1>6. NotesQueued' /\ NotesInOrder'
    BY <1>1, NotesStep
  <1>7. NoAskLost'
    BY <1>1, AsksStep
  <1> QED
    BY <1>2, <1>3, <1>4, <1>5, <1>6, <1>7 DEF ServerInv

\* The inductive invariant of a server's connection: requests, responses,
\* notifications and asks between the loop, the handlers and the client.
THEOREM ServerInvariance == Spec => []ServerInv
  <1>1. Init => ServerInv
    BY ServerInit
  <1>2. ServerInv /\ [Next]_vars => ServerInv'
    BY ServerStep
  <1> QED
    BY <1>1, <1>2, PTL DEF Spec

\* A handler's response is queued, in the loop's hands or sent, once, unless the
\* loop has ended: whatever is selected, in whatever order.
THEOREM ResponsesAreConserved == Spec => []ResponsesConserved
  <1>1. ServerInv => ResponsesConserved
    BY DEF ServerInv
  <1> QED
    BY <1>1, ServerInvariance, PTL

\* on_connect before anything of the client's reaches the server's code, and
\* each callback once.
THEOREM CallbacksOrdered == Spec => []CallbackOrder
  <1>1. ServerInv => CallbackOrder
    BY DEF ServerInv
  <1> QED
    BY <1>1, ServerInvariance, PTL

\* The broadcast channel, however small and whatever it overwrites, hands the
\* client notifications in order and none twice.
THEOREM NotificationsInOrder == Spec => []NotesInOrder
  <1>1. ServerInv => NotesInOrder
    BY DEF ServerInv
  <1> QED
    BY <1>1, ServerInvariance, PTL

\* What a handler or a callback waits for is under way, as long as it can come.
THEOREM AsksUnderway == Spec => []NoAskLost
  <1>1. ServerInv => NoAskLost
    BY DEF ServerInv
  <1> QED
    BY <1>1, ServerInvariance, PTL

=============================================================================
