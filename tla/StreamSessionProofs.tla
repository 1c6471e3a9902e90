------------------------- MODULE StreamSessionProofs -------------------------
(***************************************************************************)
(* Proofs about StreamSession, for pipes of any size and any number of     *)
(* calls, requests of the server and notifications.                        *)
(***************************************************************************)
EXTENDS StreamSession, TLAPS

-----------------------------------------------------------------------------
(* Sequences. *)

LEMMA AppendType ==
  ASSUME NEW S, NEW s \in Seq(S), NEW x \in S
  PROVE  /\ Append(s, x) \in Seq(S)
         /\ Len(Append(s, x)) = Len(s) + 1
         /\ \A k \in DOMAIN Append(s, x) :
              IF k \in DOMAIN s THEN Append(s, x)[k] = s[k] ELSE Append(s, x)[k] = x
  OBVIOUS

LEMMA TailType ==
  ASSUME NEW S, NEW s \in Seq(S), s # <<>>
  PROVE  /\ Tail(s) \in Seq(S) /\ Head(s) \in S
         /\ Len(Tail(s)) = Len(s) - 1
         /\ Head(s) = s[1] /\ 1 \in DOMAIN s
         /\ \A k \in DOMAIN Tail(s) : k + 1 \in DOMAIN s /\ Tail(s)[k] = s[k + 1]
  OBVIOUS

-----------------------------------------------------------------------------
(* Clogged for good. *)

\* With both loops sending and both pipes full nothing that moves a message or
\* ends a send can happen.
LEMMA CloggedStep ==
  ASSUME Clogged, [SessionNext]_sessionVars
  PROVE  Clogged'
  <1> SUFFICES UNCHANGED <<pipe, writing>>
    BY DEF Clogged, Select, Room
  <1>0. /\ ~Select("client") /\ ~Select("server")
        /\ ~Room("client") /\ ~Room("server")
    BY DEF Clogged, Ends
  <1>1. CASE EndStep
    BY <1>1 DEF EndStep, Serve, Accept, Connect, loopVars
  <1>2. CASE UserStep
    BY <1>0, <1>2
    DEF UserStep, Call, SendRequest, Confirm, DropCall, FlushLeft, Put, loopVars
  <1>3. CASE LoopStep
    BY <1>0, <1>3
    DEF LoopStep, ClientReads, ServerReads, ServerResponds, LoopWrites, ForwardNote, Put, Ends
  <1>4. CASE \E end \in Ends : Notify(end)
    BY <1>4 DEF Notify
  <1>5. CASE \E c \in Calls : TaskStep(c)
    BY <1>0, <1>5 DEF TaskStep, Ask, SendAsk, Respond, Put, loopVars
  <1>6. CASE UNCHANGED sessionVars
    BY <1>6 DEF sessionVars, loopVars
  <1> QED
    BY <1>1, <1>2, <1>3, <1>4, <1>5, <1>6 DEF SessionNext

\* Two loops that send to each other through full pipes, server.rs:277-304 and
\* client.rs:272-345, never get out of it.
THEOREM ClogsAreForGood == SessionSpec => CloggedForGood
  <1>1. [SessionNext]_sessionVars => [Clogged => Clogged']_sessionVars
    BY CloggedStep
  <1> QED
    BY <1>1, PTL DEF SessionSpec, CloggedForGood

-----------------------------------------------------------------------------
(* The invariant. *)

LEMMA SessionInitInv == SessionInit => SessionInv
  <1> SUFFICES ASSUME SessionInit PROVE SessionInv
    OBVIOUS
  <1> USE SessionBounds
  <1>1. SessionTypeOK
    BY DEF SessionInit, SessionTypeOK, Ends
  <1>2. Started /\ Unprompted
    BY DEF SessionInit, Started, Unprompted, Select, Ends, Nothing, Message
  <1> QED
    BY <1>1, <1>2 DEF SessionInv

\* Notes and Nothing are what they are.
LEMMA MessageFacts ==
  /\ Note \in Messages /\ Note.kind = "notification"
  /\ Nothing \notin Messages /\ Nothing.kind = "nothing"
  /\ \A c \in Calls : \A k \in {"request", "response", "ask", "answer"} :
       Message(k, c) \in Messages /\ Message(k, c).kind = k
  /\ \A m \in Messages : m # Note => m.call \in Calls
  BY DEF Message, Messages, Note, Nothing

\* Steps that move no message: the ends come up, calls and requests begin.
LEMMA QuietStepInv ==
  ASSUME SessionInv, EndStep \/ Call \/ \E c \in Calls : Ask(c)
  PROVE  SessionInv'
  <1> USE SessionBounds DEF SessionInv
  <1>1. CASE EndStep
    <2>1. /\ UNCHANGED <<pipe, writing, left, queue, notes, user, task, calls, asks, noted>>
          /\ kind' = kind /\ client' \in {client, "up"}
          /\ server' \in {"listening", "up"} \cup {server} /\ (server = "up" => server' = "up")
      BY <1>1 DEF EndStep, Serve, Accept, Connect, SessionTypeOK, loopVars, countVars
    <2>2. SessionTypeOK'
      BY <2>1 DEF SessionTypeOK
    <2> QED
      BY <2>1, <2>2 DEF Started, Unprompted, Select
  <1>2. CASE Call
    <2>1. /\ calls \in Nat /\ calls' \in 0..MaxCalls /\ calls' \in Calls
          /\ client = "up" /\ user' = "sending"
          /\ UNCHANGED <<endVars, loopVars, task, asks, noted>>
      BY <1>2 DEF Call, SessionTypeOK, Calls
    <2>2. SessionTypeOK'
      BY <2>1 DEF SessionTypeOK, endVars, loopVars
    <2> QED
      BY <2>1, <2>2 DEF Started, Unprompted, Select, endVars, loopVars
  <1>3. ASSUME NEW c \in Calls, Ask(c) PROVE SessionInv'
    BY <1>3 DEF Ask, SessionTypeOK, Started, Unprompted, Select, endVars, loopVars
  <1> QED
    BY <1>1, <1>2, <1>3

Unasked(sequence) == \A k \in DOMAIN sequence : sequence[k].kind # "ask"

\* What a send does to the pipes; the message is the last of its pipe.
LEMMA PutPipes ==
  ASSUME SessionTypeOK, NEW end \in Ends, NEW message \in Messages, Room(end),
         pipe' = [pipe EXCEPT ![end] = Append(@, message)]
  PROVE  /\ pipe' \in [Ends -> Seq(Messages)]
         /\ \A e \in Ends : Len(pipe'[e]) <= Capacity
         /\ \A e \in Ends \ {end} : pipe'[e] = pipe[e]
         /\ message.kind # "ask" /\ Unasked(pipe["server"]) => Unasked(pipe'["server"])
  <1> USE SessionBounds
  <1>1. /\ pipe[end] \in Seq(Messages) /\ pipe'[end] = Append(pipe[end], message)
        /\ \A e \in Ends \ {end} : pipe'[e] = pipe[e]
    BY DEF SessionTypeOK
  <1>2. /\ Append(pipe[end], message) \in Seq(Messages)
        /\ Len(Append(pipe[end], message)) = Len(pipe[end]) + 1
        /\ Len(pipe[end]) \in Nat
    BY <1>1
  <1>3. Len(pipe'[end]) <= Capacity
    BY <1>1, <1>2 DEF Room
  <1>4. pipe' \in [Ends -> Seq(Messages)]
    BY <1>2 DEF SessionTypeOK
  <1>5. ASSUME message.kind # "ask", Unasked(pipe["server"])
        PROVE  Unasked(pipe'["server"])
    BY <1>1, <1>5, AppendType DEF Unasked, Ends
  <1> QED
    BY <1>1, <1>3, <1>4, <1>5 DEF SessionTypeOK

\* The user's side of the client.
LEMMA UserStepInv ==
  ASSUME SessionInv, UserStep
  PROVE  SessionInv'
  <1> USE SessionBounds, MessageFacts DEF SessionInv
  <1>1. CASE Call
    BY <1>1, QuietStepInv
  <1>2. CASE SendRequest
    <2>1. /\ Message("request", calls) \in Messages /\ client = "up"
          /\ Message("request", calls).kind # "ask"
      BY <1>2 DEF SendRequest, Started, SessionTypeOK
    <2>2. SessionTypeOK'
      BY <1>2, <2>1, PutPipes DEF SendRequest, Put, SessionTypeOK, Ends, endVars, countVars
    <2>3. Started' /\ Unprompted'
      BY <1>2, <2>1, PutPipes
      DEF SendRequest, Put, Started, Unprompted, Ends, Select, endVars, countVars
    <2> QED
      BY <2>2, <2>3
  <1>3. CASE Confirm
    <2>1. client = "up"
      BY <1>3 DEF Confirm, Started, SessionTypeOK
    <2>2. SessionTypeOK'
      BY <1>3, <2>1, PutPipes DEF Confirm, Put, SessionTypeOK, Ends, endVars, countVars
    <2>3. Started' /\ Unprompted'
      BY <1>3, <2>1, PutPipes
      DEF Confirm, Put, Started, Unprompted, Ends, Select, endVars, countVars
    <2> QED
      BY <2>2, <2>3
  <1>4. CASE DropCall
    <2>1. /\ left' \in Seq(Messages) /\ user' = "idle" /\ client = "up"
          /\ UNCHANGED <<endVars, pipe, writing, queue, notes, task, countVars>>
      <3>1. user = "sending" => Message("request", calls) \in Messages
        BY DEF Started
      <3>2. left' \in Seq(Messages)
        <4>1. left \in Seq(Messages)
          BY DEF SessionTypeOK
        <4>2. CASE left' = left
          BY <4>1, <4>2
        <4>3. CASE user = "sending" /\ left' = Append(left, Message("request", calls))
          BY <3>1, <4>1, <4>3, AppendType
        <4>4. CASE user = "confirming" /\ left' = Append(left, Note)
          BY <4>1, <4>4, AppendType
        <4> QED
          BY <1>4, <4>2, <4>3, <4>4 DEF DropCall
      <3> QED
        BY <1>4, <3>2 DEF DropCall, Started, SessionTypeOK
    <2>2. SessionTypeOK'
      BY <2>1 DEF SessionTypeOK, endVars, countVars
    <2> QED
      BY <2>1, <2>2 DEF Started, Unprompted, Select, endVars, countVars
  <1>5. CASE FlushLeft
    <2>1. /\ Head(left) \in Messages /\ Tail(left) \in Seq(Messages) /\ client = "up"
      BY <1>5, TailType DEF FlushLeft, Started, SessionTypeOK
    <2>2. SessionTypeOK'
      BY <1>5, <2>1, PutPipes DEF FlushLeft, SessionTypeOK, Ends, endVars, countVars
    <2>3. pipe'["server"] = pipe["server"]
      BY <1>5, <2>1, PutPipes DEF FlushLeft, Ends
    <2> QED
      BY <1>5, <2>1, <2>2, <2>3
      DEF FlushLeft, Started, Unprompted, Select, endVars, countVars
  <1> QED
    BY <1>1, <1>2, <1>3, <1>4, <1>5 DEF UserStep

\* The loops take notifications to send, and send.
LEMMA SendStepInv ==
  ASSUME SessionInv, NEW end \in Ends, LoopWrites(end) \/ ForwardNote(end) \/ Notify(end)
  PROVE  SessionInv'
  <1> USE SessionBounds, MessageFacts DEF SessionInv
  <1>1. CASE LoopWrites(end)
    <2>1. /\ writing[end] \in Messages
          /\ end = "client" => client = "up"
      BY <1>1 DEF LoopWrites, Select, Started, SessionTypeOK
    <2>2. SessionTypeOK'
      BY <1>1, <2>1, PutPipes DEF LoopWrites, Put, SessionTypeOK, Ends, endVars, countVars
    <2>3. Started'
      BY <1>1, <2>1 DEF LoopWrites, Started, SessionTypeOK, Ends, endVars, countVars
    <2>4. writing'["client"] \in {writing["client"], Nothing}
          /\ writing'["server"] \in {writing["server"], Nothing}
      BY <1>1 DEF LoopWrites, SessionTypeOK, Ends
    <2>5. asks = 0 => Unasked(pipe'["server"])
      <3>1. CASE end = "server"
        BY <1>1, <2>1, <3>1, PutPipes DEF LoopWrites, Put, Unasked, Unprompted
      <3>2. CASE end = "client"
        BY <1>1, <2>1, <3>2, PutPipes DEF LoopWrites, Put, Unasked, Unprompted, Ends
      <3> QED
        BY <3>1, <3>2 DEF Ends
    <2>6. Unprompted'
      BY <1>1, <2>4, <2>5 DEF LoopWrites, Unprompted, Unasked, Select, endVars, countVars
    <2> QED
      BY <2>2, <2>3, <2>6
  <1>2. CASE ForwardNote(end)
    <2>1. SessionTypeOK'
      BY SMTT(30), <1>2 DEF ForwardNote, SessionTypeOK, Ends, endVars, countVars
    <2>2. Started'
      BY <1>2 DEF ForwardNote, Running, Started, SessionTypeOK, Ends, endVars, countVars
    <2>3. Unprompted'
      BY <1>2
      DEF ForwardNote, Unprompted, SessionTypeOK, Select, Ends, endVars, countVars
    <2> QED
      BY <2>1, <2>2, <2>3
  <1>3. CASE Notify(end)
    <2>1. /\ noted' = [noted EXCEPT ![end] = noted[end] + 1]
          /\ notes' = [notes EXCEPT ![end] = notes[end] + 1]
          /\ noted[end] \in Nat /\ notes[end] \in Nat /\ MaxNotes[end] \in Nat
          /\ noted[end] < MaxNotes[end]
      BY <1>3 DEF Notify, SessionTypeOK, Ends
    <2>2. SessionTypeOK'
      BY SMTT(30), <1>3, <2>1 DEF Notify, SessionTypeOK, endVars
    <2>3. Started'
      BY <1>3 DEF Notify, Started, endVars
    <2>4. /\ noted'["client"] = 0 => noted["client"] = 0 /\ notes'["client"] = notes["client"]
          /\ noted["client"] > 0 => noted'["client"] > 0
      BY SMTT(30), <2>1 DEF SessionTypeOK, Ends
    <2>5. Unprompted'
      BY <1>3, <2>4 DEF Notify, Unprompted, Select, endVars
    <2> QED
      BY <2>2, <2>3, <2>5
  <1> QED
    BY <1>1, <1>2, <1>3

\* What a read does to the pipes; the message is the first of its pipe.
LEMMA TakePipes ==
  ASSUME SessionTypeOK, NEW end \in Ends, pipe[end] # <<>>,
         pipe' = [pipe EXCEPT ![end] = Tail(@)]
  PROVE  /\ Head(pipe[end]) \in Messages
         /\ pipe' \in [Ends -> Seq(Messages)]
         /\ \A e \in Ends : Len(pipe'[e]) <= Capacity
         /\ \A e \in Ends \ {end} : pipe'[e] = pipe[e]
         /\ Unasked(pipe["server"]) => /\ Unasked(pipe'["server"])
                                       /\ end = "server" => Head(pipe[end]).kind # "ask"
  <1> USE SessionBounds
  <1>1. /\ pipe[end] \in Seq(Messages) /\ pipe'[end] = Tail(pipe[end])
        /\ Len(pipe[end]) <= Capacity /\ Len(pipe[end]) \in Nat
        /\ \A e \in Ends \ {end} : pipe'[e] = pipe[e]
    BY DEF SessionTypeOK
  <1>2. /\ Tail(pipe[end]) \in Seq(Messages) /\ Head(pipe[end]) \in Messages
        /\ Len(Tail(pipe[end])) = Len(pipe[end]) - 1
    BY <1>1, TailType
  <1>3. pipe' \in [Ends -> Seq(Messages)]
    BY <1>2 DEF SessionTypeOK
  <1>4. Len(pipe'[end]) <= Capacity
    BY <1>1, <1>2
  <1>5. ASSUME Unasked(pipe["server"])
        PROVE  /\ Unasked(pipe'["server"])
               /\ end = "server" => Head(pipe[end]).kind # "ask"
    <2>1. CASE end = "server"
      BY <1>1, <1>5, <2>1, TailType DEF Unasked
    <2>2. CASE end # "server"
      BY <1>1, <1>5, <2>2 DEF Unasked, Ends
    <2> QED
      BY <2>1, <2>2
  <1> QED
    BY <1>1, <1>2, <1>3, <1>4, <1>5 DEF SessionTypeOK

LEMMA ClientReadsInv ==
  ASSUME SessionInv, ClientReads
  PROVE  SessionInv'
  <1> USE SessionBounds, MessageFacts DEF SessionInv
  <1> DEFINE message == Head(pipe["server"])
  <1>1. /\ message \in Messages /\ client = "up"
        /\ pipe'["client"] = pipe["client"]
        /\ pipe' \in [Ends -> Seq(Messages)] /\ \A e \in Ends : Len(pipe'[e]) <= Capacity
        /\ asks = 0 => Unasked(pipe'["server"]) /\ message.kind # "ask"
    BY TakePipes DEF ClientReads, Unprompted, Unasked, Ends
  <1>2. /\ user' \in {user, "confirming", "idle"}
        /\ UNCHANGED <<endVars, left, queue, notes, task, countVars>>
    BY DEF ClientReads
  <1>3. /\ writing' \in [Ends -> Messages \cup {Nothing}]
        /\ writing'["server"] = writing["server"]
        /\ writing'["client"] # Nothing => message.kind = "ask"
    <2>1. CASE message.kind = "ask"
      <3>1. message.call \in Calls
        BY <1>1, <2>1
      <3> QED
        BY <2>1, <3>1 DEF ClientReads, SessionTypeOK, Ends
    <2>2. CASE message.kind # "ask"
      BY <2>2 DEF ClientReads, SessionTypeOK, Ends, Select
    <2> QED
      BY <2>1, <2>2
  <1>4. SessionTypeOK'
    BY <1>1, <1>2, <1>3 DEF SessionTypeOK, endVars, countVars
  <1>5. Started'
    BY <1>1, <1>2 DEF Started, endVars, countVars
  <1>6. Unprompted'
    BY SMTT(30), <1>1, <1>2, <1>3 DEF Unprompted, Unasked, Select, SessionTypeOK, countVars
  <1> QED
    BY <1>4, <1>5, <1>6

LEMMA ServerReadsInv ==
  ASSUME SessionInv, ServerReads
  PROVE  SessionInv'
  <1> USE SessionBounds, MessageFacts DEF SessionInv
  <1> DEFINE message == Head(pipe["client"])
  <1>1. /\ message \in Messages /\ server = "up" /\ client = "up"
        /\ pipe'["server"] = pipe["server"]
        /\ pipe' \in [Ends -> Seq(Messages)] /\ \A e \in Ends : Len(pipe'[e]) <= Capacity
    BY TakePipes DEF ServerReads, SessionTypeOK, Ends
  <1>2. UNCHANGED <<endVars, writing, left, queue, notes, user, countVars>>
    BY DEF ServerReads
  <1>3. /\ task' \in [Calls -> {"none", "running", "asking", "waiting", "done"}]
        /\ \A c \in Calls : task'[c] = "asking" => task[c] = "asking"
    BY <1>1 DEF ServerReads, SessionTypeOK
  <1>4. SessionTypeOK'
    BY <1>1, <1>2, <1>3 DEF SessionTypeOK, endVars, countVars
  <1> QED
    BY <1>1, <1>2, <1>3, <1>4 DEF Started, Unprompted, Select, endVars, countVars

LEMMA ServerRespondsInv ==
  ASSUME SessionInv, ServerResponds
  PROVE  SessionInv'
  <1> USE SessionBounds, MessageFacts DEF SessionInv
  <1>1. /\ Head(queue) \in Messages /\ Tail(queue) \in Seq(Messages)
        /\ Head(queue).kind # "ask" /\ Unasked(Tail(queue))
    BY TailType DEF ServerResponds, SessionTypeOK, Unprompted, Unasked
  <1>2. /\ writing' \in [Ends -> Messages \cup {Nothing}]
        /\ writing'["client"] = writing["client"] /\ writing'["server"] = Head(queue)
    BY <1>1 DEF ServerResponds, SessionTypeOK, Ends
  <1>3. SessionTypeOK'
    BY <1>1, <1>2 DEF ServerResponds, SessionTypeOK, endVars, countVars
  <1>4. Started'
    BY <1>2 DEF ServerResponds, Started, endVars, countVars
  <1>5. Unprompted'
    BY <1>1, <1>2 DEF ServerResponds, Unprompted, Unasked, Select, countVars
  <1> QED
    BY <1>3, <1>4, <1>5

\* A handler sends its request, or hands its response to the loop.
LEMMA TaskStepInv ==
  ASSUME SessionInv, NEW c \in Calls, SendAsk(c) \/ Respond(c)
  PROVE  SessionInv'
  <1> USE SessionBounds, MessageFacts DEF SessionInv
  <1>0. server = "up"
    BY DEF SendAsk, Respond, SessionTypeOK
  <1>1. CASE SendAsk(c)
    <2>1. asks # 0
      BY <1>1 DEF SendAsk, Unprompted
    <2>2. SessionTypeOK'
      BY <1>0, <1>1, PutPipes DEF SendAsk, Put, SessionTypeOK, Ends, endVars, countVars
    <2> QED
      BY <1>1, <2>1, <2>2
      DEF SendAsk, Started, Unprompted, Select, endVars, countVars
  <1>2. CASE Respond(c)
    <2>1. /\ queue' \in Seq(Messages)
          /\ Unasked(queue')
      BY <1>2, AppendType DEF Respond, SessionTypeOK, Unprompted, Unasked
    <2>2. SessionTypeOK'
      BY <1>0, <1>2, <2>1 DEF Respond, SessionTypeOK, endVars, countVars
    <2> QED
      BY <1>2, <2>1, <2>2
      DEF Respond, Started, Unprompted, Unasked, Select, SessionTypeOK, endVars, countVars
  <1> QED
    BY <1>1, <1>2

LEMMA SessionStepInv == SessionInv /\ [SessionNext]_sessionVars => SessionInv'
  <1> SUFFICES ASSUME SessionInv, [SessionNext]_sessionVars PROVE SessionInv'
    OBVIOUS
  <1>1. CASE EndStep
    BY <1>1, QuietStepInv
  <1>2. CASE UserStep
    BY <1>2, UserStepInv
  <1>3. CASE LoopStep
    BY <1>3, ClientReadsInv, ServerReadsInv, ServerRespondsInv, SendStepInv DEF LoopStep
  <1>4. CASE \E end \in Ends : Notify(end)
    BY <1>4, SendStepInv
  <1>5. CASE \E c \in Calls : TaskStep(c)
    BY <1>5, QuietStepInv, TaskStepInv DEF TaskStep
  <1>6. CASE UNCHANGED sessionVars
    BY <1>6
    DEF SessionInv, SessionTypeOK, Started, Unprompted, Select, sessionVars, endVars,
        loopVars, countVars
  <1> QED
    BY <1>1, <1>2, <1>3, <1>4, <1>5, <1>6 DEF SessionNext

\* Types, and what prompts the client's loop to send, whatever the sizes.
THEOREM SessionInvariance == SessionSpec => []SessionInv
  BY SessionInitInv, SessionStepInv, PTL DEF SessionSpec

\* A session in which the server asks nothing and the client notifies nothing is
\* never clogged: then the client's loop never sends (client.rs:299-345), so it
\* always gets back to reading.
THEOREM QuietSessionsFlow == SessionSpec => []QuietNeverClogs
  <1>1. SessionInv => QuietNeverClogs
    BY DEF SessionInv, Unprompted, QuietNeverClogs, Clogged, Ends
  <1> QED
    BY <1>1, SessionInvariance, PTL
=============================================================================
