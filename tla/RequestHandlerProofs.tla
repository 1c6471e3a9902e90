------------------------ MODULE RequestHandlerProofs ------------------------
(***************************************************************************)
(* Proofs about RequestHandler, for any number of callers and calls and    *)
(* any number of replies in flight.                                        *)
(***************************************************************************)
EXTENDS RequestHandler, SequenceTheorems, TLAPS

\* The values of a oneshot channel that are not a reply are told apart by kind.
LEMMA EmptyIsNoReply == Empty \notin Replies
  BY DEF Empty, Replies, Kinds

\* Every initial state satisfies the inductive invariant.
LEMMA InitInv == Init => IInv
  <1> SUFFICES ASSUME Init PROVE IInv
    OBVIOUS
  <1>1. TypeOK
    BY BoundsAssumption, MarkersAssumption
    DEF Init, TypeOK, Ids, Serials, PCs, Outcomes, Replies, Kinds, Requests
  <1>2. Numbered /\ Fresh
    BY BoundsAssumption DEF Init, Numbered, Fresh, Ids, Serials
  <1>3. Table
    BY MarkersAssumption DEF Init, Table, Ids, AwaitPoints
  <1>4. Wire
    BY DEF Init, Wire
  <1> QED
    BY <1>1, <1>2, <1>3, <1>4 DEF IInv

\* fetch_add gives out a number nobody has used.
LEMMA NextRequestIdInv ==
  ASSUME IInv, NEW c \in Callers, NextRequestId(c)
  PROVE  IInv'
  <1> USE BoundsAssumption, MarkersAssumption DEF IInv, NextRequestId, peerVars
  <1>0. nextId \in Ids /\ calls + 1 \in Serials /\ nextId = calls + 1
    BY DEF TypeOK, Numbered, Ids, Serials
  <1>1. TypeOK'
    <2>1. calls' \in 0..MaxCalls /\ nextId' \in 1..(MaxCalls + 1)
      BY <1>0 DEF TypeOK, Ids, Serials
    <2>2. id' \in [Callers -> Ids \union {0}]
      BY <1>0 DEF TypeOK
    <2>3. serial' \in [Callers -> Serials \union {0}]
      BY <1>0 DEF TypeOK
    <2>4. pc' \in [Callers -> PCs]
      BY DEF TypeOK, PCs
    <2> QED
      BY <2>1, <2>2, <2>3, <2>4 DEF TypeOK
  <1>2. Numbered'
    BY DEF TypeOK, Numbered, Fresh, Ids, Serials
  <1>3. Fresh'
    BY DEF TypeOK, Fresh, Ids, Serials
  <1>4. Table'
    BY DEF TypeOK, Table, Ids, AwaitPoints
  <1>5. Wire'
    <2>1. \A request \in sent' :
            request.id = request.serial /\ request.serial \in 1..calls'
      BY DEF TypeOK, Wire
    <2>2. chan[c] = Empty
      BY DEF Table, AwaitPoints
    <2>3. \A d \in Callers :
            chan'[d] # Empty => chan'[d].serial = serial'[d] /\ Answered(chan[d])
      BY <2>2 DEF TypeOK, Wire
    <2> QED
      BY <2>1, <2>3 DEF TypeOK, Wire, Answered
  <1> QED
    BY <1>1, <1>2, <1>3, <1>4, <1>5

\* The entry put in the table replaces nobody's.
LEMMA StorePendingInv ==
  ASSUME IInv, NEW c \in Callers, StorePending(c)
  PROVE  IInv'
  <1> USE BoundsAssumption, MarkersAssumption DEF IInv, StorePending, peerVars
  <1>1. TypeOK'
    BY DEF TypeOK, PCs, AwaitPoints
  <1>2. Numbered'
    BY DEF TypeOK, Numbered
  <1>3. Fresh'
    BY DEF TypeOK, Numbered, Fresh, Ids, Serials
  <1>4. Table'
    BY SMTT(30) DEF TypeOK, Numbered, Table, Ids, Serials, AwaitPoints
  <1>5. Wire'
    BY DEF TypeOK, Wire, Answered
  <1> QED
    BY <1>1, <1>2, <1>3, <1>4, <1>5

\* Whichever way `request` returns, no entry is left that names its caller.
LEMMA ReturnInv ==
  ASSUME IInv, NEW c \in Callers, NEW result \in Outcomes,
         pc[c] \in AwaitPoints,
         Return(c, result),
         sink' \in Callers \union {Nobody},
         pending' \in [Ids -> Callers \union {Gone, Absent}],
         \A i \in Ids : \/ pending[i] \notin {c, Absent} /\ pending'[i] = pending[i]
                        \/ pending'[i] \in {Gone, Absent} /\ i = id[c]
                        \/ pending[i] = Absent /\ pending'[i] = Absent
  PROVE  IInv'
  <1> USE BoundsAssumption, MarkersAssumption DEF IInv, Return, peerVars
  <1>1. TypeOK'
    BY DEF TypeOK, PCs, AwaitPoints
  <1>2. Numbered'
    BY DEF TypeOK, Numbered, AwaitPoints, Ids, Serials
  <1>3. Fresh'
    BY DEF TypeOK, Numbered, Fresh, AwaitPoints, Ids, Serials
  <1>4. Table'
    <2>1. \A i \in Ids :
            pending'[i] \in Callers => pending[i] = pending'[i] /\ pending[i] # c
      BY DEF Table
    <2>2. ASSUME NEW d \in Callers, pc'[d] \in AwaitPoints, chan'[d] = Empty
          PROVE  pending'[id'[d]] = d
      <3>1. d # c /\ pc[d] \in AwaitPoints /\ chan[d] = Empty
        BY <2>2 DEF TypeOK, AwaitPoints
      <3>2. id[d] \in Ids /\ pending[id[d]] = d /\ id[d] # id[c]
        BY <3>1 DEF TypeOK, Numbered, Table, AwaitPoints, Ids, Serials
      <3> QED
        BY <3>2
    <2> QED
      BY <2>1, <2>2 DEF TypeOK, Table, AwaitPoints
  <1>5. Wire'
    BY DEF TypeOK, Wire, Answered
  <1> QED
    BY <1>1, <1>2, <1>3, <1>4, <1>5

\* Dropping a receiver touches the entry of its own request only.
LEMMA DismissedEntries ==
  ASSUME IInv, NEW c \in Callers, pc[c] \in AwaitPoints
  PROVE  /\ Dismissed(c) \in [Ids -> Callers \union {Gone, Absent}]
         /\ \A i \in Ids :
              IF pending[i] = c THEN i = id[c] /\ Dismissed(c)[i] = Gone
                                ELSE Dismissed(c)[i] = pending[i]
  BY DEF IInv, TypeOK, Table, Dismissed

\* A suspended request has a live sender: in the table, or already used.
LEMMA SenderAlive ==
  ASSUME IInv, NEW c \in Callers, pc[c] \in AwaitPoints
  PROVE  ~SenderDropped(c)
  BY MarkersAssumption
  DEF IInv, TypeOK, Table, Numbered, SenderDropped, AwaitPoints, Ids, Serials

\* The four ways out of `request`.
LEMMA NotConnectedInv ==
  ASSUME IInv, NEW c \in Callers, NotConnected(c)
  PROVE  IInv'
  BY ReturnInv, DismissedEntries, MarkersAssumption
  DEF NotConnected, AwaitPoints, Outcomes, IInv, TypeOK

LEMMA SendFailsInv ==
  ASSUME IInv, NEW c \in Callers, SendFails(c)
  PROVE  IInv'
  BY ReturnInv, DismissedEntries, MarkersAssumption
  DEF SendFails, AwaitPoints, Outcomes, IInv, TypeOK

LEMMA DropRequestInv ==
  ASSUME IInv, NEW c \in Callers, DropRequest(c)
  PROVE  IInv'
  BY ReturnInv, DismissedEntries, MarkersAssumption
  DEF DropRequest, AwaitPoints, Outcomes, IInv, TypeOK

LEMMA ResumeInv ==
  ASSUME IInv, NEW c \in Callers, Resume(c)
  PROVE  IInv'
  <1>1. pc[c] \in AwaitPoints
    BY DEF Resume, AwaitPoints
  <1>2. chan[c] # Empty
    BY <1>1, SenderAlive DEF Resume
  <1>3. chan[c].kind \in Outcomes
    BY <1>2 DEF IInv, TypeOK, Replies, Outcomes
  <1> QED
    BY <1>1, <1>2, <1>3, ReturnInv, DismissedEntries, MarkersAssumption
    DEF Resume, IInv, TypeOK

\* Taking the sink, sending through it and a new transport leave the table alone.
LEMMA LockSinkInv ==
  ASSUME IInv, NEW c \in Callers, LockSink(c)
  PROVE  IInv'
  <1> USE DEF IInv, LockSink, handlerVars, peerVars
  <1>1. TypeOK'
    BY DEF TypeOK, PCs, AwaitPoints
  <1>2. Numbered' /\ Fresh'
    BY DEF TypeOK, Numbered, Fresh
  <1>3. Table'
    BY DEF TypeOK, Table, AwaitPoints
  <1>4. Wire'
    BY DEF TypeOK, Wire, Answered
  <1> QED
    BY <1>1, <1>2, <1>3, <1>4

LEMMA SendRequestInv ==
  ASSUME IInv, NEW c \in Callers, SendRequest(c)
  PROVE  IInv'
  <1> USE BoundsAssumption DEF IInv, SendRequest, handlerVars
  <1>1. id[c] = serial[c] /\ serial[c] \in 1..calls
    BY DEF Numbered
  <1>2. TypeOK'
    BY <1>1 DEF TypeOK, PCs, AwaitPoints, Requests, Ids, Serials
  <1>3. Numbered' /\ Fresh'
    BY DEF TypeOK, Numbered, Fresh
  <1>4. Table'
    BY DEF TypeOK, Table, AwaitPoints
  <1>5. Wire'
    BY <1>1 DEF TypeOK, Wire, Answered
  <1> QED
    BY <1>2, <1>3, <1>4, <1>5

LEMMA SetTransportInv ==
  ASSUME IInv, SetTransport
  PROVE  IInv'
  <1> USE DEF IInv, SetTransport, handlerVars, callerVars, peerVars
  <1>1. TypeOK'
    BY DEF TypeOK
  <1>2. Numbered' /\ Fresh' /\ Table' /\ Wire'
    BY DEF Numbered, Fresh, Table, Wire, Answered
  <1> QED
    BY <1>1, <1>2

\* handle_response and handle_error: a reply goes to the holder of its id's
\* receiver, which has had none before, or to nobody.
LEMMA TakeReplyInv ==
  ASSUME IInv, NEW kind \in Kinds, TakeReply(kind)
  PROVE  IInv'
  <1> USE BoundsAssumption, MarkersAssumption DEF IInv, TakeReply
  <1> DEFINE reply == Head(inbox)
             known == reply.id \in Ids /\ pending[reply.id] # Absent
             owner == pending[reply.id]
  <1>1. reply \in Replies /\ inbox' \in Seq(Replies) /\ reply # Empty
    BY EmptyIsNoReply, HeadTailProperties DEF TypeOK
  <1>2. reply.id \in Ids => Answered(reply)
    BY HeadTailProperties DEF TypeOK, Wire, Ids, ForeignId
  <1>3. \A k \in 1..Len(inbox') : inbox'[k].id # ForeignId => Answered(inbox'[k])
    BY HeadTailProperties DEF TypeOK, Wire
  <1>4. CASE ~known
    <2>1. pending' = pending /\ chan' = chan
      BY <1>4 DEF Deliver
    <2> QED
      BY <2>1, <1>1, <1>3
      DEF TypeOK, Numbered, Fresh, Table, Wire, Answered
  <1>5. CASE known /\ owner = Gone
    <2>1. chan' = chan /\ pending' = [pending EXCEPT ![reply.id] = Absent]
      BY <1>5 DEF Deliver
    <2>2. TypeOK' /\ Numbered' /\ Fresh'
      BY <2>1, <1>1 DEF TypeOK, Numbered, Fresh, Ids, Serials
    <2>3. Table'
      BY <2>1, <1>5 DEF TypeOK, Table
    <2>4. Wire'
      BY <2>1, <1>3 DEF TypeOK, Wire, Answered
    <2> QED
      BY <2>2, <2>3, <2>4
  <1>6. CASE known /\ owner # Gone
    <2>1. /\ chan' = [chan EXCEPT ![owner] = reply]
          /\ pending' = [pending EXCEPT ![reply.id] = Absent]
      BY <1>6 DEF Deliver
    <2>2. owner \in Callers
      BY <1>6 DEF TypeOK
    <2>3. pc[owner] \in AwaitPoints /\ id[owner] = reply.id /\ chan[owner] = Empty
      BY <1>6, <2>2 DEF Table
    <2>4. TypeOK'
      BY <2>1, <2>2, <1>1 DEF TypeOK
    <2>5. Numbered' /\ Fresh'
      BY <2>1 DEF TypeOK, Numbered, Fresh, Ids, Serials
    <2>6. Table'
      <3>1. \A i \in Ids : pending'[i] \in Callers =>
              pending'[i] = pending[i] /\ i # reply.id /\ pending[i] # owner
        BY <2>1, <2>3 DEF TypeOK, Table
      <3>2. ASSUME NEW d \in Callers, pc[d] \in AwaitPoints, chan'[d] = Empty
            PROVE  pending'[id[d]] = d
        <4>1. d # owner /\ chan[d] = Empty
          BY <3>2, <2>1, <2>2, <1>1 DEF TypeOK
        <4>2. pending[id[d]] = d
          BY <3>2, <4>1 DEF Table
        <4>3. id[d] \in Ids /\ id[d] # reply.id
          BY <3>2, <4>1, <4>2, <1>6 DEF TypeOK, Numbered, AwaitPoints, Ids, Serials
        <4> QED
          BY <4>2, <4>3, <2>1 DEF TypeOK
      <3>3. \A d \in Callers : pc[d] \notin AwaitPoints => chan'[d] = Empty
        BY <2>1, <2>3 DEF TypeOK, Table
      <3> QED
        BY <3>1, <3>2, <3>3, <2>1 DEF TypeOK, Table
    <2>7. Wire'
      <3>1. Answered(reply) /\ reply.id = reply.serial
        BY <1>2, <1>6 DEF Answered
      <3>2. reply.serial = serial[owner]
        BY <3>1, <2>2, <2>3 DEF Numbered, AwaitPoints
      <3>3. \A d \in Callers :
              chan'[d] # Empty => chan'[d].serial = serial[d] /\ Answered(chan'[d])
        BY <2>1, <2>2, <3>1, <3>2 DEF TypeOK, Wire
      <3> QED
        BY <3>3, <1>3 DEF Wire, Answered
    <2> QED
      BY <2>4, <2>5, <2>6, <2>7
  <1> QED
    BY <1>4, <1>5, <1>6

\* A reply entering the wire is either an answer or nobody's business here.
LEMMA EnqueueInv ==
  ASSUME IInv, NEW reply \in Replies,
         inbox' = Append(inbox, reply),
         said \subseteq said',
         said' \subseteq [serial : Serials, kind : Kinds],
         reply.id # ForeignId =>
            /\ reply.id = reply.serial
            /\ [serial |-> reply.serial, kind |-> reply.kind] \in said',
         UNCHANGED <<transport, sink, handlerVars, callerVars, sent>>
  PROVE  IInv'
  <1> USE DEF IInv, handlerVars, callerVars
  <1>1. TypeOK'
    BY DEF TypeOK
  <1>2. Numbered' /\ Fresh' /\ Table'
    BY DEF Numbered, Fresh, Table
  <1>3. \A k \in 1..Len(inbox') : inbox'[k] = reply \/
            (k \in 1..Len(inbox) /\ inbox'[k] = inbox[k])
    BY AppendProperties DEF TypeOK
  <1>4. Wire'
    BY <1>3 DEF Wire, Answered
  <1> QED
    BY <1>1, <1>2, <1>4

LEMMA PeerRepliesInv ==
  ASSUME IInv, NEW request \in sent, NEW kind \in Kinds, PeerReplies(request, kind)
  PROVE  IInv'
  <1> DEFINE reply == [kind |-> kind, id |-> request.id, serial |-> request.serial]
  <1>1. /\ request.id = request.serial
        /\ request.id \in Ids /\ request.serial \in Serials
    BY DEF IInv, TypeOK, Requests, Wire
  <1>2. reply \in Replies
    BY <1>1 DEF Replies
  <1>3. said' \subseteq [serial : Serials, kind : Kinds]
    BY <1>1 DEF PeerReplies, IInv, TypeOK
  <1> QED
    BY <1>1, <1>2, <1>3, EnqueueInv DEF PeerReplies

LEMMA PeerRepliesToOtherInv ==
  ASSUME IInv, NEW kind \in Kinds, PeerRepliesToOther(kind)
  PROVE  IInv'
  <1> DEFINE reply == [kind |-> kind, id |-> ForeignId, serial |-> 0]
  <1>1. reply \in Replies
    BY DEF Replies
  <1>2. said' \subseteq [serial : Serials, kind : Kinds] /\ said \subseteq said'
    BY DEF PeerRepliesToOther, IInv, TypeOK
  <1> QED
    BY <1>1, <1>2, EnqueueInv DEF PeerRepliesToOther

\* Losing the tail of the inbox loses no correlation.
LEMMA LinkDownInv ==
  ASSUME IInv, LinkDown
  PROVE  IInv'
  <1> USE DEF IInv, LinkDown, handlerVars, callerVars
  <1>1. PICK k \in 0..Len(inbox) : inbox' = SubSeq(inbox, 1, k)
    OBVIOUS
  <1>2. inbox' \in Seq(Replies) /\ \A j \in 1..Len(inbox') :
            j \in 1..Len(inbox) /\ inbox'[j] = inbox[j]
    BY <1>1, SubSeqProperties DEF TypeOK
  <1>3. TypeOK'
    BY <1>2 DEF TypeOK
  <1>4. Numbered' /\ Fresh' /\ Table'
    BY DEF Numbered, Fresh, Table
  <1>5. Wire'
    BY <1>2 DEF Wire, Answered
  <1> QED
    BY <1>3, <1>4, <1>5

-----------------------------------------------------------------------------
\* Every step preserves the inductive invariant.
LEMMA StepInv == IInv /\ [Next]_vars => IInv'
  <1> SUFFICES ASSUME IInv, [Next]_vars PROVE IInv'
    OBVIOUS
  <1>1. ASSUME NEW c \in Callers, CallerStep(c) PROVE IInv'
    BY <1>1, NextRequestIdInv, StorePendingInv, NotConnectedInv, LockSinkInv,
       SendRequestInv, SendFailsInv, ResumeInv, DropRequestInv
    DEF CallerStep
  <1>2. CASE SetTransport
    BY <1>2, SetTransportInv
  <1>3. CASE HandleResponse \/ HandleError
    BY <1>3, TakeReplyInv DEF HandleResponse, HandleError, Kinds
  <1>4. CASE PeerStep
    BY <1>4, PeerRepliesInv, PeerRepliesToOtherInv, LinkDownInv DEF PeerStep
  <1>5. CASE UNCHANGED vars
    BY <1>5
    DEF vars, handlerVars, callerVars, peerVars, IInv, TypeOK, Numbered, Fresh,
        Table, Wire, Answered
  <1> QED
    BY <1>1, <1>2, <1>3, <1>4, <1>5 DEF Next

\* The inductive invariant, type correctness included, holds of every run of
\* the handler, for any number of callers, calls and replies in flight.
THEOREM Invariance == Spec => []IInv
  BY InitInv, StepInv, PTL DEF Spec

\* A reply reaches only the call it answers, whatever the interleaving of
\* callers, drops, late and duplicate replies.
THEOREM ReplyCorrelation == Spec => []OwnReply
  <1>1. IInv => OwnReply
    BY DEF IInv, Wire, OwnReply
  <1> QED
    BY <1>1, Invariance, PTL

\* A suspended request never loses its sender: the branch of `request` for a
\* closed channel is dead code.
THEOREM SendersLive == Spec => []SenderNeverDropped
  <1>1. IInv => SenderNeverDropped
    BY SenderAlive DEF SenderNeverDropped
  <1> QED
    BY <1>1, Invariance, PTL

\* The first reply handled for a request is the one its caller gets.
THEOREM FirstReplyDecides == Spec => FirstReplyWins
  <1> DEFINE Kept == \A c \in Callers :
                       chan[c] # Empty => chan'[c] = chan[c] \/ pc'[c] = "idle"
  <1>1. IInv /\ [Next]_vars => [Kept]_vars
    <2> SUFFICES ASSUME IInv, Next PROVE Kept
      OBVIOUS
    <2> USE DEF IInv
    <2>1. ASSUME NEW c \in Callers, CallerStep(c) PROVE Kept
      BY <2>1
      DEF CallerStep, NextRequestId, StorePending, NotConnected, LockSink,
          SendRequest, SendFails, Resume, DropRequest, Return, TypeOK
    <2>2. CASE SetTransport \/ PeerStep
      BY <2>2
      DEF SetTransport, PeerStep, PeerReplies, PeerRepliesToOther, LinkDown,
          callerVars
    <2>3. ASSUME NEW kind \in Kinds, TakeReply(kind) PROVE Kept
      BY <2>3, MarkersAssumption DEF TakeReply, Deliver, TypeOK, Table
    <2> QED
      BY <2>1, <2>2, <2>3 DEF Next, HandleResponse, HandleError, Kinds
  <1> QED
    BY <1>1, Invariance, PTL DEF Spec, FirstReplyWins

-----------------------------------------------------------------------------
\* The refinement mapping of the variable that RpcCall adds.
CurrentCall == [c \in Callers |-> IF pc[c] = "idle" THEN 0 ELSE serial[c]]

\* A caller that returns ends its call in the abstract specification.
LEMMA ReturnEnds ==
  ASSUME IInv, NEW c \in Callers, NEW result, pc[c] \in AwaitPoints,
         Return(c, result)
  PROVE  Abs!End(c, result)
  <1>1. /\ serial[c] \in 1..calls /\ outcome[serial[c]] = "open"
        /\ pc[c] # "idle" /\ serial[c] # 0
    BY DEF IInv, Numbered, AwaitPoints, TypeOK
  <1>2. CurrentCall' = [CurrentCall EXCEPT ![c] = 0]
    BY DEF CurrentCall, Return, IInv, TypeOK
  <1> QED
    BY <1>1, <1>2 DEF Abs!End, Return, CurrentCall, peerVars

\* Initial states map to initial states, every step to a step of the abstract
\* calls or to none.
LEMMA AbsInitial == Init => Abs!AbsInit
  BY DEF Init, Abs!AbsInit, Abs!Serials, Serials

LEMMA AbsStep == IInv /\ IInv' /\ [Next]_vars => [Abs!AbsNext]_(Abs!absVars)
  <1> SUFFICES ASSUME IInv, IInv', [Next]_vars
               PROVE  Abs!AbsNext \/ UNCHANGED Abs!absVars
    OBVIOUS
  <1> DEFINE Mapped == Abs!AbsNext \/ UNCHANGED Abs!absVars
  <1> USE DEF Abs!AbsNext
  <1>1. ASSUME NEW c \in Callers, NextRequestId(c) PROVE Mapped
    <2>1. CurrentCall' = [CurrentCall EXCEPT ![c] = calls + 1]
      BY <1>1 DEF NextRequestId, CurrentCall, IInv, TypeOK
    <2>2. Abs!Begin(c)
      BY <1>1, <2>1 DEF Abs!Begin, NextRequestId, CurrentCall, peerVars
    <2> QED
      BY <2>2
  <1>2. ASSUME NEW c \in Callers, StorePending(c) \/ LockSink(c) \/ SendRequest(c)
        PROVE  Mapped
    <2>1. CurrentCall' = CurrentCall
      BY <1>2 DEF StorePending, LockSink, SendRequest, CurrentCall, IInv, TypeOK
    <2> QED
      BY <1>2, <2>1
      DEF StorePending, LockSink, SendRequest, Abs!absVars, CurrentCall, peerVars
  <1>3. ASSUME NEW c \in Callers, NotConnected(c) \/ SendFails(c) PROVE Mapped
    <2>1. Return(c, "failed") /\ pc[c] \in AwaitPoints
      BY <1>3 DEF NotConnected, SendFails, AwaitPoints
    <2>2. Abs!Fail(c)
      BY <2>1, ReturnEnds DEF Abs!Fail
    <2> QED
      BY <2>2
  <1>4. ASSUME NEW c \in Callers, DropRequest(c) PROVE Mapped
    <2>1. Abs!Abandon(c)
      BY <1>4, ReturnEnds DEF DropRequest, Abs!Abandon
    <2> QED
      BY <2>1
  <1>5. ASSUME NEW c \in Callers, Resume(c) PROVE Mapped
    <2>1. pc[c] \in AwaitPoints
      BY <1>5 DEF Resume, AwaitPoints
    <2>2. chan[c] # Empty
      BY <1>5, <2>1, SenderAlive DEF Resume
    <2>3. PICK kind \in Kinds : chan[c].kind = kind
      BY <2>2 DEF IInv, TypeOK, Replies
    <2>4. [serial |-> CurrentCall[c], kind |-> kind] \in said
      BY <2>1, <2>2, <2>3 DEF IInv, Wire, Answered, CurrentCall, AwaitPoints
    <2>5. Return(c, kind)
      BY <1>5, <2>2, <2>3 DEF Resume
    <2>6. Abs!Complete(c, kind)
      BY <2>1, <2>4, <2>5, ReturnEnds DEF Abs!Complete, CurrentCall
    <2> QED
      BY <2>6 DEF Abs!Kinds, Kinds
  <1>6. CASE SetTransport \/ LinkDown
    BY <1>6 DEF SetTransport, LinkDown, Abs!absVars, callerVars, peerVars
  <1>7. ASSUME NEW kind \in Kinds, TakeReply(kind) \/ PeerRepliesToOther(kind)
        PROVE  Mapped
    BY <1>7 DEF TakeReply, PeerRepliesToOther, Abs!absVars, callerVars
  <1>8. ASSUME NEW request \in sent, NEW kind \in Kinds, PeerReplies(request, kind)
        PROVE  Mapped
    <2>1. request.serial \in 1..calls /\ request.serial \in Serials
      BY DEF IInv, TypeOK, Wire, Requests
    <2>2. Abs!Answer(request.serial, kind)
      BY <1>8, <2>1 DEF PeerReplies, Abs!Answer, callerVars
    <2> QED
      BY <2>1, <2>2 DEF Abs!Serials, Abs!Kinds, Serials, Kinds
  <1>9. CASE UNCHANGED vars
    BY <1>9 DEF vars, callerVars, peerVars, Abs!absVars
  <1> QED
    BY <1>1, <1>2, <1>3, <1>4, <1>5, <1>6, <1>7, <1>8, <1>9
    DEF Next, CallerStep, PeerStep, HandleResponse, HandleError, Kinds

\* request_handler.rs implements RpcCall: each call ends once, with an answer
\* the peer gave to that very call, or with a failure or a drop of its own.
THEOREM Refinement == Spec => ImplementsRpcCall
  BY AbsInitial, AbsStep, Invariance, PTL
  DEF Spec, ImplementsRpcCall, Abs!AbsSpec
=============================================================================
