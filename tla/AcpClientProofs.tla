--------------------------- MODULE AcpClientProofs ---------------------------
(* What is proved of AcpClient, for any calls, requests, callers of Cancel and *)
(* limits.                                                                     *)
EXTENDS AcpClient, FiniteSetTheorems, TLAPS

\* The bounds are numbers, and the goroutines of Enders are told apart.
LEMMA Constants ==
    /\ OutboxSize \in Nat /\ AbandonedKept \in Nat /\ MaxAgentRequests \in Nat /\ MaxStream \in Nat
    /\ OutboxSize >= 1 /\ AbandonedKept >= 1 /\ MaxAgentRequests >= 1
    /\ Loads \subseteq Calls /\ Cancellers \subseteq Enders
    /\ "read" \in Enders /\ "close" \in Enders /\ "read" \notin Cancellers /\ "close" \notin Cancellers
BY SetsAssumption, SizesAssumption DEF Enders

-----------------------------------------------------------------------------
(* Types.                                                                      *)

\* Each line is one of Lines.
LEMMA LinesAre ==
    /\ \A c \in Calls : CallLine(c) \in Lines
    /\ \A r \in Requests : AnswerLine(r) \in Lines /\ RefuseLine(r) \in Lines
    /\ \A t \in Cancellers : CancelLine(t) \in Lines
    /\ NoLine \notin Lines
BY DEF CallLine, AnswerLine, RefuseLine, CancelLine, NoLine, Lines

\* What enqueue makes of the outbox, with room for the line and without.
LEMMA EnqueueTypes ==
    ASSUME WireType, NEW line \in Lines, Enqueue(line)
    PROVE  outbox' \in Seq(Lines) /\ Len(outbox') <= OutboxSize
<1>1. CASE CanQueue
  <2>1. Len(Append(outbox, line)) = Len(outbox) + 1 /\ Append(outbox, line) \in Seq(Lines)
    BY DEF WireType
  <2>2. Len(outbox) \in Nat /\ Len(outbox) < OutboxSize BY <1>1 DEF CanQueue, WireType
  <2> QED BY <1>1, <2>1, <2>2, Constants DEF Enqueue
<1>2. CASE ~ CanQueue BY <1>2 DEF Enqueue, WireType
<1> QED BY <1>1, <1>2

\* What answer makes of a request's answer.
LEMMA AnswerTypes ==
    ASSUME RequestType, WireType, NEW r \in Requests, NEW what \in Outcomes, Answer(r, what)
    PROVE  /\ answered' \in [Requests -> {"no", "dropped"} \cup Outcomes]
           /\ outbox' \in Seq(Lines) /\ Len(outbox') <= OutboxSize
<1>1. CASE answered[r] # "no" BY <1>1 DEF Answer, RequestType, WireType
<1>2. CASE answered[r] = "no"
  <2>1. Enqueue(AnswerLine(r)) BY <1>2 DEF Answer
  <2>2. answered' \in [Requests -> {"no", "dropped"} \cup Outcomes] BY <1>2 DEF Answer, RequestType
  <2> QED BY <2>1, <2>2, LinesAre, EnqueueTypes
<1> QED BY <1>1, <1>2

\* What failPending puts in the calls' channels.
LEMMA FailTypes ==
    ASSUME CallType, NEW why \in Replies, FailPending(why)
    PROVE  replies' \in [Calls -> Seq(Replies)] /\ pending' = {}
<1>1. \A c \in Calls : replies[c] \in Seq(Replies) /\ Append(replies[c], why) \in Seq(Replies)
  BY DEF CallType
<1> QED BY <1>1 DEF FailPending

\* Each group of variables keeps its type when it is left alone.
LEMMA SameTypes ==
    ASSUME TypeOK
    PROVE  /\ UNCHANGED callVars => CallType'
           /\ UNCHANGED reqVars => RequestType'
           /\ UNCHANGED endVars => EnderType'
           /\ UNCHANGED <<writeVars, agentVars, stray>> => WireType'
BY DEF TypeOK, CallType, RequestType, EnderType, WireType, callVars, reqVars, endVars, writeVars, agentVars

\* The steps of a call keep every variable's type.
LEMMA CallTypes ==
    ASSUME TypeOK, NEW c \in Calls, Caller(c) \/ CallCtx(c)
    PROVE  CallType' /\ RequestType' /\ EnderType' /\ WireType'
<1> USE DEF GotoCall
<1>1. CallType /\ WireType /\ loads \ {c} \subseteq Loads /\ pending \ {c} \subseteq Calls
  BY DEF TypeOK, CallType
<1>2. UNCHANGED reqVars /\ UNCHANGED endVars /\ UNCHANGED <<agentVars, readVars, writing>>
  BY DEF Caller, CallBegin, CallSend, CallReply, CallLoopDone, CallCtx, writeVars
<1>3. RequestType' /\ EnderType' BY <1>2, SameTypes
<1>4. WireType'
  <2>1. CASE CallSend(c)
    <3>1. outbox' \in Seq(Lines) /\ Len(outbox') <= OutboxSize
      BY <1>1, <2>1, EnqueueTypes, LinesAre DEF CallSend
    <3> QED BY <1>1, <1>2, <3>1 DEF WireType, agentVars, readVars
  <2>2. CASE ~ CallSend(c)
    <3>1. outbox' = outbox
      BY <2>2 DEF Caller, CallBegin, CallReply, CallLoopDone, CallCtx, writeVars
    <3> QED BY <1>1, <1>2, <3>1 DEF WireType, agentVars, readVars
  <2> QED BY <2>1, <2>2
<1>5. CallType'
  <2>1. CASE CallBegin(c)
    <3>1. loads \cup ({c} \cap Loads) \subseteq Loads /\ pending \cup {c} \subseteq Calls BY <1>1 DEF CallType
    <3>2. CASE closed BY <1>1, <2>1, <3>2 DEF CallBegin, CallType, Replies
    <3>3. CASE ~ closed BY <1>1, <2>1, <3>1, <3>3 DEF CallBegin, CallType
    <3> QED BY <3>2, <3>3
  <2>2. CASE CallSend(c)
    BY <1>1, <2>2 DEF CallSend, CallReturns, CallType, Replies
  <2>3. CASE CallReply(c)
    <3>1. Head(replies[c]) \in Replies BY <1>1, <2>3 DEF CallReply, CallType
    <3> QED BY <1>1, <2>3, <3>1 DEF CallReply, CallReturns, CallType
  <2>4. CASE CallLoopDone(c) BY <1>1, <2>4 DEF CallLoopDone, CallReturns, CallType, Replies
  <2>5. CASE CallCtx(c)
    <3>1. ring' \in Seq(Calls) /\ Len(ring') <= AbandonedKept /\ abandoned' \subseteq Calls
      <4>1. CASE UNCHANGED <<abandoned, ring>> BY <1>1, <4>1 DEF CallType
      <4>2. CASE Abandon(c) /\ Len(ring) < AbandonedKept
        <5>1. ring' = Append(ring, c) /\ abandoned' = abandoned \cup {c} BY <4>2 DEF Abandon
        <5>2. Len(ring') = Len(ring) + 1 /\ ring' \in Seq(Calls) /\ Len(ring) \in Nat
          BY <1>1, <5>1 DEF CallType
        <5> QED BY <1>1, <4>2, <5>1, <5>2, Constants DEF CallType
      <4>3. CASE Abandon(c) /\ ~ (Len(ring) < AbandonedKept)
        <5>1. ring' = Append(Tail(ring), c) /\ abandoned' = (abandoned \ {Head(ring)}) \cup {c}
          BY <4>3 DEF Abandon
        <5>2. ring # <<>> /\ Len(ring) = AbandonedKept BY <1>1, <4>3, Constants DEF CallType
        <5>3. Tail(ring) \in Seq(Calls) /\ Len(Tail(ring)) = Len(ring) - 1 BY <1>1, <5>2 DEF CallType
        <5>4. Len(ring') = Len(Tail(ring)) + 1 /\ ring' \in Seq(Calls) BY <5>1, <5>3
        <5> QED BY <1>1, <5>1, <5>2, <5>3, <5>4, Constants DEF CallType
      <4> QED BY <2>5, <4>1, <4>2, <4>3 DEF CallCtx
    <3> QED BY <1>1, <2>5, <3>1 DEF CallCtx, CallReturns, CallType
  <2> QED BY <2>1, <2>2, <2>3, <2>4, <2>5 DEF Caller
<1> QED BY <1>3, <1>4, <1>5

\* The steps of the writer keep every variable's type.
LEMMA WriterTypes ==
    ASSUME TypeOK, WriterTakes \/ WriterWrites \/ WriterFails
    PROVE  CallType' /\ RequestType' /\ EnderType' /\ WireType'
<1>1. CallType /\ WireType BY DEF TypeOK
<1>2. RequestType' /\ EnderType' BY SameTypes DEF WriterTakes, WriterWrites, WriterFails
<1>3. CallType'
  <2>1. CASE WriterFails
    <3>1. replies' \in [Calls -> Seq(Replies)] /\ pending' = {}
      BY <1>1, <2>1, FailTypes DEF WriterFails, Replies
    <3> QED BY <1>1, <2>1, <3>1 DEF WriterFails, CallType
  <2>2. CASE WriterTakes \/ WriterWrites BY <2>2, SameTypes DEF WriterTakes, WriterWrites
  <2> QED BY <2>1, <2>2
<1>4. WireType'
  <2>1. CASE WriterTakes
    <3>1. outbox # <<>> /\ outbox \in Seq(Lines) /\ Len(outbox) <= OutboxSize BY <1>1, <2>1 DEF WriterTakes, WireType
    <3>2. /\ Head(outbox) \in Lines /\ Tail(outbox) \in Seq(Lines) /\ Len(Tail(outbox)) = Len(outbox) - 1
          /\ Len(outbox) \in Nat
      BY <3>1
    <3> QED BY <1>1, <2>1, <3>1, <3>2, Constants DEF WriterTakes, WireType, agentVars, readVars
  <2>2. CASE WriterWrites
    <3>1. writing \in Lines BY <1>1, <2>2 DEF WriterWrites, WireType
    <3> QED BY <1>1, <2>2, <3>1 DEF WriterWrites, WireType, readVars
  <2>3. CASE WriterFails BY <1>1, <2>3 DEF WriterFails, WireType, agentVars, readVars
  <2> QED BY <2>1, <2>2, <2>3
<1> QED BY <1>2, <1>3, <1>4

\* The steps of a request's goroutine and its handler keep every variable's type.
LEMMA RequestTypes ==
    ASSUME TypeOK, ServedInv, NEW r \in Requests,
           Server(r) \/ \E what \in Outcomes : HandlerReturns(r, what)
    PROVE  CallType' /\ RequestType' /\ EnderType' /\ WireType'
<1> USE DEF GotoReq
<1>1. RequestType /\ WireType BY DEF TypeOK
<1>2. UNCHANGED callVars /\ UNCHANGED endVars /\ UNCHANGED <<agentVars, readVars, writing>>
  BY DEF Server, RequestOpens, RequestAnswers, RequestCloses, RequestLeaves, HandlerReturns, writeVars
<1>3. CallType' /\ EnderType' BY <1>2, SameTypes
<1>4. CASE RequestOpens(r)
  <2>1. CASE closed
    <3>1. Answer(r, "cancelled") BY <1>4, <2>1 DEF RequestOpens, Register
    <3>2. /\ answered' \in [Requests -> {"no", "dropped"} \cup Outcomes]
          /\ outbox' \in Seq(Lines) /\ Len(outbox') <= OutboxSize
      BY <1>1, <3>1, AnswerTypes DEF Outcomes
    <3>3. RequestType' BY <1>1, <1>4, <2>1, <3>2 DEF RequestOpens, Register, RequestType
    <3>4. WireType' BY <1>1, <1>2, <3>2 DEF WireType, agentVars, readVars
    <3> QED BY <1>3, <3>3, <3>4
  <2>2. CASE ~ closed
    <3>1. RequestType' BY <1>1, <1>4, <2>2 DEF RequestOpens, Register, RequestType
    <3>2. WireType' BY <1>1, <1>2, <1>4, <2>2 DEF RequestOpens, Register, WireType, agentVars, readVars
    <3> QED BY <1>3, <3>1, <3>2
  <2> QED BY <2>1, <2>2
<1>5. CASE RequestAnswers(r)
  <2>1. choice[r] \in Outcomes BY <1>5 DEF RequestAnswers, ServedInv, ChosenInv
  <2>2. /\ answered' \in [Requests -> {"no", "dropped"} \cup Outcomes]
        /\ outbox' \in Seq(Lines) /\ Len(outbox') <= OutboxSize
    BY <1>1, <1>5, <2>1, AnswerTypes DEF RequestAnswers
  <2>3. RequestType' BY <1>1, <1>5, <2>2 DEF RequestAnswers, RequestType
  <2>4. WireType' BY <1>1, <1>2, <2>2 DEF WireType, agentVars, readVars
  <2> QED BY <1>3, <2>3, <2>4
<1>6. CASE RequestCloses(r)
  <2>1. RequestType' BY <1>1, <1>6 DEF RequestCloses, RequestType
  <2>2. WireType' BY <1>1, <1>2, <1>6 DEF RequestCloses, WireType, writeVars, agentVars, readVars
  <2> QED BY <1>3, <2>1, <2>2
<1>7. CASE RequestLeaves(r)
  <2>1. r \in Served BY <1>7 DEF RequestLeaves, Served
  <2>2. inflight >= 1
    <3>1. IsFiniteSet(Served) /\ inflight = Cardinality(Served) BY DEF ServedInv, CapInv
    <3>2. Cardinality(Served) # 0 BY <2>1, <3>1, FS_EmptySet
    <3> QED BY <1>1, <3>1, <3>2, Constants DEF RequestType
  <2>3. inflight' \in 0 .. MaxAgentRequests
    BY <1>1, <1>7, <2>2, Constants DEF RequestLeaves, RequestType
  <2>4. RequestType' BY <1>1, <1>7, <2>3 DEF RequestLeaves, RequestType
  <2>5. WireType' BY <1>1, <1>2, <1>7 DEF RequestLeaves, WireType, writeVars, agentVars, readVars
  <2> QED BY <1>3, <2>4, <2>5
<1>8. ASSUME NEW what \in Outcomes, HandlerReturns(r, what) PROVE RequestType' /\ WireType'
  <2>1. RequestType' BY <1>1, <1>8 DEF HandlerReturns, RequestType
  <2>2. WireType' BY <1>1, <1>2, <1>8 DEF HandlerReturns, WireType, writeVars, agentVars, readVars
  <2> QED BY <2>1, <2>2
<1> QED BY <1>3, <1>4, <1>5, <1>6, <1>7, <1>8 DEF Server

\* Cancel, Close and the ending of open requests keep every variable's type.
LEMMA EnderTypes ==
    ASSUME TypeOK,
           \/ \E t \in Cancellers : Cancel(t) \/ CancelNotifies(t)
           \/ \E t \in Enders, r \in Requests : EndOpen(t, r)
           \/ Close \/ Closer \/ InputCloses
    PROVE  CallType' /\ RequestType' /\ EnderType' /\ WireType'
<1> USE Constants DEF GotoEnd
<1>1. CallType /\ RequestType /\ EnderType /\ WireType BY DEF TypeOK
<1>2. ASSUME NEW t \in Cancellers, Cancel(t) PROVE CallType' /\ RequestType' /\ EnderType' /\ WireType'
  <2>1. CallType' /\ RequestType' /\ WireType' BY <1>2, SameTypes DEF Cancel, readVars
  <2>2. \A S : perms \cap S \in SUBSET Requests BY <1>1 DEF RequestType
  <2>3. open' \in [Enders -> SUBSET Requests] /\ found' \in [Cancellers -> SUBSET Requests]
    BY <1>1, <1>2, <2>2 DEF Cancel, FindOpen, EnderType
  <2>4. endPc' = [endPc EXCEPT ![t] = "ending"] BY <1>2 DEF Cancel
  <2>5. EnderType' BY <1>1, <1>2, <2>3, <2>4 DEF Cancel, EnderType
  <2> QED BY <2>1, <2>5
<1>3. ASSUME NEW t \in Cancellers, CancelNotifies(t)
      PROVE  CallType' /\ RequestType' /\ EnderType' /\ WireType'
  <2>1. CallType' /\ RequestType' BY <1>3, SameTypes DEF CancelNotifies
  <2>2. EnderType' BY <1>1, <1>3 DEF CancelNotifies, EnderType
  <2>3. outbox' \in Seq(Lines) /\ Len(outbox') <= OutboxSize
    BY <1>1, <1>3, EnqueueTypes, LinesAre DEF CancelNotifies
  <2>4. WireType' BY <1>1, <1>3, <2>3 DEF CancelNotifies, WireType, agentVars, readVars
  <2> QED BY <2>1, <2>2, <2>4
<1>4. ASSUME NEW t \in Enders, NEW r \in Requests, EndOpen(t, r)
      PROVE  CallType' /\ RequestType' /\ EnderType' /\ WireType'
  <2>1. CallType' BY <1>4, SameTypes DEF EndOpen
  <2>2. /\ answered' \in [Requests -> {"no", "dropped"} \cup Outcomes]
        /\ outbox' \in Seq(Lines) /\ Len(outbox') <= OutboxSize
    BY <1>1, <1>4, AnswerTypes DEF EndOpen, Outcomes
  <2>3. RequestType' BY <1>1, <1>4, <2>2 DEF EndOpen, RequestType
  <2>4. open[t] \ {r} \in SUBSET Requests BY <1>1 DEF EnderType
  <2>5. EnderType' BY <1>1, <1>4, <2>4 DEF EndOpen, EnderType
  <2>6. WireType' BY <1>1, <1>4, <2>2 DEF EndOpen, WireType, agentVars, readVars
  <2> QED BY <2>1, <2>3, <2>5, <2>6
<1>5. CASE Close \/ CloseFinds \/ CloseStops \/ InputCloses
  <2>1. CallType' /\ RequestType' /\ WireType'
    BY <1>5, SameTypes DEF Close, CloseFinds, CloseStops, InputCloses, readVars
  <2>2. perms \cap Requests \in SUBSET Requests OBVIOUS
  <2>3. open' \in [Enders -> SUBSET Requests]
    <3>1. open' = open \/ open' = [open EXCEPT !["close"] = perms \cap Requests]
      BY <1>5 DEF Close, CloseFinds, CloseStops, InputCloses, FindOpen
    <3>2. open \in [Enders -> SUBSET Requests] BY <1>1 DEF EnderType
    <3> QED BY ONLY <2>2, <3>1, <3>2
  <2>4. CASE Close      BY <1>1, <2>1, <2>3, <2>4 DEF Close, EnderType
  <2>5. CASE CloseFinds BY <1>1, <2>1, <2>3, <2>5 DEF CloseFinds, FindOpen, EnderType
  <2>6. CASE CloseStops BY <1>1, <2>1, <2>3, <2>6 DEF CloseStops, EnderType
  <2>7. CASE InputCloses BY <1>1, <2>1, <2>3, <2>7 DEF InputCloses, EnderType
  <2> QED BY <1>5, <2>4, <2>5, <2>6, <2>7
<1>6. CASE CloseKills
  <2>1. CallType' /\ RequestType' BY <1>6, SameTypes DEF CloseKills
  <2>2. EnderType' BY <1>1, <1>6 DEF CloseKills, EnderType
  <2>3. WireType' BY <1>1, <1>6 DEF CloseKills, WireType, writeVars, readVars
  <2> QED BY <2>1, <2>2, <2>3
<1>7. CASE CloseFails
  <2>1. RequestType' /\ WireType' BY <1>7, SameTypes DEF CloseFails, readVars
  <2>2. replies' \in [Calls -> Seq(Replies)] /\ pending' = {}
    BY <1>1, <1>7, FailTypes DEF CloseFails, Replies
  <2>3. CallType' BY <1>1, <1>7, <2>2 DEF CloseFails, CallType
  <2>4. EnderType' BY <1>1, <1>7 DEF CloseFails, EnderType
  <2> QED BY <2>1, <2>3, <2>4
<1> QED BY <1>2, <1>3, <1>4, <1>5, <1>6, <1>7 DEF Closer

\* What there is to know of a line of the agent's.
LEMMA SaidIs ==
    ASSUME NEW l \in Said
    PROVE  /\ l.kind = "response" => l.of \in Calls /\ l = Response(l.of)
           /\ l.kind = "request" => l.of \in Requests /\ l = [kind |-> "request", of |-> l.of]
           /\ l.kind = "update" => l.sent \in {"before", "in the load", "after"}
<1>1. CASE l \in [kind : {"response"}, of : Calls] BY <1>1 DEF Response
<1>2. CASE l \in [kind : {"request"}, of : Requests] BY <1>2
<1>3. CASE l \in [kind : {"update"}, of : UpdatedSessions, sent : {"before", "in the load", "after"}] BY <1>3
<1>4. CASE l \in [kind : {"long"}, of : {None}] BY <1>4
<1> QED BY <1>1, <1>2, <1>3, <1>4 DEF Said

\* The first line of the stream is one the agent says.
LEMMA HeadSaid ==
    ASSUME ServedInv, stream # <<>>
    PROVE  /\ Head(stream) \in Said /\ Tail(stream) \in Seq(Said)
           /\ Head(stream) = stream[1] /\ 1 \in DOMAIN stream
           /\ Head(stream).kind = "response" => Head(stream).of \in Calls
           /\ Head(stream).kind = "request" => Head(stream).of \in Requests
           /\ Head(stream).kind = "update" => Head(stream).sent \in {"before", "in the load", "after"}
<1>1. stream \in Seq(Said) BY DEF ServedInv, SaidInv
<1>2. Head(stream) \in Said /\ Tail(stream) \in Seq(Said) /\ Head(stream) = stream[1] /\ 1 \in DOMAIN stream
  BY <1>1
<1> QED BY <1>2, SaidIs

\* The steps of the read loop keep every variable's type.
LEMMA ReaderTypes ==
    ASSUME TypeOK, ServedInv, Reader
    PROVE  CallType' /\ RequestType' /\ EnderType' /\ WireType'
<1> USE Constants DEF GotoEnd, GotoReq
<1>1. CallType /\ RequestType /\ EnderType /\ WireType BY DEF TypeOK
<1>2. CASE ReadLine
  <2> DEFINE line == Head(stream)
  <2>1. CASE line.kind = "response" /\ ReadResponse(line.of)
    <3>1. line.of \in Calls BY <1>2, <2>1, HeadSaid DEF ReadLine
    <3>2. RequestType' /\ EnderType' BY <2>1, SameTypes DEF ReadResponse
    <3>3. Append(replies[line.of], "response") \in Seq(Replies)
      <4> HIDE DEF line
      <4>1. replies[line.of] \in Seq(Replies) /\ "response" \in Replies BY <1>1, <3>1 DEF CallType, Replies
      <4> QED BY <4>1
    <3>4. replies' \in [Calls -> Seq(Replies)] BY <1>1, <2>1, <3>3 DEF ReadResponse, CallType
    <3> HIDE DEF line
    <3>5. CallType' BY <1>1, <2>1, <3>4 DEF ReadResponse, Take, CallType
    <3>6. WireType' BY <1>1, <1>2, <2>1, <3>1 DEF ReadLine, ReadResponse, WireType, writeVars, agentVars
    <3> QED BY <3>2, <3>5, <3>6
  <2>2. CASE line.kind = "update" /\ ReadUpdate(line)
    <3>1. CallType' /\ RequestType' /\ EnderType' BY <2>2, SameTypes DEF ReadUpdate
    <3>2. WireType' BY <1>2, <2>2, SameTypes DEF ReadLine, ReadUpdate
    <3> QED BY <3>1, <3>2
  <2>3. CASE line.kind = "request" /\ ReadRequest(line.of)
    <3>1. line.of \in Requests BY <1>2, <2>3, HeadSaid DEF ReadLine
    <3>2. UNCHANGED callVars /\ UNCHANGED endVars /\ UNCHANGED <<agentVars, writing, stray>>
      BY <1>2, <2>3 DEF ReadLine, ReadRequest
    <3>3. CallType' /\ EnderType' BY <3>2, SameTypes
    <3>4. outbox' \in Seq(Lines) /\ Len(outbox') <= OutboxSize
      <4>1. outbox' = outbox \/ Enqueue(RefuseLine(line.of)) BY <2>3 DEF ReadRequest
      <4> QED BY <1>1, <3>1, <4>1, LinesAre, EnqueueTypes DEF WireType
    <3>5. WireType' BY <1>1, <3>2, <3>4 DEF WireType, agentVars
    <3>6. inflight' \in 0 .. MaxAgentRequests
      BY <1>1, <2>3 DEF ReadRequest, UnderCap, RequestType
    <3> HIDE DEF line
    <3>7. reqPc' \in [Requests -> {"unmade", "made", "refused", "serving", "asking", "answering",
                               "closing", "leaving", "done"}]
      BY <1>1, <2>3 DEF ReadRequest, RequestType
    <3>8. RequestType' BY <1>1, <2>3, <3>6, <3>7 DEF ReadRequest, RequestType
    <3> QED BY <3>3, <3>5, <3>8
  <2>4. CASE line.kind = "long" /\ ReadTooLong
    <3>1. RequestType' BY <2>4, SameTypes DEF ReadTooLong
    <3>2. WireType' BY <1>2, <2>4, SameTypes DEF ReadLine, ReadTooLong
    <3>3. replies' \in [Calls -> Seq(Replies)] /\ pending' = {}
      BY <1>1, <2>4, FailTypes DEF ReadTooLong, Replies
    <3>4. CallType' BY <1>1, <2>4, <3>3 DEF ReadTooLong, CallType
    <3>5. perms \cap Requests \in SUBSET Requests OBVIOUS
    <3>6. EnderType' BY <1>1, <2>4, <3>5 DEF ReadTooLong, FindOpen, EnderType
    <3> QED BY <3>1, <3>2, <3>4, <3>6
  <2> QED BY <1>2, <2>1, <2>2, <2>3, <2>4 DEF ReadLine
<1>3. CASE ReadTooLongEnds
  <2>1. CallType' /\ RequestType' /\ WireType' BY <1>3, SameTypes DEF ReadTooLongEnds, readVars
  <2>2. EnderType' BY <1>1, <1>3 DEF ReadTooLongEnds, EnderType
  <2> QED BY <2>1, <2>2
<1>4. CASE ReadLost
  <2>1. RequestType' BY <1>4, SameTypes DEF ReadLost
  <2>2. WireType' BY <1>4, SameTypes DEF ReadLost
  <2>3. replies' \in [Calls -> Seq(Replies)] /\ pending' = {}
    BY <1>1, <1>4, FailTypes DEF ReadLost, Replies
  <2>4. CallType' BY <1>1, <1>4, <2>3 DEF ReadLost, CallType
  <2>5. EnderType' BY <1>1, <1>4 DEF ReadLost, EnderType
  <2> QED BY <2>1, <2>2, <2>4, <2>5
<1>5. CASE ReadLostEnds
  <2>1. CallType' /\ WireType' BY <1>5, SameTypes DEF ReadLostEnds, readVars
  <2>2. RequestType' BY <1>1, <1>5 DEF ReadLostEnds, RequestType
  <2>3. EnderType' BY <1>1, <1>5 DEF ReadLostEnds, EnderType
  <2> QED BY <2>1, <2>2, <2>3
<1> QED BY <1>2, <1>3, <1>4, <1>5 DEF Reader

\* What the agent does keeps every variable's type.
LEMMA AgentTypes ==
    ASSUME TypeOK,
           \/ \E c \in Calls : AgentReplies(c)
           \/ \E r \in Requests : AgentRequests(r)
           \/ \E s \in UpdatedSessions : AgentUpdates(s)
           \/ AgentTooLong \/ AgentExits
    PROVE  CallType' /\ RequestType' /\ EnderType' /\ WireType'
<1>1. RequestType /\ WireType BY DEF TypeOK
<1>2. CallType' /\ EnderType'
  BY SameTypes DEF AgentReplies, AgentRequests, AgentUpdates, AgentTooLong, AgentExits
<1>3. RequestType'
  <2>1. ASSUME NEW r \in Requests, AgentRequests(r) PROVE RequestType'
    BY <1>1, <2>1 DEF AgentRequests, GotoReq, RequestType
  <2> QED BY <2>1, SameTypes DEF AgentReplies, AgentUpdates, AgentTooLong, AgentExits
<1>4. WireType'
  BY <1>1 DEF AgentReplies, AgentRequests, AgentUpdates, AgentTooLong, AgentExits, WireType, writeVars,
      agentVars, readVars
<1> QED BY <1>2, <1>3, <1>4

\* The steps of requests and of the read loop keep the requests served counted.
LEMMA CapSteps ==
    ASSUME TypeOK, ServedInv, Next
    PROVE  CapInv' /\ ChosenInv'
<1> USE DEF GotoReq
<1>1. RequestType /\ CapInv /\ ChosenInv BY DEF TypeOK, ServedInv
<1>2. ASSUME UNCHANGED <<reqPc, inflight, choice>> PROVE CapInv' /\ ChosenInv'
  BY <1>1, <1>2 DEF CapInv, ChosenInv, Served
<1>3. ASSUME NEW r \in Requests, Server(r) \/ \E what \in Outcomes : HandlerReturns(r, what)
      PROVE  CapInv' /\ ChosenInv'
  <2>1. r \in Served /\ (RequestLeaves(r) \/ reqPc'[r] \in {"asking", "answering", "closing", "leaving"})
    BY <1>1, <1>3 DEF Server, RequestOpens, Register, RequestAnswers, RequestCloses, RequestLeaves,
        HandlerReturns, Served, RequestType
  <2>2. \A q \in Requests : q # r => reqPc'[q] = reqPc[q] /\ choice'[q] = choice[q]
    BY <1>1, <1>3 DEF Server, RequestOpens, Register, RequestAnswers, RequestCloses, RequestLeaves,
        HandlerReturns, RequestType
  <2>3. reqPc'[r] = "answering" => choice'[r] \in Outcomes
    BY <1>1, <1>3 DEF Server, RequestOpens, Register, RequestAnswers, RequestCloses, RequestLeaves,
        HandlerReturns, RequestType
  <2>4. CapInv'
    <3>1. CASE RequestLeaves(r)
      <4>1. Served' = Served \ {r}
        BY <1>1, <2>1, <2>2, <3>1 DEF Served, RequestLeaves, RequestType
      <4>2. IsFiniteSet(Served) /\ inflight = Cardinality(Served) BY <1>1 DEF CapInv
      <4>3. IsFiniteSet(Served') /\ Cardinality(Served') = Cardinality(Served) - 1
        BY <2>1, <4>1, <4>2, FS_RemoveElement
      <4> QED BY <3>1, <4>2, <4>3 DEF CapInv, RequestLeaves
    <3>2. CASE ~ RequestLeaves(r)
      <4>1. Served' = Served BY <2>1, <2>2, <3>2 DEF Served
      <4>2. inflight' = inflight
        BY <1>3, <3>2 DEF Server, RequestOpens, RequestAnswers, RequestCloses, HandlerReturns
      <4> QED BY <1>1, <4>1, <4>2 DEF CapInv
    <3> QED BY <3>1, <3>2
  <2> QED BY <1>1, <2>2, <2>3, <2>4 DEF ChosenInv
<1>4. ASSUME NEW r \in Requests, reqPc[r] = "made", UNCHANGED choice, ReadRequest(r)
      PROVE  CapInv' /\ ChosenInv'
  <2>1. \A q \in Requests : q # r => reqPc'[q] = reqPc[q] BY <1>1, <1>4 DEF ReadRequest, RequestType
  <2>2. r \notin Served BY <1>4 DEF Served
  <2>3. \/ reqPc'[r] \in {"done", "refused"} /\ inflight' = inflight
        \/ reqPc'[r] = "serving" /\ inflight' = inflight + 1
    <3>1. CASE closed BY <1>1, <1>4, <3>1 DEF ReadRequest, RequestType
    <3>2. CASE ~ closed /\ UnderCap BY <1>1, <1>4, <3>2 DEF ReadRequest, RequestType
    <3>3. CASE ~ closed /\ ~ UnderCap BY <1>1, <1>4, <3>3 DEF ReadRequest, RequestType
    <3> QED BY <3>1, <3>2, <3>3
  <2>4. CapInv'
    <3>1. CASE reqPc'[r] = "serving"
      <4>1. Served' = Served \cup {r} BY <2>1, <3>1 DEF Served
      <4>2. IsFiniteSet(Served) /\ inflight = Cardinality(Served) BY <1>1 DEF CapInv
      <4>3. IsFiniteSet(Served') /\ Cardinality(Served') = Cardinality(Served) + 1
        BY <2>2, <4>1, <4>2, FS_AddElement
      <4> QED BY <2>3, <3>1, <4>2, <4>3 DEF CapInv
    <3>2. CASE reqPc'[r] # "serving"
      <4>1. Served' = Served BY <2>1, <2>2, <2>3, <3>2 DEF Served
      <4> QED BY <1>1, <2>3, <3>2, <4>1 DEF CapInv
    <3> QED BY <3>1, <3>2
  <2> QED BY <1>1, <1>4, <2>1, <2>3, <2>4 DEF ChosenInv
<1>5. ASSUME NEW r \in Requests, AgentRequests(r) PROVE CapInv' /\ ChosenInv'
  <2>1. \A q \in Requests : reqPc'[q] = reqPc[q] \/ (reqPc[q] = "unmade" /\ reqPc'[q] = "made")
    BY <1>1, <1>5 DEF AgentRequests, RequestType
  <2>2. Served' = Served BY <2>1 DEF Served
  <2> QED BY <1>1, <1>5, <2>1, <2>2 DEF AgentRequests, CapInv, ChosenInv
<1>6. CASE ReadLine
  <2> DEFINE line == Head(stream)
  <2>1. CASE line.kind = "request" /\ ReadRequest(line.of)
    <3>1. stream # <<>> BY <1>6 DEF ReadLine
    <3>2. line.of \in Requests /\ line = stream[1] /\ 1 \in DOMAIN stream BY <2>1, <3>1, HeadSaid
    <3>3. reqPc[line.of] = "made" BY <2>1, <3>2 DEF ServedInv, SaidInv
    <3>4. UNCHANGED choice BY <2>1 DEF ReadRequest
    <3> HIDE DEF line
    <3> QED BY <1>4, <2>1, <3>2, <3>3, <3>4
  <2>2. CASE ReadResponse(line.of) \/ ReadUpdate(line) \/ ReadTooLong
    BY <1>2, <2>2 DEF ReadResponse, ReadUpdate, ReadTooLong, reqVars
  <2> QED BY <1>6, <2>1, <2>2 DEF ReadLine
<1>7. CASE ReadTooLongEnds \/ ReadLost \/ ReadLostEnds \/ WriterTakes \/ WriterWrites \/ WriterFails
           \/ Close \/ Closer \/ InputCloses \/ AgentTooLong \/ AgentExits
  BY <1>2, <1>7 DEF ReadTooLongEnds, ReadLost, ReadLostEnds, WriterTakes, WriterWrites, WriterFails, Close,
      Closer, CloseFinds, CloseStops, CloseKills, CloseFails, InputCloses, AgentTooLong, AgentExits, reqVars
<1>8. CASE \/ \E c \in Calls : Caller(c) \/ CallCtx(c) \/ AgentReplies(c)
           \/ \E t \in Cancellers : Cancel(t) \/ CancelNotifies(t)
           \/ \E t \in Enders, r \in Requests : EndOpen(t, r)
           \/ \E s \in UpdatedSessions : AgentUpdates(s)
  BY <1>2, <1>8 DEF Caller, CallBegin, CallSend, CallReply, CallLoopDone, CallCtx, AgentReplies, Cancel,
      CancelNotifies, EndOpen, AgentUpdates, reqVars
<1> QED BY <1>3, <1>5, <1>6, <1>7, <1>8 DEF Next, Reader

\* The agent's lines keep their types, and each request is in one of them.
LEMMA SaidSteps ==
    ASSUME TypeOK, ServedInv, Next
    PROVE  SaidInv'
<1> USE DEF GotoReq
<1>1. RequestType /\ SaidInv BY DEF TypeOK, ServedInv
<1>2. ASSUME stream' = stream, \A r \in Requests : reqPc[r] = "made" => reqPc'[r] = "made" PROVE SaidInv'
  <2>1. \A i \in DOMAIN stream : stream[i].kind = "request" => stream[i].of \in Requests
    <3>1. \A i \in DOMAIN stream : stream[i] \in Said BY <1>1 DEF SaidInv
    <3> QED BY <3>1, SaidIs
  <2> QED BY <1>1, <1>2, <2>1 DEF SaidInv
<1>3. ASSUME NEW l \in Said, Says(l), l.kind # "request", UNCHANGED reqPc PROVE SaidInv'
  <2>1. stream \in Seq(Said) /\ stream' = Append(stream, l) BY <1>1, <1>3 DEF SaidInv, Says
  <2>2. /\ stream' \in Seq(Said) /\ Len(stream') = Len(stream) + 1 /\ Len(stream) \in Nat
        /\ DOMAIN stream' = 1 .. Len(stream) + 1 /\ DOMAIN stream = 1 .. Len(stream)
        /\ \A i \in DOMAIN stream : stream'[i] = stream[i]
        /\ stream'[Len(stream) + 1] = l
    BY <2>1
  <2>3. ASSUME NEW i \in DOMAIN stream', NEW j \in DOMAIN stream', stream'[i].kind = "request"
        PROVE  reqPc[stream'[i].of] = "made" /\ (stream'[j] = stream'[i] => i = j)
    <3>1. i \in DOMAIN stream BY <1>3, <2>2, <2>3
    <3>2. stream'[j] = stream'[i] => j \in DOMAIN stream BY <1>3, <2>2, <2>3
    <3> QED BY <1>1, <2>2, <2>3, <3>1, <3>2 DEF SaidInv
  <2> QED BY <1>3, <2>2, <2>3 DEF SaidInv
<1>4. ASSUME NEW r \in Requests, AgentRequests(r) PROVE SaidInv'
  <2> DEFINE l == [kind |-> "request", of |-> r]
  <2>1. stream \in Seq(Said) /\ stream' = Append(stream, l) /\ l \in Said
    BY <1>1, <1>4 DEF SaidInv, AgentRequests, Says, Said
  <2>2. /\ stream' \in Seq(Said) /\ Len(stream) \in Nat
        /\ DOMAIN stream' = 1 .. Len(stream) + 1 /\ DOMAIN stream = 1 .. Len(stream)
        /\ \A i \in DOMAIN stream : stream'[i] = stream[i]
        /\ stream'[Len(stream) + 1] = l
    BY <2>1
  <2>3. \A i \in DOMAIN stream : stream[i].kind = "request" => stream[i].of # r
    BY <1>1, <1>4 DEF SaidInv, AgentRequests
  <2>4. /\ reqPc'[r] = "made" /\ \A q \in Requests : reqPc[q] = "made" => reqPc'[q] = "made"
    BY <1>1, <1>4 DEF AgentRequests, RequestType
  <2>5. \A i \in DOMAIN stream : stream[i].kind = "request" => stream[i].of \in Requests
    <3>1. \A i \in DOMAIN stream : stream[i] \in Said BY <1>1 DEF SaidInv
    <3> QED BY <3>1, SaidIs
  <2>6. l.kind = "request" /\ l.of = r OBVIOUS
  <2> HIDE DEF l
  <2>7. ASSUME NEW i \in DOMAIN stream', NEW j \in DOMAIN stream', stream'[i].kind = "request"
        PROVE  reqPc'[stream'[i].of] = "made" /\ (stream'[j] = stream'[i] => i = j)
    <3>1. CASE i \in DOMAIN stream
      <4>1. stream'[j] = stream'[i] => j \in DOMAIN stream BY <2>2, <2>3, <2>6, <2>7, <3>1
      <4> QED BY <1>1, <2>2, <2>4, <2>5, <2>7, <3>1, <4>1 DEF SaidInv
    <3>2. CASE i = Len(stream) + 1
      <4>1. stream'[i] = l BY <2>2, <3>2
      <4>2. stream'[j] = l => j = i BY <2>2, <2>3, <2>6, <3>2
      <4> QED BY <2>4, <2>6, <4>1, <4>2
    <3> QED BY <2>2, <3>1, <3>2
  <2> QED BY <2>2, <2>7 DEF SaidInv
<1>5. ASSUME NEW c \in Calls, AgentReplies(c) PROVE SaidInv'
  <2>1. Response(c) \in Said /\ Response(c).kind # "request" BY DEF Said, Response
  <2> QED BY <1>3, <1>5, <2>1 DEF AgentReplies, Response, reqVars
<1>6. ASSUME NEW s \in UpdatedSessions, AgentUpdates(s) PROVE SaidInv'
  <2>1. PICK w \in {"before", "in the load", "after"} : Says([kind |-> "update", of |-> s, sent |-> w])
    BY <1>6 DEF AgentUpdates
  <2>2. /\ [kind |-> "update", of |-> s, sent |-> w] \in Said
        /\ [kind |-> "update", of |-> s, sent |-> w].kind # "request"
    BY DEF Said
  <2> QED BY <1>3, <1>6, <2>1, <2>2 DEF AgentUpdates, reqVars
<1>7. CASE AgentTooLong
  <2>1. [kind |-> "long", of |-> None] \in Said /\ [kind |-> "long", of |-> None].kind # "request"
    BY DEF Said
  <2> QED BY <1>3, <1>7, <2>1 DEF AgentTooLong, reqVars
<1>8. CASE ReadLine
  <2> DEFINE line == Head(stream)
  <2>1. stream # <<>> /\ stream \in Seq(Said) /\ (stream' = <<>> \/ stream' = Tail(stream))
    BY <1>1, <1>8 DEF ReadLine, SaidInv
  <2>2. /\ Len(stream) \in Nat /\ DOMAIN stream = 1 .. Len(stream)
        /\ line = stream[1] /\ 1 \in DOMAIN stream
    BY <2>1
  <2>3. CASE stream' = <<>> BY <2>3 DEF SaidInv
  <2>4. CASE stream' = Tail(stream)
    <3>1. /\ stream' \in Seq(Said) /\ DOMAIN stream' = 1 .. (Len(stream) - 1)
          /\ \A i \in DOMAIN stream' : i + 1 \in DOMAIN stream /\ i + 1 # 1 /\ stream'[i] = stream[i + 1]
      BY <2>1, <2>4
    <3>2. \A q \in Requests : reqPc'[q] = reqPc[q] \/ (line.kind = "request" /\ q = line.of)
      BY <1>1, <1>8 DEF ReadLine, ReadResponse, ReadUpdate, ReadRequest, ReadTooLong, reqVars, RequestType
    <3>3. \A i \in DOMAIN stream : stream[i].kind = "request" =>
             stream[i].of \in Requests /\ stream[i] = [kind |-> "request", of |-> stream[i].of]
      <4>1. \A l \in Said : l.kind = "request" => l.of \in Requests /\ l = [kind |-> "request", of |-> l.of]
        BY SaidIs
      <4> QED BY <2>1, <2>2, <4>1
    <3> HIDE DEF line
    <3>4. ASSUME NEW i \in DOMAIN stream', NEW j \in DOMAIN stream', stream'[i].kind = "request"
          PROVE  reqPc'[stream'[i].of] = "made" /\ (stream'[j] = stream'[i] => i = j)
      <4>1. /\ i \in Int /\ j \in Int /\ i + 1 \in DOMAIN stream /\ j + 1 \in DOMAIN stream /\ i + 1 # 1
            /\ stream'[i] = stream[i + 1] /\ stream'[j] = stream[j + 1]
        BY <2>2, <3>1
      <4>2. reqPc[stream[i + 1].of] = "made" /\ (stream[j + 1] = stream[i + 1] => i + 1 = j + 1)
        BY <1>1, <3>4, <4>1 DEF SaidInv
      <4>3. ~ (line.kind = "request" /\ stream[i + 1].of = line.of)
        BY <1>1, <2>2, <3>3, <3>4, <4>1 DEF SaidInv
      <4>4. stream[i + 1].of \in Requests BY <3>3, <3>4, <4>1
      <4> QED BY <3>2, <4>1, <4>2, <4>3, <4>4
    <3> QED BY <3>1, <3>4 DEF SaidInv
  <2> QED BY <2>1, <2>3, <2>4
<1>9. CASE ReadLost BY <1>9 DEF ReadLost, SaidInv
<1>10. ASSUME NEW r \in Requests, Server(r) \/ \E what \in Outcomes : HandlerReturns(r, what) PROVE SaidInv'
  <2>1. reqPc[r] # "made" /\ stream' = stream /\ \A q \in Requests : q # r => reqPc'[q] = reqPc[q]
    BY <1>1, <1>10 DEF Server, RequestOpens, Register, RequestAnswers, RequestCloses, RequestLeaves,
        HandlerReturns, RequestType, readVars
  <2> QED BY <1>2, <2>1
<1>11. CASE ReadTooLongEnds \/ ReadLostEnds \/ WriterTakes \/ WriterWrites \/ WriterFails
           \/ Close \/ Closer \/ InputCloses \/ AgentExits
  BY <1>2, <1>11 DEF ReadTooLongEnds, ReadLostEnds, WriterTakes, WriterWrites, WriterFails, Close,
      Closer, CloseFinds, CloseStops, CloseKills, CloseFails, InputCloses, AgentExits, reqVars, readVars
<1>12. CASE \/ \E c \in Calls : Caller(c) \/ CallCtx(c)
            \/ \E t \in Cancellers : Cancel(t) \/ CancelNotifies(t)
            \/ \E t \in Enders, r \in Requests : EndOpen(t, r)
  BY <1>2, <1>12 DEF Caller, CallBegin, CallSend, CallReply, CallLoopDone, CallCtx, Cancel,
      CancelNotifies, EndOpen, reqVars, readVars
<1> QED BY <1>4, <1>5, <1>6, <1>7, <1>8, <1>9, <1>10, <1>11, <1>12 DEF Next, Reader

\* Types and the requests served together, of every behaviour.
LEMMA ServedCorrect == Spec => [](TypeOK /\ ServedInv)
<1>1. ASSUME Init PROVE TypeOK /\ ServedInv
  <2> USE <1>1, Constants DEF Init
  <2>1. CallType BY DEF CallType
  <2>2. RequestType BY DEF RequestType
  <2>3. EnderType BY DEF EnderType
  <2>4. WireType BY DEF WireType
  <2>5. Served = {} BY DEF Served
  <2>6. CapInv BY <2>5, FS_EmptySet DEF CapInv
  <2>7. SaidInv /\ ChosenInv BY DEF SaidInv, ChosenInv
  <2> QED BY <2>1, <2>2, <2>3, <2>4, <2>6, <2>7 DEF TypeOK, ServedInv
<1>2. ASSUME TypeOK, ServedInv, [Next]_vars PROVE TypeOK' /\ ServedInv'
  <2>1. CASE UNCHANGED vars
    <3>1. CallType' BY <1>2, <2>1 DEF vars, callVars, writeVars, agentVars, readVars, TypeOK, CallType
    <3>2. RequestType' BY <1>2, <2>1 DEF vars, reqVars, writeVars, agentVars, readVars, TypeOK, RequestType
    <3>3. EnderType' BY <1>2, <2>1 DEF vars, endVars, writeVars, agentVars, readVars, TypeOK, EnderType
    <3>4. WireType' BY <1>2, <2>1 DEF vars, writeVars, agentVars, readVars, TypeOK, WireType
    <3>5. Served' = Served BY <2>1 DEF vars, reqVars, Served
    <3>6. SaidInv' BY <1>2, <2>1 DEF vars, reqVars, agentVars, readVars, ServedInv, SaidInv
    <3>7. CapInv' BY <1>2, <2>1, <3>5 DEF vars, reqVars, ServedInv, CapInv
    <3>8. ChosenInv' BY <1>2, <2>1 DEF vars, reqVars, ServedInv, ChosenInv
    <3> QED BY <3>1, <3>2, <3>3, <3>4, <3>6, <3>7, <3>8 DEF TypeOK, ServedInv
  <2>2. CASE Next
    <3>1. CallType' /\ RequestType' /\ EnderType' /\ WireType'
      BY <1>2, <2>2, CallTypes, WriterTypes, RequestTypes, EnderTypes, ReaderTypes, AgentTypes DEF Next
    <3>2. ServedInv' BY <1>2, <2>2, CapSteps, SaidSteps DEF ServedInv
    <3> QED BY <3>1, <3>2 DEF TypeOK
  <2> QED BY <1>2, <2>1, <2>2
<1> QED BY <1>1, <1>2, PTL DEF Spec

\* Every variable has its type, and the outbox and the requests served keep to their
\* limits.
THEOREM TypeCorrect == Spec => []TypeOK
<1>1. TypeOK /\ ServedInv => TypeOK OBVIOUS
<1> QED BY <1>1, ServedCorrect, PTL

-----------------------------------------------------------------------------
(* Lines on their way to the agent.                                            *)

\* The kinds of line are told apart, and the lines of a kind by what they are of.
LEMMA LinesDiffer ==
    /\ \A x, y : AnswerLine(x) = AnswerLine(y) => x = y
    /\ \A x, y : CancelLine(x) = CancelLine(y) => x = y
    /\ \A x, y : CallLine(x) = CallLine(y) => x = y
    /\ \A x, y : /\ AnswerLine(x) # CancelLine(y) /\ AnswerLine(x) # CallLine(y) /\ AnswerLine(x) # RefuseLine(y)
                 /\ CancelLine(x) # CallLine(y) /\ CancelLine(x) # RefuseLine(y) /\ CallLine(x) # RefuseLine(y)
<1>1. /\ \A x : AnswerLine(x).kind = "answer" /\ AnswerLine(x).of = x
      /\ \A x : CancelLine(x).kind = "cancel" /\ CancelLine(x).of = x
      /\ \A x : CallLine(x).kind = "call" /\ CallLine(x).of = x
      /\ \A x : RefuseLine(x).kind = "refuse"
  BY DEF AnswerLine, CancelLine, CallLine, RefuseLine
<1> QED BY <1>1

\* Where a line that is queued stands, and that the others stay where they were.
LEMMA QueuedAt ==
    ASSUME WireType, NEW line \in Lines, Enqueue(line)
    PROVE  /\ Len(outbox) \in Nat /\ DOMAIN outbox = 1 .. Len(outbox)
           /\ \A i \in DOMAIN outbox : i \in DOMAIN outbox' /\ outbox'[i] = outbox[i]
           /\ \A i \in DOMAIN outbox' : i \in DOMAIN outbox \/ (i = Len(outbox) + 1 /\ outbox'[i] = line)
           /\ CanQueue => Len(outbox) + 1 \in DOMAIN outbox' /\ outbox'[Len(outbox) + 1] = line
           /\ ~CanQueue => outbox' = outbox
<1>1. outbox \in Seq(Lines) BY DEF WireType
<1>2. Len(outbox) \in Nat /\ DOMAIN outbox = 1 .. Len(outbox) BY <1>1
<1>3. CASE CanQueue
  <2>1. outbox' = Append(outbox, line) BY <1>3 DEF Enqueue
  <2>2. /\ DOMAIN outbox' = 1 .. Len(outbox) + 1
        /\ \A i \in 1 .. Len(outbox) : outbox'[i] = outbox[i]
        /\ outbox'[Len(outbox) + 1] = line
    BY <1>1, <2>1
  <2> QED BY <1>2, <1>3, <2>2
<1>4. CASE ~ CanQueue BY <1>2, <1>4 DEF Enqueue
<1> QED BY <1>3, <1>4

\* Where the lines are when the writer has taken the first.
LEMMA TakenAt ==
    ASSUME WireType, WriterTakes
    PROVE  /\ 1 \in DOMAIN outbox /\ writing' = outbox[1] /\ writing = NoLine /\ seen' = seen
           /\ \A i \in DOMAIN outbox' : i \in Nat /\ i + 1 \in DOMAIN outbox /\ outbox'[i] = outbox[i + 1]
           /\ \A i \in DOMAIN outbox :
                 i \in Nat /\ i >= 1 /\ (i # 1 => i - 1 \in DOMAIN outbox' /\ outbox'[i - 1] = outbox[i])
<1>1. outbox \in Seq(Lines) /\ outbox # <<>> /\ writing' = Head(outbox) /\ outbox' = Tail(outbox)
  BY DEF WireType, WriterTakes
<1>2. /\ Len(outbox) \in Nat /\ Len(outbox) >= 1 /\ DOMAIN outbox = 1 .. Len(outbox)
      /\ Head(outbox) = outbox[1] /\ DOMAIN outbox' = 1 .. (Len(outbox) - 1)
      /\ \A i \in 1 .. (Len(outbox) - 1) : outbox'[i] = outbox[i + 1]
  BY <1>1
<1>3. \A i \in DOMAIN outbox : i # 1 => i - 1 \in DOMAIN outbox' /\ outbox'[i - 1] = outbox[i]
  <2> SUFFICES ASSUME NEW i \in DOMAIN outbox, i # 1 PROVE i - 1 \in DOMAIN outbox' /\ outbox'[i - 1] = outbox[i]
    OBVIOUS
  <2>1. i \in Int /\ i - 1 \in 1 .. (Len(outbox) - 1) /\ (i - 1) + 1 = i BY <1>2
  <2> QED BY <1>2, <2>1
<1> QED BY <1>1, <1>2, <1>3 DEF WriterTakes, agentVars

\* A step that does not queue line l.
Passes(l) ==
    \/ UNCHANGED <<outbox, writing, seen>>
    \/ \E line \in Lines \ {l} : Enqueue(line) /\ UNCHANGED <<writing, seen>>
    \/ WriterTakes \/ WriterWrites \/ WriterFails

\* It leaves the line where it is in one place, if it was, loses it only in a broken
\* pipe, and makes none.
LEMMA LinePasses ==
    ASSUME WireType, NEW l \in Lines, Passes(l)
    PROVE  /\ Once(l) => Once(l)'
           /\ OnItsWay(l)' => OnItsWay(l)
           /\ OnItsWay(l) => OnItsWay(l)' \/ Broken
           /\ l \in seen => l \in seen'
<1>1. l # NoLine BY LinesAre
<1>2. CASE UNCHANGED <<outbox, writing, seen>> BY <1>2 DEF Once, OnItsWay, Queued
<1>3. ASSUME NEW line \in Lines \ {l}, Enqueue(line), UNCHANGED <<writing, seen>>
      PROVE  (Once(l) => Once(l)') /\ (OnItsWay(l)' <=> OnItsWay(l)) /\ (l \in seen => l \in seen')
  <2>1. /\ \A i \in DOMAIN outbox : i \in DOMAIN outbox' /\ outbox'[i] = outbox[i]
        /\ \A i \in DOMAIN outbox' : i \in DOMAIN outbox \/ outbox'[i] = line
    BY <1>3, QueuedAt
  <2>2. Queued(l)' <=> Queued(l) BY <1>3, <2>1 DEF Queued
  <2> QED BY <1>3, <2>1, <2>2 DEF Once, OnItsWay
<1>4. CASE WriterTakes
  <2>1. /\ 1 \in DOMAIN outbox /\ writing' = outbox[1] /\ writing = NoLine /\ seen' = seen
        /\ \A i \in DOMAIN outbox' : i \in Nat /\ i + 1 \in DOMAIN outbox /\ outbox'[i] = outbox[i + 1]
        /\ \A i \in DOMAIN outbox : i \in Nat /\ i >= 1 /\ (i # 1 => i - 1 \in DOMAIN outbox' /\ outbox'[i - 1] = outbox[i])
    BY <1>4, TakenAt
  <2>2. Queued(l) <=> (Queued(l)' \/ writing' = l) BY <2>1 DEF Queued
  <2>3. ASSUME Once(l) PROVE Once(l)'
    <3>1. \A i, j \in DOMAIN outbox' : outbox'[i] = l /\ outbox'[j] = l => i = j
      <4> SUFFICES ASSUME NEW i \in DOMAIN outbox', NEW j \in DOMAIN outbox', outbox'[i] = l, outbox'[j] = l
                   PROVE  i = j
        OBVIOUS
      <4>1. i + 1 = j + 1 BY <2>1, <2>3 DEF Once
      <4> QED BY <2>1, <4>1
    <3>2. writing' = l => ~Queued(l)'
      <4> SUFFICES ASSUME writing' = l, NEW i \in DOMAIN outbox', outbox'[i] = l PROVE FALSE
        BY DEF Queued
      <4>1. i + 1 = 1 /\ i \in Nat /\ i + 1 \in DOMAIN outbox BY <2>1, <2>3 DEF Once
      <4>2. i = 0 BY <4>1
      <4>3. outbox'[0] = l /\ 0 \in DOMAIN outbox' BY <4>2
      <4>4. DOMAIN outbox' = 1 .. Len(outbox') BY <1>4 DEF WriterTakes, WireType
      <4> QED BY <4>3, <4>4
    <3>3. l \in seen' => ~Queued(l)' /\ writing' # l BY <2>1, <2>2, <2>3 DEF Once
    <3> QED BY <3>1, <3>2, <3>3 DEF Once
  <2> QED BY <1>1, <2>1, <2>2, <2>3 DEF OnItsWay
<1>5. CASE WriterWrites
  <2>1. /\ outbox' = outbox /\ writing' = NoLine /\ seen' = seen \cup {writing}
    BY <1>5 DEF WriterWrites
  <2>2. Queued(l)' <=> Queued(l) BY <2>1 DEF Queued
  <2>3. Once(l) => Once(l)' BY <1>1, <2>1, <2>2 DEF Once
  <2> QED BY <1>1, <2>1, <2>2, <2>3 DEF OnItsWay
<1>6. CASE WriterFails
  <2>1. /\ outbox' = outbox /\ writing' = NoLine /\ seen' = seen /\ Broken
    BY <1>6 DEF WriterFails, agentVars, Broken
  <2>2. Queued(l)' <=> Queued(l) BY <2>1 DEF Queued
  <2>3. Once(l) => Once(l)' BY <1>1, <2>1, <2>2 DEF Once
  <2> QED BY <1>1, <2>1, <2>2, <2>3 DEF OnItsWay
<1> QED BY <1>2, <1>3, <1>4, <1>5, <1>6 DEF Passes

\* The first answer of request r.
FirstAnswer(r) ==
    /\ answered[r] = "no" /\ \E what \in Outcomes : Answer(r, what)
    /\ UNCHANGED <<writing, seen>>

\* Who queues a line: its call, its request's first answer, its refusal, or its Cancel.
LEMMA WhoQueues ==
    ASSUME TypeOK, ServedInv, Next, NEW l \in Lines
    PROVE  \/ Passes(l)
           \/ \E c \in Calls : l = CallLine(c) /\ CallSend(c)
           \/ \E r \in Requests : l = AnswerLine(r) /\ FirstAnswer(r)
           \/ \E r \in Requests : l = RefuseLine(r)
           \/ \E t \in Cancellers : l = CancelLine(t) /\ CancelNotifies(t)
<1> USE DEF writeVars, agentVars
<1>1. ASSUME NEW r \in Requests, NEW what \in Outcomes, Answer(r, what), UNCHANGED <<writing, seen>>
      PROVE  Passes(l) \/ (l = AnswerLine(r) /\ FirstAnswer(r))
  <2>1. CASE answered[r] # "no" BY <1>1, <2>1 DEF Answer, Passes
  <2>2. CASE answered[r] = "no"
    <3>1. Enqueue(AnswerLine(r)) BY <1>1, <2>2 DEF Answer
    <3> QED BY <1>1, <2>2, <3>1, LinesAre DEF Passes, FirstAnswer
  <2> QED BY <2>1, <2>2
<1>2. ASSUME NEW c \in Calls, Caller(c) \/ CallCtx(c) \/ AgentReplies(c)
      PROVE  Passes(l) \/ (l = CallLine(c) /\ CallSend(c))
  <2>1. CASE CallSend(c) BY <2>1, LinesAre DEF CallSend, Passes
  <2>2. CASE ~ CallSend(c)
    BY <1>2, <2>2 DEF Caller, CallBegin, CallReply, CallLoopDone, CallCtx, AgentReplies, Passes
  <2> QED BY <2>1, <2>2
<1>3. ASSUME NEW r \in Requests,
             Server(r) \/ AgentRequests(r) \/ \E what \in Outcomes : HandlerReturns(r, what)
      PROVE  Passes(l) \/ (l = AnswerLine(r) /\ FirstAnswer(r))
  <2>1. CASE RequestOpens(r)
    BY <1>1, <2>1 DEF RequestOpens, Register, Passes, Outcomes
  <2>2. CASE RequestAnswers(r)
    <3>1. choice[r] \in Outcomes BY <2>2 DEF RequestAnswers, ServedInv, ChosenInv
    <3> QED BY <1>1, <2>2, <3>1 DEF RequestAnswers
  <2>3. CASE RequestCloses(r) \/ RequestLeaves(r) \/ AgentRequests(r) \/ \E what \in Outcomes : HandlerReturns(r, what)
    BY <2>3 DEF RequestCloses, RequestLeaves, AgentRequests, HandlerReturns, Passes
  <2> QED BY <1>3, <2>1, <2>2, <2>3 DEF Server
<1>4. ASSUME NEW t \in Cancellers, Cancel(t) \/ CancelNotifies(t)
      PROVE  Passes(l) \/ (l = CancelLine(t) /\ CancelNotifies(t))
  BY <1>4, LinesAre DEF Cancel, CancelNotifies, Passes
<1>5. ASSUME NEW t \in Enders, NEW r \in Requests, EndOpen(t, r)
      PROVE  Passes(l) \/ (l = AnswerLine(r) /\ FirstAnswer(r))
  BY <1>1, <1>5 DEF EndOpen, Outcomes
<1>6. CASE ReadLine
  <2> DEFINE line == Head(stream)
  <2>1. CASE line.kind = "request" /\ ReadRequest(line.of)
    <3>1. line.of \in Requests BY <1>6, <2>1, HeadSaid DEF ReadLine
    <3>2. UNCHANGED <<writing, seen>> /\ (outbox' = outbox \/ Enqueue(RefuseLine(line.of)))
      BY <1>6, <2>1 DEF ReadLine, ReadRequest
    <3> HIDE DEF line
    <3> QED BY <3>1, <3>2, LinesAre DEF Passes
  <2>2. CASE ReadResponse(line.of) \/ ReadUpdate(line) \/ ReadTooLong
    BY <1>6, <2>2 DEF ReadLine, ReadResponse, ReadUpdate, ReadTooLong, Passes
  <2> QED BY <1>6, <2>1, <2>2 DEF ReadLine
<1>7. CASE WriterTakes \/ WriterWrites \/ WriterFails BY <1>7 DEF Passes
<1>8. CASE ReadTooLongEnds \/ ReadLost \/ ReadLostEnds \/ Close \/ Closer \/ InputCloses \/ AgentTooLong
           \/ AgentExits \/ \E s \in UpdatedSessions : AgentUpdates(s)
  BY <1>8 DEF ReadTooLongEnds, ReadLost, ReadLostEnds, Close, Closer, CloseFinds, CloseStops, CloseKills,
      CloseFails, InputCloses, AgentTooLong, AgentExits, AgentUpdates, Passes
<1> QED BY <1>2, <1>3, <1>4, <1>5, <1>6, <1>7, <1>8 DEF Next, Reader

\* A request's answer changes once, when it is given.
LEMMA AnsweredOf ==
    ASSUME TypeOK, ServedInv, Next, NEW q \in Requests
    PROVE  answered'[q] = answered[q] \/ FirstAnswer(q)
<1> USE DEF reqVars, writeVars, agentVars
<1>1. ASSUME NEW r \in Requests, NEW what \in Outcomes, Answer(r, what), UNCHANGED <<writing, seen>>
      PROVE  answered'[q] = answered[q] \/ FirstAnswer(q)
  BY <1>1 DEF Answer, FirstAnswer, TypeOK, RequestType
<1>2. ASSUME NEW r \in Requests,
             Server(r) \/ AgentRequests(r) \/ \E what \in Outcomes : HandlerReturns(r, what)
      PROVE  answered'[q] = answered[q] \/ FirstAnswer(q)
  <2>1. CASE RequestOpens(r)
    BY <1>1, <2>1 DEF RequestOpens, Register, Outcomes
  <2>2. CASE RequestAnswers(r)
    <3>1. choice[r] \in Outcomes BY <2>2 DEF RequestAnswers, ServedInv, ChosenInv
    <3> QED BY <1>1, <2>2, <3>1 DEF RequestAnswers
  <2>3. CASE RequestCloses(r) \/ RequestLeaves(r) \/ AgentRequests(r) \/ \E what \in Outcomes : HandlerReturns(r, what)
    BY <2>3 DEF RequestCloses, RequestLeaves, AgentRequests, HandlerReturns
  <2> QED BY <1>2, <2>1, <2>2, <2>3 DEF Server
<1>3. ASSUME NEW t \in Enders, NEW r \in Requests, EndOpen(t, r)
      PROVE  answered'[q] = answered[q] \/ FirstAnswer(q)
  BY <1>1, <1>3 DEF EndOpen, Outcomes
<1>4. CASE \/ \E c \in Calls : Caller(c) \/ CallCtx(c) \/ AgentReplies(c)
           \/ \E t \in Cancellers : Cancel(t) \/ CancelNotifies(t)
           \/ \E s \in UpdatedSessions : AgentUpdates(s)
           \/ WriterTakes \/ WriterWrites \/ WriterFails \/ AgentTooLong \/ AgentExits
  BY <1>4 DEF Caller, CallBegin, CallSend, CallReply, CallLoopDone, CallCtx, AgentReplies, Cancel,
      CancelNotifies, AgentUpdates, WriterTakes, WriterWrites, WriterFails, AgentTooLong, AgentExits
<1>5. CASE Reader \/ Close \/ Closer \/ InputCloses
  BY <1>5 DEF Reader, ReadLine, ReadResponse, ReadUpdate, ReadRequest, ReadTooLong, ReadTooLongEnds, ReadLost,
      ReadLostEnds, Close, Closer, CloseFinds, CloseStops, CloseKills, CloseFails, InputCloses
<1> QED BY <1>2, <1>3, <1>4, <1>5 DEF Next

\* A pipe that is broken stays broken.
LEMMA BrokenStays == ASSUME TypeOK, Next, Broken PROVE Broken'
<1>1. CASE \/ \E c \in Calls : Caller(c) \/ CallCtx(c) \/ AgentReplies(c)
           \/ \E r \in Requests : Server(r) \/ AgentRequests(r) \/ \E what \in Outcomes : HandlerReturns(r, what)
           \/ \E t \in Cancellers : Cancel(t) \/ CancelNotifies(t)
           \/ \E t \in Enders, r \in Requests : EndOpen(t, r)
  BY <1>1 DEF Broken, Caller, CallBegin, CallSend, CallReply, CallLoopDone, CallCtx, AgentReplies, Server,
      RequestOpens, RequestAnswers, RequestCloses, RequestLeaves, AgentRequests, HandlerReturns, Cancel,
      CancelNotifies, EndOpen, endVars, agentVars
<1>2. CASE \/ \E s \in UpdatedSessions : AgentUpdates(s)
           \/ WriterTakes \/ WriterWrites \/ WriterFails \/ AgentTooLong \/ AgentExits
           \/ Reader \/ Close \/ Closer \/ InputCloses
  BY <1>2 DEF Broken, AgentUpdates, WriterTakes, WriterWrites, WriterFails, AgentTooLong, AgentExits, Reader,
      ReadLine, ReadTooLongEnds, ReadLost, ReadResponse, ReadUpdate, ReadRequest, ReadTooLong,
      ReadLostEnds, Close, Closer, CloseFinds, CloseStops, CloseKills, CloseFails, InputCloses, endVars, agentVars
<1> QED BY <1>1, <1>2 DEF Next

-----------------------------------------------------------------------------
(* Answers.                                                                    *)

\* A request's answer is queued once, and lost only in a broken pipe.
LEMMA AnswerSteps ==
    ASSUME TypeOK, ServedInv, Next, NEW q \in Requests, AnswerInv(q)
    PROVE  AnswerInv(q)'
<1> DEFINE l == AnswerLine(q)
<1>1. WireType /\ l \in Lines BY LinesAre DEF TypeOK
<1>2. CASE FirstAnswer(q)
  <2>1. PICK what \in Outcomes : Answer(q, what) BY <1>2 DEF FirstAnswer
  <2>2. /\ answered[q] = "no" /\ ~OnItsWay(l) /\ Enqueue(l) /\ UNCHANGED <<writing, seen>>
        /\ answered'[q] = IF CanQueue THEN what ELSE "dropped"
    BY <1>2, <2>1 DEF FirstAnswer, Answer, AnswerInv, TypeOK, RequestType
  <2>3. /\ \A i \in DOMAIN outbox' : i \in DOMAIN outbox \/ i = Len(outbox) + 1
        /\ \A i \in DOMAIN outbox : outbox'[i] = outbox[i]
        /\ CanQueue => Len(outbox) + 1 \in DOMAIN outbox' /\ outbox'[Len(outbox) + 1] = l
        /\ ~CanQueue => outbox' = outbox
    BY <1>1, <2>2, QueuedAt
  <2>4. /\ \A i \in DOMAIN outbox : outbox[i] # l
        /\ writing # l /\ l \notin seen
    BY <2>2 DEF OnItsWay, Queued
  <2>5. Once(l)' BY <2>2, <2>3, <2>4 DEF Once, Queued
  <2>6. CanQueue => OnItsWay(l)' BY <2>3 DEF OnItsWay, Queued
  <2>7. ~CanQueue => ~OnItsWay(l)' BY <2>2, <2>3, <2>4 DEF OnItsWay, Queued
  <2> QED BY <2>2, <2>5, <2>6, <2>7 DEF AnswerInv, Outcomes
<1>3. CASE ~ FirstAnswer(q)
  <2>1. answered'[q] = answered[q] BY <1>3, AnsweredOf
  <2>2. Passes(l) BY <1>1, <1>3, WhoQueues, LinesDiffer
  <2>3. Broken => Broken' BY BrokenStays
  <2> HIDE DEF l
  <2>4. /\ Once(l) => Once(l)'
        /\ OnItsWay(l)' => OnItsWay(l)
        /\ OnItsWay(l) => OnItsWay(l)' \/ Broken
    BY <1>1, <2>2, LinePasses
  <2> QED BY <2>1, <2>3, <2>4 DEF AnswerInv, l
<1> QED BY <1>2, <1>3

\* The requests of every behaviour are answered once.
LEMMA RequestsCorrect == Spec => []RequestInv
<1>1. Init => RequestInv
  <2> SUFFICES ASSUME Init, NEW r \in Requests PROVE AnswerInv(r)
    BY DEF RequestInv
  <2>1. ~OnItsWay(AnswerLine(r)) /\ ~Queued(AnswerLine(r)) /\ DOMAIN outbox = {}
    BY LinesAre DEF Init, OnItsWay, Queued
  <2>2. answered[r] = "no" BY DEF Init
  <2> QED BY <2>1, <2>2 DEF AnswerInv, Once, OnItsWay, Outcomes
<1>2. TypeOK /\ ServedInv /\ RequestInv /\ [Next]_vars => RequestInv'
  <2> SUFFICES ASSUME TypeOK, ServedInv, RequestInv, [Next]_vars, NEW r \in Requests PROVE AnswerInv(r)'
    BY DEF RequestInv
  <2>1. AnswerInv(r) BY DEF RequestInv
  <2>2. CASE UNCHANGED vars
    BY <2>1, <2>2 DEF vars, reqVars, endVars, writeVars, agentVars, AnswerInv, Once, OnItsWay, Queued, Broken
  <2>3. CASE Next BY <2>1, <2>3, AnswerSteps
  <2> QED BY <2>2, <2>3
<1> QED BY <1>1, <1>2, ServedCorrect, PTL DEF Spec

\* A request is answered once: the agent never gets the person's choice after
\* "cancelled", nor either of them twice, whoever comes first.
THEOREM AnsweredCorrect == Spec => []AnsweredOnce
<1>1. WireType /\ RequestInv => AnsweredOnce
  <2> SUFFICES ASSUME WireType, NEW r \in Requests, AnswerInv(r)
               PROVE  /\ Copies(AnswerLine(r)) <= 1
                      /\ answered[r] \in {"no", "dropped"} => Copies(AnswerLine(r)) = 0
    BY DEF RequestInv, AnsweredOnce
  <2> DEFINE l == AnswerLine(r)
             at == {i \in DOMAIN outbox : outbox[i] = l}
  <2>1. CASE ~ Queued(l)
    <3>1. at = {} BY <2>1 DEF Queued
    <3>2. Cardinality(at) = 0 BY <3>1, FS_EmptySet
    <3>3. (IF writing = l THEN 1 ELSE 0) + (IF l \in seen THEN 1 ELSE 0) <= 1 BY DEF AnswerInv, Once
    <3>4. answered[r] \in {"no", "dropped"} => writing # l /\ l \notin seen BY DEF AnswerInv, OnItsWay
    <3> HIDE DEF l, at
    <3>5. Copies(l) = 0 + (IF writing = l THEN 1 ELSE 0) + (IF l \in seen THEN 1 ELSE 0)
      BY <3>2 DEF Copies, at
    <3> QED BY <3>3, <3>4, <3>5 DEF l
  <2>2. CASE Queued(l)
    <3>1. PICK i \in DOMAIN outbox : outbox[i] = l BY <2>2 DEF Queued
    <3>2. at = {i} BY <3>1 DEF AnswerInv, Once
    <3>3. Cardinality(at) = 1 BY <3>2, FS_Singleton
    <3>4. writing # l /\ l \notin seen BY <2>2 DEF AnswerInv, Once
    <3>5. answered[r] \notin {"no", "dropped"} BY <2>2 DEF AnswerInv, OnItsWay
    <3> HIDE DEF l, at
    <3>6. Copies(l) = 1 + 0 + 0 BY <3>3, <3>4 DEF Copies, at
    <3> QED BY <3>5, <3>6 DEF l
  <2> QED BY <2>1, <2>2
<1>2. TypeOK => WireType BY DEF TypeOK
<1> QED BY <1>1, <1>2, TypeCorrect, RequestsCorrect, PTL

-----------------------------------------------------------------------------
(* Cancel.                                                                     *)

\* Only its own steps move a goroutine of Cancel and what it has found.
LEMMA CancellerOf ==
    ASSUME TypeOK, ServedInv, Next, NEW t \in Cancellers
    PROVE  \/ Cancel(t) \/ CancelNotifies(t)
           \/ \E r \in Requests : EndOpen(t, r)
           \/ endPc'[t] = endPc[t] /\ found'[t] = found[t] /\ open'[t] = open[t]
<1> USE Constants DEF GotoEnd, endVars
<1>1. EnderType BY DEF TypeOK
<1>2. ASSUME NEW u \in Cancellers, Cancel(u) \/ CancelNotifies(u), u # t
      PROVE  endPc'[t] = endPc[t] /\ found'[t] = found[t] /\ open'[t] = open[t]
  BY <1>1, <1>2 DEF Cancel, CancelNotifies, FindOpen, EnderType
<1>3. ASSUME NEW u \in Enders, NEW r \in Requests, EndOpen(u, r), u # t
      PROVE  endPc'[t] = endPc[t] /\ found'[t] = found[t] /\ open'[t] = open[t]
  BY <1>1, <1>3 DEF EndOpen, EnderType
<1>4. CASE Close \/ Closer \/ InputCloses
  BY <1>1, <1>4 DEF Close, Closer, CloseFinds, CloseStops, CloseKills, CloseFails, InputCloses, FindOpen, EnderType
<1>5. CASE Reader
  BY <1>1, <1>5 DEF Reader, ReadLine, ReadResponse, ReadUpdate, ReadRequest, ReadTooLong, ReadTooLongEnds,
      ReadLost, ReadLostEnds, FindOpen, EnderType
<1>6. CASE \/ \E c \in Calls : Caller(c) \/ CallCtx(c) \/ AgentReplies(c)
           \/ \E r \in Requests : Server(r) \/ AgentRequests(r) \/ \E what \in Outcomes : HandlerReturns(r, what)
           \/ \E s \in UpdatedSessions : AgentUpdates(s)
           \/ WriterTakes \/ WriterWrites \/ WriterFails \/ AgentTooLong \/ AgentExits
  BY <1>6 DEF Caller, CallBegin, CallSend, CallReply, CallLoopDone, CallCtx, AgentReplies, Server,
      RequestOpens, RequestAnswers, RequestCloses, RequestLeaves, AgentRequests, HandlerReturns,
      AgentUpdates, WriterTakes, WriterWrites, WriterFails, AgentTooLong, AgentExits
<1> QED BY <1>2, <1>3, <1>4, <1>5, <1>6 DEF Next

\* Cancel queues its line when it has ended what it found.
LEMMA CancelSteps ==
    ASSUME TypeOK, ServedInv, Next, NEW t \in Cancellers, CancelInv(t)
    PROVE  CancelInv(t)'
<1> USE Constants DEF GotoEnd
<1> DEFINE k == CancelLine(t)
<1>1. EnderType /\ WireType /\ k \in Lines BY LinesAre DEF TypeOK
<1>2. \A r \in Requests : answered[r] # "no" => answered'[r] # "no"
  BY AnsweredOf DEF FirstAnswer
<1>3. ~CancelNotifies(t) => (OnItsWay(k)' => OnItsWay(k))
  BY <1>1, WhoQueues, LinesDiffer, LinePasses
<1>4. found[t] \subseteq Requests BY <1>1 DEF EnderType
<1>5. CASE Cancel(t)
  <2>1. endPc[t] = "idle" /\ endPc'[t] = "ending" /\ found'[t] = open'[t] BY <1>1, <1>5 DEF Cancel, FindOpen, EnderType
  <2>2. ~CancelNotifies(t) BY <2>1 DEF CancelNotifies
  <2> QED BY <1>3, <2>1, <2>2 DEF CancelInv
<1>6. CASE CancelNotifies(t)
  <2>1. endPc'[t] = "done" /\ found' = found /\ open[t] = {} BY <1>1, <1>6 DEF CancelNotifies, AllEnded, EnderType
  <2> QED BY <1>2, <1>4, <2>1 DEF CancelInv
<1>7. ASSUME NEW r \in Requests, EndOpen(t, r) PROVE CancelInv(t)'
  <2>1. endPc' = endPc /\ found' = found /\ open'[t] = open[t] \ {r} BY <1>1, <1>7 DEF EndOpen, EnderType
  <2>2. answered'[r] # "no" BY <1>7 DEF EndOpen, Answer, TypeOK, RequestType
  <2>3. CancelNotifies(t) => endPc'[t] # endPc[t] BY <1>1 DEF CancelNotifies, EnderType
  <2> QED BY <1>2, <1>3, <1>4, <2>1, <2>2, <2>3 DEF CancelInv
<1>8. CASE endPc'[t] = endPc[t] /\ found'[t] = found[t] /\ open'[t] = open[t]
  <2>1. ~CancelNotifies(t) BY <1>1, <1>8 DEF CancelNotifies, EnderType
  <2> QED BY <1>2, <1>3, <1>4, <1>8, <2>1 DEF CancelInv
<1> QED BY <1>5, <1>6, <1>7, <1>8, CancellerOf

\* A Cancel's line stays behind the answers of the requests it found.
LEMMA BehindSteps ==
    ASSUME TypeOK, ServedInv, RequestInv, Next, NEW t \in Cancellers, CancelInv(t), CancelInv(t)',
           NEW r \in Requests, r \in found'[t], r \in found[t] => Behind(t, r)
    PROVE  Behind(t, r)'
<1> USE Constants
<1> DEFINE k == CancelLine(t)
           a == AnswerLine(r)
<1>1. WireType /\ k \in Lines /\ a \in Lines /\ k # a BY LinesAre, LinesDiffer DEF TypeOK
<1>2. ~OnItsWay(k)' => Behind(t, r)' BY DEF Behind, OnItsWay, Queued
<1>3. Broken => Broken' BY BrokenStays
<1>4. answered[r] = "dropped" => answered'[r] = "dropped" BY AnsweredOf DEF FirstAnswer
<1>5. CASE r \notin found[t]
  <2>1. Cancel(t) BY <1>5, CancellerOf DEF CancelNotifies, EndOpen, endVars
  <2>2. endPc'[t] # "done" BY <2>1 DEF Cancel, GotoEnd, TypeOK, EnderType
  <2> QED BY <1>2, <2>2 DEF CancelInv
<1>6. CASE r \in found[t] /\ CancelNotifies(t)
  <2>1. /\ endPc[t] = "ending" /\ open[t] = {} /\ Enqueue(k) /\ answered' = answered
        /\ UNCHANGED <<writing, seen, alive, inClosed>>
    BY <1>6 DEF CancelNotifies, AllEnded, reqVars, agentVars
  <2>2. ~OnItsWay(k) /\ answered[r] # "no" BY <1>6, <2>1 DEF CancelInv
  <2>3. answered[r] = "dropped" \/ OnItsWay(a) \/ Broken
    BY <2>2 DEF RequestInv, AnswerInv, TypeOK, RequestType
  <2>4. /\ Len(outbox) \in Nat /\ DOMAIN outbox = 1 .. Len(outbox)
        /\ \A i \in DOMAIN outbox : i \in DOMAIN outbox' /\ outbox'[i] = outbox[i]
        /\ \A i \in DOMAIN outbox' : i \in DOMAIN outbox \/ i = Len(outbox) + 1
    BY <1>1, <2>1, QueuedAt
  <2> HIDE DEF k, a
  <2>5. ASSUME NEW i \in DOMAIN outbox', outbox'[i] = k
        PROVE  \/ answered'[r] = "dropped" \/ a \in seen' \/ writing' = a \/ Broken'
               \/ \E j \in DOMAIN outbox' : j < i /\ outbox'[j] = a
    <3>1. i = Len(outbox) + 1 BY <2>2, <2>4, <2>5 DEF OnItsWay, Queued
    <3>2. Queued(a) => \E j \in DOMAIN outbox' : j < i /\ outbox'[j] = a
      <4> SUFFICES ASSUME NEW j \in DOMAIN outbox, outbox[j] = a
                   PROVE  j \in DOMAIN outbox' /\ j < i /\ outbox'[j] = a
        BY DEF Queued
      <4>1. j \in Nat /\ j < i BY <2>4, <3>1
      <4> QED BY <2>4, <4>1
    <3> QED BY <1>3, <2>1, <2>3, <3>2 DEF OnItsWay
  <2>6. writing' # k /\ k \notin seen' BY <2>1, <2>2 DEF OnItsWay
  <2> QED BY <2>5, <2>6 DEF Behind, k, a
<1>7. CASE r \in found[t] /\ ~CancelNotifies(t)
  <2>1. Behind(t, r) /\ Passes(k) BY <1>1, <1>7, WhoQueues, LinesDiffer
  <2>2. a \in seen => a \in seen'
    BY <1>1, WhoQueues, LinesDiffer, LinePasses DEF FirstAnswer
  <2> HIDE DEF k, a
  <2>3. /\ \A i \in DOMAIN outbox : outbox[i] = k =>
              \/ answered[r] = "dropped" \/ a \in seen \/ writing = a \/ Broken
              \/ \E j \in DOMAIN outbox : j < i /\ outbox[j] = a
        /\ writing = k => answered[r] = "dropped" \/ a \in seen \/ Broken
        /\ k \in seen => answered[r] = "dropped" \/ a \in seen
    BY <2>1 DEF Behind, k, a
  <2>4. SUFFICES /\ \A i \in DOMAIN outbox' : outbox'[i] = k =>
                       \/ answered'[r] = "dropped" \/ a \in seen' \/ writing' = a \/ Broken'
                       \/ \E j \in DOMAIN outbox' : j < i /\ outbox'[j] = a
                 /\ writing' = k => answered'[r] = "dropped" \/ a \in seen' \/ Broken'
                 /\ k \in seen' => answered'[r] = "dropped" \/ a \in seen'
    BY DEF Behind, k, a
  <2>5. CASE UNCHANGED <<outbox, writing, seen>> BY <1>3, <1>4, <2>3, <2>5
  <2>6. ASSUME NEW line \in Lines \ {k}, Enqueue(line), UNCHANGED <<writing, seen>>
        PROVE  /\ \A i \in DOMAIN outbox' : outbox'[i] = k =>
                     \/ answered'[r] = "dropped" \/ a \in seen' \/ writing' = a \/ Broken'
                     \/ \E j \in DOMAIN outbox' : j < i /\ outbox'[j] = a
               /\ writing' = k => answered'[r] = "dropped" \/ a \in seen' \/ Broken'
               /\ k \in seen' => answered'[r] = "dropped" \/ a \in seen'
    <3>1. /\ \A i \in DOMAIN outbox : i \in DOMAIN outbox' /\ outbox'[i] = outbox[i]
          /\ \A i \in DOMAIN outbox' : i \in DOMAIN outbox \/ outbox'[i] = line
      BY <1>1, <2>6, QueuedAt
    <3> QED BY <1>3, <1>4, <2>3, <2>6, <3>1
  <2>7. CASE WriterTakes
    <3>1. /\ 1 \in DOMAIN outbox /\ writing' = outbox[1] /\ writing = NoLine /\ seen' = seen
          /\ \A i \in DOMAIN outbox' : i \in Nat /\ i + 1 \in DOMAIN outbox /\ outbox'[i] = outbox[i + 1]
          /\ \A i \in DOMAIN outbox :
                i \in Nat /\ i >= 1 /\ (i # 1 => i - 1 \in DOMAIN outbox' /\ outbox'[i - 1] = outbox[i])
      BY <1>1, <2>7, TakenAt
    <3>2. writing # a BY <1>1, <3>1, LinesAre
    <3>3. writing' = k => answered'[r] = "dropped" \/ a \in seen' \/ Broken'
      <4> SUFFICES ASSUME outbox[1] = k PROVE answered'[r] = "dropped" \/ a \in seen' \/ Broken'
        BY <3>1
      <4>1. ~ \E j \in DOMAIN outbox : j < 1 /\ outbox[j] = a BY <3>1
      <4> QED BY <1>3, <1>4, <2>2, <2>3, <3>1, <3>2, <4>1
    <3>4. ASSUME NEW i \in DOMAIN outbox', outbox'[i] = k
          PROVE  \/ answered'[r] = "dropped" \/ a \in seen' \/ writing' = a \/ Broken'
                 \/ \E j \in DOMAIN outbox' : j < i /\ outbox'[j] = a
      <4>1. i \in Nat /\ i + 1 \in DOMAIN outbox /\ outbox[i + 1] = k BY <3>1, <3>4
      <4>2. CASE answered[r] = "dropped" \/ a \in seen \/ Broken BY <1>3, <1>4, <2>2, <4>2
      <4>3. ASSUME NEW j \in DOMAIN outbox, j < i + 1, outbox[j] = a
            PROVE  writing' = a \/ \E jj \in DOMAIN outbox' : jj < i /\ outbox'[jj] = a
        <5>1. CASE j = 1 BY <3>1, <4>3, <5>1
        <5>2. CASE j # 1
          <6>1. j \in Nat /\ j - 1 \in DOMAIN outbox' /\ outbox'[j - 1] = a BY <3>1, <4>3, <5>2
          <6>2. j - 1 < i BY <4>1, <4>3, <6>1
          <6> QED BY <6>1, <6>2
        <5> QED BY <5>1, <5>2
      <4> QED BY <2>3, <3>2, <4>1, <4>2, <4>3
    <3> QED BY <1>4, <2>2, <2>3, <3>1, <3>3, <3>4
  <2>8. CASE WriterWrites
    <3>1. /\ outbox' = outbox /\ writing' = NoLine /\ seen' = seen \cup {writing} /\ ~Broken
          /\ UNCHANGED <<alive, inClosed>>
      BY <2>8 DEF WriterWrites, Broken, endVars
    <3>2. writing' # k BY <1>1, <3>1, LinesAre
    <3>3. k \in seen' => answered'[r] = "dropped" \/ a \in seen' BY <1>4, <2>2, <2>3, <3>1
    <3>4. \A i \in DOMAIN outbox' : outbox'[i] = k =>
             \/ answered'[r] = "dropped" \/ a \in seen' \/ writing' = a \/ Broken'
             \/ \E j \in DOMAIN outbox' : j < i /\ outbox'[j] = a
      BY <1>3, <1>4, <2>2, <2>3, <3>1
    <3> QED BY <3>2, <3>3, <3>4
  <2>9. CASE WriterFails
    <3>1. /\ outbox' = outbox /\ writing' = NoLine /\ seen' = seen /\ Broken
      BY <2>9 DEF WriterFails, agentVars, Broken
    <3> QED BY <1>3, <1>4, <2>3, <3>1
  <2> QED BY <2>1, <2>5, <2>6, <2>7, <2>8, <2>9 DEF Passes
<1> QED BY <1>5, <1>6, <1>7

\* The order of every behaviour.
LEMMA OrderCorrect == Spec => []OrderInv
<1>1. Init => OrderInv
  <2> SUFFICES ASSUME Init, NEW t \in Cancellers PROVE CancelInv(t) /\ \A r \in found[t] : Behind(t, r)
    BY DEF OrderInv
  <2>1. endPc[t] = "idle" /\ found[t] = {} BY Constants DEF Init
  <2>2. ~OnItsWay(CancelLine(t)) BY LinesAre DEF Init, OnItsWay, Queued
  <2> QED BY <2>1, <2>2 DEF CancelInv
<1>2. TypeOK /\ TypeOK' /\ ServedInv /\ RequestInv /\ OrderInv /\ [Next]_vars => OrderInv'
  <2> SUFFICES ASSUME TypeOK, TypeOK', ServedInv, RequestInv, OrderInv, [Next]_vars, NEW t \in Cancellers
               PROVE  CancelInv(t)' /\ \A r \in found'[t] : Behind(t, r)'
    BY DEF OrderInv
  <2>1. CancelInv(t) /\ \A r \in found[t] : Behind(t, r) BY DEF OrderInv
  <2>2. CASE UNCHANGED vars
    BY <2>1, <2>2 DEF vars, reqVars, endVars, writeVars, agentVars, CancelInv, Behind, OnItsWay, Queued, Broken
  <2>3. CASE Next
    <3>1. CancelInv(t)' BY <2>1, <2>3, CancelSteps
    <3>2. found'[t] \subseteq Requests BY DEF TypeOK, EnderType
    <3>3. ASSUME NEW r \in found'[t] PROVE Behind(t, r)'
      BY <2>1, <2>3, <3>1, <3>2, <3>3, BehindSteps
    <3> QED BY <3>1, <3>3
  <2> QED BY <2>2, <2>3
<1> QED BY <1>1, <1>2, ServedCorrect, RequestsCorrect, PTL DEF Spec

\* The agent reads session/cancel only after the answers of the requests it found
\* open.
THEOREM CancelCorrect == Spec => []CancelComesAfterAnswers
<1>1. OrderInv => CancelComesAfterAnswers BY DEF OrderInv, Behind, CancelComesAfterAnswers
<1> QED BY <1>1, OrderCorrect, PTL

-----------------------------------------------------------------------------
(* Replies.                                                                    *)

\* What a step may do with call c: nothing, ...
LeavesCall(c) ==
    /\ callPc'[c] = callPc[c] /\ replies'[c] = replies[c]
    /\ c \in pending' <=> c \in pending
    /\ c \in loads' <=> c \in loads
\* ... reply to it if it is pending, ...
RepliesTo(c) ==
    /\ callPc'[c] = callPc[c] /\ c \notin pending'
    /\ \E why \in Replies : replies'[c] = IF c \in pending THEN Append(replies[c], why) ELSE replies[c]
    /\ c \notin loads' \/ (c \in loads' <=> c \in loads)
\* ... begin or end it.
BeginsCall(c) ==
    /\ callPc[c] = "idle" /\ callPc'[c] = "sending" /\ c \in pending' /\ replies'[c] = replies[c]
    /\ c \in loads' <=> c \in Loads
EndsCall(c) ==
    /\ callPc'[c] = "done" /\ c \notin pending' /\ c \notin loads' /\ replies'[c] = replies[c]
\* Its line is queued.
SendsCall(c) ==
    /\ callPc[c] = "sending" /\ callPc'[c] = "waiting" /\ replies'[c] = replies[c]
    /\ c \in pending' <=> c \in pending
    /\ c \in loads' <=> c \in loads

\* The steps of the call c itself.
LEMMA OwnSteps ==
    ASSUME TypeOK, NEW c \in Calls, CallInv(c), Caller(c) \/ CallCtx(c)
    PROVE  BeginsCall(c) \/ SendsCall(c) \/ EndsCall(c)
<1> USE DEF GotoCall
<1>1. CallType BY DEF TypeOK
<1>2. CASE CallBegin(c)
  <2>1. CASE closed BY <1>1, <1>2, <2>1 DEF CallBegin, EndsCall, CallType, CallInv
  <2>2. CASE ~ closed BY <1>1, <1>2, <2>2 DEF CallBegin, BeginsCall, CallType, CallInv
  <2> QED BY <2>1, <2>2
<1>3. CASE CallSend(c)
  <2>1. CASE CanQueue BY <1>1, <1>3, <2>1 DEF CallSend, SendsCall, CallType
  <2>2. CASE ~ CanQueue BY <1>1, <1>3, <2>2 DEF CallSend, CallReturns, EndsCall, CallType
  <2> QED BY <2>1, <2>2
<1>4. CASE CallReply(c) BY <1>1, <1>4 DEF CallReply, CallReturns, EndsCall, CallType, CallInv
<1>5. CASE CallLoopDone(c) BY <1>1, <1>5 DEF CallLoopDone, CallReturns, EndsCall, CallType
<1>6. CASE CallCtx(c) BY <1>1, <1>6 DEF CallCtx, CallReturns, EndsCall, CallType
<1> QED BY <1>2, <1>3, <1>4, <1>5, <1>6 DEF Caller

\* The steps of another call leave c alone.
LEMMA OtherSteps ==
    ASSUME TypeOK, NEW c \in Calls, NEW d \in Calls \ {c}, Caller(d) \/ CallCtx(d)
    PROVE  LeavesCall(c)
<1> USE DEF GotoCall
<1>1. CallType BY DEF TypeOK
<1>2. CASE CallBegin(d) BY <1>1, <1>2 DEF CallBegin, LeavesCall, CallType
<1>3. CASE CallSend(d) BY <1>1, <1>3 DEF CallSend, CallReturns, LeavesCall, CallType
<1>4. CASE CallReply(d) BY <1>1, <1>4 DEF CallReply, CallReturns, LeavesCall, CallType
<1>5. CASE CallLoopDone(d) BY <1>1, <1>5 DEF CallLoopDone, CallReturns, LeavesCall, CallType
<1>6. CASE CallCtx(d) BY <1>1, <1>6 DEF CallCtx, CallReturns, LeavesCall, CallType
<1> QED BY <1>2, <1>3, <1>4, <1>5, <1>6 DEF Caller

\* What failPending does with call c.
LEMMA FailReplies ==
    ASSUME NEW c \in Calls, NEW why \in Replies, FailPending(why), UNCHANGED <<loads, callPc>>
    PROVE  RepliesTo(c)
BY DEF FailPending, RepliesTo

\* What a line that is read does with call c.
LEMMA ReadReplies ==
    ASSUME TypeOK, ServedInv, NEW c \in Calls, ReadLine
    PROVE  LeavesCall(c) \/ RepliesTo(c)
<1> DEFINE line == Head(stream)
<1>1. CallType BY DEF TypeOK
<1>2. CASE line.kind = "response" /\ ReadResponse(line.of)
  <2>1. line.of \in Calls BY <1>2, HeadSaid DEF ReadLine
  <2> HIDE DEF line
  <2>2. CASE line.of = c BY <1>1, <1>2, <2>2 DEF ReadResponse, Take, RepliesTo, CallType, Replies
  <2>3. CASE line.of # c BY <1>1, <1>2, <2>1, <2>3 DEF ReadResponse, Take, LeavesCall, CallType
  <2> QED BY <2>2, <2>3
<1>3. CASE ReadUpdate(line) \/ ReadRequest(line.of)
  BY <1>3 DEF ReadUpdate, ReadRequest, callVars, LeavesCall
<1>4. CASE ReadTooLong BY <1>4, FailReplies DEF ReadTooLong, Replies
<1> QED BY <1>2, <1>3, <1>4 DEF ReadLine

\* All that a step may do with it.
LEMMA CallMoves ==
    ASSUME TypeOK, ServedInv, Next, NEW c \in Calls, CallInv(c)
    PROVE  \/ LeavesCall(c) \/ RepliesTo(c)
           \/ (Caller(c) \/ CallCtx(c)) /\ (BeginsCall(c) \/ SendsCall(c) \/ EndsCall(c))
<1> USE DEF callVars
<1>1. ASSUME NEW d \in Calls, Caller(d) \/ CallCtx(d)
      PROVE  LeavesCall(c) \/ ((Caller(c) \/ CallCtx(c)) /\ (BeginsCall(c) \/ SendsCall(c) \/ EndsCall(c)))
  <2>1. CASE d = c BY <1>1, <2>1, OwnSteps
  <2>2. CASE d # c BY <1>1, <2>2, OtherSteps
  <2> QED BY <2>1, <2>2
<1>2. CASE UNCHANGED callVars BY <1>2 DEF LeavesCall
<1>3. CASE WriterFails BY <1>3, FailReplies DEF WriterFails, Replies
<1>4. CASE CloseFails BY <1>4, FailReplies DEF CloseFails, Replies
<1>5. CASE ReadLost BY <1>5, FailReplies DEF ReadLost, Replies
<1>6. CASE ReadLine BY <1>6, ReadReplies
<1>7. CASE \/ \E d \in Calls : AgentReplies(d)
           \/ \E r \in Requests : Server(r) \/ AgentRequests(r) \/ \E what \in Outcomes : HandlerReturns(r, what)
           \/ \E t \in Cancellers : Cancel(t) \/ CancelNotifies(t)
           \/ \E t \in Enders, r \in Requests : EndOpen(t, r)
  <2>1. UNCHANGED callVars
    BY <1>7 DEF AgentReplies, Server, RequestOpens, RequestAnswers, RequestCloses, RequestLeaves, AgentRequests,
        HandlerReturns, Cancel, CancelNotifies, EndOpen
  <2> QED BY <1>2, <2>1
<1>8. CASE \/ WriterTakes \/ WriterWrites \/ ReadTooLongEnds \/ ReadLostEnds \/ Close \/ CloseFinds
           \/ CloseStops \/ CloseKills \/ InputCloses \/ AgentTooLong \/ AgentExits
           \/ \E s \in UpdatedSessions : AgentUpdates(s)
  <2>1. UNCHANGED callVars
    BY <1>8 DEF WriterTakes, WriterWrites, ReadTooLongEnds, ReadLostEnds, Close, CloseFinds, CloseStops, CloseKills,
        InputCloses, AgentTooLong, AgentExits, AgentUpdates
  <2> QED BY <1>2, <2>1
<1> QED BY <1>1, <1>3, <1>4, <1>5, <1>6, <1>7, <1>8 DEF Next, Reader, Closer

\* What the agent has read stays read, and it answers the calls it has read.
LEMMA AgentAnswers ==
    ASSUME TypeOK, ServedInv, Next, NEW c \in Calls, c \in replied => CallLine(c) \in seen
    PROVE  c \in replied' => CallLine(c) \in seen'
<1>1. seen \subseteq seen'
  <2>1. CASE WriterWrites BY <2>1 DEF WriterWrites
  <2>2. CASE ~ WriterWrites
    <3>1. CASE \/ \E d \in Calls : Caller(d) \/ CallCtx(d) \/ AgentReplies(d)
               \/ \E r \in Requests : Server(r) \/ AgentRequests(r) \/ \E what \in Outcomes : HandlerReturns(r, what)
               \/ \E t \in Cancellers : Cancel(t) \/ CancelNotifies(t)
               \/ \E t \in Enders, r \in Requests : EndOpen(t, r)
      BY <3>1 DEF Caller, CallBegin, CallSend, CallReply, CallLoopDone, CallCtx, AgentReplies, Server,
          RequestOpens, RequestAnswers, RequestCloses, RequestLeaves, AgentRequests, HandlerReturns, Cancel,
          CancelNotifies, EndOpen, agentVars
    <3>2. CASE \/ \E s \in UpdatedSessions : AgentUpdates(s)
               \/ WriterTakes \/ WriterFails \/ AgentTooLong \/ AgentExits
               \/ Reader \/ Close \/ Closer \/ InputCloses
      BY <3>2 DEF AgentUpdates, WriterTakes, WriterFails, AgentTooLong, AgentExits, Reader, ReadLine,
          ReadTooLongEnds, ReadLost, ReadLostEnds, Close, Closer, CloseFinds, CloseStops, CloseKills, CloseFails,
          InputCloses, agentVars
    <3> QED BY <2>2, <3>1, <3>2 DEF Next
  <2> QED BY <2>1, <2>2
<1>2. c \in replied' => c \in replied \/ AgentReplies(c)
  <2>1. ASSUME NEW d \in Calls, AgentReplies(d) PROVE c \in replied' => c \in replied \/ AgentReplies(c)
    BY <2>1 DEF AgentReplies
  <2>2. CASE \/ \E d \in Calls : Caller(d) \/ CallCtx(d)
             \/ \E r \in Requests : Server(r) \/ AgentRequests(r) \/ \E what \in Outcomes : HandlerReturns(r, what)
             \/ \E t \in Cancellers : Cancel(t) \/ CancelNotifies(t)
             \/ \E t \in Enders, r \in Requests : EndOpen(t, r)
    BY <2>2 DEF Caller, CallBegin, CallSend, CallReply, CallLoopDone, CallCtx, Server,
        RequestOpens, RequestAnswers, RequestCloses, RequestLeaves, AgentRequests, HandlerReturns, Cancel,
        CancelNotifies, EndOpen, agentVars
  <2>3. CASE \/ \E s \in UpdatedSessions : AgentUpdates(s)
             \/ WriterTakes \/ WriterWrites \/ WriterFails \/ AgentTooLong \/ AgentExits
             \/ Reader \/ Close \/ Closer \/ InputCloses
    BY <2>3 DEF AgentUpdates, WriterTakes, WriterWrites, WriterFails, AgentTooLong, AgentExits, Reader, ReadLine,
        ReadTooLongEnds, ReadLost, ReadLostEnds, Close, Closer, CloseFinds, CloseStops, CloseKills, CloseFails,
        InputCloses, agentVars
  <2> QED BY <2>1, <2>2, <2>3 DEF Next
<1> QED BY <1>1, <1>2 DEF AgentReplies

\* A call has one reply, and is in pending, and in loads, until it has it.
LEMMA CallSteps ==
    ASSUME TypeOK, ServedInv, Next, NEW c \in Calls, CallInv(c)
    PROVE  CallInv(c)'
<1> DEFINE l == CallLine(c)
<1>1. CallType /\ WireType /\ l \in Lines BY LinesAre DEF TypeOK
<1>2. replies[c] \in Seq(Replies) /\ Len(<<>>) = 0 BY <1>1 DEF CallType
<1>3. c \in replied' => l \in seen' BY AgentAnswers DEF CallInv
<1>4. OnItsWay(l)' => OnItsWay(l) \/ CallSend(c) BY <1>1, WhoQueues, LinesDiffer, LinePasses
<1>5. CallSend(c) => callPc[c] = "sending" /\ callPc'[c] \in {"waiting", "done"}
  BY <1>1 DEF CallSend, CallReturns, GotoCall, CallType
<1> HIDE DEF l
<1>6. CASE LeavesCall(c) BY <1>3, <1>4, <1>5, <1>6 DEF CallInv, LeavesCall, l
<1>7. CASE RepliesTo(c)
  <2>1. PICK why \in Replies : replies'[c] = IF c \in pending THEN Append(replies[c], why) ELSE replies[c]
    BY <1>7 DEF RepliesTo
  <2>2. c \in pending => replies[c] = <<>> BY DEF CallInv
  <2>3. c \in pending => replies'[c] = <<why>>
    <3>1. Append(<<>>, why) = <<why>> OBVIOUS
    <3> QED BY <2>1, <2>2, <3>1
  <2>4. Len(<<why>>) = 1 /\ <<why>> # <<>> OBVIOUS
  <2>5. Len(replies'[c]) <= 1 BY <2>1, <2>3, <2>4 DEF CallInv
  <2> QED BY <1>3, <1>4, <1>5, <1>7, <2>1, <2>3, <2>4, <2>5 DEF CallInv, RepliesTo, l
<1>8. CASE BeginsCall(c) BY <1>3, <1>4, <1>5, <1>8 DEF CallInv, BeginsCall, l
<1>9. CASE SendsCall(c) BY <1>3, <1>9 DEF CallInv, SendsCall, l
<1>10. CASE EndsCall(c) BY <1>3, <1>10 DEF CallInv, EndsCall, l
<1> QED BY <1>6, <1>7, <1>8, <1>9, <1>10, CallMoves

\* The calls of every behaviour.
LEMMA CallsCorrect == Spec => [](\A c \in Calls : CallInv(c))
<1> DEFINE Inv == \A c \in Calls : CallInv(c)
<1>1. Init => Inv
  <2> SUFFICES ASSUME Init, NEW c \in Calls PROVE CallInv(c)
    OBVIOUS
  <2>1. ~OnItsWay(CallLine(c)) BY LinesAre DEF Init, OnItsWay, Queued
  <2>2. callPc[c] = "idle" /\ replies[c] = <<>> /\ pending = {} /\ loads = {} /\ replied = {} BY DEF Init
  <2> QED BY <2>1, <2>2 DEF CallInv
<1>2. TypeOK /\ ServedInv /\ Inv /\ [Next]_vars => Inv'
  <2> SUFFICES ASSUME TypeOK, ServedInv, Inv, [Next]_vars, NEW c \in Calls PROVE CallInv(c)'
    OBVIOUS
  <2>1. CASE UNCHANGED vars
    BY <2>1 DEF vars, callVars, writeVars, agentVars, CallInv, OnItsWay, Queued
  <2>2. CASE Next BY <2>2, CallSteps
  <2> QED BY <2>1, <2>2
<1> QED BY <1>1, <1>2, ServedCorrect, PTL DEF Spec

\* Nobody who replies to a call can block: its channel has room for one reply, and
\* whoever replies first has taken it out of pending.
THEOREM RepliesCorrect == Spec => []OneReplyPerCall
<1>1. (\A c \in Calls : CallInv(c)) => OneReplyPerCall BY DEF CallInv, OneReplyPerCall
<1> QED BY <1>1, CallsCorrect, PTL

-----------------------------------------------------------------------------
(* Loads.                                                                      *)

\* Where the lines are when the agent has said one more, ...
LEMMA SaidAt ==
    ASSUME SaidInv, NEW l \in Said, stream' = Append(stream, l)
    PROVE  /\ Len(stream) \in Nat /\ DOMAIN stream = 1 .. Len(stream)
           /\ Len(stream) + 1 \in DOMAIN stream' /\ stream'[Len(stream) + 1] = l
           /\ \A i \in DOMAIN stream : i \in DOMAIN stream' /\ stream'[i] = stream[i]
           /\ \A i \in DOMAIN stream' : i \in DOMAIN stream \/ i = Len(stream) + 1
<1>1. stream \in Seq(Said) BY DEF SaidInv
<1>2. Len(stream) \in Nat /\ DOMAIN stream = 1 .. Len(stream) BY <1>1
<1>3. /\ DOMAIN stream' = 1 .. Len(stream) + 1
      /\ \A i \in 1 .. Len(stream) : stream'[i] = stream[i]
      /\ stream'[Len(stream) + 1] = l
  BY <1>1
<1> QED BY <1>2, <1>3

\* ... and when the first has been read.
LEMMA ReadAt ==
    ASSUME SaidInv, stream # <<>>, stream' = Tail(stream)
    PROVE  /\ 1 \in DOMAIN stream /\ Head(stream) = stream[1]
           /\ \A i \in DOMAIN stream' : i \in Nat /\ i + 1 \in DOMAIN stream /\ stream'[i] = stream[i + 1]
           /\ \A i \in DOMAIN stream :
                 i \in Nat /\ i >= 1 /\ (i # 1 => i - 1 \in DOMAIN stream' /\ stream'[i - 1] = stream[i])
<1>1. stream \in Seq(Said) BY DEF SaidInv
<1>2. /\ Len(stream) \in Nat /\ Len(stream) >= 1 /\ DOMAIN stream = 1 .. Len(stream)
      /\ Head(stream) = stream[1] /\ DOMAIN stream' = 1 .. (Len(stream) - 1)
      /\ \A i \in 1 .. (Len(stream) - 1) : stream'[i] = stream[i + 1]
  BY <1>1
<1>3. \A i \in DOMAIN stream : i # 1 => i - 1 \in DOMAIN stream' /\ stream'[i - 1] = stream[i]
  <2> SUFFICES ASSUME NEW i \in DOMAIN stream, i # 1 PROVE i - 1 \in DOMAIN stream' /\ stream'[i - 1] = stream[i]
    OBVIOUS
  <2>1. i \in Int /\ i - 1 \in 1 .. (Len(stream) - 1) /\ (i - 1) + 1 = i BY <1>2
  <2> QED BY <1>2, <2>1
<1> QED BY <1>2, <1>3

\* The agent says something that bears on no load.
SaysOther == \E l \in Said : stream' = Append(stream, l) /\ l.kind \in {"request", "long"}

\* How the lines of the agent change while they are read.
LEMMA StreamMoves ==
    ASSUME TypeOK, ServedInv, Next, endPc'["read"] = "reading"
    PROVE  /\ endPc["read"] = "reading"
           /\ \/ UNCHANGED <<stream, replied>>
              \/ SaysOther /\ UNCHANGED replied
              \/ \E c \in Calls : AgentReplies(c)
              \/ \E s \in UpdatedSessions : AgentUpdates(s)
              \/ ReadLine /\ stream' = Tail(stream) /\ UNCHANGED replied
<1> USE Constants DEF GotoEnd, agentVars, readVars
<1>1. EnderType /\ WireType BY DEF TypeOK
<1>2. CASE \/ \E c \in Calls : Caller(c) \/ CallCtx(c)
           \/ \E r \in Requests : Server(r) \/ \E what \in Outcomes : HandlerReturns(r, what)
           \/ \E t \in Enders, r \in Requests : EndOpen(t, r)
           \/ WriterTakes \/ WriterWrites \/ WriterFails
  BY <1>2 DEF Caller, CallBegin, CallSend, CallReply, CallLoopDone, CallCtx, Server,
      RequestOpens, RequestAnswers, RequestCloses, RequestLeaves, HandlerReturns, EndOpen,
      WriterTakes, WriterWrites, WriterFails, endVars
<1>3. CASE \E t \in Cancellers : Cancel(t) \/ CancelNotifies(t)
  BY <1>1, <1>3 DEF Cancel, CancelNotifies, EnderType
<1>4. CASE Close \/ Closer \/ InputCloses
  BY <1>1, <1>4 DEF Close, Closer, CloseFinds, CloseStops, CloseKills, CloseFails, InputCloses, EnderType
<1>5. CASE ReadTooLongEnds \/ ReadLost \/ ReadLostEnds
  BY <1>1, <1>5 DEF ReadTooLongEnds, ReadLost, ReadLostEnds, EnderType
<1>6. CASE ReadLine
  <2> DEFINE line == Head(stream)
  <2>1. CASE line.kind = "long" /\ ReadTooLong
    BY <1>1, <2>1 DEF ReadTooLong, EnderType
  <2>2. CASE line.kind # "long"
    BY <1>6, <2>2 DEF ReadLine
  <2> QED BY <1>6, <2>1, <2>2 DEF ReadLine
<1>7. CASE \E c \in Calls : AgentReplies(c) BY <1>7 DEF AgentReplies, endVars
<1>8. CASE \E s \in UpdatedSessions : AgentUpdates(s) BY <1>8 DEF AgentUpdates, endVars
<1>9. CASE \E r \in Requests : AgentRequests(r)
  <2>1. PICK r \in Requests : AgentRequests(r) BY <1>9
  <2>2. [kind |-> "request", of |-> r] \in Said BY DEF Said
  <2>3. SaysOther BY <2>1, <2>2 DEF AgentRequests, Says, SaysOther
  <2> QED BY <2>1, <2>3 DEF AgentRequests, endVars
<1>10. CASE AgentTooLong
  <2>1. [kind |-> "long", of |-> None] \in Said BY DEF Said
  <2>2. SaysOther BY <1>10, <2>1 DEF AgentTooLong, Says, SaysOther
  <2> QED BY <1>10, <2>2 DEF AgentTooLong, endVars
<1>11. CASE AgentExits BY <1>11 DEF AgentExits, endVars
<1> QED BY <1>2, <1>3, <1>4, <1>5, <1>6, <1>7, <1>8, <1>9, <1>10, <1>11 DEF Next, Reader

\* A call the agent has answered does not come back into loads.
LEMMA LoadsLeave ==
    ASSUME TypeOK, ServedInv, Next, NEW c \in Calls, CallInv(c), c \in replied, c \in loads'
    PROVE  c \in loads
<1>1. OnItsWay(CallLine(c)) BY DEF CallInv, OnItsWay
<1>2. callPc[c] # "idle" BY <1>1 DEF CallInv
<1> QED BY <1>2, CallMoves DEF LeavesCall, RepliesTo, BeginsCall, SendsCall, EndsCall

\* An answer is in the stream until it ends its load, and what was said after it is
\* behind it.
LEMMA StreamSteps ==
    ASSUME TypeOK, ServedInv, Next, \A c \in Calls : CallInv(c), StreamInv
    PROVE  StreamInv'
<1> SUFFICES ASSUME endPc'["read"] = "reading"
             PROVE  /\ \A c \in replied' \cap loads' : \E j \in DOMAIN stream' : stream'[j] = Response(c)
                    /\ \A i \in DOMAIN stream' : stream'[i].kind = "update" /\ stream'[i].sent = "after" =>
                          \A c \in Loads : SessionOf[c] = stream'[i].of => AnsweredBefore(c, i)'
  BY DEF StreamInv
<1>1. endPc["read"] = "reading" BY StreamMoves
<1>2. /\ \A c \in replied \cap loads : \E j \in DOMAIN stream : stream[j] = Response(c)
      /\ \A i \in DOMAIN stream : stream[i].kind = "update" /\ stream[i].sent = "after" =>
            \A c \in Loads : SessionOf[c] = stream[i].of => AnsweredBefore(c, i)
  BY <1>1 DEF StreamInv
<1>3. replied \subseteq Calls /\ loads \subseteq Loads /\ Loads \subseteq Calls /\ SaidInv
  BY Constants DEF TypeOK, WireType, CallType, ServedInv
<1>4. \A c \in replied \cap loads' : c \in loads BY <1>3, LoadsLeave
<1>5. ASSUME NEW l \in Said, stream' = Append(stream, l), replied \subseteq replied',
             \A c \in replied' : c \in replied \/ l = Response(c),
             l.kind = "update" /\ l.sent = "after" => \A c \in Loads : SessionOf[c] = l.of => c \in replied
      PROVE  /\ \A c \in replied' \cap loads' : \E j \in DOMAIN stream' : stream'[j] = Response(c)
             /\ \A i \in DOMAIN stream' : stream'[i].kind = "update" /\ stream'[i].sent = "after" =>
                   \A c \in Loads : SessionOf[c] = stream'[i].of => AnsweredBefore(c, i)'
  <2>1. /\ Len(stream) \in Nat /\ DOMAIN stream = 1 .. Len(stream)
        /\ Len(stream) + 1 \in DOMAIN stream' /\ stream'[Len(stream) + 1] = l
        /\ \A i \in DOMAIN stream : i \in DOMAIN stream' /\ stream'[i] = stream[i]
        /\ \A i \in DOMAIN stream' : i \in DOMAIN stream \/ i = Len(stream) + 1
    BY <1>3, <1>5, SaidAt
  <2>2. \A c \in replied' \cap loads' : \E j \in DOMAIN stream' : stream'[j] = Response(c)
    BY <1>2, <1>4, <1>5, <2>1
  <2>3. ASSUME NEW i \in DOMAIN stream', stream'[i].kind = "update", stream'[i].sent = "after",
               NEW c \in Loads, SessionOf[c] = stream'[i].of
        PROVE  AnsweredBefore(c, i)'
    <3>1. CASE i \in DOMAIN stream
      <4>1. AnsweredBefore(c, i) BY <1>2, <2>1, <2>3, <3>1
      <4> QED BY <1>4, <1>5, <2>1, <4>1 DEF AnsweredBefore
    <3>2. CASE i = Len(stream) + 1
      <4>1. c \in replied BY <1>5, <2>1, <2>3, <3>2
      <4>2. c \in loads' => \E j \in DOMAIN stream : stream[j] = Response(c) BY <1>2, <1>4, <4>1
      <4>3. \A j \in DOMAIN stream : j < i BY <2>1, <3>2
      <4> QED BY <1>5, <2>1, <4>1, <4>2, <4>3 DEF AnsweredBefore
    <3> QED BY <2>1, <3>1, <3>2
  <2> QED BY <2>2, <2>3
<1>6. CASE UNCHANGED <<stream, replied>> BY <1>2, <1>4, <1>6 DEF AnsweredBefore
<1>7. CASE SaysOther /\ UNCHANGED replied
  <2>1. PICK l \in Said : stream' = Append(stream, l) /\ l.kind \in {"request", "long"} BY <1>7 DEF SaysOther
  <2> QED BY <1>5, <1>7, <2>1
<1>8. CASE \E c \in Calls : AgentReplies(c)
  <2>1. PICK c \in Calls : AgentReplies(c) BY <1>8
  <2>2. Response(c) \in Said /\ Response(c).kind = "response" BY DEF Said, Response
  <2>3. stream' = Append(stream, Response(c)) /\ replied' = replied \cup {c}
    BY <2>1 DEF AgentReplies, Says, Response
  <2> QED BY <1>5, <2>2, <2>3
<1>9. CASE \E s \in UpdatedSessions : AgentUpdates(s)
  <2>1. PICK s \in UpdatedSessions : AgentUpdates(s) BY <1>9
  <2> DEFINE l == [kind |-> "update", of |-> s,
                   sent |-> IF \E c \in Loads : SessionOf[c] = s /\ CallLine(c) \in seen /\ c \notin replied
                            THEN "in the load"
                            ELSE IF \E c \in Loads : SessionOf[c] = s /\ CallLine(c) \notin seen
                                 THEN "before" ELSE "after"]
  <2>2. l \in Said BY DEF Said
  <2>3. l.kind = "update" /\ l.of = s OBVIOUS
  <2>4. l.sent = "after" => \A c \in Loads : SessionOf[c] = s => c \in replied OBVIOUS
  <2>5. stream' = Append(stream, l) /\ replied' = replied BY <2>1 DEF AgentUpdates, Says, agentVars
  <2> HIDE DEF l
  <2> QED BY <1>5, <2>2, <2>3, <2>4, <2>5
<1>10. CASE ReadLine /\ stream' = Tail(stream) /\ UNCHANGED replied
  <2>1. /\ 1 \in DOMAIN stream /\ Head(stream) = stream[1]
        /\ \A i \in DOMAIN stream' : i \in Nat /\ i + 1 \in DOMAIN stream /\ stream'[i] = stream[i + 1]
        /\ \A i \in DOMAIN stream :
              i \in Nat /\ i >= 1 /\ (i # 1 => i - 1 \in DOMAIN stream' /\ stream'[i - 1] = stream[i])
    BY <1>3, <1>10, ReadAt DEF ReadLine
  <2>2. \A c \in loads' : stream[1] # Response(c)
    <3> SUFFICES ASSUME NEW c \in loads', stream[1] = Response(c) PROVE FALSE
      OBVIOUS
    <3>1. Head(stream).kind = "response" /\ Head(stream).of = c BY <2>1 DEF Response
    <3>2. ReadResponse(c) BY <1>10, <3>1 DEF ReadLine
    <3> QED BY <3>2 DEF ReadResponse
  <2>3. \A c \in replied' \cap loads' : \E j \in DOMAIN stream' : stream'[j] = Response(c)
    <3> SUFFICES ASSUME NEW c \in replied \cap loads' PROVE \E j \in DOMAIN stream' : stream'[j] = Response(c)
      BY <1>10
    <3>1. PICK j \in DOMAIN stream : stream[j] = Response(c) BY <1>2, <1>4
    <3>2. j # 1 BY <2>2, <3>1
    <3> QED BY <2>1, <3>1, <3>2
  <2>4. ASSUME NEW i \in DOMAIN stream', stream'[i].kind = "update", stream'[i].sent = "after",
               NEW c \in Loads, SessionOf[c] = stream'[i].of
        PROVE  AnsweredBefore(c, i)'
    <3>1. AnsweredBefore(c, i + 1) BY <1>2, <2>1, <2>4
    <3>2. ASSUME c \in loads' PROVE \E j \in DOMAIN stream' : j < i /\ stream'[j] = Response(c)
      <4>1. PICK j \in DOMAIN stream : j < i + 1 /\ stream[j] = Response(c)
        BY <1>4, <3>1, <3>2 DEF AnsweredBefore
      <4>2. j # 1 BY <2>2, <3>2, <4>1
      <4>3. j - 1 \in DOMAIN stream' /\ stream'[j - 1] = Response(c) BY <2>1, <4>1, <4>2
      <4>4. j - 1 < i BY <2>1, <4>1
      <4> QED BY <4>3, <4>4
    <3> QED BY <1>10, <3>1, <3>2 DEF AnsweredBefore
  <2> QED BY <2>3, <2>4
<1> QED BY <1>6, <1>7, <1>8, <1>9, <1>10, StreamMoves

\* An update is marked when, and only when, a load of its session waits.
LEMMA ReplaySteps ==
    ASSUME TypeOK, ServedInv, Next, \A c \in Calls : CallInv(c), StreamInv, ReplayIsMarked
    PROVE  ReplayIsMarked'
<1> DEFINE line == Head(stream)
<1>1. CASE ReadLine /\ ReadUpdate(line) /\ line.kind = "update"
  <2>1. endPc["read"] = "reading" /\ stream # <<>> BY <1>1 DEF ReadLine
  <2>2. line = stream[1] /\ 1 \in DOMAIN stream /\ line.sent \in {"before", "in the load", "after"}
    BY <1>1, <2>1, HeadSaid
  <2>3. loads \subseteq Loads /\ Loads \subseteq Calls BY Constants DEF TypeOK, CallType
  <2> HIDE DEF line
  <2>4. ASSUME line.sent = "after", NEW c \in loads, SessionOf[c] = line.of PROVE FALSE
    <3>1. AnsweredBefore(c, 1)
      <4>1. stream[1].kind = "update" /\ stream[1].sent = "after" /\ SessionOf[c] = stream[1].of
        BY <1>1, <2>2, <2>4
      <4>2. c \in Loads BY <2>3, <2>4
      <4> QED BY <2>1, <2>2, <4>1, <4>2 DEF StreamInv
    <3>2. \A j \in DOMAIN stream : ~(j < 1)
      <4>1. stream \in Seq(Said) BY DEF ServedInv, SaidInv
      <4>2. DOMAIN stream = 1 .. Len(stream) /\ Len(stream) \in Nat BY <4>1
      <4> QED BY <4>2
    <3> QED BY <2>4, <3>1, <3>2 DEF AnsweredBefore
  <2>5. ASSUME NEW c \in Loads, callPc[c] = "waiting", replies[c] = <<>> PROVE c \in loads
    BY <2>3, <2>5 DEF CallInv
  <2>6. /\ update'.sent = line.sent /\ update'.marked = Replay(line.of)
        /\ update'.waiting = \E c \in Loads : SessionOf[c] = line.of /\ callPc[c] = "waiting" /\ replies[c] = <<>>
    BY <1>1 DEF ReadUpdate
  <2>7. update'.marked => line.sent # "after" BY <2>4, <2>6 DEF Replay
  <2>8. update'.waiting => update'.marked BY <2>5, <2>6 DEF Replay
  <2> QED BY <2>2, <2>6, <2>7, <2>8 DEF ReplayIsMarked
<1>2. CASE update' = update BY <1>2 DEF ReplayIsMarked
<1>3. update' = update \/ (ReadLine /\ ReadUpdate(line) /\ line.kind = "update")
  <2> USE DEF readVars
  <2>1. CASE \/ \E c \in Calls : Caller(c) \/ CallCtx(c) \/ AgentReplies(c)
             \/ \E r \in Requests : Server(r) \/ AgentRequests(r) \/ \E what \in Outcomes : HandlerReturns(r, what)
             \/ \E t \in Cancellers : Cancel(t) \/ CancelNotifies(t)
             \/ \E t \in Enders, r \in Requests : EndOpen(t, r)
    BY <2>1 DEF Caller, CallBegin, CallSend, CallReply, CallLoopDone, CallCtx, AgentReplies, Server,
        RequestOpens, RequestAnswers, RequestCloses, RequestLeaves, AgentRequests, HandlerReturns, Cancel,
        CancelNotifies, EndOpen
  <2>2. CASE \/ \E s \in UpdatedSessions : AgentUpdates(s)
             \/ WriterTakes \/ WriterWrites \/ WriterFails \/ AgentTooLong \/ AgentExits
             \/ ReadTooLongEnds \/ ReadLost \/ ReadLostEnds \/ Close \/ Closer \/ InputCloses
    BY <2>2 DEF AgentUpdates, WriterTakes, WriterWrites, WriterFails, AgentTooLong, AgentExits,
        ReadTooLongEnds, ReadLost, ReadLostEnds, Close, Closer, CloseFinds, CloseStops, CloseKills, CloseFails,
        InputCloses
  <2>3. CASE ReadLine
    BY <2>3 DEF ReadLine, ReadResponse, ReadRequest, ReadTooLong
  <2> QED BY <2>1, <2>2, <2>3 DEF Next, Reader
<1> QED BY <1>1, <1>2, <1>3

\* The loads of every behaviour.
LEMMA LoadsCorrect == Spec => []LoadInv
<1> DEFINE Inv == \A c \in Calls : CallInv(c)
<1>1. Init => StreamInv /\ ReplayIsMarked
  <2> SUFFICES ASSUME Init PROVE StreamInv /\ ReplayIsMarked
    OBVIOUS
  <2>1. replied = {} /\ DOMAIN stream = {} /\ update = NoUpdate BY DEF Init
  <2> QED BY <2>1 DEF StreamInv, ReplayIsMarked, NoUpdate
<1>2. TypeOK /\ ServedInv /\ Inv /\ StreamInv /\ ReplayIsMarked /\ [Next]_vars => (StreamInv /\ ReplayIsMarked)'
  <2> SUFFICES ASSUME TypeOK, ServedInv, Inv, StreamInv, ReplayIsMarked, [Next]_vars
               PROVE  StreamInv' /\ ReplayIsMarked'
    OBVIOUS
  <2>1. CASE UNCHANGED vars
    BY <2>1 DEF vars, callVars, agentVars, readVars, endVars, StreamInv, AnsweredBefore, ReplayIsMarked
  <2>2. CASE Next
    <3>1. StreamInv' BY <2>2, StreamSteps
    <3>2. ReplayIsMarked' BY <2>2, ReplaySteps
    <3> QED BY <3>1, <3>2
  <2> QED BY <2>1, <2>2
<1>3. Spec => []Inv BY CallsCorrect
<1>4. Inv /\ StreamInv /\ ReplayIsMarked => LoadInv BY DEF LoadInv
<1> QED BY <1>1, <1>2, <1>3, <1>4, ServedCorrect, PTL DEF Spec

\* An update is marked as replay when, and only when, the agent sent it before it
\* answered the load: a live one never, and one of the history always while the
\* caller waits.
THEOREM ReplayCorrect == Spec => []ReplayIsMarked
<1>1. LoadInv => ReplayIsMarked BY DEF LoadInv
<1> QED BY <1>1, LoadsCorrect, PTL

-----------------------------------------------------------------------------
(* Close.                                                                      *)

\* A request that has been ended stays so, and none opens once the client is closed.
LEMMA EndedStays ==
    ASSUME TypeOK, ServedInv, Next
    PROVE  /\ \A r \in Requests : Ended(r) => Ended(r)'
           /\ closed => perms' \subseteq perms
<1> USE DEF reqVars
<1>1. \A r \in Requests : answered[r] # "no" => answered'[r] # "no" BY AnsweredOf DEF FirstAnswer
<1>2. ctxDone \subseteq ctxDone' /\ (closed => perms' \subseteq perms)
  <2>1. CASE \E r \in Requests : RequestOpens(r) BY <2>1 DEF RequestOpens, Register
  <2>2. CASE \/ \E c \in Calls : Caller(c) \/ CallCtx(c) \/ AgentReplies(c)
             \/ \E r \in Requests : \/ RequestAnswers(r) \/ RequestCloses(r) \/ RequestLeaves(r) \/ AgentRequests(r)
                                    \/ \E what \in Outcomes : HandlerReturns(r, what)
             \/ \E t \in Cancellers : Cancel(t) \/ CancelNotifies(t)
             \/ \E t \in Enders, r \in Requests : EndOpen(t, r)
    BY <2>2 DEF Caller, CallBegin, CallSend, CallReply, CallLoopDone, CallCtx, AgentReplies,
        RequestAnswers, RequestCloses, RequestLeaves, AgentRequests, HandlerReturns, Cancel,
        CancelNotifies, EndOpen
  <2>3. CASE \/ \E s \in UpdatedSessions : AgentUpdates(s)
             \/ WriterTakes \/ WriterWrites \/ WriterFails \/ AgentTooLong \/ AgentExits
             \/ ReadTooLongEnds \/ ReadLost \/ ReadLostEnds \/ Close \/ Closer \/ InputCloses
    BY <2>3 DEF AgentUpdates, WriterTakes, WriterWrites, WriterFails, AgentTooLong, AgentExits,
        ReadTooLongEnds, ReadLost, ReadLostEnds, Close, Closer, CloseFinds, CloseStops, CloseKills, CloseFails,
        InputCloses
  <2>4. CASE ReadLine BY <2>4 DEF ReadLine, ReadResponse, ReadUpdate, ReadRequest, ReadTooLong
  <2> QED BY <2>1, <2>2, <2>3, <2>4 DEF Next, Reader, Server
<1> QED BY <1>1, <1>2 DEF Ended

\* Where Close goes.
LEMMA CloseMoves ==
    ASSUME TypeOK, ServedInv, Next, CloseInv
    PROVE  \/ Close \/ CloseFinds \/ CloseStops \/ CloseKills \/ CloseFails \/ ReadTooLongEnds
           \/ \E r \in Requests : EndOpen("close", r)
           \/ endPc'["close"] = endPc["close"] /\ open'["close"] = open["close"] /\ UNCHANGED <<closed, stopped>>
<1> USE Constants DEF GotoEnd, endVars
<1>1. EnderType BY DEF TypeOK
<1>2. CASE \/ \E c \in Calls : Caller(c) \/ CallCtx(c) \/ AgentReplies(c)
           \/ \E r \in Requests : Server(r) \/ AgentRequests(r) \/ \E what \in Outcomes : HandlerReturns(r, what)
           \/ \E s \in UpdatedSessions : AgentUpdates(s)
           \/ WriterTakes \/ WriterWrites \/ WriterFails \/ AgentTooLong \/ AgentExits \/ InputCloses
  BY <1>2 DEF Caller, CallBegin, CallSend, CallReply, CallLoopDone, CallCtx, AgentReplies, Server,
      RequestOpens, RequestAnswers, RequestCloses, RequestLeaves, AgentRequests, HandlerReturns,
      AgentUpdates, WriterTakes, WriterWrites, WriterFails, AgentTooLong, AgentExits, InputCloses
<1>3. ASSUME NEW t \in Cancellers, Cancel(t) \/ CancelNotifies(t)
      PROVE  endPc'["close"] = endPc["close"] /\ open'["close"] = open["close"] /\ UNCHANGED <<closed, stopped>>
  BY <1>1, <1>3 DEF Cancel, CancelNotifies, FindOpen, EnderType
<1>4. ASSUME NEW t \in Enders, NEW r \in Requests, EndOpen(t, r), t # "close"
      PROVE  endPc'["close"] = endPc["close"] /\ open'["close"] = open["close"] /\ UNCHANGED <<closed, stopped>>
  BY <1>1, <1>4 DEF EndOpen, EnderType
<1>5. CASE ReadLost \/ ReadLostEnds BY <1>1, <1>5 DEF ReadLost, ReadLostEnds, EnderType
<1>6. CASE ReadLine
  <2>1. CASE ReadTooLong BY <1>1, <2>1 DEF ReadTooLong, FindOpen, EnderType
  <2>2. CASE ~ ReadTooLong BY <1>6, <2>2 DEF ReadLine, ReadResponse, ReadUpdate, ReadRequest
  <2> QED BY <2>1, <2>2
<1> QED BY <1>2, <1>3, <1>4, <1>5, <1>6 DEF Next, Reader, Closer

\* Close has ended the requests that are open before it stops the writer.
LEMMA CloseSteps ==
    ASSUME TypeOK, ServedInv, Next, CloseInv
    PROVE  CloseInv'
<1> USE Constants DEF GotoEnd
<1>1. EnderType /\ RequestType BY DEF TypeOK
<1>2. perms \subseteq Requests BY <1>1 DEF RequestType
<1>3. /\ \A r \in Requests : Ended(r) => Ended(r)'
      /\ closed => perms' \subseteq perms
  BY EndedStays
<1>4. CASE Close
  <2>1. endPc["close"] = "idle" /\ endPc'["close"] = "closed" /\ closed' /\ stopped' = stopped
    BY <1>1, <1>4 DEF Close, EnderType
  <2> QED BY <2>1 DEF CloseInv
<1>5. CASE CloseFinds
  <2>1. /\ endPc["close"] = "closed" /\ endPc'["close"] = "ending" /\ closed' = closed /\ stopped' = stopped
        /\ open'["close"] = perms /\ perms' = perms
    BY <1>1, <1>2, <1>5 DEF CloseFinds, FindOpen, EnderType, reqVars
  <2> QED BY <2>1 DEF CloseInv
<1>6. CASE CloseStops
  <2>1. /\ endPc["close"] = "ending" /\ endPc'["close"] = "stopped" /\ closed' = closed /\ stopped' = TRUE
        /\ open["close"] = {} /\ perms' = perms
    BY <1>1, <1>6 DEF CloseStops, AllEnded, EnderType, reqVars
  <2>2. \A r \in perms : Ended(r) BY <2>1 DEF CloseInv
  <2>3. \A r \in perms' : Ended(r)' BY <1>2, <1>3, <2>1, <2>2
  <2> QED BY <2>1, <2>3 DEF CloseInv
<1>7. CASE CloseKills \/ CloseFails
  <2>1. /\ endPc["close"] \in {"stopped", "killed"} /\ endPc'["close"] \in {"killed", "done"}
        /\ closed' = closed /\ stopped' = stopped /\ perms' = perms
    BY <1>1, <1>7 DEF CloseKills, CloseFails, EnderType, reqVars
  <2>2. \A r \in perms : Ended(r) BY <2>1 DEF CloseInv
  <2>3. \A r \in perms' : Ended(r)' BY <1>2, <1>3, <2>1, <2>2
  <2> QED BY <2>1, <2>3 DEF CloseInv
<1>8. CASE ReadTooLongEnds
  <2>1. /\ endPc'["close"] = IF endPc["close"] = "idle" THEN "closed" ELSE endPc["close"]
        /\ closed' = TRUE /\ stopped' = stopped /\ open' = open /\ perms' = perms
    BY <1>1, <1>8 DEF ReadTooLongEnds, EnderType, reqVars
  <2>2. CASE endPc["close"] = "idle" BY <2>1, <2>2 DEF CloseInv
  <2>3. CASE endPc["close"] # "idle"
    <3>1. endPc["close"] = "ending" => \A r \in perms' : r \in open'["close"] \/ Ended(r)'
      BY <1>2, <1>3, <2>1 DEF CloseInv
    <3>2. stopped => \A r \in perms' : Ended(r)' BY <1>2, <1>3, <2>1 DEF CloseInv
    <3> QED BY <2>1, <2>3, <3>1, <3>2 DEF CloseInv
  <2> QED BY <2>2, <2>3
<1>9. ASSUME NEW r \in Requests, EndOpen("close", r) PROVE CloseInv'
  <2>1. /\ endPc' = endPc /\ open'["close"] = open["close"] \ {r} /\ closed' = closed /\ stopped' = stopped
        /\ perms' = perms
    BY <1>1, <1>9 DEF EndOpen, EnderType
  <2>2. Ended(r)'
    <3>1. r \in ctxDone' BY <1>9 DEF EndOpen
    <3>2. answered'[r] # "no" BY <1>1, <1>9 DEF EndOpen, Answer, RequestType
    <3> QED BY <3>1, <3>2 DEF Ended
  <2>3. endPc["close"] = "ending" => \A q \in perms' : q \in open'["close"] \/ Ended(q)'
    BY <1>2, <1>3, <2>1, <2>2 DEF CloseInv
  <2>4. stopped => \A q \in perms' : Ended(q)' BY <1>2, <1>3, <2>1 DEF CloseInv
  <2> QED BY <2>1, <2>3, <2>4 DEF CloseInv
<1>10. CASE endPc'["close"] = endPc["close"] /\ open'["close"] = open["close"] /\ UNCHANGED <<closed, stopped>>
  <2>1. endPc["close"] = "ending" => \A r \in perms' : r \in open'["close"] \/ Ended(r)'
    BY <1>2, <1>3, <1>10 DEF CloseInv
  <2>2. stopped => \A r \in perms' : Ended(r)' BY <1>2, <1>3 DEF CloseInv
  <2> QED BY <1>10, <2>1, <2>2 DEF CloseInv
<1> QED BY <1>4, <1>5, <1>6, <1>7, <1>8, <1>9, <1>10, CloseMoves

\* Once Close has stopped the writer nobody waits for a person any more: every
\* request that is open has been answered and its context cancelled, the ones
\* registered while Close began too.
THEOREM CloseCorrect == Spec => []CloseEndsRequests
<1>1. Init => CloseInv BY Constants DEF Init, CloseInv
<1>2. TypeOK /\ ServedInv /\ CloseInv /\ [Next]_vars => CloseInv'
  <2> SUFFICES ASSUME TypeOK, ServedInv, CloseInv, [Next]_vars PROVE CloseInv'
    OBVIOUS
  <2>1. CASE UNCHANGED vars BY <2>1 DEF vars, reqVars, endVars, CloseInv, Ended
  <2>2. CASE Next BY <2>2, CloseSteps
  <2> QED BY <2>1, <2>2
<1>3. CloseInv => CloseEndsRequests BY DEF CloseInv, CloseEndsRequests, Ended
<1> QED BY <1>1, <1>2, <1>3, ServedCorrect, PTL DEF Spec

=============================================================================
