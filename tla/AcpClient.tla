----------------------------- MODULE AcpClient -----------------------------
(* The connection to one agent process (internal/acp): the calls that wait    *)
(* for the agent's answers, the permission requests the agent makes and a     *)
(* person answers, the writer and the read loop, Cancel, and Close.           *)
(*                                                                            *)
(* A region under c.mu, or under a request's once, is one step. The agent     *)
(* keeps to the protocol (it answers a call once, it makes a request once)    *)
(* and nothing else: it may stop reading, exit, answer late or never, and     *)
(* send a line over the limit.                                                *)
EXTENDS Naturals, Sequences, SequencesExt, FiniteSets

CONSTANTS
    Calls,             \* the calls that are made, each with an id of its own
    Loads,             \* those that are session/load
    Requests,          \* the permission requests the agent makes
    Cancellers,        \* the goroutines that call Cancel, each once
    SessionOf,         \* the session a load, a request or a Cancel is for
    UpdatedSessions,   \* the sessions the agent sends updates for
    OutboxSize,        \* outboxSize
    AbandonedKept,     \* abandonedKept
    MaxAgentRequests,  \* Config.MaxAgentRequests
    MaxStream,         \* how many lines of the agent wait to be read (a bound)
    LinesMayBeTooLong, \* whether the agent may send one (a bound on the behaviours)
    None

ASSUME SetsAssumption ==
    /\ Loads \subseteq Calls
    /\ None \notin Calls \cup Requests \cup Cancellers
    /\ Calls \cap Requests = {} /\ Calls \cap Cancellers = {} /\ Requests \cap Cancellers = {}
    /\ Cancellers \cap {"read", "close"} = {}
    /\ LinesMayBeTooLong \in BOOLEAN
ASSUME SizesAssumption ==
    {OutboxSize, AbandonedKept, MaxAgentRequests, MaxStream} \subseteq Nat \ {0}

\* The goroutines that end open requests: Cancel's callers, the read loop and Close.
Enders == Cancellers \cup {"read", "close"}

VARIABLES
    closed,    \* c.closed
    stopped,   \* c.stop is closed
    pending,   \* c.pending, by call
    loads,     \* c.loads, by call
    abandoned, \* c.abandoned
    ring,      \* c.abandonedRing, the oldest id first
    perms,     \* c.perms
    inflight,  \* c.inflight
    stray,     \* the calls whose answer was counted as a protocol error
    outbox,    \* c.outbox
    writing,   \* the line the writer is writing
    callPc,    \* where each call is
    replies,   \* the replies put in each call's channel, in order
    result,    \* how each call ended
    reqPc,     \* where each request is
    ctxDone,   \* the requests whose context has been cancelled
    answered,  \* what each request was answered, once
    choice,    \* what the handler chose
    endPc,     \* where each goroutine of Enders is
    open,      \* the requests it found and has not ended yet
    found,     \* those Cancel found
    stream,    \* the agent's lines that have not been read
    inClosed,  \* the agent's input has been closed
    outClosed, \* Close has closed the agent's output
    seen,      \* the lines the agent has read
    alive,     \* the agent runs
    replied,   \* the calls the agent has answered
    update     \* the last update given to the handler: when it was sent, and how marked

callVars  == <<pending, loads, abandoned, ring, callPc, replies, result>>
reqVars   == <<perms, inflight, reqPc, ctxDone, answered, choice>>
endVars   == <<closed, stopped, endPc, open, found, inClosed, outClosed>>
writeVars == <<outbox, writing>>
agentVars == <<seen, alive, replied>>
readVars  == <<stream, update, stray>>
vars == <<callVars, reqVars, endVars, writeVars, agentVars, readVars>>

CallLine(c)   == [kind |-> "call", of |-> c]
AnswerLine(r) == [kind |-> "answer", of |-> r]
RefuseLine(r) == [kind |-> "refuse", of |-> r]
CancelLine(t) == [kind |-> "cancel", of |-> t]
NoLine        == [kind |-> "none", of |-> None]
NoUpdate      == [sent |-> "never", marked |-> FALSE, waiting |-> FALSE]

Init ==
    /\ closed = FALSE /\ stopped = FALSE /\ outClosed = FALSE /\ inClosed = FALSE
    /\ pending = {} /\ loads = {} /\ abandoned = {} /\ ring = <<>>
    /\ callPc = [c \in Calls |-> "idle"] /\ replies = [c \in Calls |-> <<>>]
    /\ result = [c \in Calls |-> "none"]
    /\ perms = {} /\ inflight = 0 /\ reqPc = [r \in Requests |-> "unmade"]
    /\ ctxDone = {} /\ answered = [r \in Requests |-> "no"]
    /\ choice = [r \in Requests |-> "none"]
    /\ endPc = [t \in Enders |-> IF t = "read" THEN "reading" ELSE "idle"]
    /\ open = [t \in Enders |-> {}] /\ found = [t \in Cancellers |-> {}]
    /\ outbox = <<>> /\ writing = NoLine
    /\ seen = {} /\ alive = TRUE /\ replied = {}
    /\ stream = <<>> /\ update = NoUpdate /\ stray = {}

\* enqueue: refused after the stop and when the outbox is full.
CanQueue == ~stopped /\ Len(outbox) < OutboxSize
Enqueue(line) == outbox' = IF CanQueue THEN Append(outbox, line) ELSE outbox

Room == Len(stream) < MaxStream
LoopDone == endPc["read"] = "done"
GotoEnd(t, label) == endPc' = [endPc EXCEPT ![t] = label]
GotoCall(c, label) == callPc' = [callPc EXCEPT ![c] = label]
GotoReq(r, label) == reqPc' = [reqPc EXCEPT ![r] = label]

\* A reply to every call that waits (failPending). The channels have room for
\* one reply and are out of pending before it is sent.
FailPending(why) ==
    /\ replies' = [c \in Calls |-> IF c \in pending THEN Append(replies[c], why) ELSE replies[c]]
    /\ pending' = {}

-----------------------------------------------------------------------------
(* Calls: callAs.                                                             *)

CallBegin(c) ==
    /\ callPc[c] = "idle"
    /\ IF closed THEN /\ result' = [result EXCEPT ![c] = "closed"] /\ GotoCall(c, "done")
                      /\ UNCHANGED <<pending, loads>>
       ELSE /\ pending' = pending \cup {c} /\ loads' = loads \cup ({c} \cap Loads)
            /\ GotoCall(c, "sending") /\ UNCHANGED result
    /\ UNCHANGED <<abandoned, ring, replies, reqVars, endVars, writeVars, agentVars, readVars>>

\* The call returns: the deferred delete takes it out of loads.
CallReturns(c, r) ==
    /\ result' = [result EXCEPT ![c] = r]
    /\ loads' = loads \ {c}
    /\ GotoCall(c, "done")

CallSend(c) ==
    /\ callPc[c] = "sending"
    /\ Enqueue(CallLine(c))
    /\ IF CanQueue THEN GotoCall(c, "waiting") /\ UNCHANGED <<pending, loads, result>>
       ELSE /\ pending' = pending \ {c}
            /\ CallReturns(c, IF stopped THEN "closed" ELSE "full")
    /\ UNCHANGED <<abandoned, ring, replies, reqVars, endVars, writing, agentVars, readVars>>

CallReply(c) ==
    /\ callPc[c] = "waiting" /\ replies[c] # <<>>
    /\ CallReturns(c, Head(replies[c]))
    /\ UNCHANGED <<pending, abandoned, ring, replies, reqVars, endVars, writeVars, agentVars, readVars>>

CallMissesLoopDone(c) == FALSE
\* The agent's output has ended and no reply was in the channel.
CallLoopDone(c) ==
    /\ callPc[c] = "waiting" /\ LoopDone /\ replies[c] = <<>>
    /\ pending' = pending \ {c}
    /\ CallReturns(c, IF closed THEN "closed" ELSE "exit")
    /\ UNCHANGED <<abandoned, ring, replies, reqVars, endVars, writeVars, agentVars, readVars>>

\* abandon: the ring remembers the last few.
AbandonNothing(c) == UNCHANGED <<abandoned, ring>>
AbandonForEver(c) == ring' = Append(ring, c) /\ abandoned' = abandoned \cup {c}
Abandon(c) ==
    IF Len(ring) < AbandonedKept
    THEN ring' = Append(ring, c) /\ abandoned' = abandoned \cup {c}
    ELSE /\ ring' = Append(Tail(ring), c)
         /\ abandoned' = (abandoned \ {Head(ring)}) \cup {c}

\* The caller's context ends; so may a call whose reply has come.
CallCtx(c) ==
    /\ callPc[c] = "waiting"
    /\ pending' = pending \ {c}
    /\ IF c \in pending THEN Abandon(c) ELSE UNCHANGED <<abandoned, ring>>
    /\ CallReturns(c, "ctx")
    /\ UNCHANGED <<replies, reqVars, endVars, writeVars, agentVars, readVars>>

-----------------------------------------------------------------------------
(* The writer.                                                                *)

WriterTakes ==
    /\ writing = NoLine /\ outbox # <<>>
    /\ writing' = Head(outbox) /\ outbox' = Tail(outbox)
    /\ UNCHANGED <<callVars, reqVars, endVars, agentVars, readVars>>

\* The agent reads the line.
WriterWrites ==
    /\ writing # NoLine /\ alive /\ ~inClosed
    /\ seen' = seen \cup {writing}
    /\ writing' = NoLine
    /\ UNCHANGED <<callVars, reqVars, endVars, outbox, alive, replied, readVars>>

\* The write fails, in a pipe the agent or Close has closed.
WriterFails ==
    /\ writing # NoLine /\ (~alive \/ inClosed)
    /\ writing' = NoLine
    /\ FailPending("write")
    /\ UNCHANGED <<loads, abandoned, ring, callPc, result, reqVars, endVars, outbox, agentVars, readVars>>

-----------------------------------------------------------------------------
(* Permission requests: servePermission, on a goroutine of each.              *)

\* answer: the first one counts.
AnswerAgain(r, what) ==
    /\ answered' = [answered EXCEPT ![r] = IF CanQueue THEN what ELSE "dropped"]
    /\ Enqueue(AnswerLine(r))
Answer(r, what) ==
    IF answered[r] # "no" THEN UNCHANGED <<answered, outbox>>
    ELSE /\ answered' = [answered EXCEPT ![r] = IF CanQueue THEN what ELSE "dropped"]
         /\ Enqueue(AnswerLine(r))

\* The request is registered, unless the client is closed.
RegisterAlways(r) == perms' = perms \cup {r} /\ GotoReq(r, "asking") /\ UNCHANGED <<ctxDone, answered, outbox>>
Register(r) ==
    IF closed THEN /\ ctxDone' = ctxDone \cup {r}
                   /\ Answer(r, "cancelled")
                   /\ GotoReq(r, "leaving") /\ UNCHANGED perms
    ELSE perms' = perms \cup {r} /\ GotoReq(r, "asking") /\ UNCHANGED <<ctxDone, answered, outbox>>
RequestOpens(r) ==
    /\ reqPc[r] = "serving"
    /\ Register(r)
    /\ UNCHANGED <<callVars, inflight, choice, endVars, writing, agentVars, readVars>>

\* The handler returns: a person chose an option, or nobody did (or the option
\* was not one the agent offered, or the handler panicked).
HandlerReturns(r, what) ==
    /\ reqPc[r] = "asking"
    /\ choice' = [choice EXCEPT ![r] = what]
    /\ GotoReq(r, "answering")
    /\ UNCHANGED <<callVars, perms, inflight, ctxDone, answered, endVars, writeVars, agentVars, readVars>>

RequestAnswers(r) ==
    /\ reqPc[r] = "answering"
    /\ Answer(r, choice[r])
    /\ choice' = [choice EXCEPT ![r] = "none"]
    /\ GotoReq(r, "closing")
    /\ UNCHANGED <<callVars, perms, inflight, ctxDone, endVars, writing, agentVars, readVars>>

\* The deferred part.
RequestCloses(r) ==
    /\ reqPc[r] = "closing"
    /\ perms' = perms \ {r} /\ ctxDone' = ctxDone \cup {r}
    /\ GotoReq(r, "leaving")
    /\ UNCHANGED <<callVars, inflight, answered, choice, endVars, writeVars, agentVars, readVars>>

RequestLeaves(r) ==
    /\ reqPc[r] = "leaving"
    /\ inflight' = inflight - 1
    /\ GotoReq(r, "done")
    /\ UNCHANGED <<callVars, perms, ctxDone, answered, choice, endVars, writeVars, agentVars, readVars>>

-----------------------------------------------------------------------------
(* Cancel, and what it shares with Close and a line over the limit:           *)
(* cancelPermissions.                                                         *)

\* The open requests are copied under c.mu.
FindOpen(t, S) ==
    /\ open' = [open EXCEPT ![t] = perms \cap S]

\* Each is answered cancelled and its context cancelled.
EndOpen(t, r) ==
    /\ r \in open[t]
    /\ open' = [open EXCEPT ![t] = @ \ {r}]
    /\ Answer(r, "cancelled")
    /\ ctxDone' = ctxDone \cup {r}
    /\ UNCHANGED <<callVars, perms, inflight, reqPc, choice, closed, stopped, endPc, found,
                   inClosed, outClosed, writing, agentVars, readVars>>

Cancel(t) ==
    /\ endPc[t] = "idle"
    /\ LET ofSession == {r \in Requests : SessionOf[r] = SessionOf[t]} IN
       /\ FindOpen(t, ofSession)
       /\ found' = [found EXCEPT ![t] = perms \cap ofSession]
    /\ GotoEnd(t, "ending")
    /\ UNCHANGED <<callVars, reqVars, closed, stopped, inClosed, outClosed, writeVars, agentVars, readVars>>

\* session/cancel is queued once they are answered.
AllEnded(t) == open[t] = {}
CancelNotifiesAtOnce(t) ==
    /\ endPc[t] = "ending"
    /\ Enqueue(CancelLine(t))
    /\ GotoEnd(t, IF open[t] = {} THEN "done" ELSE "ending")
    /\ UNCHANGED <<callVars, reqVars, closed, stopped, open, found, inClosed, outClosed, writing,
                   agentVars, readVars>>

CancelNotifies(t) ==
    /\ endPc[t] = "ending" /\ AllEnded(t)
    /\ Enqueue(CancelLine(t))
    /\ GotoEnd(t, "done")
    /\ UNCHANGED <<callVars, reqVars, closed, stopped, open, found, inClosed, outClosed, writing,
                   agentVars, readVars>>

-----------------------------------------------------------------------------
(* Close. Its waits are bounded, so each may end early.                       *)

Close ==
    /\ endPc["close"] = "idle"
    /\ closed' = TRUE
    /\ GotoEnd("close", "closed")
    /\ UNCHANGED <<callVars, reqVars, stopped, open, found, inClosed, outClosed, writeVars, agentVars, readVars>>

CloseFinds ==
    /\ endPc["close"] = "closed"
    /\ FindOpen("close", Requests)
    /\ GotoEnd("close", "ending")
    /\ UNCHANGED <<callVars, reqVars, closed, stopped, found, inClosed, outClosed, writeVars, agentVars, readVars>>

\* The queue is flushed, or flushGrace is over.
CloseStops ==
    /\ endPc["close"] = "ending" /\ AllEnded("close")
    /\ stopped' = TRUE
    /\ GotoEnd("close", "stopped")
    /\ UNCHANGED <<callVars, reqVars, closed, open, found, inClosed, outClosed, writeVars, agentVars, readVars>>

\* A goroutine of its own closes the agent's input.
InputCloses ==
    /\ stopped /\ ~inClosed
    /\ inClosed' = TRUE
    /\ UNCHANGED <<callVars, reqVars, closed, stopped, endPc, open, found, outClosed, writeVars,
                   agentVars, readVars>>

\* The agent is ended with everything it started, and its output closed.
CloseKills ==
    /\ endPc["close"] = "stopped"
    /\ alive' = FALSE /\ outClosed' = TRUE
    /\ GotoEnd("close", "killed")
    /\ UNCHANGED <<callVars, reqVars, closed, stopped, open, found, inClosed, writeVars, seen, replied, readVars>>

\* The read loop has ended, or treeGrace is over.
CloseFails ==
    /\ endPc["close"] = "killed"
    /\ FailPending("closed")
    /\ GotoEnd("close", "done")
    /\ UNCHANGED <<loads, abandoned, ring, callPc, result, reqVars, closed, stopped, open, found,
                   inClosed, outClosed, writeVars, agentVars, readVars>>

-----------------------------------------------------------------------------
(* The read loop: readLoop, dispatch and lost.                                *)

\* A response: its call leaves pending and loads in one region, and an answer
\* nobody waits for is an error unless the caller gave up on it.
TakeKeep(c) == UNCHANGED pending
Take(c) == pending' = pending \ {c}
ReadResponse(c) ==
    /\ Take(c)
    /\ loads' = loads \ {c} /\ abandoned' = abandoned \ {c}
    /\ replies' = IF c \in pending THEN [replies EXCEPT ![c] = Append(@, "response")] ELSE replies
    /\ stray' = IF c \in pending \cup abandoned THEN stray ELSE stray \cup {c}
    /\ UNCHANGED <<ring, callPc, result, reqVars, endVars, writeVars, update>>

\* An update: marked as replay while a load of its session has no answer.
MarkAnyLoad(s) == loads # {}
Replay(s) == \E c \in loads : SessionOf[c] = s
ReadUpdate(line) ==
    /\ update' = [sent |-> line.sent, marked |-> Replay(line.of),
                  waiting |-> \E c \in Loads : SessionOf[c] = line.of /\ callPc[c] = "waiting"
                                               /\ replies[c] = <<>>]
    /\ UNCHANGED <<callVars, reqVars, endVars, writeVars, stray>>

\* A request: served on a goroutine of its own, within the cap.
UnderCap == inflight < MaxAgentRequests
ReadRequest(r) ==
    /\ IF closed THEN GotoReq(r, "done") /\ UNCHANGED <<inflight, outbox>>
       ELSE IF UnderCap THEN inflight' = inflight + 1 /\ GotoReq(r, "serving") /\ UNCHANGED outbox
       ELSE Enqueue(RefuseLine(r)) /\ GotoReq(r, "refused") /\ UNCHANGED inflight
    /\ UNCHANGED <<callVars, perms, ctxDone, answered, choice, endVars, writing, update, stray>>

\* A line over the limit: calls are failed, open requests ended, and Close is
\* left to a goroutine of its own.
ReadTooLong ==
    /\ FailPending("too long")
    /\ FindOpen("read", Requests)
    /\ GotoEnd("read", "too long")
    /\ UNCHANGED <<loads, abandoned, ring, callPc, result, reqVars, closed, stopped, found, inClosed, outClosed,
                   writeVars, update, stray>>

ReadLine ==
    /\ endPc["read"] = "reading" /\ stream # <<>>
    /\ stream' = IF Head(stream).kind = "long" THEN <<>> ELSE Tail(stream)
    /\ LET line == Head(stream) IN
       \/ line.kind = "response" /\ ReadResponse(line.of)
       \/ line.kind = "update"   /\ ReadUpdate(line)
       \/ line.kind = "request"  /\ ReadRequest(line.of)
       \/ line.kind = "long"     /\ ReadTooLong
    /\ UNCHANGED agentVars

\* The loop ends; Close is started, unless it was.
ReadTooLongEnds ==
    /\ endPc["read"] = "too long" /\ AllEnded("read")
    /\ endPc' = [endPc EXCEPT !["read"] = "done",
                              !["close"] = IF @ = "idle" THEN "closed" ELSE @]
    /\ closed' = TRUE
    /\ UNCHANGED <<callVars, reqVars, stopped, open, found, inClosed, outClosed, writeVars, agentVars, readVars>>

\* The output has ended, or Close has closed it: lost fails the calls.
ReadLost ==
    /\ endPc["read"] = "reading"
    /\ \/ stream = <<>> /\ ~alive
       \/ outClosed
    /\ FailPending("exit")
    /\ stream' = <<>>
    /\ GotoEnd("read", "lost")
    /\ UNCHANGED <<loads, abandoned, ring, callPc, result, reqVars, closed, stopped, open, found,
                   inClosed, outClosed, writeVars, agentVars, update, stray>>

\* It then cancels the requests that are open now, and the loop is done.
ReadLostEnds ==
    /\ endPc["read"] = "lost"
    /\ ctxDone' = ctxDone \cup perms
    /\ GotoEnd("read", "done")
    /\ UNCHANGED <<callVars, perms, inflight, reqPc, answered, choice, closed, stopped, open, found,
                   inClosed, outClosed, writeVars, agentVars, readVars>>

-----------------------------------------------------------------------------
(* The agent.                                                                 *)

\* What it says when nobody reads it any more is not followed.
Says(line) == alive /\ endPc["read"] = "reading" /\ Room /\ stream' = Append(stream, line)

AgentReplies(c) ==
    /\ CallLine(c) \in seen /\ c \notin replied
    /\ Says([kind |-> "response", of |-> c])
    /\ replied' = replied \cup {c}
    /\ UNCHANGED <<callVars, reqVars, endVars, writeVars, seen, alive, update, stray>>

AgentRequests(r) ==
    /\ reqPc[r] = "unmade"
    /\ Says([kind |-> "request", of |-> r])
    /\ GotoReq(r, "made")
    /\ UNCHANGED <<callVars, perms, inflight, ctxDone, answered, choice, endVars, writeVars, agentVars,
                   update, stray>>

\* An update, sent before, during or after the load of its session.
AgentUpdates(s) ==
    /\ Says([kind |-> "update", of |-> s,
             sent |-> IF \E c \in Loads : SessionOf[c] = s /\ CallLine(c) \in seen /\ c \notin replied
                      THEN "in the load"
                      ELSE IF \E c \in Loads : SessionOf[c] = s /\ CallLine(c) \notin seen
                           THEN "before" ELSE "after"])
    /\ UNCHANGED <<callVars, reqVars, endVars, writeVars, agentVars, update, stray>>

AgentTooLong ==
    /\ LinesMayBeTooLong
    /\ Says([kind |-> "long", of |-> None])
    /\ UNCHANGED <<callVars, reqVars, endVars, writeVars, agentVars, update, stray>>

AgentExits ==
    /\ alive
    /\ alive' = FALSE
    /\ UNCHANGED <<callVars, reqVars, endVars, writeVars, seen, replied, readVars>>

-----------------------------------------------------------------------------
Caller(c)  == CallBegin(c) \/ CallSend(c) \/ CallReply(c) \/ CallLoopDone(c)
Server(r)  == RequestOpens(r) \/ RequestAnswers(r) \/ RequestCloses(r) \/ RequestLeaves(r)
Reader     == ReadLine \/ ReadTooLongEnds \/ ReadLost \/ ReadLostEnds
Closer     == CloseFinds \/ CloseStops \/ CloseKills \/ CloseFails
Outcomes   == {"selected", "cancelled"}

Next ==
    \/ \E c \in Calls : Caller(c) \/ CallCtx(c) \/ AgentReplies(c)
    \/ \E r \in Requests : Server(r) \/ AgentRequests(r) \/ \E what \in Outcomes : HandlerReturns(r, what)
    \/ \E t \in Cancellers : Cancel(t) \/ CancelNotifies(t)
    \/ \E t \in Enders, r \in Requests : EndOpen(t, r)
    \/ WriterTakes \/ WriterWrites \/ WriterFails
    \/ Reader \/ Close \/ Closer \/ InputCloses
    \/ \E s \in UpdatedSessions : AgentUpdates(s)
    \/ AgentTooLong \/ AgentExits

Spec == Init /\ [][Next]_vars

\* The goroutines of the client run, and a handler returns once its context is
\* cancelled (Handler.Permission). Nothing is assumed of the agent, the callers'
\* contexts or the person.
Fairness ==
    /\ \A c \in Calls : WF_vars(CallSend(c) \/ CallReply(c) \/ CallLoopDone(c))
    /\ \A r \in Requests : WF_vars(Server(r)) /\ WF_vars(r \in ctxDone /\ HandlerReturns(r, "cancelled"))
    /\ \A t \in Enders, r \in Requests : WF_vars(EndOpen(t, r))
    /\ \A t \in Cancellers : WF_vars(CancelNotifies(t))
    /\ WF_vars(Reader) /\ WF_vars(Closer)

FairSpec == Spec /\ Fairness

-----------------------------------------------------------------------------
(* Properties.                                                                *)

Lines == [kind : {"call"}, of : Calls] \cup [kind : {"answer", "refuse"}, of : Requests]
         \cup [kind : {"cancel"}, of : Cancellers]
Replies == {"response", "exit", "too long", "write", "closed"}

\* Every variable has its type, and the outbox and the agent's requests keep to
\* their limits.
CallType ==
    /\ pending \subseteq Calls /\ loads \subseteq Loads /\ abandoned \subseteq Calls
    /\ ring \in Seq(Calls) /\ Len(ring) <= AbandonedKept
    /\ callPc \in [Calls -> {"idle", "sending", "waiting", "done"}]
    /\ replies \in [Calls -> Seq(Replies)]
    /\ result \in [Calls -> Replies \cup {"none", "full", "ctx"}]
RequestType ==
    /\ perms \subseteq Requests /\ ctxDone \subseteq Requests /\ inflight \in 0 .. MaxAgentRequests
    /\ reqPc \in [Requests -> {"unmade", "made", "refused", "serving", "asking", "answering",
                               "closing", "leaving", "done"}]
    /\ answered \in [Requests -> {"no", "dropped"} \cup Outcomes]
    /\ choice \in [Requests -> {"none"} \cup Outcomes]
EnderType ==
    /\ closed \in BOOLEAN /\ stopped \in BOOLEAN /\ outClosed \in BOOLEAN /\ inClosed \in BOOLEAN
    /\ endPc \in [Enders -> {"idle", "reading", "closed", "ending", "too long", "lost", "stopped",
                             "killed", "done"}]
    /\ open \in [Enders -> SUBSET Requests] /\ found \in [Cancellers -> SUBSET Requests]
WireType ==
    /\ outbox \in Seq(Lines) /\ Len(outbox) <= OutboxSize /\ writing \in Lines \cup {NoLine}
    /\ seen \subseteq Lines /\ alive \in BOOLEAN /\ replied \subseteq Calls /\ stray \subseteq Calls
TypeOK == CallType /\ RequestType /\ EnderType /\ WireType

\* Nobody who replies to a call can block: a call's channel holds one reply, and
\* whichever of the read loop, the writer and Close replies first has taken the
\* call out of pending. (The read loop would stop for good on a second one.)
OneReplyPerCall == \A c \in Calls : Len(replies[c]) <= 1 /\ (c \in pending => replies[c] = <<>>)

Copies(line) ==
    Cardinality({i \in DOMAIN outbox : outbox[i] = line})
    + (IF writing = line THEN 1 ELSE 0) + (IF line \in seen THEN 1 ELSE 0)

\* A request is answered once: the agent never gets the person's choice after
\* "cancelled", nor either of them twice, whoever comes first of the person,
\* Cancel and Close.
AnsweredOnce ==
    \A r \in Requests :
        /\ Copies(AnswerLine(r)) <= 1
        /\ answered[r] \in {"no", "dropped"} => Copies(AnswerLine(r)) = 0

\* The agent reads session/cancel only after the answers of the requests Cancel
\* found open ("answered cancelled first, as the protocol requires").
CancelComesAfterAnswers ==
    \A t \in Cancellers : CancelLine(t) \in seen =>
        \A r \in found[t] : answered[r] = "dropped" \/ AnswerLine(r) \in seen

\* Once Close has stopped the writer nobody waits for a person any more: every
\* request that is open has been answered and its context cancelled, the ones
\* registered while Close began too.
CloseEndsRequests ==
    stopped => \A r \in perms : r \in ctxDone /\ answered[r] # "no"

\* An answer that comes after its caller gave up is not counted as a protocol
\* error, while the ring remembers the call.
LateAnswerIsNoError ==
    \A c \in stray :
        \/ replies[c] # <<>>   \* it was failed by the writer or at the end of the output
        \/ result[c] = "ctx" /\ c \notin ToSet(ring) /\ Len(ring) = AbandonedKept

\* An update is marked as replay when, and only when, the agent sent it before it
\* answered the load: a live one never, and one of the history always while the
\* caller waits.
ReplayIsMarked ==
    /\ update.marked => update.sent \in {"before", "in the load"}
    /\ update.sent = "in the load" /\ update.waiting => update.marked

\* Whatever the agent does, Close ends, and with it every call and every
\* request that was being served.
CloseEndsEverything ==
    (endPc["close"] # "idle") ~>
        /\ endPc["close"] = "done" /\ LoopDone /\ inflight = 0
        /\ \A c \in Calls : callPc[c] \in {"idle", "done"}

\* A call does not outlive the agent's output.
CallsEndWithTheAgent == \A c \in Calls : (LoopDone /\ callPc[c] = "waiting") ~> (callPc[c] = "done")
-----------------------------------------------------------------------------
(* The inductive invariants the proofs of AcpClientProofs rest on.            *)

\* What the agent says, and that a request is read and served once, within the cap.
Response(c) == [kind |-> "response", of |-> c]
Said ==
    [kind : {"response"}, of : Calls] \cup [kind : {"request"}, of : Requests]
    \cup [kind : {"update"}, of : UpdatedSessions, sent : {"before", "in the load", "after"}]
    \cup [kind : {"long"}, of : {None}]
Served == {r \in Requests : reqPc[r] \in {"serving", "asking", "answering", "closing", "leaving"}}
SaidInv ==
    /\ stream \in Seq(Said)
    /\ \A i, j \in DOMAIN stream : stream[i].kind = "request" =>
          reqPc[stream[i].of] = "made" /\ (stream[j] = stream[i] => i = j)
CapInv == IsFiniteSet(Served) /\ inflight = Cardinality(Served)
ChosenInv == \A r \in Requests : reqPc[r] = "answering" => choice[r] \in Outcomes
ServedInv == SaidInv /\ CapInv /\ ChosenInv

\* Where a line to the agent is, and that it is there once.
Queued(line)   == \E i \in DOMAIN outbox : outbox[i] = line
OnItsWay(line) == Queued(line) \/ writing = line \/ line \in seen
Once(line) ==
    /\ \A i, j \in DOMAIN outbox : outbox[i] = line /\ outbox[j] = line => i = j
    /\ writing = line => ~Queued(line)
    /\ line \in seen => ~Queued(line) /\ writing # line
\* Nothing the writer writes is read any more.
Broken == ~alive \/ inClosed

\* An answer that was queued is on its way, unless nobody is there to read it.
AnswerInv(r) ==
    /\ Once(AnswerLine(r))
    /\ answered[r] \in {"no", "dropped"} => ~OnItsWay(AnswerLine(r))
    /\ answered[r] \in Outcomes => OnItsWay(AnswerLine(r)) \/ Broken

\* Cancel queues its line after it has ended each request it found, ...
CancelInv(t) ==
    /\ endPc[t] \in {"idle", "ending", "done"}
    /\ endPc[t] = "idle" => found[t] = {}
    /\ endPc[t] # "done" => ~OnItsWay(CancelLine(t))
    /\ \A r \in found[t] : answered[r] # "no" \/ (r \in open[t] /\ endPc[t] = "ending")

\* ... so that it is behind their answers wherever it is.
Behind(t, r) ==
    /\ \A i \in DOMAIN outbox : outbox[i] = CancelLine(t) =>
          \/ answered[r] = "dropped" \/ AnswerLine(r) \in seen \/ writing = AnswerLine(r) \/ Broken
          \/ \E j \in DOMAIN outbox : j < i /\ outbox[j] = AnswerLine(r)
    /\ writing = CancelLine(t) => answered[r] = "dropped" \/ AnswerLine(r) \in seen \/ Broken
    /\ CancelLine(t) \in seen => answered[r] = "dropped" \/ AnswerLine(r) \in seen

\* A call is in pending until it has its reply, and in loads with it.
CallInv(c) ==
    /\ c \in pending => callPc[c] \in {"sending", "waiting"} /\ replies[c] = <<>>
    /\ callPc[c] = "idle" => replies[c] = <<>>
    /\ Len(replies[c]) <= 1
    /\ callPc[c] \in {"sending", "waiting"} => c \in pending \/ replies[c] # <<>>
    /\ c \in loads => callPc[c] \in {"sending", "waiting"}
    /\ c \in pending \cap Loads => c \in loads
    /\ OnItsWay(CallLine(c)) => callPc[c] \in {"waiting", "done"}
    /\ c \in replied => CallLine(c) \in seen

\* An answer of the agent's is still to be read, or has ended its load; and what it
\* said after the loads of a session were answered is behind those answers.
AnsweredBefore(c, i) ==
    c \in replied /\ (c \in loads => \E j \in DOMAIN stream : j < i /\ stream[j] = Response(c))
StreamInv ==
    endPc["read"] = "reading" =>
        /\ \A c \in replied \cap loads : \E j \in DOMAIN stream : stream[j] = Response(c)
        /\ \A i \in DOMAIN stream : stream[i].kind = "update" /\ stream[i].sent = "after" =>
              \A c \in Loads : SessionOf[c] = stream[i].of => AnsweredBefore(c, i)

\* Close ends the requests it finds, and none is registered behind its back.
Ended(r) == r \in ctxDone /\ answered[r] # "no"
CloseInv ==
    /\ closed <=> endPc["close"] # "idle"
    /\ stopped <=> endPc["close"] \in {"stopped", "killed", "done"}
    /\ endPc["close"] \in {"idle", "closed", "ending", "stopped", "killed", "done"}
    /\ endPc["close"] = "ending" => \A r \in perms : r \in open["close"] \/ Ended(r)
    /\ stopped => \A r \in perms : Ended(r)

RequestInv == \A r \in Requests : AnswerInv(r)
OrderInv == \A t \in Cancellers : CancelInv(t) /\ \A r \in found[t] : Behind(t, r)
LoadInv == (\A c \in Calls : CallInv(c)) /\ StreamInv /\ ReplayIsMarked

=============================================================================
