-------------------------- MODULE StructuredTurns --------------------------
(* The runtime of one structured pane (internal/structured): the queue of     *)
(* prompts, the loop that sends them to the agent one at a time, the calls a  *)
(* window makes meanwhile (Cancel, SendNow, Interrupt, RemoveQueued,          *)
(* ClearQueued, Rewind, Close), and the life of the pane from starting to its *)
(* final phase.                                                               *)
(*                                                                            *)
(* Every region the code runs under r.mu is one step. What a goroutine does   *)
(* after it has let the lock go (the TurnLost reports of lose, the            *)
(* session/cancel of Cancel, r.cancel) is a step of its own, so the other     *)
(* goroutines run in between.                                                 *)
(*                                                                            *)
(* The agent is a process on the far side of a FIFO: it reads prompts and     *)
(* cancels in the order they were written, answers, and may exit or send a    *)
(* line over the limit at any moment. It gives the stop reason "cancelled"    *)
(* only to a turn it was told to end, as the protocol asks of it.             *)
EXTENDS Naturals, Sequences, SequencesExt, FiniteSets

CONSTANTS
    Prompts,     \* the prompts callers send, each once: an id is never used again
    Mail,        \* those that carry a message from a peer
    System,      \* those Flockdeck sends on its own
    Tagged,      \* those whose sender is told what becomes of them (OnTurn)
    MaxQueue,    \* maxQueue: how many prompts wait behind the running turn
    OutboxSize,  \* outboxSize: how many lines wait for the agent to read them
    Cancellers,  \* the goroutines that may be inside Cancel at the same time
    OwnerMayEnd, \* whether the owner's context may end (a bound on the behaviours)
    None         \* no prompt

ASSUME KindsAssumption ==
    /\ Mail \subseteq Tagged
    /\ Tagged \subseteq Prompts
    /\ System \subseteq Prompts
    /\ None \notin Prompts
ASSUME BoundsAssumption == OwnerMayEnd \in BOOLEAN /\ MaxQueue \in Nat \ {0} /\ OutboxSize \in Nat \ {0}
ASSUME CancellersAssumption ==
    /\ IsFiniteSet(Cancellers)
    /\ Cancellers \cap {"loop", "watch", "close", "edit"} = {}

Threads == {"loop", "watch", "close", "edit"} \cup Cancellers

VARIABLES
    phase,       \* r.phase
    closed,      \* r.closed
    queue,       \* r.queue
    inTurn,      \* r.inTurn
    asked,       \* r.asked
    rewinding,   \* r.rewinding, and the rewind call that is out
    wake,        \* the token in the r.wake channel
    ctxDone,     \* r.ctx is done
    ownerEnded,  \* the context the owner gave Start has ended
    shellOpen,   \* r.shell takes commands and its runs are alive
    pc,          \* where each goroutine is
    lost,        \* the tags each goroutine has dropped and not yet reported
    cur,         \* the prompt the loop took from the queue
    result,      \* how PromptTurn ended for it
    wasAsked,    \* the loop's copy of r.asked when the turn ended
    used,        \* the prompts that have been sent (itemSeq)
    told,        \* what OnTurn was told of each prompt, in order
    wire,        \* the lines to the agent it has not read
    reply,       \* what the agent answered to the call that waits
    overlong,    \* the read loop ended at a line over the limit
    eof,         \* the client's loopDone is closed
    shut,        \* the client is closed
    agentTurn,   \* the prompt the agent works on
    endedBy      \* the session/cancel the agent read during it

runtimeVars == <<phase, closed, queue, inTurn, asked, rewinding, wake, ctxDone, ownerEnded, shellOpen>>
loopVars    == <<cur, result, wasAsked>>
clientVars  == <<wire, reply, overlong, eof, shut>>
agentVars   == <<agentTurn, endedBy>>
vars == <<runtimeVars, pc, lost, loopVars, used, told, clientVars, agentVars>>

Phases == {"starting", "ready", "needs setup", "exited", "failed", "closed"}
Live == phase \in {"starting", "ready"}

Stops  == {"end_turn", "cancelled"}                  \* the agent's stop reasons
Errors == {"error", "auth", "exit", "closed", "ctx"} \* what PromptTurn returns otherwise

\* A session/cancel of a caller that holds r.mu from its look at the turn until
\* the line is queued is for the prompt then in turn, or for none; Cancel's own
\* is queued after it let the lock go, and is for whatever runs by then.
HeldCancel    == [kind |-> "held cancel", of |-> IF inTurn THEN cur ELSE None]
LateCancel    == [kind |-> "late cancel", of |-> None]
PromptLine(p) == [kind |-> "prompt", of |-> p]
NoCancel      == [kind |-> "none", of |-> None]
CancelKinds   == {"held cancel", "late cancel"}

Init ==
    /\ phase = "starting" /\ closed = FALSE /\ queue = <<>>
    /\ inTurn = FALSE /\ asked = FALSE /\ rewinding = FALSE /\ wake = FALSE
    /\ ctxDone = FALSE /\ ownerEnded = FALSE /\ shellOpen = TRUE
    /\ pc = [t \in Threads |-> CASE t = "loop"  -> "launch"
                                 [] t = "watch" -> "wait"
                                 [] OTHER       -> "idle"]
    /\ lost = [t \in Threads |-> {}]
    /\ cur = None /\ result = "none" /\ wasAsked = FALSE
    /\ used = {} /\ told = [p \in Prompts |-> <<>>]
    /\ wire = <<>> /\ reply = "none" /\ overlong = FALSE /\ eof = FALSE /\ shut = FALSE
    /\ agentTurn = None /\ endedBy = NoCancel

Goto(t, label) == pc' = [pc EXCEPT ![t] = label]

\* turnEvent: OnTurn is told, when the prompt has a tag.
Tell(p, what) ==
    told' = IF p \in Tagged THEN [told EXCEPT ![p] = Append(@, what)] ELSE told

\* The items of q that are in S, in q's order (the set has one member).
Kept(q, S) ==
    {s \in BoundedSeq(S, Len(q)) :
        /\ ToSet(s) = ToSet(q) \cap S
        /\ \A i, j \in DOMAIN s : i < j =>
              \E k, l \in DOMAIN q : k < l /\ q[k] = s[i] /\ q[l] = s[j]}

\* enqueue of the client: the line is refused when the client is closed
\* (ErrClosed) or its outbox is full (errOutboxFull). What is sent to an agent
\* whose output has ended is not followed any further.
CanQueueLine == ~shut /\ Len(wire) < OutboxSize
QueueLine(line) == wire' = IF CanQueueLine /\ ~eof THEN Append(wire, line) ELSE wire

\* The send to r.wake, which holds one token.
WakeNobody == UNCHANGED wake
WakeLoop == wake' = TRUE

\* What goroutine t takes out of the queue and goes on to report as lost.
DropUntold(t, S) == UNCHANGED lost
Drop(t, S) == lost' = [lost EXCEPT ![t] = @ \cup (S \cap Tagged)]

\* dropQueueLocked.
ReportQueue(t) == queue' = queue /\ Drop(t, ToSet(queue))
DropQueue(t)   == queue' = <<>> /\ Drop(t, ToSet(queue))

-----------------------------------------------------------------------------
(* The calls.                                                                 *)

\* enqueue: Send, SendTagged, SendMail and SendSystem.
Send(p) ==
    /\ p \notin used
    /\ ~closed /\ Live /\ Len(queue) < MaxQueue
    /\ queue' = Append(queue, p)
    /\ used' = used \cup {p}
    /\ WakeLoop
    /\ UNCHANGED <<phase, closed, inTurn, asked, rewinding, ctxDone, ownerEnded, shellOpen,
                   pc, lost, loopVars, told, clientVars, agentVars>>

\* Cancel, the part under r.mu.
Cancel(t) ==
    /\ pc[t] = "idle"
    /\ asked' = (asked \/ inTurn)
    /\ DropQueue(t)
    /\ Goto(t, IF phase = "ready" THEN "cancelling" ELSE "refusing")
    /\ UNCHANGED <<phase, closed, inTurn, rewinding, wake, ctxDone, ownerEnded, shellOpen,
                   loopVars, used, told, clientVars, agentVars>>

\* lose: one report, outside the lock.
Lose(t, p) ==
    /\ p \in lost[t]
    /\ lost' = [lost EXCEPT ![t] = @ \ {p}]
    /\ Tell(p, "lost")
    /\ UNCHANGED <<runtimeVars, pc, loopVars, used, clientVars, agentVars>>

\* Cancel, after lose: the session/cancel, when there was a session.
CancelSend(t) ==
    /\ pc[t] \in {"cancelling", "refusing"} /\ lost[t] = {}
    /\ IF pc[t] = "cancelling" THEN QueueLine(LateCancel) ELSE UNCHANGED wire
    /\ Goto(t, "idle")
    /\ UNCHANGED <<runtimeVars, lost, loopVars, used, told, reply, overlong, eof, shut, agentVars>>

\* Interrupt: the running turn is ended, the queue kept.
Interrupt ==
    /\ phase = "ready"
    /\ asked' = (asked \/ inTurn)
    /\ QueueLine(HeldCancel)
    /\ UNCHANGED <<phase, closed, queue, inTurn, rewinding, wake, ctxDone, ownerEnded, shellOpen,
                   pc, lost, loopVars, used, told, reply, overlong, eof, shut, agentVars>>

\* SendNow: the prompt goes to the front and the running turn is ended, in one
\* region under r.mu.
SendNow(p) ==
    /\ p \in ToSet(queue)
    /\ \E rest \in Kept(queue, ToSet(queue) \ {p}) : queue' = <<p>> \o rest
    /\ asked' = (asked \/ inTurn)
    /\ IF inTurn /\ phase = "ready" THEN QueueLine(HeldCancel) ELSE UNCHANGED wire
    /\ WakeLoop
    /\ UNCHANGED <<phase, closed, inTurn, rewinding, ctxDone, ownerEnded, shellOpen,
                   pc, lost, loopVars, used, told, reply, overlong, eof, shut, agentVars>>

\* RemoveQueued: only a prompt of the person's, and never one already sent.
RemoveQueued(p) ==
    /\ lost["edit"] = {}
    /\ p \in ToSet(queue) \ (Mail \cup System)
    /\ queue' \in Kept(queue, ToSet(queue) \ {p})
    /\ Drop("edit", {p})
    /\ UNCHANGED <<phase, closed, inTurn, asked, rewinding, wake, ctxDone, ownerEnded, shellOpen,
                   pc, loopVars, used, told, clientVars, agentVars>>

\* ClearQueued: every prompt of the person's; mail and system prompts stay.
ClearQueued ==
    /\ lost["edit"] = {}
    /\ ToSet(queue) \ (Mail \cup System) # {}
    /\ queue' \in Kept(queue, Mail \cup System)
    /\ Drop("edit", ToSet(queue) \ (Mail \cup System))
    /\ UNCHANGED <<phase, closed, inTurn, asked, rewinding, wake, ctxDone, ownerEnded, shellOpen,
                   pc, loopVars, used, told, clientVars, agentVars>>

\* Rewind takes the agent back only when nothing runs or waits (idleLocked).
RewindBegin ==
    /\ phase = "ready" /\ ~inTurn /\ queue = <<>> /\ ~rewinding
    /\ rewinding' = TRUE
    /\ UNCHANGED <<phase, closed, queue, inTurn, asked, wake, ctxDone, ownerEnded, shellOpen,
                   pc, lost, loopVars, used, told, clientVars, agentVars>>

\* The call ended, whatever it said: prompts may be sent again (wakeLoop).
RewindEnd ==
    /\ rewinding
    /\ rewinding' = FALSE
    /\ WakeLoop
    /\ UNCHANGED <<phase, closed, queue, inTurn, asked, ctxDone, ownerEnded, shellOpen,
                   pc, lost, loopVars, used, told, clientVars, agentVars>>

-----------------------------------------------------------------------------
(* Ending: finish, by Close, by the goroutine that watches r.ctx and by the   *)
(* loop's teardown.                                                           *)

\* finish, the part under r.mu.
FinishLocked(t, p) ==
    /\ closed' = (closed \/ p = "closed")
    /\ phase' = IF Live THEN p ELSE phase
    /\ DropQueue(t)
    /\ UNCHANGED <<inTurn, asked, rewinding, wake, ctxDone, ownerEnded, shellOpen>>

\* finish, after lose: r.cancel, and for a close the person's commands end.
FinishTail(t, p) ==
    /\ lost[t] = {}
    /\ ctxDone' = TRUE
    /\ shellOpen' = (shellOpen /\ p # "closed")
    /\ UNCHANGED <<phase, closed, queue, inTurn, asked, rewinding, wake, ownerEnded, lost>>

Close ==
    /\ pc["close"] = "idle"
    /\ FinishLocked("close", "closed")
    /\ Goto("close", "finishing")
    /\ UNCHANGED <<loopVars, used, told, clientVars, agentVars>>

CloseFinish ==
    /\ pc["close"] = "finishing"
    /\ FinishTail("close", "closed")
    /\ Goto("close", "waiting")
    /\ UNCHANGED <<loopVars, used, told, clientVars, agentVars>>

\* Close returns when the loop has ended.
CloseReturn ==
    /\ pc["close"] = "waiting" /\ pc["loop"] = "done"
    /\ Goto("close", "done")
    /\ UNCHANGED <<runtimeVars, lost, loopVars, used, told, clientVars, agentVars>>

\* The goroutine Start leaves behind: r.ctx ending closes the runtime, though
\* nobody called Close.
Watch ==
    /\ pc["watch"] = "wait" /\ ctxDone
    /\ FinishLocked("watch", "closed")
    /\ Goto("watch", "finishing")
    /\ UNCHANGED <<loopVars, used, told, clientVars, agentVars>>

WatchFinish ==
    /\ pc["watch"] = "finishing"
    /\ FinishTail("watch", "closed")
    /\ Goto("watch", "done")
    /\ UNCHANGED <<loopVars, used, told, clientVars, agentVars>>

WatchDone ==
    /\ pc["watch"] = "wait" /\ pc["loop"] = "done"
    /\ Goto("watch", "done")
    /\ UNCHANGED <<runtimeVars, lost, loopVars, used, told, clientVars, agentVars>>

\* The owner's context ends.
OwnerEnds ==
    /\ OwnerMayEnd /\ ~ownerEnded
    /\ ownerEnded' = TRUE /\ ctxDone' = TRUE
    /\ UNCHANGED <<phase, closed, queue, inTurn, asked, rewinding, wake, shellOpen,
                   pc, lost, loopVars, used, told, clientVars, agentVars>>

-----------------------------------------------------------------------------
(* The loop's goroutine: run.                                                 *)

\* set: a final phase from inside the loop. The reports come after it.
SetPhase(p) ==
    /\ phase' = IF Live THEN p ELSE phase
    /\ DropQueue("loop")
    /\ UNCHANGED <<closed, inTurn, asked, rewinding, wake, ctxDone, ownerEnded, shellOpen>>

\* fail: the phase an error settles.
FailPhaseAsIs(e) == IF e = "auth" THEN "needs setup" ELSE e
FailPhase(e) ==
    CASE e = "auth"   -> "needs setup"
      [] e = "exit"   -> "exited"
      [] e = "closed" -> "closed"
      [] OTHER        -> IF eof THEN "exited" ELSE "failed"

\* launch got a session. A Close meanwhile keeps its phase.
LaunchedAlways == "ready"
LaunchedPhase  == IF phase = "starting" THEN "ready" ELSE phase
Launch ==
    /\ pc["loop"] = "launch" /\ ~shut
    /\ phase' = LaunchedPhase
    /\ Goto("loop", "pop")
    /\ UNCHANGED <<closed, queue, inTurn, asked, rewinding, wake, ctxDone, ownerEnded, shellOpen,
                   lost, loopVars, used, told, clientVars, agentVars>>

\* launch got none. fail says nothing once r.ctx is done; a program that could
\* not be found or started fails the pane either way.
LaunchFails(e) ==
    /\ pc["loop"] = "launch"
    /\ e = "exit" => eof
    /\ e = "closed" => shut
    /\ \/ (e = "error" \/ ~ctxDone) /\ SetPhase(FailPhase(e)) /\ Goto("loop", "setting")
       \/ ctxDone /\ UNCHANGED <<runtimeVars, lost>> /\ Goto("loop", "teardown")
    /\ UNCHANGED <<loopVars, used, told, clientVars, agentVars>>

\* pop takes the next prompt and marks the turn in the same region.
CanPopInRewind == phase = "ready" /\ queue # <<>>
CanPop         == phase = "ready" /\ queue # <<>> /\ ~rewinding
MarkNoTurn == UNCHANGED inTurn /\ asked' = FALSE
MarkTurn   == inTurn' = TRUE /\ asked' = FALSE
Pop ==
    /\ pc["loop"] = "pop" /\ CanPop
    /\ cur' = Head(queue) /\ queue' = Tail(queue)
    /\ MarkTurn
    /\ Goto("loop", "begin")
    /\ UNCHANGED <<phase, closed, rewinding, wake, ctxDone, ownerEnded, shellOpen, lost,
                   result, wasAsked, used, told, clientVars, agentVars>>

PopNothing ==
    /\ pc["loop"] = "pop" /\ ~CanPop
    /\ Goto("loop", "select")
    /\ UNCHANGED <<runtimeVars, lost, loopVars, used, told, clientVars, agentVars>>

\* The select of an idle loop.
SelectWake ==
    /\ pc["loop"] = "select" /\ wake
    /\ wake' = FALSE
    /\ Goto("loop", "pop")
    /\ UNCHANGED <<phase, closed, queue, inTurn, asked, rewinding, ctxDone, ownerEnded, shellOpen,
                   lost, loopVars, used, told, clientVars, agentVars>>

SelectNoExit == FALSE
SelectExit ==
    /\ pc["loop"] = "select" /\ eof
    /\ SetPhase("exited")
    /\ Goto("loop", "setting")
    /\ UNCHANGED <<loopVars, used, told, clientVars, agentVars>>

SelectCtx ==
    /\ pc["loop"] = "select" /\ ctxDone
    /\ Goto("loop", "teardown")
    /\ UNCHANGED <<runtimeVars, lost, loopVars, used, told, clientVars, agentVars>>

\* The turn is shown and TurnBegan reported, before the prompt is sent.
Begin ==
    /\ pc["loop"] = "begin"
    /\ Tell(cur, "began")
    /\ Goto("loop", "send")
    /\ UNCHANGED <<runtimeVars, lost, loopVars, used, clientVars, agentVars>>

\* PromptTurn up to its wait: the call is registered and the line queued.
SendPrompt ==
    /\ pc["loop"] = "send"
    /\ QueueLine(PromptLine(cur))
    /\ IF CanQueueLine THEN result' = result /\ Goto("loop", "wait")
       ELSE /\ result' = IF shut THEN "closed" ELSE "error"
            /\ Goto("loop", "settle")
    /\ UNCHANGED <<runtimeVars, lost, cur, wasAsked, used, told, reply, overlong, eof, shut, agentVars>>

\* PromptTurn's wait: the answer, the end of the agent's output, or r.ctx.
WaitForAgent(r) ==
    \/ reply # "none" /\ r = reply
    \/ eof /\ reply = "none" /\ r = (IF shut THEN "closed" ELSE "exit")
WaitEnds(r) == WaitForAgent(r) \/ (ctxDone /\ r = "ctx")
Wait(r) ==
    /\ pc["loop"] = "wait" /\ WaitEnds(r)
    /\ result' = r /\ reply' = "none"
    /\ Goto("loop", "settle")
    /\ UNCHANGED <<runtimeVars, lost, cur, wasAsked, used, told, wire, overlong, eof, shut, agentVars>>

\* The turn is over: inTurn and asked are taken and reset in one region.
Settle ==
    /\ pc["loop"] = "settle"
    /\ wasAsked' = asked
    /\ inTurn' = FALSE /\ asked' = FALSE
    /\ Goto("loop", "report")
    /\ UNCHANGED <<phase, closed, queue, rewinding, wake, ctxDone, ownerEnded, shellOpen,
                   lost, cur, result, used, told, clientVars, agentVars>>

\* endsPane: an error that ends the pane and not only the turn.
EndsPane(e) == e \in {"auth", "exit", "closed"} \/ eof

AfterTurn ==
    IF result \in Stops THEN "pop"
    ELSE IF ctxDone THEN "teardown"
    ELSE IF EndsPane(result) THEN "fail" ELSE "pop"

\* The prompt's last report, and what becomes of the loop.
Report ==
    /\ pc["loop"] = "report"
    /\ Tell(cur, IF result \in Stops THEN "ended" ELSE "lost")
    /\ cur' = None /\ wasAsked' = FALSE
    /\ result' = IF AfterTurn = "fail" THEN result ELSE "none"
    /\ Goto("loop", AfterTurn)
    /\ UNCHANGED <<runtimeVars, lost, used, clientVars, agentVars>>

Fail ==
    /\ pc["loop"] = "fail"
    /\ \/ ~ctxDone /\ SetPhase(FailPhase(result)) /\ Goto("loop", "setting")
       \/ ctxDone /\ UNCHANGED <<runtimeVars, lost>> /\ Goto("loop", "teardown")
    /\ result' = "none"
    /\ UNCHANGED <<cur, wasAsked, used, told, clientVars, agentVars>>

\* set is over once its reports are.
SetDone ==
    /\ pc["loop"] = "setting" /\ lost["loop"] = {}
    /\ Goto("loop", "teardown")
    /\ UNCHANGED <<runtimeVars, lost, loopVars, used, told, clientVars, agentVars>>

\* teardown: finish(finalPhase), then the client is closed, then done.
Teardown ==
    /\ pc["loop"] = "teardown"
    /\ FinishLocked("loop", IF Live THEN "closed" ELSE phase)
    /\ Goto("loop", "finishing")
    /\ UNCHANGED <<loopVars, used, told, clientVars, agentVars>>

TeardownFinish ==
    /\ pc["loop"] = "finishing"
    /\ FinishTail("loop", phase)
    /\ Goto("loop", "ending")
    /\ UNCHANGED <<loopVars, used, told, clientVars, agentVars>>

\* The client's Close: no line is taken any more, and the agent is ended.
TeardownClient ==
    /\ pc["loop"] = "ending"
    /\ shut' = TRUE /\ eof' = TRUE
    /\ wire' = <<>> /\ agentTurn' = None /\ endedBy' = NoCancel
    /\ Goto("loop", "done")
    /\ UNCHANGED <<runtimeVars, lost, loopVars, used, told, reply, overlong>>

-----------------------------------------------------------------------------
(* The agent and the client's read loop.                                      *)

AgentReads ==
    /\ wire # <<>>
    /\ wire' = Tail(wire)
    /\ LET line == Head(wire) IN
       IF line.kind = "prompt"
       THEN agentTurn' = line.of /\ endedBy' = NoCancel
       ELSE /\ endedBy' = IF agentTurn # None THEN line ELSE endedBy
            /\ UNCHANGED agentTurn
    /\ UNCHANGED <<runtimeVars, pc, lost, loopVars, used, told, reply, overlong, eof, shut>>

\* The answer to session/prompt: a stop reason, an error that ends the turn
\* alone, or the one that asks for a login. It wakes the call, if one waits.
AgentAnswers(r) ==
    /\ agentTurn # None /\ ~overlong
    /\ r \in {"end_turn", "error", "auth"} \cup
             (IF endedBy # NoCancel THEN {"cancelled"} ELSE {})
    /\ reply' = IF pc["loop"] = "wait" /\ cur = agentTurn /\ reply = "none" THEN r ELSE reply
    /\ agentTurn' = None /\ endedBy' = NoCancel
    /\ UNCHANGED <<runtimeVars, pc, lost, loopVars, used, told, wire, overlong, eof, shut>>

\* The read loop ends: loopDone is closed. When the agent's output ended (lost)
\* the call that waits is failed with it.
OutputEnds ==
    /\ ~eof
    /\ eof' = TRUE
    /\ reply' = IF pc["loop"] = "wait" /\ reply = "none" /\ ~overlong THEN "exit" ELSE reply
    /\ wire' = <<>> /\ agentTurn' = None /\ endedBy' = NoCancel
    /\ UNCHANGED <<runtimeVars, pc, lost, loopVars, used, told, overlong, shut>>

\* A line over the limit: the waiting call is failed with ErrLineTooLong and a
\* goroutine is left to close the client.
LineTooLong ==
    /\ ~eof /\ ~overlong /\ ~shut
    /\ overlong' = TRUE
    /\ reply' = IF pc["loop"] = "wait" /\ reply = "none" THEN "error" ELSE reply
    /\ UNCHANGED <<runtimeVars, pc, lost, loopVars, used, told, wire, eof, shut, agentVars>>

\* That goroutine's Close sets closed.
LineTooLongClose ==
    /\ overlong /\ ~shut
    /\ shut' = TRUE
    /\ UNCHANGED <<runtimeVars, pc, lost, loopVars, used, told, wire, reply, overlong, eof, agentVars>>

-----------------------------------------------------------------------------
Calls ==
    \/ \E p \in Prompts : Send(p) \/ SendNow(p) \/ RemoveQueued(p)
    \/ \E t \in Cancellers : Cancel(t) \/ CancelSend(t)
    \/ ClearQueued \/ Interrupt \/ RewindBegin \/ RewindEnd

Ending ==
    \/ Close \/ CloseFinish \/ CloseReturn
    \/ Watch \/ WatchFinish \/ WatchDone
    \/ OwnerEnds

Loop ==
    \/ Launch \/ \E e \in Errors : LaunchFails(e)
    \/ Pop \/ PopNothing \/ SelectWake \/ SelectExit \/ SelectCtx
    \/ Begin \/ SendPrompt \/ (\E r \in Stops \cup Errors : Wait(r)) \/ Settle \/ Report
    \/ Fail \/ SetDone \/ Teardown \/ TeardownFinish \/ TeardownClient

Agent ==
    \/ AgentReads \/ \E r \in Stops \cup Errors : AgentAnswers(r)
    \/ OutputEnds \/ LineTooLong \/ LineTooLongClose

Next ==
    \/ Calls \/ Ending \/ Loop \/ Agent
    \/ \E t \in Threads, p \in Prompts : Lose(t, p)

Spec == Init /\ [][Next]_vars

\* The Go scheduler runs every goroutine that can run. Every call the loop makes
\* while launching is bounded (SetupTimeout, LoadTimeout), and so is a rewind
\* (RewindTimeout); a select picks at random among the cases that are ready.
\* Nothing is assumed of the agent or of the callers.
Fairness ==
    /\ WF_vars(Loop) /\ SF_vars(SelectExit) /\ SF_vars(SelectCtx)
    /\ WF_vars(CloseFinish) /\ WF_vars(CloseReturn)
    /\ WF_vars(Watch \/ WatchDone) /\ WF_vars(WatchFinish)
    /\ WF_vars(RewindEnd)
    /\ \A t \in Cancellers : WF_vars(CancelSend(t))
    /\ \A t \in Threads : WF_vars(\E p \in Prompts : Lose(t, p))

FairSpec == Spec /\ Fairness

-----------------------------------------------------------------------------
(* Properties.                                                                *)

\* Every variable has its type.
FlagType ==
    /\ closed \in BOOLEAN /\ inTurn \in BOOLEAN /\ asked \in BOOLEAN /\ rewinding \in BOOLEAN
    /\ wake \in BOOLEAN /\ ctxDone \in BOOLEAN /\ ownerEnded \in BOOLEAN /\ shellOpen \in BOOLEAN
    /\ wasAsked \in BOOLEAN /\ overlong \in BOOLEAN /\ eof \in BOOLEAN /\ shut \in BOOLEAN
RuntimeType == phase \in Phases /\ queue \in Seq(Prompts)
Labels == {"launch", "pop", "select", "begin", "send", "wait", "settle", "report", "fail",
           "setting", "teardown", "finishing", "ending", "done",
           "idle", "waiting", "cancelling", "refusing"}
ThreadType == pc \in [Threads -> Labels] /\ lost \in [Threads -> SUBSET Tagged]
LoopType   == cur \in Prompts \cup {None} /\ result \in {"none"} \cup Stops \cup Errors
ReportType == used \subseteq Prompts /\ told \in [Prompts -> Seq({"began", "ended", "lost"})]
LineType   == [kind : {"none", "prompt"} \cup CancelKinds, of : Prompts \cup {None}]
ClientType == wire \in Seq(LineType) /\ reply \in {"none"} \cup Stops \cup Errors
AgentType  == agentTurn \in Prompts \cup {None} /\ endedBy \in LineType
TypeOK ==
    FlagType /\ RuntimeType /\ ThreadType /\ LoopType /\ ReportType /\ ClientType /\ AgentType

Finals == {<<"began", "ended">>, <<"began", "lost">>, <<"lost">>}

\* The sender of a tagged prompt is told a story that makes sense: it began
\* and then ended or was lost, or was lost before it began, and nothing after
\* that, although Cancel, RemoveQueued, Close, the watcher and the loop all
\* report outside the lock. (promptService matches these to inbox messages.)
ToldOnce == \A p \in Tagged : told[p] \in {<<>>, <<"began">>} \cup Finals

Owners(p) ==
    {t \in Threads : p \in lost[t]} \cup
    (IF p \in ToSet(queue) THEN {"queue"} ELSE {}) \cup
    (IF p = cur THEN {"turn"} ELSE {})

\* A tagged prompt that was taken and has no last report yet is in exactly one
\* hand that will give it one: the queue, the loop's turn or one goroutine's
\* list of dropped tags. (No report is forgotten and none comes twice.)
Accounted ==
    \A p \in Tagged :
        IF p \in used /\ told[p] \notin Finals THEN \E o \in Owners(p) : Owners(p) = {o}
                                            ELSE Owners(p) = {}

\* A prompt waits only in a pane that can still send it: whichever of Close,
\* set and finish ends the pane leaves no prompt behind, whatever was sent
\* meanwhile.
NoPromptInAFinalPane == ~Live => queue = <<>>

\* What the agent has that it has not answered.
AtAgent == {i \in DOMAIN wire : wire[i].kind = "prompt"} \cup (IF agentTurn # None THEN {0} ELSE {})

\* The agent's output is read and nobody has ended the pane.
Talking == ~overlong /\ ~eof /\ ~ctxDone

\* The agent is given one prompt at a time and none while it is being taken
\* back.
OneTurnAtATime ==
    Talking =>
        /\ Cardinality(AtAgent) <= 1
        /\ AtAgent # {} => inTurn /\ ~rewinding

\* The runtime, however its goroutines interleave, keeps the promise of
\* PromptRuntime to the sender of every tagged prompt: dropped by whichever of
\* Cancel, RemoveQueued, Close, the watcher and the loop, it is reported once and
\* by itself, and a pane that has ended takes, keeps and starts none again.
Where(p) ==
    CASE p \in ToSet(queue) -> "waiting"
      [] p \notin ToSet(queue) /\ p = cur -> "running"
      [] p \notin ToSet(queue) /\ p # cur /\ (\E t \in Threads : p \in lost[t]) -> "dropped"
      [] OTHER -> IF p \in used THEN "over" ELSE "unsent"
Runtime == INSTANCE PromptRuntime WITH
    Prompts <- Tagged,
    where   <- [p \in Tagged |-> Where(p)],
    told    <- [p \in Tagged |-> told[p]],
    ended   <- ~Live
RuntimeSpec == Runtime!Spec

\* SendNow and Interrupt end the turn they found and no other: "the prompt
\* cannot start a turn of its own and then be cancelled by this call".
HeldCancelHitsItsTurn ==
    Talking /\ endedBy.kind = "held cancel" => endedBy.of = agentTurn

\* A pane's last phase stays: nothing moves it once it is reached, and only
\* launch makes it ready.
PhaseStep ==
    phase' # phase =>
        \/ phase = "starting" /\ (phase' = "ready" => ~closed)
        \/ phase = "ready" /\ phase' # "starting"
PhaseIsFinal == [][PhaseStep]_vars

\* When Close returns, the agent has been ended, the person's commands too, and
\* no prompt is with the loop.
ClosedPaneIsQuiet ==
    pc["close"] = "done" => shut /\ ~shellOpen /\ ctxDone /\ ~inTurn /\ cur = None /\ ~Live

\* The loop never sleeps on a prompt it could send: no wake-up is lost.
NoLostWakeup ==
    pc["loop"] = "select" /\ phase = "ready" /\ queue # <<>> /\ ~rewinding => wake

\* Close ends the pane whatever the agent does, and every tagged prompt that
\* was taken gets its last report.
CloseSettlesEverything ==
    (pc["close"] # "idle") ~> (pc["close"] = "done" /\ \A p \in used \cap Tagged : told[p] \in Finals)

\* The agent's exit is noticed, also by an idle pane.
ExitIsNoticed == eof ~> ~Live

-----------------------------------------------------------------------------
(* The inductive invariants the proofs of StructuredTurnsProofs rest on.      *)

\* The loop's variables agree with where it is.
LoopInv ==
    /\ inTurn <=> pc["loop"] \in {"begin", "send", "wait", "settle"}
    /\ cur = None <=> pc["loop"] \notin {"begin", "send", "wait", "settle", "report"}

\* How far the pane has ended: what Close, finish and teardown have done by each
\* of their steps, and no later step undoes.
EndInv ==
    /\ closed => ~Live
    /\ ~Live => queue = <<>>
    /\ pc["loop"] \in {"finishing", "ending", "done"} => ~Live
    /\ pc["loop"] \in {"ending", "done"} => ctxDone
    /\ pc["loop"] = "done" => shut
    /\ pc["close"] \in {"waiting", "done"} => ~shellOpen
    /\ pc["close"] = "done" => pc["loop"] = "done"

\* Where a tagged prompt can be, and what its sender has been told by then.
Nowhere(p) == p \notin ToSet(queue) /\ p # cur /\ \A t \in Threads : p \notin lost[t]
Unsent(p)  == Nowhere(p) /\ p \notin used /\ told[p] = <<>>
Settled(p) == Nowhere(p) /\ p \in used /\ told[p] \in Finals
Waiting(p) ==
    /\ p \in ToSet(queue) /\ p # cur /\ \A t \in Threads : p \notin lost[t]
    /\ p \in used /\ told[p] = <<>>
Running(p) ==
    /\ p = cur /\ p \notin ToSet(queue) /\ \A t \in Threads : p \notin lost[t]
    /\ p \in used /\ told[p] = IF pc["loop"] = "begin" THEN <<>> ELSE <<"began">>
Dropped(p) ==
    /\ p \notin ToSet(queue) /\ p # cur
    /\ \E t \in Threads : p \in lost[t] /\ \A u \in Threads \ {t} : p \notin lost[u]
    /\ p \in used /\ told[p] = <<>>

\* A prompt waits once, and every tagged prompt is in one of those places: what
\* Accounted and ToldOnce say, together with what has been told by then.
PromptsInv ==
    /\ IsInjective(queue) /\ ToSet(queue) \subseteq used
    /\ \A p \in Tagged : Unsent(p) \/ Waiting(p) \/ Running(p) \/ Dropped(p) \/ Settled(p)

\* The whole of it: what every step of the pane keeps, and the properties above
\* follow from.
PaneInv == LoopInv /\ EndInv /\ PromptsInv

\* What the agent has is the turn whose answer the loop waits for, and the cancels that
\* were queued with r.mu held behind its prompt are for that turn.
Awaited(p) == pc["loop"] = "wait" /\ reply = "none" /\ p = cur
Behind(i) ==
    \A j \in DOMAIN wire : j > i => wire[j].kind # "prompt" /\ (wire[j].kind = "held cancel" => wire[j].of = cur)
TurnAtAgent == agentTurn # None => Awaited(agentTurn) /\ Behind(0)
TurnOnWire  == \A i \in DOMAIN wire : wire[i].kind = "prompt" => Awaited(wire[i].of) /\ agentTurn = None /\ Behind(i)
TurnEnded   == endedBy.kind = "held cancel" => agentTurn # None /\ endedBy.of = agentTurn
LineInv == Talking => TurnAtAgent /\ TurnOnWire /\ TurnEnded
\* Only a loop that waits has a reply, and no turn begins while one is taken back.
ReplyInv  == reply # "none" => pc["loop"] = "wait"
RewindInv == inTurn => ~rewinding
AgentInv  == LineInv /\ ReplyInv /\ RewindInv

-----------------------------------------------------------------------------
(* What comments and tests say, and the code does not always do.              *)

\* "Cancel ends the running turn", and SendNow and Interrupt like it: while
\* a turn that was asked to end runs at the agent, the agent was told or will be.
AskedTurnIsEnded ==
    asked /\ agentTurn # None /\ agentTurn = cur /\ ~eof =>
        \/ endedBy # NoCancel
        \/ \E i \in DOMAIN wire : wire[i].kind \in CancelKinds
        \/ \E t \in Cancellers : pc[t] = "cancelling"
=============================================================================
