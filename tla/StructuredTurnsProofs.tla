----------------------- MODULE StructuredTurnsProofs -----------------------
(* What is proved of StructuredTurns, for every set of prompts and callers.   *)
EXTENDS StructuredTurns, FiniteSetTheorems, TLAPS

\* What RemoveQueued and ClearQueued keep of the queue is a sequence of what is kept.
LEMMA KeptSeq ==
    ASSUME NEW T, NEW S, NEW q \in Seq(T), NEW s \in Kept(q, S)
    PROVE  s \in Seq(S) /\ s \in Seq(T) /\ ToSet(s) = ToSet(q) \cap S
<1>1. s \in Seq(S) /\ ToSet(s) = ToSet(q) \cap S
  BY DEF Kept, BoundedSeq, SeqOf, ToSet
<1>2. \A i \in DOMAIN s : s[i] \in T
  BY <1>1 DEF ToSet
<1> QED BY <1>1, <1>2

\* What OnTurn has been told keeps its type.
LEMMA TellType ==
    ASSUME ReportType, NEW p, NEW w \in {"began", "ended", "lost"}, Tell(p, w)
    PROVE  told' \in [Prompts -> Seq({"began", "ended", "lost"})]
<1>1. CASE p \in Tagged
  <2>1. p \in Prompts BY <1>1, KindsAssumption
  <2>2. Append(told[p], w) \in Seq({"began", "ended", "lost"}) BY <2>1 DEF ReportType
  <2>3. told' = [told EXCEPT ![p] = Append(told[p], w)] BY <1>1 DEF Tell
  <2> QED BY <2>1, <2>2, <2>3 DEF ReportType
<1>2. CASE p \notin Tagged
  BY <1>2 DEF Tell, ReportType
<1> QED BY <1>1, <1>2

\* So does the line to the agent.
LEMMA QueueLineType ==
    ASSUME wire \in Seq(LineType), NEW line \in LineType, QueueLine(line) \/ UNCHANGED wire
    PROVE  wire' \in Seq(LineType)
<1>1. wire' = wire \/ wire' = Append(wire, line) BY DEF QueueLine
<1> QED BY <1>1

\* The lines the runtime writes to the agent are lines.
LEMMA LineKinds ==
    ASSUME LoopType
    PROVE  /\ HeldCancel \in LineType /\ LateCancel \in LineType /\ NoCancel \in LineType
           /\ \A p \in Prompts \cup {None} : PromptLine(p) \in LineType
<1>1. (IF inTurn THEN cur ELSE None) \in Prompts \cup {None} BY DEF LoopType
<1> QED BY <1>1 DEF HeldCancel, LateCancel, NoCancel, PromptLine, LineType, CancelKinds

\* finish and set leave the phase one of the phases and the queue empty.
LEMMA EndType ==
    ASSUME RuntimeType, NEW t, NEW p \in Phases, FinishLocked(t, p) \/ (t = "loop" /\ SetPhase(p))
    PROVE  RuntimeType'
<1>1. phase' = (IF Live THEN p ELSE phase) /\ queue' = <<>>
  BY DEF FinishLocked, SetPhase, DropQueue
<1> QED BY <1>1 DEF RuntimeType

\* fail ends in a phase.
LEMMA FailPhaseType == \A e : FailPhase(e) \in Phases
BY DEF FailPhase, Phases

\* What a goroutine drops are tags.
LEMMA DropType ==
    ASSUME lost \in [Threads -> SUBSET Tagged], NEW t \in Threads, NEW S, Drop(t, S)
    PROVE  lost' \in [Threads -> SUBSET Tagged]
<1>1. lost[t] \cup (S \cap Tagged) \in SUBSET Tagged OBVIOUS
<1> QED BY <1>1 DEF Drop

\* Every variable has its type, whatever the callers and the agent do.
THEOREM TypeCorrect == Spec => []TypeOK
<1>1. Init => TypeOK
  <2> SUFFICES ASSUME Init PROVE TypeOK
    OBVIOUS
  <2>1. FlagType BY DEF Init, FlagType
  <2>2. RuntimeType BY DEF Init, RuntimeType, Phases
  <2>3. ThreadType BY DEF Init, ThreadType, Threads, Labels
  <2>4. LoopType /\ ReportType BY DEF Init, LoopType, ReportType
  <2>5. ClientType /\ AgentType BY DEF Init, ClientType, AgentType, NoCancel, LineType
  <2> QED BY <2>1, <2>2, <2>3, <2>4, <2>5 DEF TypeOK
<1>2. TypeOK /\ [Next]_vars => TypeOK'
  <2> SUFFICES ASSUME TypeOK, [Next]_vars PROVE TypeOK'
    OBVIOUS
  <2> USE DEF TypeOK
  <2>1. ASSUME NEW p \in Prompts, Send(p) PROVE TypeOK'
    <3>1. FlagType' BY <2>1 DEF Send, FlagType, WakeLoop, loopVars, clientVars, agentVars
    <3>2. RuntimeType' BY <2>1 DEF Send, RuntimeType, loopVars, clientVars, agentVars
    <3>3. ReportType' BY <2>1 DEF Send, ReportType, loopVars, clientVars, agentVars
    <3>4. ThreadType' /\ LoopType' /\ ClientType' /\ AgentType' BY <2>1 DEF Send, ThreadType,
        LoopType, ClientType, AgentType, loopVars, clientVars, agentVars
    <3> QED BY <3>1, <3>2, <3>3, <3>4
  <2>2. ASSUME NEW p \in Prompts, SendNow(p) PROVE TypeOK'
    <3>1. FlagType' BY <2>2 DEF SendNow, FlagType, WakeLoop, loopVars, agentVars
    <3>2. RuntimeType' BY <2>2, KeptSeq DEF SendNow, RuntimeType, loopVars, agentVars
    <3>3. ClientType'
      <4>1. wire' \in Seq(LineType)
        <5>1. QueueLine(HeldCancel) \/ UNCHANGED wire BY <2>2 DEF SendNow
        <5>2. HeldCancel \in LineType BY LineKinds
        <5> QED BY <5>1, <5>2, QueueLineType DEF ClientType
      <4> QED BY <2>2, <4>1 DEF SendNow, ClientType
    <3>4. ThreadType' /\ LoopType' /\ ReportType' /\ AgentType' BY <2>2 DEF SendNow, ThreadType,
        LoopType, ReportType, AgentType, loopVars, agentVars
    <3> QED BY <3>1, <3>2, <3>3, <3>4
  <2>3. ASSUME NEW p \in Prompts, RemoveQueued(p) PROVE TypeOK'
    <3>1. RuntimeType' BY <2>3, KeptSeq DEF RemoveQueued, RuntimeType, loopVars, clientVars,
        agentVars
    <3>2. ThreadType' BY <2>3 DEF RemoveQueued, ThreadType, Drop, Threads, loopVars, clientVars,
        agentVars
    <3>3. FlagType' /\ LoopType' /\ ReportType' /\ ClientType' /\ AgentType'
      BY <2>3 DEF RemoveQueued, FlagType, LoopType, ReportType, ClientType, AgentType, loopVars,
          clientVars, agentVars
    <3> QED BY <3>1, <3>2, <3>3
  <2>4. ASSUME NEW t \in Cancellers, Cancel(t) PROVE TypeOK'
    <3>1. FlagType' BY <2>4 DEF Cancel, FlagType, loopVars, clientVars, agentVars
    <3>2. RuntimeType' BY <2>4 DEF Cancel, RuntimeType, DropQueue, loopVars, clientVars, agentVars
    <3>3. ThreadType' BY <2>4 DEF Cancel, ThreadType, Goto, DropQueue, Drop, Threads, Labels,
        loopVars, clientVars, agentVars
    <3>4. LoopType' /\ ReportType' /\ ClientType' /\ AgentType' BY <2>4 DEF Cancel, LoopType,
        ReportType, ClientType, AgentType, loopVars, clientVars, agentVars
    <3> QED BY <3>1, <3>2, <3>3, <3>4
  <2>5. ASSUME NEW t \in Cancellers, CancelSend(t) PROVE TypeOK'
    <3>1. ThreadType' BY <2>5 DEF CancelSend, ThreadType, Goto, Threads, Labels, runtimeVars,
        loopVars, agentVars
    <3>2. ClientType'
      <4>1. wire' \in Seq(LineType)
        <5>1. QueueLine(LateCancel) \/ UNCHANGED wire BY <2>5 DEF CancelSend
        <5>2. LateCancel \in LineType BY LineKinds
        <5> QED BY <5>1, <5>2, QueueLineType DEF ClientType
      <4> QED BY <2>5, <4>1 DEF CancelSend, ClientType
    <3>3. FlagType' /\ RuntimeType' /\ LoopType' /\ ReportType' /\ AgentType'
      BY <2>5 DEF CancelSend, FlagType, RuntimeType, LoopType, ReportType, AgentType,
          runtimeVars, loopVars, agentVars
    <3> QED BY <3>1, <3>2, <3>3
  <2>6. CASE ClearQueued
    <3>1. RuntimeType' BY <2>6, KeptSeq DEF ClearQueued, RuntimeType, loopVars, clientVars,
        agentVars
    <3>2. ThreadType' BY <2>6 DEF ClearQueued, ThreadType, Drop, Threads, loopVars, clientVars,
        agentVars
    <3>3. FlagType' /\ LoopType' /\ ReportType' /\ ClientType' /\ AgentType'
      BY <2>6 DEF ClearQueued, FlagType, LoopType, ReportType, ClientType, AgentType, loopVars,
          clientVars, agentVars
    <3> QED BY <3>1, <3>2, <3>3
  <2>7. CASE Interrupt
    <3>1. FlagType' BY <2>7 DEF Interrupt, FlagType, loopVars, agentVars
    <3>2. ClientType'
      <4>1. wire' \in Seq(LineType)
        <5>1. QueueLine(HeldCancel) \/ UNCHANGED wire BY <2>7 DEF Interrupt
        <5>2. HeldCancel \in LineType BY LineKinds
        <5> QED BY <5>1, <5>2, QueueLineType DEF ClientType
      <4> QED BY <2>7, <4>1 DEF Interrupt, ClientType
    <3>3. RuntimeType' /\ ThreadType' /\ LoopType' /\ ReportType' /\ AgentType'
      BY <2>7 DEF Interrupt, RuntimeType, ThreadType, LoopType, ReportType, AgentType, loopVars,
          agentVars
    <3> QED BY <3>1, <3>2, <3>3
  <2>8. CASE RewindBegin
    <3>1. FlagType' BY <2>8 DEF RewindBegin, FlagType, loopVars, clientVars, agentVars
    <3>2. RuntimeType' /\ ThreadType' /\ LoopType' /\ ReportType' /\ ClientType' /\ AgentType'
      BY <2>8 DEF RewindBegin, RuntimeType, ThreadType, LoopType, ReportType, ClientType,
          AgentType, loopVars, clientVars, agentVars
    <3> QED BY <3>1, <3>2
  <2>9. CASE RewindEnd
    <3>1. FlagType' BY <2>9 DEF RewindEnd, FlagType, WakeLoop, loopVars, clientVars, agentVars
    <3>2. RuntimeType' /\ ThreadType' /\ LoopType' /\ ReportType' /\ ClientType' /\ AgentType'
      BY <2>9 DEF RewindEnd, RuntimeType, ThreadType, LoopType, ReportType, ClientType,
          AgentType, loopVars, clientVars, agentVars
    <3> QED BY <3>1, <3>2
  <2>10. CASE Close
    <3>1. FlagType' BY <2>10 DEF Close, FlagType, FinishLocked, loopVars, clientVars, agentVars
    <3>2. RuntimeType'
      BY <2>10, EndType DEF Close, Phases
    <3>3. ThreadType' BY <2>10 DEF Close, ThreadType, Goto, FinishLocked, DropQueue, Drop,
        Threads, Labels, loopVars, clientVars, agentVars
    <3>4. LoopType' /\ ReportType' /\ ClientType' /\ AgentType' BY <2>10 DEF Close, LoopType,
        ReportType, ClientType, AgentType, loopVars, clientVars, agentVars, FinishLocked
    <3> QED BY <3>1, <3>2, <3>3, <3>4
  <2>11. CASE CloseFinish
    <3>1. FlagType' BY <2>11 DEF CloseFinish, FlagType, FinishTail, loopVars, clientVars, agentVars
    <3>2. ThreadType' BY <2>11 DEF CloseFinish, ThreadType, Goto, FinishTail, Threads, Labels,
        loopVars, clientVars, agentVars
    <3>3. RuntimeType' /\ LoopType' /\ ReportType' /\ ClientType' /\ AgentType'
      BY <2>11 DEF CloseFinish, RuntimeType, LoopType, ReportType, ClientType, AgentType,
          loopVars, clientVars, agentVars, FinishTail
    <3> QED BY <3>1, <3>2, <3>3
  <2>12. CASE CloseReturn
    <3>1. ThreadType' BY <2>12 DEF CloseReturn, ThreadType, Goto, Threads, Labels, runtimeVars,
        loopVars, clientVars, agentVars
    <3>2. FlagType' /\ RuntimeType' /\ LoopType' /\ ReportType' /\ ClientType' /\ AgentType'
      BY <2>12 DEF CloseReturn, FlagType, RuntimeType, LoopType, ReportType, ClientType,
          AgentType, runtimeVars, loopVars, clientVars, agentVars
    <3> QED BY <3>1, <3>2
  <2>13. CASE Watch
    <3>1. FlagType' BY <2>13 DEF Watch, FlagType, FinishLocked, loopVars, clientVars, agentVars
    <3>2. RuntimeType'
      BY <2>13, EndType DEF Watch, Phases
    <3>3. ThreadType' BY <2>13 DEF Watch, ThreadType, Goto, FinishLocked, DropQueue, Drop,
        Threads, Labels, loopVars, clientVars, agentVars
    <3>4. LoopType' /\ ReportType' /\ ClientType' /\ AgentType' BY <2>13 DEF Watch, LoopType,
        ReportType, ClientType, AgentType, loopVars, clientVars, agentVars, FinishLocked
    <3> QED BY <3>1, <3>2, <3>3, <3>4
  <2>14. CASE WatchFinish
    <3>1. FlagType' BY <2>14 DEF WatchFinish, FlagType, FinishTail, loopVars, clientVars, agentVars
    <3>2. ThreadType' BY <2>14 DEF WatchFinish, ThreadType, Goto, FinishTail, Threads, Labels,
        loopVars, clientVars, agentVars
    <3>3. RuntimeType' /\ LoopType' /\ ReportType' /\ ClientType' /\ AgentType'
      BY <2>14 DEF WatchFinish, RuntimeType, LoopType, ReportType, ClientType, AgentType,
          loopVars, clientVars, agentVars, FinishTail
    <3> QED BY <3>1, <3>2, <3>3
  <2>15. CASE WatchDone
    <3>1. ThreadType' BY <2>15 DEF WatchDone, ThreadType, Goto, Threads, Labels, runtimeVars,
        loopVars, clientVars, agentVars
    <3>2. FlagType' /\ RuntimeType' /\ LoopType' /\ ReportType' /\ ClientType' /\ AgentType'
      BY <2>15 DEF WatchDone, FlagType, RuntimeType, LoopType, ReportType, ClientType, AgentType,
          runtimeVars, loopVars, clientVars, agentVars
    <3> QED BY <3>1, <3>2
  <2>16. CASE OwnerEnds
    <3>1. FlagType' BY <2>16 DEF OwnerEnds, FlagType, loopVars, clientVars, agentVars
    <3>2. RuntimeType' /\ ThreadType' /\ LoopType' /\ ReportType' /\ ClientType' /\ AgentType'
      BY <2>16 DEF OwnerEnds, RuntimeType, ThreadType, LoopType, ReportType, ClientType,
          AgentType, loopVars, clientVars, agentVars
    <3> QED BY <3>1, <3>2
  <2>17. CASE Launch
    <3>1. RuntimeType' BY <2>17 DEF Launch, RuntimeType, LaunchedPhase, Phases, loopVars,
        clientVars, agentVars
    <3>2. ThreadType' BY <2>17 DEF Launch, ThreadType, Goto, Threads, Labels, loopVars,
        clientVars, agentVars
    <3>3. FlagType' /\ LoopType' /\ ReportType' /\ ClientType' /\ AgentType' BY <2>17 DEF Launch,
        FlagType, LoopType, ReportType, ClientType, AgentType, loopVars, clientVars, agentVars
    <3> QED BY <3>1, <3>2, <3>3
  <2>18. ASSUME NEW e \in Errors, LaunchFails(e) PROVE TypeOK'
    <3>1. FlagType' BY <2>18 DEF LaunchFails, FlagType, SetPhase, runtimeVars, loopVars,
        clientVars, agentVars
    <3>2. RuntimeType'
      <4>1. SetPhase(FailPhase(e)) \/ UNCHANGED runtimeVars BY <2>18 DEF LaunchFails
      <4> QED BY <4>1, FailPhaseType, EndType DEF runtimeVars, RuntimeType
    <3>3. ThreadType'
      <4>1. Drop("loop", ToSet(queue)) \/ UNCHANGED lost BY <2>18 DEF LaunchFails, SetPhase,
          DropQueue
      <4>2. lost' \in [Threads -> SUBSET Tagged] BY <4>1, DropType DEF ThreadType, Threads
      <4>3. Goto("loop", "setting") \/ Goto("loop", "teardown") BY <2>18 DEF LaunchFails
      <4>4. pc' \in [Threads -> Labels] BY <4>3 DEF Goto, ThreadType, Labels
      <4> QED BY <4>2, <4>4 DEF ThreadType
    <3>4. LoopType' /\ ReportType' /\ ClientType' /\ AgentType' BY <2>18 DEF LaunchFails,
        LoopType, ReportType, ClientType, AgentType, runtimeVars, loopVars, clientVars,
        agentVars, SetPhase
    <3> QED BY <3>1, <3>2, <3>3, <3>4
  <2>19. CASE Pop
    <3>1. FlagType' BY <2>19 DEF Pop, FlagType, MarkTurn, clientVars, agentVars
    <3>2. RuntimeType' BY <2>19 DEF Pop, RuntimeType, CanPop, clientVars, agentVars
    <3>3. ThreadType' BY <2>19 DEF Pop, ThreadType, Goto, Threads, Labels, clientVars, agentVars
    <3>4. LoopType' BY <2>19 DEF Pop, LoopType, RuntimeType, CanPop, clientVars, agentVars
    <3>5. ReportType' /\ ClientType' /\ AgentType' BY <2>19 DEF Pop, ReportType, ClientType,
        AgentType, clientVars, agentVars
    <3> QED BY <3>1, <3>2, <3>3, <3>4, <3>5
  <2>20. CASE PopNothing
    <3>1. ThreadType' BY <2>20 DEF PopNothing, ThreadType, Goto, Threads, Labels, runtimeVars,
        loopVars, clientVars, agentVars
    <3>2. FlagType' /\ RuntimeType' /\ LoopType' /\ ReportType' /\ ClientType' /\ AgentType'
      BY <2>20 DEF PopNothing, FlagType, RuntimeType, LoopType, ReportType, ClientType,
          AgentType, runtimeVars, loopVars, clientVars, agentVars
    <3> QED BY <3>1, <3>2
  <2>21. CASE SelectWake
    <3>1. FlagType' BY <2>21 DEF SelectWake, FlagType, loopVars, clientVars, agentVars
    <3>2. ThreadType' BY <2>21 DEF SelectWake, ThreadType, Goto, Threads, Labels, loopVars,
        clientVars, agentVars
    <3>3. RuntimeType' /\ LoopType' /\ ReportType' /\ ClientType' /\ AgentType'
      BY <2>21 DEF SelectWake, RuntimeType, LoopType, ReportType, ClientType, AgentType,
          loopVars, clientVars, agentVars
    <3> QED BY <3>1, <3>2, <3>3
  <2>22. CASE SelectExit
    <3>1. FlagType' BY <2>22 DEF SelectExit, FlagType, SetPhase, loopVars, clientVars, agentVars
    <3>2. RuntimeType'
      BY <2>22, EndType DEF SelectExit, Phases
    <3>3. ThreadType' BY <2>22 DEF SelectExit, ThreadType, Goto, SetPhase, DropQueue, Drop,
        Threads, Labels, loopVars, clientVars, agentVars
    <3>4. LoopType' /\ ReportType' /\ ClientType' /\ AgentType' BY <2>22 DEF SelectExit,
        LoopType, ReportType, ClientType, AgentType, loopVars, clientVars, agentVars, SetPhase
    <3> QED BY <3>1, <3>2, <3>3, <3>4
  <2>23. CASE SelectCtx
    <3>1. ThreadType' BY <2>23 DEF SelectCtx, ThreadType, Goto, Threads, Labels, runtimeVars,
        loopVars, clientVars, agentVars
    <3>2. FlagType' /\ RuntimeType' /\ LoopType' /\ ReportType' /\ ClientType' /\ AgentType'
      BY <2>23 DEF SelectCtx, FlagType, RuntimeType, LoopType, ReportType, ClientType, AgentType,
          runtimeVars, loopVars, clientVars, agentVars
    <3> QED BY <3>1, <3>2
  <2>24. CASE Begin
    <3>1. ThreadType' BY <2>24 DEF Begin, ThreadType, Goto, Threads, Labels, runtimeVars,
        loopVars, clientVars, agentVars
    <3>2. ReportType'
      <4>1. used' \subseteq Prompts BY <2>24 DEF Begin, ReportType
      <4> QED BY <2>24, <4>1, TellType DEF Begin, ReportType
    <3>3. FlagType' /\ RuntimeType' /\ LoopType' /\ ClientType' /\ AgentType' BY <2>24 DEF Begin,
        FlagType, RuntimeType, LoopType, ClientType, AgentType, runtimeVars, loopVars,
        clientVars, agentVars
    <3> QED BY <3>1, <3>2, <3>3
  <2>25. CASE SendPrompt
    <3>1. ThreadType' BY <2>25 DEF SendPrompt, ThreadType, Goto, Threads, Labels, runtimeVars,
        agentVars
    <3>2. LoopType' BY <2>25 DEF SendPrompt, LoopType, Errors, runtimeVars, agentVars
    <3>3. ClientType'
      <4>1. wire' \in Seq(LineType)
        <5>1. QueueLine(PromptLine(cur)) \/ UNCHANGED wire BY <2>25 DEF SendPrompt
        <5>2. PromptLine(cur) \in LineType BY LineKinds DEF LoopType
        <5> QED BY <5>1, <5>2, QueueLineType DEF ClientType
      <4> QED BY <2>25, <4>1 DEF SendPrompt, ClientType
    <3>4. FlagType' /\ RuntimeType' /\ ReportType' /\ AgentType' BY <2>25 DEF SendPrompt,
        FlagType, RuntimeType, ReportType, AgentType, runtimeVars, agentVars
    <3> QED BY <3>1, <3>2, <3>3, <3>4
  <2>26. ASSUME NEW r \in Stops \cup Errors, Wait(r) PROVE TypeOK'
    <3>1. ThreadType' BY <2>26 DEF Wait, ThreadType, Goto, Threads, Labels, runtimeVars, agentVars
    <3>2. LoopType' BY <2>26 DEF Wait, LoopType, runtimeVars, agentVars
    <3>3. ClientType' BY <2>26 DEF Wait, ClientType, runtimeVars, agentVars
    <3>4. FlagType' /\ RuntimeType' /\ ReportType' /\ AgentType' BY <2>26 DEF Wait, FlagType,
        RuntimeType, ReportType, AgentType, runtimeVars, agentVars
    <3> QED BY <3>1, <3>2, <3>3, <3>4
  <2>27. CASE Settle
    <3>1. FlagType' BY <2>27 DEF Settle, FlagType, clientVars, agentVars
    <3>2. ThreadType' BY <2>27 DEF Settle, ThreadType, Goto, Threads, Labels, clientVars, agentVars
    <3>3. RuntimeType' /\ LoopType' /\ ReportType' /\ ClientType' /\ AgentType'
      BY <2>27 DEF Settle, RuntimeType, LoopType, ReportType, ClientType, AgentType, clientVars,
          agentVars
    <3> QED BY <3>1, <3>2, <3>3
  <2>28. CASE Report
    <3>1. FlagType' BY <2>28 DEF Report, FlagType, runtimeVars, clientVars, agentVars
    <3>2. ThreadType' BY <2>28 DEF Report, ThreadType, Goto, AfterTurn, Threads, Labels,
        runtimeVars, clientVars, agentVars
    <3>3. LoopType' BY <2>28 DEF Report, LoopType, runtimeVars, clientVars, agentVars
    <3>4. ReportType'
      <4>1. used' \subseteq Prompts BY <2>28 DEF Report, ReportType
      <4>2. Tell(cur, "ended") \/ Tell(cur, "lost") BY <2>28 DEF Report
      <4> QED BY <4>1, <4>2, TellType DEF ReportType
    <3>5. RuntimeType' /\ ClientType' /\ AgentType' BY <2>28 DEF Report, RuntimeType, ClientType,
        AgentType, runtimeVars, clientVars, agentVars
    <3> QED BY <3>1, <3>2, <3>3, <3>4, <3>5
  <2>29. CASE Fail
    <3>1. FlagType' BY <2>29 DEF Fail, FlagType, SetPhase, runtimeVars, clientVars, agentVars
    <3>2. RuntimeType'
      <4>1. SetPhase(FailPhase(result)) \/ UNCHANGED runtimeVars BY <2>29 DEF Fail
      <4> QED BY <4>1, FailPhaseType, EndType DEF runtimeVars, RuntimeType
    <3>3. ThreadType'
      <4>1. Drop("loop", ToSet(queue)) \/ UNCHANGED lost BY <2>29 DEF Fail, SetPhase, DropQueue
      <4>2. lost' \in [Threads -> SUBSET Tagged] BY <4>1, DropType DEF ThreadType, Threads
      <4>3. Goto("loop", "setting") \/ Goto("loop", "teardown") BY <2>29 DEF Fail
      <4>4. pc' \in [Threads -> Labels] BY <4>3 DEF Goto, ThreadType, Labels
      <4> QED BY <4>2, <4>4 DEF ThreadType
    <3>4. LoopType' BY <2>29 DEF Fail, LoopType, runtimeVars, clientVars, agentVars
    <3>5. ReportType' /\ ClientType' /\ AgentType' BY <2>29 DEF Fail, ReportType, ClientType,
        AgentType, runtimeVars, clientVars, agentVars, SetPhase
    <3> QED BY <3>1, <3>2, <3>3, <3>4, <3>5
  <2>30. CASE SetDone
    <3>1. ThreadType' BY <2>30 DEF SetDone, ThreadType, Goto, Threads, Labels, runtimeVars,
        loopVars, clientVars, agentVars
    <3>2. FlagType' /\ RuntimeType' /\ LoopType' /\ ReportType' /\ ClientType' /\ AgentType'
      BY <2>30 DEF SetDone, FlagType, RuntimeType, LoopType, ReportType, ClientType, AgentType,
          runtimeVars, loopVars, clientVars, agentVars
    <3> QED BY <3>1, <3>2
  <2>31. CASE Teardown
    <3>1. FlagType' BY <2>31 DEF Teardown, FlagType, FinishLocked, loopVars, clientVars, agentVars
    <3>2. RuntimeType'
      <4>1. (IF Live THEN "closed" ELSE phase) \in Phases BY DEF RuntimeType, Phases
      <4> QED BY <2>31, <4>1, EndType DEF Teardown
    <3>3. ThreadType' BY <2>31 DEF Teardown, ThreadType, Goto, FinishLocked, DropQueue, Drop,
        Threads, Labels, loopVars, clientVars, agentVars
    <3>4. LoopType' /\ ReportType' /\ ClientType' /\ AgentType' BY <2>31 DEF Teardown, LoopType,
        ReportType, ClientType, AgentType, loopVars, clientVars, agentVars, FinishLocked
    <3> QED BY <3>1, <3>2, <3>3, <3>4
  <2>32. CASE TeardownFinish
    <3>1. FlagType' BY <2>32 DEF TeardownFinish, FlagType, FinishTail, loopVars, clientVars,
        agentVars
    <3>2. ThreadType' BY <2>32 DEF TeardownFinish, ThreadType, Goto, FinishTail, Threads, Labels,
        loopVars, clientVars, agentVars
    <3>3. RuntimeType' /\ LoopType' /\ ReportType' /\ ClientType' /\ AgentType'
      BY <2>32 DEF TeardownFinish, RuntimeType, LoopType, ReportType, ClientType, AgentType,
          loopVars, clientVars, agentVars, FinishTail
    <3> QED BY <3>1, <3>2, <3>3
  <2>33. CASE TeardownClient
    <3>1. FlagType' BY <2>33 DEF TeardownClient, FlagType, runtimeVars, loopVars
    <3>2. ThreadType' BY <2>33 DEF TeardownClient, ThreadType, Goto, Threads, Labels,
        runtimeVars, loopVars
    <3>3. ClientType' BY <2>33 DEF TeardownClient, ClientType, runtimeVars, loopVars
    <3>4. AgentType' BY <2>33 DEF TeardownClient, AgentType, NoCancel, LineType, runtimeVars,
        loopVars
    <3>5. RuntimeType' /\ LoopType' /\ ReportType' BY <2>33 DEF TeardownClient, RuntimeType,
        LoopType, ReportType, runtimeVars, loopVars
    <3> QED BY <3>1, <3>2, <3>3, <3>4, <3>5
  <2>34. CASE AgentReads
    <3>1. ClientType' BY <2>34 DEF AgentReads, ClientType, runtimeVars, loopVars
    <3>2. AgentType'
      <4>1. Head(wire) \in LineType BY <2>34 DEF AgentReads, ClientType
      <4>2. Head(wire).of \in Prompts \cup {None} BY <4>1 DEF LineType
      <4> QED BY <2>34, <4>1, <4>2, LineKinds DEF AgentReads, AgentType
    <3>3. FlagType' /\ RuntimeType' /\ ThreadType' /\ LoopType' /\ ReportType'
      BY <2>34 DEF AgentReads, FlagType, RuntimeType, ThreadType, LoopType, ReportType,
          runtimeVars, loopVars
    <3> QED BY <3>1, <3>2, <3>3
  <2>35. ASSUME NEW r \in Stops \cup Errors, AgentAnswers(r) PROVE TypeOK'
    <3>1. ClientType' BY <2>35 DEF AgentAnswers, ClientType, runtimeVars, loopVars
    <3>2. AgentType' BY <2>35 DEF AgentAnswers, AgentType, NoCancel, LineType, runtimeVars, loopVars
    <3>3. FlagType' /\ RuntimeType' /\ ThreadType' /\ LoopType' /\ ReportType'
      BY <2>35 DEF AgentAnswers, FlagType, RuntimeType, ThreadType, LoopType, ReportType,
          runtimeVars, loopVars
    <3> QED BY <3>1, <3>2, <3>3
  <2>36. CASE OutputEnds
    <3>1. FlagType' BY <2>36 DEF OutputEnds, FlagType, runtimeVars, loopVars
    <3>2. ClientType' BY <2>36 DEF OutputEnds, ClientType, Errors, runtimeVars, loopVars
    <3>3. AgentType' BY <2>36 DEF OutputEnds, AgentType, NoCancel, LineType, runtimeVars, loopVars
    <3>4. RuntimeType' /\ ThreadType' /\ LoopType' /\ ReportType' BY <2>36 DEF OutputEnds,
        RuntimeType, ThreadType, LoopType, ReportType, runtimeVars, loopVars
    <3> QED BY <3>1, <3>2, <3>3, <3>4
  <2>37. CASE LineTooLong
    <3>1. FlagType' BY <2>37 DEF LineTooLong, FlagType, runtimeVars, loopVars, agentVars
    <3>2. ClientType' BY <2>37 DEF LineTooLong, ClientType, Errors, runtimeVars, loopVars, agentVars
    <3>3. RuntimeType' /\ ThreadType' /\ LoopType' /\ ReportType' /\ AgentType'
      BY <2>37 DEF LineTooLong, RuntimeType, ThreadType, LoopType, ReportType, AgentType,
          runtimeVars, loopVars, agentVars
    <3> QED BY <3>1, <3>2, <3>3
  <2>38. CASE LineTooLongClose
    <3>1. FlagType' BY <2>38 DEF LineTooLongClose, FlagType, runtimeVars, loopVars, agentVars
    <3>2. RuntimeType' /\ ThreadType' /\ LoopType' /\ ReportType' /\ ClientType' /\ AgentType'
      BY <2>38 DEF LineTooLongClose, RuntimeType, ThreadType, LoopType, ReportType, ClientType,
          AgentType, runtimeVars, loopVars, agentVars
    <3> QED BY <3>1, <3>2
  <2>39. ASSUME NEW t \in Threads, NEW p \in Prompts, Lose(t, p) PROVE TypeOK'
    <3>1. ThreadType' BY <2>39 DEF Lose, ThreadType, runtimeVars, loopVars, clientVars, agentVars
    <3>2. ReportType' BY <2>39 DEF Lose, ReportType, Tell, runtimeVars, loopVars, clientVars,
        agentVars
    <3>3. FlagType' /\ RuntimeType' /\ LoopType' /\ ClientType' /\ AgentType' BY <2>39 DEF Lose,
        FlagType, RuntimeType, LoopType, ClientType, AgentType, runtimeVars, loopVars,
        clientVars, agentVars
    <3> QED BY <3>1, <3>2, <3>3
  <2>40. CASE UNCHANGED vars
    BY <2>40 DEF vars, FlagType, RuntimeType, ThreadType, LoopType, ReportType, ClientType,
        AgentType, runtimeVars, loopVars, clientVars, agentVars
  <2> QED
    BY <2>1, <2>2, <2>3, <2>4, <2>5, <2>6, <2>7, <2>8, <2>9, <2>10, <2>11, <2>12, <2>13, <2>14,
        <2>15, <2>16, <2>17, <2>18, <2>19, <2>20, <2>21, <2>22, <2>23, <2>24, <2>25, <2>26,
        <2>27, <2>28, <2>29, <2>30, <2>31, <2>32, <2>33, <2>34, <2>35, <2>36, <2>37, <2>38,
        <2>39, <2>40
    DEF Next, Calls, Ending, Loop, Agent
<1> QED BY <1>1, <1>2, PTL DEF Spec

\* The loop's variables agree with where it is, in every reachable state.
THEOREM LoopCorrect == Spec => []LoopInv
<1>1. Init => LoopInv
  BY DEF Init, LoopInv, Threads
<1>2. TypeOK /\ LoopInv /\ [Next]_vars => LoopInv'
  <2> SUFFICES ASSUME TypeOK, LoopInv, [Next]_vars PROVE LoopInv'
    OBVIOUS
  <2> pc \in [Threads -> Labels] /\ "loop" \in Threads /\ \A t \in Cancellers : t \in Threads /\ t # "loop"
    BY CancellersAssumption DEF TypeOK, ThreadType, Threads
  <2>1. ASSUME NEW p \in Prompts, Send(p) PROVE LoopInv'
    BY <2>1 DEF Send, loopVars, clientVars, agentVars, LoopInv
  <2>2. ASSUME NEW p \in Prompts, SendNow(p) PROVE LoopInv'
    BY <2>2 DEF SendNow, loopVars, agentVars, LoopInv
  <2>3. ASSUME NEW p \in Prompts, RemoveQueued(p) PROVE LoopInv'
    BY <2>3 DEF RemoveQueued, loopVars, clientVars, agentVars, LoopInv
  <2>4. ASSUME NEW t \in Cancellers, Cancel(t) PROVE LoopInv'
    BY <2>4 DEF Cancel, Goto, loopVars, clientVars, agentVars, LoopInv
  <2>5. ASSUME NEW t \in Cancellers, CancelSend(t) PROVE LoopInv'
    BY <2>5 DEF CancelSend, Goto, runtimeVars, loopVars, agentVars, LoopInv
  <2>6. CASE ClearQueued
    BY <2>6 DEF ClearQueued, loopVars, clientVars, agentVars, LoopInv
  <2>7. CASE Interrupt
    BY <2>7 DEF Interrupt, loopVars, agentVars, LoopInv
  <2>8. CASE RewindBegin
    BY <2>8 DEF RewindBegin, loopVars, clientVars, agentVars, LoopInv
  <2>9. CASE RewindEnd
    BY <2>9 DEF RewindEnd, loopVars, clientVars, agentVars, LoopInv
  <2>10. CASE Close
    BY <2>10 DEF Close, FinishLocked, Goto, loopVars, clientVars, agentVars, LoopInv
  <2>11. CASE CloseFinish
    BY <2>11 DEF CloseFinish, FinishTail, Goto, loopVars, clientVars, agentVars, LoopInv
  <2>12. CASE CloseReturn
    BY <2>12 DEF CloseReturn, Goto, runtimeVars, loopVars, clientVars, agentVars, LoopInv
  <2>13. CASE Watch
    BY <2>13 DEF Watch, FinishLocked, Goto, loopVars, clientVars, agentVars, LoopInv
  <2>14. CASE WatchFinish
    BY <2>14 DEF WatchFinish, FinishTail, Goto, loopVars, clientVars, agentVars, LoopInv
  <2>15. CASE WatchDone
    BY <2>15 DEF WatchDone, Goto, runtimeVars, loopVars, clientVars, agentVars, LoopInv
  <2>16. CASE OwnerEnds
    BY <2>16 DEF OwnerEnds, loopVars, clientVars, agentVars, LoopInv
  <2>17. CASE Launch
    BY <2>17 DEF Launch, Goto, loopVars, clientVars, agentVars, LoopInv
  <2>18. ASSUME NEW e \in Errors, LaunchFails(e) PROVE LoopInv'
    BY <2>18 DEF LaunchFails, SetPhase, Goto, runtimeVars, loopVars, clientVars, agentVars, LoopInv
  <2>19. CASE Pop
    <3>1. Head(queue) \in Prompts BY <2>19 DEF Pop, CanPop, TypeOK, RuntimeType
    <3> QED BY <2>19, <3>1, KindsAssumption DEF Pop, MarkTurn, Goto, LoopInv
  <2>20. CASE PopNothing
    BY <2>20 DEF PopNothing, Goto, runtimeVars, loopVars, clientVars, agentVars, LoopInv
  <2>21. CASE SelectWake
    BY <2>21 DEF SelectWake, Goto, loopVars, clientVars, agentVars, LoopInv
  <2>22. CASE SelectExit
    BY <2>22 DEF SelectExit, SetPhase, Goto, loopVars, clientVars, agentVars, LoopInv
  <2>23. CASE SelectCtx
    BY <2>23 DEF SelectCtx, Goto, runtimeVars, loopVars, clientVars, agentVars, LoopInv
  <2>24. CASE Begin
    BY <2>24 DEF Begin, Goto, runtimeVars, loopVars, clientVars, agentVars, LoopInv
  <2>25. CASE SendPrompt
    BY <2>25 DEF SendPrompt, Goto, runtimeVars, agentVars, LoopInv
  <2>26. ASSUME NEW r \in Stops \cup Errors, Wait(r) PROVE LoopInv'
    BY <2>26 DEF Wait, Goto, runtimeVars, agentVars, LoopInv
  <2>27. CASE Settle
    BY <2>27 DEF Settle, Goto, clientVars, agentVars, LoopInv
  <2>28. CASE Report
    BY <2>28 DEF Report, AfterTurn, Goto, runtimeVars, clientVars, agentVars, LoopInv
  <2>29. CASE Fail
    BY <2>29 DEF Fail, SetPhase, Goto, runtimeVars, clientVars, agentVars, LoopInv
  <2>30. CASE SetDone
    BY <2>30 DEF SetDone, Goto, runtimeVars, loopVars, clientVars, agentVars, LoopInv
  <2>31. CASE Teardown
    BY <2>31 DEF Teardown, FinishLocked, Goto, loopVars, clientVars, agentVars, LoopInv
  <2>32. CASE TeardownFinish
    BY <2>32 DEF TeardownFinish, FinishTail, Goto, loopVars, clientVars, agentVars, LoopInv
  <2>33. CASE TeardownClient
    BY <2>33 DEF TeardownClient, Goto, runtimeVars, loopVars, LoopInv
  <2>34. CASE AgentReads
    BY <2>34 DEF AgentReads, runtimeVars, loopVars, LoopInv
  <2>35. ASSUME NEW r \in Stops \cup Errors, AgentAnswers(r) PROVE LoopInv'
    BY <2>35 DEF AgentAnswers, runtimeVars, loopVars, LoopInv
  <2>36. CASE OutputEnds
    BY <2>36 DEF OutputEnds, runtimeVars, loopVars, LoopInv
  <2>37. CASE LineTooLong
    BY <2>37 DEF LineTooLong, runtimeVars, loopVars, agentVars, LoopInv
  <2>38. CASE LineTooLongClose
    BY <2>38 DEF LineTooLongClose, runtimeVars, loopVars, agentVars, LoopInv
  <2>39. ASSUME NEW t \in Threads, NEW p \in Prompts, Lose(t, p) PROVE LoopInv'
    BY <2>39 DEF Lose, runtimeVars, loopVars, clientVars, agentVars, LoopInv
  <2>40. CASE UNCHANGED vars
    BY <2>40 DEF vars, runtimeVars, loopVars, clientVars, agentVars, LoopInv
  <2> QED
    BY <2>1, <2>2, <2>3, <2>4, <2>5, <2>6, <2>7, <2>8, <2>9, <2>10, <2>11, <2>12, <2>13, <2>14,
        <2>15, <2>16, <2>17, <2>18, <2>19, <2>20, <2>21, <2>22, <2>23, <2>24, <2>25, <2>26,
        <2>27, <2>28, <2>29, <2>30, <2>31, <2>32, <2>33, <2>34, <2>35, <2>36, <2>37, <2>38,
        <2>39, <2>40
    DEF Next, Calls, Ending, Loop, Agent
<1> QED BY <1>1, <1>2, TypeCorrect, PTL DEF Spec

\* Every step of an ending stays done, whatever Close, the watcher and the loop's
\* teardown do in between.
THEOREM EndCorrect == Spec => []EndInv
<1>1. Init => EndInv
  BY DEF Init, EndInv, Live, Threads
<1>2. TypeOK /\ EndInv /\ [Next]_vars => EndInv'
  <2> SUFFICES ASSUME TypeOK, EndInv, [Next]_vars PROVE EndInv'
    OBVIOUS
  <2> /\ pc \in [Threads -> Labels] /\ {"loop", "close", "watch"} \subseteq Threads
      /\ \A t \in Cancellers : t \in Threads /\ t \notin {"loop", "close"}
    BY CancellersAssumption DEF TypeOK, ThreadType, Threads
  <2> /\ queue \in Seq(Prompts) /\ closed \in BOOLEAN /\ shellOpen \in BOOLEAN
    BY DEF TypeOK, RuntimeType, FlagType
  <2>1. ASSUME NEW p \in Prompts, Send(p) PROVE EndInv'
    BY <2>1 DEF Send, loopVars, clientVars, agentVars, Live, EndInv
  <2>2. ASSUME NEW p \in Prompts, SendNow(p) PROVE EndInv'
    <3>1. queue # <<>> BY <2>2 DEF SendNow, ToSet
    <3> QED BY <2>2, <3>1 DEF SendNow, loopVars, agentVars, Live, EndInv
  <2>3. ASSUME NEW p \in Prompts, RemoveQueued(p) PROVE EndInv'
    <3>1. queue # <<>> BY <2>3 DEF RemoveQueued, ToSet
    <3> QED BY <2>3, <3>1 DEF RemoveQueued, loopVars, clientVars, agentVars, Live, EndInv
  <2>4. ASSUME NEW t \in Cancellers, Cancel(t) PROVE EndInv'
    BY <2>4 DEF Cancel, DropQueue, Goto, loopVars, clientVars, agentVars, Live, EndInv
  <2>5. ASSUME NEW t \in Cancellers, CancelSend(t) PROVE EndInv'
    BY <2>5 DEF CancelSend, Goto, runtimeVars, loopVars, agentVars, Live, EndInv
  <2>6. CASE ClearQueued
    <3>1. queue # <<>> BY <2>6 DEF ClearQueued, ToSet
    <3> QED BY <2>6, <3>1 DEF ClearQueued, loopVars, clientVars, agentVars, Live, EndInv
  <2>7. CASE Interrupt
    BY <2>7 DEF Interrupt, loopVars, agentVars, Live, EndInv
  <2>8. CASE RewindBegin
    BY <2>8 DEF RewindBegin, loopVars, clientVars, agentVars, Live, EndInv
  <2>9. CASE RewindEnd
    BY <2>9 DEF RewindEnd, loopVars, clientVars, agentVars, Live, EndInv
  <2>10. CASE Close
    BY <2>10 DEF Close, FinishLocked, DropQueue, Goto, loopVars, clientVars, agentVars, Live, EndInv
  <2>11. CASE CloseFinish
    BY <2>11 DEF CloseFinish, FinishTail, Goto, loopVars, clientVars, agentVars, Live, EndInv
  <2>12. CASE CloseReturn
    BY <2>12 DEF CloseReturn, Goto, runtimeVars, loopVars, clientVars, agentVars, Live, EndInv
  <2>13. CASE Watch
    BY <2>13 DEF Watch, FinishLocked, DropQueue, Goto, loopVars, clientVars, agentVars, Live, EndInv
  <2>14. CASE WatchFinish
    BY <2>14 DEF WatchFinish, FinishTail, Goto, loopVars, clientVars, agentVars, Live, EndInv
  <2>15. CASE WatchDone
    BY <2>15 DEF WatchDone, Goto, runtimeVars, loopVars, clientVars, agentVars, Live, EndInv
  <2>16. CASE OwnerEnds
    BY <2>16 DEF OwnerEnds, loopVars, clientVars, agentVars, Live, EndInv
  <2>17. CASE Launch
    BY <2>17 DEF Launch, LaunchedPhase, Goto, loopVars, clientVars, agentVars, Live, EndInv
  <2>18. ASSUME NEW e \in Errors, LaunchFails(e) PROVE EndInv'
    BY <2>18 DEF LaunchFails, SetPhase, DropQueue, Goto, runtimeVars, loopVars, clientVars,
        agentVars, Live, EndInv
  <2>19. CASE Pop
    BY <2>19 DEF Pop, CanPop, MarkTurn, Goto, clientVars, agentVars, Live, EndInv
  <2>20. CASE PopNothing
    BY <2>20 DEF PopNothing, CanPop, Goto, runtimeVars, loopVars, clientVars, agentVars, Live,
        EndInv
  <2>21. CASE SelectWake
    BY <2>21 DEF SelectWake, Goto, loopVars, clientVars, agentVars, Live, EndInv
  <2>22. CASE SelectExit
    BY <2>22 DEF SelectExit, SetPhase, DropQueue, Goto, loopVars, clientVars, agentVars, Live,
        EndInv
  <2>23. CASE SelectCtx
    BY <2>23 DEF SelectCtx, Goto, runtimeVars, loopVars, clientVars, agentVars, Live, EndInv
  <2>24. CASE Begin
    BY <2>24 DEF Begin, Goto, runtimeVars, loopVars, clientVars, agentVars, Live, EndInv
  <2>25. CASE SendPrompt
    BY <2>25 DEF SendPrompt, Goto, runtimeVars, agentVars, Live, EndInv
  <2>26. ASSUME NEW r \in Stops \cup Errors, Wait(r) PROVE EndInv'
    BY <2>26 DEF Wait, Goto, runtimeVars, agentVars, Live, EndInv
  <2>27. CASE Settle
    BY <2>27 DEF Settle, Goto, clientVars, agentVars, Live, EndInv
  <2>28. CASE Report
    BY <2>28 DEF Report, AfterTurn, Goto, runtimeVars, clientVars, agentVars, Live, EndInv
  <2>29. CASE Fail
    BY <2>29 DEF Fail, SetPhase, DropQueue, Goto, runtimeVars, clientVars, agentVars, Live, EndInv
  <2>30. CASE SetDone
    BY <2>30 DEF SetDone, Goto, runtimeVars, loopVars, clientVars, agentVars, Live, EndInv
  <2>31. CASE Teardown
    BY <2>31 DEF Teardown, FinishLocked, DropQueue, Goto, loopVars, clientVars, agentVars, Live,
        EndInv
  <2>32. CASE TeardownFinish
    BY <2>32 DEF TeardownFinish, FinishTail, Goto, loopVars, clientVars, agentVars, Live, EndInv
  <2>33. CASE TeardownClient
    BY <2>33 DEF TeardownClient, Goto, runtimeVars, loopVars, Live, EndInv
  <2>34. CASE AgentReads
    BY <2>34 DEF AgentReads, runtimeVars, loopVars, Live, EndInv
  <2>35. ASSUME NEW r \in Stops \cup Errors, AgentAnswers(r) PROVE EndInv'
    BY <2>35 DEF AgentAnswers, runtimeVars, loopVars, Live, EndInv
  <2>36. CASE OutputEnds
    BY <2>36 DEF OutputEnds, runtimeVars, loopVars, Live, EndInv
  <2>37. CASE LineTooLong
    BY <2>37 DEF LineTooLong, runtimeVars, loopVars, agentVars, Live, EndInv
  <2>38. CASE LineTooLongClose
    BY <2>38 DEF LineTooLongClose, runtimeVars, loopVars, agentVars, Live, EndInv
  <2>39. ASSUME NEW t \in Threads, NEW p \in Prompts, Lose(t, p) PROVE EndInv'
    BY <2>39 DEF Lose, runtimeVars, loopVars, clientVars, agentVars, Live, EndInv
  <2>40. CASE UNCHANGED vars
    BY <2>40 DEF vars, runtimeVars, loopVars, clientVars, agentVars, Live, EndInv
  <2> QED
    BY <2>1, <2>2, <2>3, <2>4, <2>5, <2>6, <2>7, <2>8, <2>9, <2>10, <2>11, <2>12, <2>13, <2>14,
        <2>15, <2>16, <2>17, <2>18, <2>19, <2>20, <2>21, <2>22, <2>23, <2>24, <2>25, <2>26,
        <2>27, <2>28, <2>29, <2>30, <2>31, <2>32, <2>33, <2>34, <2>35, <2>36, <2>37, <2>38,
        <2>39, <2>40
    DEF Next, Calls, Ending, Loop, Agent
<1> QED BY <1>1, <1>2, TypeCorrect, PTL DEF Spec

\* A prompt that waits is in one place of the queue: what an edit of the queue
\* leaves is again a queue without repetition.
LEMMA KeptOnce ==
    ASSUME NEW T, NEW S, NEW q \in Seq(T), IsInjective(q), NEW s \in Kept(q, S)
    PROVE  IsInjective(s)
<1>1. \A i, j \in DOMAIN s : i < j => s[i] # s[j]
  BY DEF Kept, IsInjective
<1>2. s \in Seq(T) BY KeptSeq
<1> QED BY <1>1, <1>2 DEF IsInjective

\* pop takes one prompt off a queue that has each once.
LEMMA PopSeq ==
    ASSUME NEW T, NEW q \in Seq(T), q # <<>>, IsInjective(q)
    PROVE  /\ Head(q) \in ToSet(q) /\ Tail(q) \in Seq(T) /\ IsInjective(Tail(q))
           /\ ToSet(Tail(q)) = ToSet(q) \ {Head(q)}
<1>1. Head(q) = q[1] /\ Tail(q) \in Seq(T) /\ Len(Tail(q)) = Len(q) - 1 /\ Len(q) \in Nat /\ Len(q) # 0
  OBVIOUS
<1>2. \A i \in 1..(Len(q) - 1) : Tail(q)[i] = q[i + 1]
  OBVIOUS
<1>3. DOMAIN q = 1..Len(q) /\ DOMAIN Tail(q) = 1..(Len(q) - 1)
  BY <1>1
<1>4. IsInjective(Tail(q))
  BY <1>1, <1>2, <1>3 DEF IsInjective
<1>5. \A x \in ToSet(Tail(q)) : x \in ToSet(q) /\ x # Head(q)
  BY <1>1, <1>2, <1>3 DEF ToSet, IsInjective
<1>6. \A x \in ToSet(q) \ {Head(q)} : x \in ToSet(Tail(q))
  <2> TAKE x \in ToSet(q) \ {Head(q)}
  <2>1. PICK i \in DOMAIN q : q[i] = x /\ i # 1 BY <1>1 DEF ToSet
  <2>2. i - 1 \in 1..(Len(q) - 1) /\ Tail(q)[i - 1] = x BY <1>1, <1>2, <1>3, <2>1
  <2> QED BY <1>3, <2>2 DEF ToSet
<1>7. Head(q) \in ToSet(q)
  BY <1>1, <1>3 DEF ToSet
<1> QED BY <1>1, <1>4, <1>5, <1>6, <1>7

\* enqueue adds a prompt that was not in the queue.
LEMMA AppendSeq ==
    ASSUME NEW T, NEW q \in Seq(T), IsInjective(q), NEW p \in T, p \notin ToSet(q)
    PROVE  IsInjective(Append(q, p)) /\ ToSet(Append(q, p)) = ToSet(q) \cup {p}
<1>1. Len(Append(q, p)) = Len(q) + 1 /\ Append(q, p)[Len(q) + 1] = p /\ Len(q) \in Nat
      /\ Append(q, p) \in Seq(T)
  OBVIOUS
<1>2. \A i \in 1..Len(q) : Append(q, p)[i] = q[i]
  OBVIOUS
<1>3. DOMAIN q = 1..Len(q) /\ DOMAIN Append(q, p) = 1..(Len(q) + 1)
  BY <1>1
<1>4. IsInjective(Append(q, p))
  BY <1>1, <1>2, <1>3 DEF IsInjective, ToSet
<1>5. ToSet(Append(q, p)) = ToSet(q) \cup {p}
  BY <1>1, <1>2, <1>3 DEF ToSet
<1> QED BY <1>4, <1>5

\* And so does SendNow, at its front.
LEMMA FrontSeq ==
    ASSUME NEW T, NEW q \in Seq(T), IsInjective(q), NEW p \in T, p \notin ToSet(q)
    PROVE  IsInjective(<<p>> \o q) /\ ToSet(<<p>> \o q) = ToSet(q) \cup {p}
<1> DEFINE s == <<p>> \o q
<1>1. s \in Seq(T) /\ Len(s) = Len(q) + 1 /\ Len(q) \in Nat /\ s[1] = p
  OBVIOUS
<1>2. \A i \in 2..(Len(q) + 1) : s[i] = q[i - 1]
  OBVIOUS
<1>3. DOMAIN q = 1..Len(q) /\ DOMAIN s = 1..(Len(q) + 1)
  BY <1>1
<1>4. \A i \in 2..(Len(q) + 1) : s[i] = q[i - 1] /\ i - 1 \in 1..Len(q)
  BY <1>1, <1>2
<1> HIDE DEF s
<1>9. \A i \in DOMAIN s : (i = 1 /\ s[i] = p) \/ (i - 1 \in DOMAIN q /\ s[i] = q[i - 1])
  <2> TAKE i \in DOMAIN s
  <2>1. i = 1 \/ i \in 2..(Len(q) + 1) BY <1>1, <1>3
  <2> QED BY <1>1, <1>3, <1>4, <2>1
<1>10. \A i \in DOMAIN q : q[i] # p
  BY DEF ToSet
<1>5. ASSUME NEW i \in DOMAIN s, NEW j \in DOMAIN s, s[i] = s[j] PROVE i = j
  <2>1. CASE i = 1 BY <1>1, <1>3, <1>9, <1>10, <1>5, <2>1
  <2>2. CASE j = 1 BY <1>1, <1>3, <1>9, <1>10, <1>5, <2>2
  <2>3. CASE i # 1 /\ j # 1
    <3>1. i - 1 \in DOMAIN q /\ j - 1 \in DOMAIN q /\ q[i - 1] = q[j - 1] BY <1>9, <1>5, <2>3
    <3>2. i - 1 = j - 1 BY <3>1 DEF IsInjective
    <3> QED BY <1>3, <3>2
  <2> QED BY <2>1, <2>2, <2>3
<1>6. \A x \in ToSet(q) : x \in ToSet(s)
  <2> TAKE x \in ToSet(q)
  <2>1. PICK i \in DOMAIN q : q[i] = x BY DEF ToSet
  <2>2. i + 1 \in 2..(Len(q) + 1) /\ (i + 1) - 1 = i BY <1>1, <1>3, <2>1
  <2>3. i + 1 \in DOMAIN s /\ s[i + 1] = x BY <1>1, <1>3, <1>4, <2>1, <2>2
  <2> QED BY <2>3 DEF ToSet
<1>7. \A x \in ToSet(s) : x = p \/ x \in ToSet(q)
  <2> TAKE x \in ToSet(s)
  <2>1. PICK i \in DOMAIN s : s[i] = x BY DEF ToSet
  <2> QED BY <1>9, <2>1 DEF ToSet
<1>8. p \in ToSet(s) BY <1>1, <1>3 DEF ToSet
<1> QED BY <1>5, <1>6, <1>7, <1>8 DEF s, IsInjective

\* A step that leaves the prompts where they are.
LEMMA StayPut ==
    ASSUME PromptsInv, IsInjective(queue'), ToSet(queue') = ToSet(queue),
           UNCHANGED <<lost, cur, used, told>>, (pc["loop"] = "begin") <=> (pc'["loop"] = "begin")
    PROVE  PromptsInv'
<1>1. ToSet(queue') \subseteq used' BY DEF PromptsInv
<1>2. ASSUME NEW p \in Tagged
      PROVE  (Unsent(p) \/ Waiting(p) \/ Running(p) \/ Dropped(p) \/ Settled(p))'
  BY DEF PromptsInv, Unsent, Waiting, Running, Dropped, Settled, Nowhere
<1> QED BY <1>1, <1>2 DEF PromptsInv

\* A step that takes S out of the queue and hands its tags to goroutine t.
LEMMA DropStep ==
    ASSUME PromptsInv, lost \in [Threads -> SUBSET Tagged],
           NEW t \in Threads, NEW S, S \subseteq ToSet(queue), Drop(t, S),
           IsInjective(queue'), ToSet(queue') = ToSet(queue) \ S,
           UNCHANGED <<cur, used, told>>, (pc["loop"] = "begin") <=> (pc'["loop"] = "begin")
    PROVE  PromptsInv'
<1>1. ToSet(queue') \subseteq used' BY DEF PromptsInv
<1>2. \A u \in Threads : lost'[u] = IF u = t THEN lost[u] \cup (S \cap Tagged) ELSE lost[u]
  BY DEF Drop
<1>3. ASSUME NEW p \in Tagged
      PROVE  (Unsent(p) \/ Waiting(p) \/ Running(p) \/ Dropped(p) \/ Settled(p))'
  <2>1. CASE p \in S
    <3>1. Waiting(p) BY <2>1 DEF PromptsInv, Unsent, Running, Dropped, Settled, Nowhere
    <3>2. p \in lost'[t] /\ \A u \in Threads \ {t} : p \notin lost'[u]
      BY <1>2, <2>1, <3>1 DEF Waiting
    <3>3. Dropped(p)' BY <2>1, <3>1, <3>2 DEF Waiting, Dropped
    <3> QED BY <3>3
  <2>2. CASE p \notin S
    <3>1. \A u \in Threads : p \in lost'[u] <=> p \in lost[u] BY <1>2, <2>2
    <3>2. p \in ToSet(queue') <=> p \in ToSet(queue) BY <2>2
    <3> QED BY <3>1, <3>2 DEF PromptsInv, Unsent, Waiting, Running, Dropped, Settled, Nowhere
  <2> QED BY <2>1, <2>2
<1> QED BY <1>1, <1>3 DEF PromptsInv

\* An empty queue has no prompt.
LEMMA NoQueue == ToSet(<<>>) = {} /\ IsInjective(<<>>)
BY DEF ToSet, IsInjective

\* OnTurn is told of one prompt at a time.
LEMMA TellOne ==
    ASSUME told \in [Prompts -> Seq({"began", "ended", "lost"})], NEW p, NEW w, Tell(p, w)
    PROVE  \A q \in Tagged : told'[q] = IF q = p THEN Append(told[q], w) ELSE told[q]
BY KindsAssumption DEF Tell

\* Every tagged prompt is in exactly one place, and its sender has been told what
\* belongs to that place.
THEOREM PromptsCorrect == Spec => []PromptsInv
<1>1. Init => PromptsInv
  <2> SUFFICES ASSUME Init PROVE PromptsInv
    OBVIOUS
  <2>1. IsInjective(queue) /\ ToSet(queue) = {} BY NoQueue DEF Init
  <2>2. \A p \in Tagged : Unsent(p) BY <2>1, KindsAssumption DEF Init, Unsent, Nowhere
  <2> QED BY <2>1, <2>2 DEF PromptsInv
<1>2. TypeOK /\ LoopInv /\ PromptsInv /\ [Next]_vars => PromptsInv'
  <2> SUFFICES ASSUME TypeOK, LoopInv, PromptsInv, [Next]_vars PROVE PromptsInv'
    OBVIOUS
  <2>a. /\ pc \in [Threads -> Labels] /\ lost \in [Threads -> SUBSET Tagged]
        /\ {"loop", "close", "watch", "edit"} \subseteq Threads
        /\ \A t \in Cancellers : t \in Threads /\ t # "loop"
    BY CancellersAssumption DEF TypeOK, ThreadType, Threads
  <2>b. queue \in Seq(Prompts) /\ told \in [Prompts -> Seq({"began", "ended", "lost"})]
    BY DEF TypeOK, RuntimeType, ReportType
  <2>c. IsInjective(queue) /\ ToSet(queue) \subseteq used
    BY DEF PromptsInv
  <2>1. ASSUME NEW p \in Prompts, Send(p) PROVE PromptsInv'
    <3>1. queue' = Append(queue, p) /\ used' = used \cup {p} /\ p \notin used BY <2>1 DEF Send
    <3>2. IsInjective(queue') /\ ToSet(queue') = ToSet(queue) \cup {p}
      BY <2>b, <2>c, <3>1, AppendSeq
    <3>3. ASSUME NEW q \in Tagged
          PROVE  (Unsent(q) \/ Waiting(q) \/ Running(q) \/ Dropped(q) \/ Settled(q))'
      <4>1. UNCHANGED <<lost, cur, told, pc>> BY <2>1 DEF Send, loopVars
      <4>2. CASE q = p
        <5>1. Unsent(p) BY <3>1, <4>2 DEF PromptsInv, Waiting, Running, Dropped, Settled
        <5> QED BY <3>1, <3>2, <4>1, <4>2, <5>1 DEF Unsent, Nowhere, Waiting
      <4>3. CASE q # p
        <5>1. (q \in ToSet(queue') <=> q \in ToSet(queue)) /\ (q \in used' <=> q \in used)
          BY <3>1, <3>2, <4>3
        <5> QED BY <4>1, <5>1 DEF PromptsInv, Unsent, Waiting, Running, Dropped, Settled, Nowhere
      <4> QED BY <4>2, <4>3
    <3> QED BY <2>c, <3>1, <3>2, <3>3 DEF PromptsInv
  <2>2. ASSUME NEW p \in Prompts, SendNow(p) PROVE PromptsInv'
    <3>1. PICK rest \in Kept(queue, ToSet(queue) \ {p}) : queue' = <<p>> \o rest
      BY <2>2 DEF SendNow
    <3>2. rest \in Seq(Prompts) /\ IsInjective(rest) /\ ToSet(rest) = ToSet(queue) \ {p}
      BY <2>b, <2>c, KeptSeq, KeptOnce
    <3>3. IsInjective(queue') /\ ToSet(queue') = ToSet(rest) \cup {p}
      BY <3>1, <3>2, FrontSeq
    <3>4. ToSet(queue') = ToSet(queue) BY <2>2, <3>2, <3>3 DEF SendNow
    <3> QED BY <2>2, <3>3, <3>4, StayPut DEF SendNow, loopVars
  <2>3. ASSUME NEW p \in Prompts, RemoveQueued(p) PROVE PromptsInv'
    <3>1. queue' \in Kept(queue, ToSet(queue) \ {p}) /\ p \in ToSet(queue) BY <2>3 DEF RemoveQueued
    <3>2. IsInjective(queue') /\ ToSet(queue') = ToSet(queue) \ {p}
      BY <2>b, <2>c, <3>1, KeptSeq, KeptOnce
    <3>3. Drop("edit", {p}) /\ UNCHANGED <<cur, used, told, pc>> BY <2>3 DEF RemoveQueued, loopVars
    <3> QED BY <2>a, <3>1, <3>2, <3>3, DropStep
  <2>4. ASSUME NEW t \in Cancellers, Cancel(t) PROVE PromptsInv'
    <3>1. queue' = <<>> /\ Drop(t, ToSet(queue)) /\ UNCHANGED <<cur, used, told>>
      BY <2>4 DEF Cancel, DropQueue, loopVars
    <3>2. (pc["loop"] = "begin") <=> (pc'["loop"] = "begin")
      BY <2>4, <2>a DEF Cancel, Goto
    <3> QED BY <2>a, <3>1, <3>2, NoQueue, DropStep
  <2>5. ASSUME NEW t \in Cancellers, CancelSend(t) PROVE PromptsInv'
    BY <2>5, <2>a, <2>c, StayPut DEF CancelSend, Goto, runtimeVars, loopVars, agentVars
  <2>6. CASE ClearQueued
    <3>1. queue' \in Kept(queue, Mail \cup System) BY <2>6 DEF ClearQueued
    <3>2. /\ IsInjective(queue')
          /\ ToSet(queue') = ToSet(queue) \ (ToSet(queue) \ (Mail \cup System))
      BY <2>b, <2>c, <3>1, KeptSeq, KeptOnce
    <3>3. /\ Drop("edit", ToSet(queue) \ (Mail \cup System))
          /\ UNCHANGED <<cur, used, told, pc>>
      BY <2>6 DEF ClearQueued, loopVars
    <3> QED BY <2>a, <3>2, <3>3, DropStep
  <2>7. CASE Interrupt
    BY <2>7, <2>a, <2>c, StayPut DEF Interrupt, loopVars, agentVars
  <2>8. CASE RewindBegin
    BY <2>8, <2>a, <2>c, StayPut DEF RewindBegin, loopVars, clientVars, agentVars
  <2>9. CASE RewindEnd
    BY <2>9, <2>a, <2>c, StayPut DEF RewindEnd, loopVars, clientVars, agentVars
  <2>10. CASE Close
    <3>1. queue' = <<>> /\ Drop("close", ToSet(queue)) /\ UNCHANGED <<cur, used, told>>
      BY <2>10 DEF Close, FinishLocked, DropQueue, loopVars
    <3>2. (pc["loop"] = "begin") <=> (pc'["loop"] = "begin")
      BY <2>10, <2>a DEF Close, Goto
    <3> QED BY <2>a, <3>1, <3>2, NoQueue, DropStep
  <2>11. CASE CloseFinish
    BY <2>11, <2>a, <2>c, StayPut DEF CloseFinish, FinishTail, Goto, loopVars, clientVars, agentVars
  <2>12. CASE CloseReturn
    BY <2>12, <2>a, <2>c, StayPut DEF CloseReturn, Goto, runtimeVars, loopVars, clientVars,
        agentVars
  <2>13. CASE Watch
    <3>1. queue' = <<>> /\ Drop("watch", ToSet(queue)) /\ UNCHANGED <<cur, used, told>>
      BY <2>13 DEF Watch, FinishLocked, DropQueue, loopVars
    <3>2. (pc["loop"] = "begin") <=> (pc'["loop"] = "begin")
      BY <2>13, <2>a DEF Watch, Goto
    <3> QED BY <2>a, <3>1, <3>2, NoQueue, DropStep
  <2>14. CASE WatchFinish
    BY <2>14, <2>a, <2>c, StayPut DEF WatchFinish, FinishTail, Goto, loopVars, clientVars, agentVars
  <2>15. CASE WatchDone
    BY <2>15, <2>a, <2>c, StayPut DEF WatchDone, Goto, runtimeVars, loopVars, clientVars, agentVars
  <2>16. CASE OwnerEnds
    BY <2>16, <2>a, <2>c, StayPut DEF OwnerEnds, loopVars, clientVars, agentVars
  <2>17. CASE Launch
    BY <2>17, <2>a, <2>c, StayPut DEF Launch, Goto, loopVars, clientVars, agentVars
  <2>18. ASSUME NEW e \in Errors, LaunchFails(e) PROVE PromptsInv'
    <3>1. \/ queue' = <<>> /\ Drop("loop", ToSet(queue))
          \/ UNCHANGED <<queue, lost>>
      BY <2>18 DEF LaunchFails, SetPhase, DropQueue, runtimeVars
    <3>2. UNCHANGED <<cur, used, told>> BY <2>18 DEF LaunchFails, loopVars
    <3>3. (pc["loop"] = "begin") <=> (pc'["loop"] = "begin")
      BY <2>18, <2>a DEF LaunchFails, Goto
    <3> QED BY <2>a, <2>c, <3>1, <3>2, <3>3, NoQueue, DropStep, StayPut
  <2>19. CASE Pop
    <3>1. cur' = Head(queue) /\ queue' = Tail(queue) /\ queue # <<>> /\ pc["loop"] = "pop"
      BY <2>19 DEF Pop, CanPop
    <3>2. UNCHANGED <<lost, used, told>> /\ pc'["loop"] = "begin" BY <2>19, <2>a DEF Pop, Goto
    <3>3. /\ Head(queue) \in ToSet(queue) /\ IsInjective(queue')
          /\ ToSet(queue') = ToSet(queue) \ {Head(queue)}
      BY <2>b, <2>c, <3>1, PopSeq
    <3>4. cur = None BY <3>1 DEF LoopInv
    <3>5. ASSUME NEW q \in Tagged
          PROVE  (Unsent(q) \/ Waiting(q) \/ Running(q) \/ Dropped(q) \/ Settled(q))'
      <4>1. q # cur BY <3>4, KindsAssumption
      <4>2. CASE q = Head(queue)
        <5>1. Waiting(q) BY <3>3, <4>2 DEF PromptsInv, Unsent, Running, Dropped, Settled, Nowhere
        <5> QED BY <3>1, <3>2, <3>3, <4>2, <5>1 DEF Waiting, Running
      <4>3. CASE q # Head(queue)
        <5>1. q \in ToSet(queue') <=> q \in ToSet(queue) BY <3>3, <4>3
        <5> QED BY <3>1, <3>2, <4>1, <4>3, <5>1
            DEF PromptsInv, Unsent, Waiting, Running, Dropped, Settled, Nowhere
      <4> QED BY <4>2, <4>3
    <3> QED BY <2>c, <3>2, <3>3, <3>5 DEF PromptsInv
  <2>20. CASE PopNothing
    BY <2>20, <2>a, <2>c, StayPut DEF PopNothing, Goto, runtimeVars, loopVars, clientVars, agentVars
  <2>21. CASE SelectWake
    BY <2>21, <2>a, <2>c, StayPut DEF SelectWake, Goto, loopVars, clientVars, agentVars
  <2>22. CASE SelectExit
    <3>1. queue' = <<>> /\ Drop("loop", ToSet(queue)) /\ UNCHANGED <<cur, used, told>>
      BY <2>22 DEF SelectExit, SetPhase, DropQueue, loopVars
    <3>2. (pc["loop"] = "begin") <=> (pc'["loop"] = "begin")
      BY <2>22, <2>a DEF SelectExit, Goto
    <3> QED BY <2>a, <3>1, <3>2, NoQueue, DropStep
  <2>23. CASE SelectCtx
    BY <2>23, <2>a, <2>c, StayPut DEF SelectCtx, Goto, runtimeVars, loopVars, clientVars, agentVars
  <2>24. CASE Begin
    <3>1. Tell(cur, "began") /\ UNCHANGED <<queue, lost, cur, used>> /\ pc["loop"] = "begin"
      BY <2>24 DEF Begin, runtimeVars, loopVars
    <3>2. pc'["loop"] = "send" BY <2>24, <2>a DEF Begin, Goto
    <3>3. ASSUME NEW q \in Tagged
          PROVE  (Unsent(q) \/ Waiting(q) \/ Running(q) \/ Dropped(q) \/ Settled(q))'
      <4>1. told'[q] = IF q = cur THEN Append(told[q], "began") ELSE told[q]
        BY <2>b, <3>1, TellOne
      <4>2. CASE q = cur
        <5>1. Running(q) BY <4>2 DEF PromptsInv, Unsent, Waiting, Dropped, Settled, Nowhere
        <5>2. told'[q] = <<"began">> BY <3>1, <4>1, <4>2, <5>1 DEF Running
        <5> QED BY <3>1, <3>2, <5>1, <5>2 DEF Running
      <4>3. CASE q # cur
        BY <3>1, <4>1, <4>3 DEF PromptsInv, Unsent, Waiting, Running, Dropped, Settled, Nowhere
      <4> QED BY <4>2, <4>3
    <3> QED BY <2>c, <3>1, <3>3 DEF PromptsInv
  <2>25. CASE SendPrompt
    BY <2>25, <2>a, <2>c, StayPut DEF SendPrompt, Goto, runtimeVars, agentVars
  <2>26. ASSUME NEW r \in Stops \cup Errors, Wait(r) PROVE PromptsInv'
    BY <2>26, <2>a, <2>c, StayPut DEF Wait, Goto, runtimeVars, agentVars
  <2>27. CASE Settle
    BY <2>27, <2>a, <2>c, StayPut DEF Settle, Goto, clientVars, agentVars
  <2>28. CASE Report
    <3>1. /\ Tell(cur, "ended") \/ Tell(cur, "lost")
          /\ UNCHANGED <<queue, lost, used>> /\ cur' = None /\ pc["loop"] = "report"
      BY <2>28 DEF Report, runtimeVars
    <3>2. ASSUME NEW q \in Tagged
          PROVE  (Unsent(q) \/ Waiting(q) \/ Running(q) \/ Dropped(q) \/ Settled(q))'
      <4>1. q # cur' BY <3>1, KindsAssumption
      <4>2. CASE q = cur
        <5>1. Running(q) BY <4>2 DEF PromptsInv, Unsent, Waiting, Dropped, Settled, Nowhere
        <5>2. told'[q] = Append(told[q], "ended") \/ told'[q] = Append(told[q], "lost")
          BY <2>b, <3>1, <4>2, TellOne
        <5>3. told[q] = <<"began">> BY <3>1, <5>1 DEF Running
        <5>4. told'[q] \in {<<"began", "ended">>, <<"began", "lost">>} BY <5>2, <5>3
        <5>5. told'[q] \in Finals BY <5>4 DEF Finals
        <5> QED BY <3>1, <4>1, <5>1, <5>5 DEF Running, Settled, Nowhere
      <4>3. CASE q # cur
        <5>1. told'[q] = told[q] BY <2>b, <3>1, <4>3, TellOne
        <5> QED BY <3>1, <4>1, <4>3, <5>1
            DEF PromptsInv, Unsent, Waiting, Running, Dropped, Settled, Nowhere
      <4> QED BY <4>2, <4>3
    <3> QED BY <2>c, <3>1, <3>2 DEF PromptsInv
  <2>29. CASE Fail
    <3>1. \/ queue' = <<>> /\ Drop("loop", ToSet(queue))
          \/ UNCHANGED <<queue, lost>>
      BY <2>29 DEF Fail, SetPhase, DropQueue, runtimeVars
    <3>2. UNCHANGED <<cur, used, told>> BY <2>29 DEF Fail, loopVars
    <3>3. (pc["loop"] = "begin") <=> (pc'["loop"] = "begin")
      BY <2>29, <2>a DEF Fail, Goto
    <3> QED BY <2>a, <2>c, <3>1, <3>2, <3>3, NoQueue, DropStep, StayPut
  <2>30. CASE SetDone
    BY <2>30, <2>a, <2>c, StayPut DEF SetDone, Goto, runtimeVars, loopVars, clientVars, agentVars
  <2>31. CASE Teardown
    <3>1. queue' = <<>> /\ Drop("loop", ToSet(queue)) /\ UNCHANGED <<cur, used, told>>
      BY <2>31 DEF Teardown, FinishLocked, DropQueue, loopVars
    <3>2. (pc["loop"] = "begin") <=> (pc'["loop"] = "begin")
      BY <2>31, <2>a DEF Teardown, Goto
    <3> QED BY <2>a, <3>1, <3>2, NoQueue, DropStep
  <2>32. CASE TeardownFinish
    BY <2>32, <2>a, <2>c, StayPut DEF TeardownFinish, FinishTail, Goto, loopVars, clientVars,
        agentVars
  <2>33. CASE TeardownClient
    BY <2>33, <2>a, <2>c, StayPut DEF TeardownClient, Goto, runtimeVars, loopVars
  <2>34. CASE AgentReads
    BY <2>34, <2>a, <2>c, StayPut DEF AgentReads, runtimeVars, loopVars
  <2>35. ASSUME NEW r \in Stops \cup Errors, AgentAnswers(r) PROVE PromptsInv'
    BY <2>35, <2>a, <2>c, StayPut DEF AgentAnswers, runtimeVars, loopVars
  <2>36. CASE OutputEnds
    BY <2>36, <2>a, <2>c, StayPut DEF OutputEnds, runtimeVars, loopVars
  <2>37. CASE LineTooLong
    BY <2>37, <2>a, <2>c, StayPut DEF LineTooLong, runtimeVars, loopVars, agentVars
  <2>38. CASE LineTooLongClose
    BY <2>38, <2>a, <2>c, StayPut DEF LineTooLongClose, runtimeVars, loopVars, agentVars
  <2>39. ASSUME NEW t \in Threads, NEW p \in Prompts, Lose(t, p) PROVE PromptsInv'
    <3>1. /\ p \in lost[t] /\ lost' = [lost EXCEPT ![t] = lost[t] \ {p}] /\ Tell(p, "lost")
          /\ UNCHANGED <<queue, cur, used, pc>>
      BY <2>39 DEF Lose, runtimeVars, loopVars
    <3>2. \A u \in Threads : lost'[u] = IF u = t THEN lost[u] \ {p} ELSE lost[u]
      BY <2>a, <3>1
    <3>3. p \in Tagged BY <2>a, <3>1
    <3>4. ASSUME NEW q \in Tagged
          PROVE  (Unsent(q) \/ Waiting(q) \/ Running(q) \/ Dropped(q) \/ Settled(q))'
      <4>1. told'[q] = IF q = p THEN Append(told[q], "lost") ELSE told[q]
        BY <2>b, <3>1, TellOne
      <4>2. CASE q = p
        <5>1. Dropped(p) BY <3>1, <3>3 DEF PromptsInv, Unsent, Waiting, Running, Settled, Nowhere
        <5>2. \A u \in Threads : p \notin lost'[u]
          <6>1. \A u \in Threads \ {t} : p \notin lost[u] BY <3>1, <5>1 DEF Dropped
          <6> QED BY <3>2, <6>1
        <5>3. told'[p] = <<"lost">> BY <4>1, <4>2, <5>1 DEF Dropped
        <5> QED BY <3>1, <4>2, <5>1, <5>2, <5>3 DEF Dropped, Settled, Nowhere, Finals
      <4>3. CASE q # p
        <5>1. \A u \in Threads : q \in lost'[u] <=> q \in lost[u] BY <3>2, <4>3
        <5> QED BY <3>1, <4>1, <4>3, <5>1
            DEF PromptsInv, Unsent, Waiting, Running, Dropped, Settled, Nowhere
      <4> QED BY <4>2, <4>3
    <3> QED BY <2>c, <3>1, <3>4 DEF PromptsInv
  <2>40. CASE UNCHANGED vars
    BY <2>40, <2>c, StayPut DEF vars, runtimeVars, loopVars, clientVars, agentVars
  <2> QED
    BY <2>1, <2>2, <2>3, <2>4, <2>5, <2>6, <2>7, <2>8, <2>9, <2>10, <2>11, <2>12, <2>13, <2>14,
        <2>15, <2>16, <2>17, <2>18, <2>19, <2>20, <2>21, <2>22, <2>23, <2>24, <2>25, <2>26,
        <2>27, <2>28, <2>29, <2>30, <2>31, <2>32, <2>33, <2>34, <2>35, <2>36, <2>37, <2>38,
        <2>39, <2>40
    DEF Next, Calls, Ending, Loop, Agent
<1> QED BY <1>1, <1>2, TypeCorrect, LoopCorrect, PTL DEF Spec

\* What was to be shown of the prompts follows.
THEOREM ToldCorrect == Spec => []ToldOnce
<1>1. PromptsInv => ToldOnce
  BY DEF PromptsInv, ToldOnce, Unsent, Waiting, Running, Dropped, Settled, Finals
<1> QED BY <1>1, PromptsCorrect, PTL

\* No report is forgotten and none comes twice: a tagged prompt that was taken and
\* has no last report is in exactly one hand, and no other is in any.
THEOREM AccountedCorrect == Spec => []Accounted
<1>1. TypeOK /\ PromptsInv => Accounted
  <2> SUFFICES ASSUME TypeOK, PromptsInv, NEW p \in Tagged
               PROVE  IF p \in used /\ told[p] \notin Finals
                      THEN \E o \in Owners(p) : Owners(p) = {o} ELSE Owners(p) = {}
    BY DEF Accounted
  <2>1. <<>> \notin Finals /\ <<"began">> \notin Finals
    <3>1. Len(<<>>) = 0 /\ Len(<<"began">>) = 1 /\ <<"began">>[1] = "began" OBVIOUS
    <3>2. \A s \in Finals : Len(s) = 2 \/ (Len(s) = 1 /\ s[1] = "lost") BY DEF Finals
    <3> QED BY <3>1, <3>2
  <2>2. CASE Unsent(p)
    BY <2>2 DEF Unsent, Nowhere, Owners
  <2>3. CASE Settled(p)
    BY <2>3 DEF Settled, Nowhere, Owners
  <2>4. CASE Waiting(p)
    <3>1. Owners(p) = {"queue"} BY <2>4 DEF Waiting, Owners
    <3> QED BY <2>1, <2>4, <3>1 DEF Waiting
  <2>5. CASE Running(p)
    <3>1. Owners(p) = {"turn"} BY <2>5 DEF Running, Owners
    <3>2. p \in used /\ told[p] \notin Finals BY <2>1, <2>5 DEF Running
    <3> QED BY <3>1, <3>2
  <2>6. CASE Dropped(p)
    <3>1. PICK t \in Threads : p \in lost[t] /\ \A u \in Threads \ {t} : p \notin lost[u]
      BY <2>6 DEF Dropped
    <3>2. Owners(p) = {t} BY <2>6, <3>1 DEF Dropped, Owners
    <3> QED BY <2>1, <2>6, <3>2 DEF Dropped
  <2> QED BY <2>2, <2>3, <2>4, <2>5, <2>6 DEF PromptsInv
<1> QED BY <1>1, TypeCorrect, PromptsCorrect, PTL

\* A pane that has ended holds no prompt, and a Close that has returned has ended
\* the agent, the person's commands and the turn.
THEOREM EndsCleanly == Spec => [](NoPromptInAFinalPane /\ ClosedPaneIsQuiet)
<1>1. LoopInv /\ EndInv => NoPromptInAFinalPane /\ ClosedPaneIsQuiet
  BY DEF LoopInv, EndInv, NoPromptInAFinalPane, ClosedPaneIsQuiet
<1> QED BY <1>1, LoopCorrect, EndCorrect, PTL

\* fail ends in a phase that is final.
LEMMA FailPhaseFinal == \A e : FailPhase(e) \notin {"starting", "ready"}
BY DEF FailPhase

\* Nothing moves a pane's last phase, and no Close is undone by a launch that
\* ends after it.
THEOREM PhaseFinalCorrect == Spec => PhaseIsFinal
<1>1. EndInv /\ [Next]_vars => [PhaseStep]_vars
  <2> SUFFICES ASSUME EndInv, [Next]_vars PROVE PhaseStep
    OBVIOUS
  <2>1. ASSUME NEW p \in Prompts, Send(p) PROVE PhaseStep
    BY <2>1 DEF Send, Live, PhaseStep
  <2>2. ASSUME NEW p \in Prompts, SendNow(p) PROVE PhaseStep
    BY <2>2 DEF SendNow, PhaseStep
  <2>3. ASSUME NEW p \in Prompts, RemoveQueued(p) PROVE PhaseStep
    BY <2>3 DEF RemoveQueued, PhaseStep
  <2>4. ASSUME NEW t \in Cancellers, Cancel(t) PROVE PhaseStep
    BY <2>4 DEF Cancel, PhaseStep
  <2>5. ASSUME NEW t \in Cancellers, CancelSend(t) PROVE PhaseStep
    BY <2>5 DEF CancelSend, runtimeVars, PhaseStep
  <2>6. CASE ClearQueued
    BY <2>6 DEF ClearQueued, PhaseStep
  <2>7. CASE Interrupt
    BY <2>7 DEF Interrupt, PhaseStep
  <2>8. CASE RewindBegin
    BY <2>8 DEF RewindBegin, PhaseStep
  <2>9. CASE RewindEnd
    BY <2>9 DEF RewindEnd, PhaseStep
  <2>10. CASE Close
    BY <2>10 DEF Close, FinishLocked, Live, PhaseStep
  <2>11. CASE CloseFinish
    BY <2>11 DEF CloseFinish, FinishTail, PhaseStep
  <2>12. CASE CloseReturn
    BY <2>12 DEF CloseReturn, runtimeVars, PhaseStep
  <2>13. CASE Watch
    BY <2>13 DEF Watch, FinishLocked, Live, PhaseStep
  <2>14. CASE WatchFinish
    BY <2>14 DEF WatchFinish, FinishTail, PhaseStep
  <2>15. CASE WatchDone
    BY <2>15 DEF WatchDone, runtimeVars, PhaseStep
  <2>16. CASE OwnerEnds
    BY <2>16 DEF OwnerEnds, PhaseStep
  <2>17. CASE Launch
    BY <2>17 DEF Launch, LaunchedPhase, EndInv, Live, PhaseStep
  <2>18. ASSUME NEW e \in Errors, LaunchFails(e) PROVE PhaseStep
    <3>1. FailPhase(e) \notin {"starting", "ready"} BY FailPhaseFinal
    <3> QED BY <2>18, <3>1 DEF LaunchFails, SetPhase, runtimeVars, Live, PhaseStep
  <2>19. CASE Pop
    BY <2>19 DEF Pop, PhaseStep
  <2>20. CASE PopNothing
    BY <2>20 DEF PopNothing, runtimeVars, PhaseStep
  <2>21. CASE SelectWake
    BY <2>21 DEF SelectWake, PhaseStep
  <2>22. CASE SelectExit
    BY <2>22 DEF SelectExit, SetPhase, Live, PhaseStep
  <2>23. CASE SelectCtx
    BY <2>23 DEF SelectCtx, runtimeVars, PhaseStep
  <2>24. CASE Begin
    BY <2>24 DEF Begin, runtimeVars, PhaseStep
  <2>25. CASE SendPrompt
    BY <2>25 DEF SendPrompt, runtimeVars, PhaseStep
  <2>26. ASSUME NEW r \in Stops \cup Errors, Wait(r) PROVE PhaseStep
    BY <2>26 DEF Wait, runtimeVars, PhaseStep
  <2>27. CASE Settle
    BY <2>27 DEF Settle, PhaseStep
  <2>28. CASE Report
    BY <2>28 DEF Report, runtimeVars, PhaseStep
  <2>29. CASE Fail
    <3>1. FailPhase(result) \notin {"starting", "ready"} BY FailPhaseFinal
    <3> QED BY <2>29, <3>1 DEF Fail, SetPhase, runtimeVars, Live, PhaseStep
  <2>30. CASE SetDone
    BY <2>30 DEF SetDone, runtimeVars, PhaseStep
  <2>31. CASE Teardown
    BY <2>31 DEF Teardown, FinishLocked, Live, PhaseStep
  <2>32. CASE TeardownFinish
    BY <2>32 DEF TeardownFinish, FinishTail, PhaseStep
  <2>33. CASE TeardownClient
    BY <2>33 DEF TeardownClient, runtimeVars, PhaseStep
  <2>34. CASE AgentReads
    BY <2>34 DEF AgentReads, runtimeVars, PhaseStep
  <2>35. ASSUME NEW r \in Stops \cup Errors, AgentAnswers(r) PROVE PhaseStep
    BY <2>35 DEF AgentAnswers, runtimeVars, PhaseStep
  <2>36. CASE OutputEnds
    BY <2>36 DEF OutputEnds, runtimeVars, PhaseStep
  <2>37. CASE LineTooLong
    BY <2>37 DEF LineTooLong, runtimeVars, PhaseStep
  <2>38. CASE LineTooLongClose
    BY <2>38 DEF LineTooLongClose, runtimeVars, PhaseStep
  <2>39. ASSUME NEW t \in Threads, NEW p \in Prompts, Lose(t, p) PROVE PhaseStep
    BY <2>39 DEF Lose, runtimeVars, PhaseStep
  <2>40. CASE UNCHANGED vars
    BY <2>40 DEF vars, runtimeVars, loopVars, clientVars, agentVars, PhaseStep
  <2> QED
    BY <2>1, <2>2, <2>3, <2>4, <2>5, <2>6, <2>7, <2>8, <2>9, <2>10, <2>11, <2>12, <2>13, <2>14,
        <2>15, <2>16, <2>17, <2>18, <2>19, <2>20, <2>21, <2>22, <2>23, <2>24, <2>25, <2>26,
        <2>27, <2>28, <2>29, <2>30, <2>31, <2>32, <2>33, <2>34, <2>35, <2>36, <2>37, <2>38,
        <2>39, <2>40
    DEF Next, Calls, Ending, Loop, Agent
<1> QED BY <1>1, EndCorrect, PTL DEF Spec, PhaseIsFinal

-----------------------------------------------------------------------------
(* What the agent has, and what is queued to end it.                           *)

\* What the steps of a call, an ending and the loop leave of it: all, while the loop waits.
LineFrame ==
    /\ reply' = reply /\ agentTurn' = agentTurn /\ endedBy' = endedBy /\ (Talking' => Talking)
    /\ pc["loop"] = "wait" => pc'["loop"] = "wait" /\ cur' = cur

\* A step that leaves the wire too leaves what is known of it.
LEMMA LineStays ==
    ASSUME LineInv, LineFrame, wire' = wire
    PROVE  LineInv'
<1> SUFFICES ASSUME Talking' PROVE (TurnAtAgent /\ TurnOnWire /\ TurnEnded)'
  BY DEF LineInv
<1>1. TurnAtAgent /\ TurnOnWire /\ TurnEnded BY DEF LineInv, LineFrame
<1>2. ASSUME NEW p, Awaited(p) PROVE cur' = cur /\ pc'["loop"] = "wait" /\ reply' = "none"
  BY <1>2 DEF Awaited, LineFrame
<1>3. TurnAtAgent' BY <1>1, <1>2 DEF TurnAtAgent, LineFrame, Awaited, Behind
<1>4. TurnOnWire'
  <2> SUFFICES ASSUME NEW i \in DOMAIN wire, wire[i].kind = "prompt"
               PROVE  (Awaited(wire[i].of) /\ agentTurn = None /\ Behind(i))'
    BY DEF TurnOnWire
  <2>1. Awaited(wire[i].of) /\ agentTurn = None /\ Behind(i) BY <1>1 DEF TurnOnWire
  <2>2. cur' = cur /\ pc'["loop"] = "wait" /\ reply' = "none" BY <1>2, <2>1
  <2>3. Behind(i)' BY <2>1, <2>2 DEF Behind
  <2>4. Awaited(wire[i].of)' BY <2>1, <2>2 DEF Awaited
  <2> QED BY <2>1, <2>3, <2>4 DEF LineFrame
<1>5. TurnEnded' BY <1>1 DEF TurnEnded, LineFrame
<1> QED BY <1>3, <1>4, <1>5

\* What a line that joins it makes of a sequence.
LEMMA LongerIs ==
    ASSUME NEW T, NEW s \in Seq(T), NEW e \in T
    PROVE  \E n \in Nat :
              /\ DOMAIN s \subseteq DOMAIN Append(s, e) /\ n \in DOMAIN Append(s, e) /\ Append(s, e)[n] = e
              /\ \A i \in DOMAIN Append(s, e) :
                    i \in 0..n /\ (i # n => i \in DOMAIN s /\ Append(s, e)[i] = s[i])
<1>1. PICK k \in Nat : k = Len(s) OBVIOUS
<1>2. DOMAIN s = 1..k /\ DOMAIN Append(s, e) = 1..(k + 1) /\ Append(s, e)[k + 1] = e BY <1>1
<1>3. \A i \in 1..k : Append(s, e)[i] = s[i] BY <1>1
<1>4. k + 1 \in Nat /\ 1..k \subseteq 1..(k + 1) /\ k + 1 \in 1..(k + 1) BY <1>1
<1>5. \A i \in 1..(k + 1) : i \in 0..(k + 1) /\ (i # k + 1 => i \in 1..k) BY <1>1
<1> QED BY <1>2, <1>3, <1>4, <1>5

\* A cancel that joins the wire behind the prompt of the turn in hand is for that turn.
LEMMA CancelJoins ==
    ASSUME LineInv, LineFrame, wire \in Seq(LineType), NEW line \in LineType, line.kind \in CancelKinds,
           pc["loop"] = "wait" /\ line.kind = "held cancel" => line.of = cur, QueueLine(line)
    PROVE  LineInv'
<1>1. CASE wire' = wire BY <1>1, LineStays
<1>2. CASE wire' = Append(wire, line)
  <2>1. PICK n \in Nat :
          /\ DOMAIN wire \subseteq DOMAIN wire' /\ wire'[n] = line
          /\ \A i \in DOMAIN wire' : i \in 0..n /\ (i # n => i \in DOMAIN wire /\ wire'[i] = wire[i])
    <3>1. wire \in Seq(LineType) /\ line \in LineType OBVIOUS
    <3> QED BY ONLY <1>2, <3>1, LongerIs
  <2>2. line.kind # "prompt" BY DEF CancelKinds
  <2> SUFFICES ASSUME Talking' PROVE (TurnAtAgent /\ TurnOnWire /\ TurnEnded)'
    BY DEF LineInv
  <2>3. TurnAtAgent /\ TurnOnWire /\ TurnEnded BY DEF LineInv, LineFrame
  <2>4. ASSUME NEW p, Awaited(p), NEW i \in Nat, Behind(i) PROVE Awaited(p)' /\ Behind(i)'
    <3>1. cur' = cur /\ pc'["loop"] = "wait" /\ reply' = "none" /\ (line.kind = "held cancel" => line.of = cur)
      BY <2>4 DEF Awaited, LineFrame
    <3>2. Awaited(p)' BY <2>4, <3>1 DEF Awaited
    <3>3. ASSUME NEW j \in DOMAIN wire', j > i
          PROVE  wire'[j].kind # "prompt" /\ (wire'[j].kind = "held cancel" => wire'[j].of = cur)
      <4>1. CASE j = n BY <2>1, <2>2, <3>1, <4>1
      <4>2. CASE j # n BY <2>1, <2>4, <3>1, <3>3, <4>2 DEF Behind
      <4> QED BY <4>1, <4>2
    <3> QED BY <3>1, <3>2, <3>3 DEF Behind
  <2>5. TurnAtAgent' BY <2>3, <2>4 DEF TurnAtAgent, LineFrame
  <2>6. TurnOnWire'
    <3> SUFFICES ASSUME NEW i \in DOMAIN wire', wire'[i].kind = "prompt"
                 PROVE  (Awaited(wire[i].of) /\ agentTurn = None /\ Behind(i))'
      BY DEF TurnOnWire
    <3>1. i \in DOMAIN wire /\ wire'[i] = wire[i] BY <2>1, <2>2
    <3>2. i \in Nat
      <4>1. i \in 0..n /\ n \in Nat BY <2>1
      <4> QED BY ONLY <4>1
    <3>3. Awaited(wire[i].of) /\ agentTurn = None /\ Behind(i) BY <2>3, <3>1 DEF TurnOnWire
    <3>4. Awaited(wire[i].of)' /\ Behind(i)'
      <4>1. PICK p : p = wire[i].of OBVIOUS
      <4>2. Awaited(p)' /\ Behind(i)' BY <2>4, <3>2, <3>3, <4>1
      <4> QED BY <3>1, <4>1, <4>2 DEF Awaited
    <3> QED BY <3>3, <3>4 DEF LineFrame
  <2>7. TurnEnded' BY <2>3 DEF TurnEnded, LineFrame
  <2> QED BY <2>5, <2>6, <2>7
<1> QED BY <1>1, <1>2 DEF QueueLine

\* Steps that say nothing to the agent, and take nothing from it.
LEMMA SilentSteps ==
    ASSUME AgentInv, wire' = wire, reply' = reply, agentTurn' = agentTurn, endedBy' = endedBy,
           overlong' = overlong, eof' = eof, ctxDone => ctxDone', RewindInv',
           pc["loop"] = "wait" => pc'["loop"] = "wait" /\ cur' = cur
    PROVE  AgentInv'
<1>1. LineFrame BY DEF LineFrame, Talking
<1>2. LineInv' BY <1>1, LineStays DEF AgentInv
<1>3. ReplyInv' BY DEF AgentInv, ReplyInv
<1> QED BY <1>2, <1>3 DEF AgentInv

\* So are a cancel of a call, and the agent's end.
LEMMA CancelSteps ==
    ASSUME TypeOK, AgentInv, NEW line \in {HeldCancel, LateCancel}, pc["loop"] = "wait" => inTurn, QueueLine(line),
           UNCHANGED <<reply, agentTurn, endedBy, overlong, eof, ctxDone, inTurn, rewinding, cur>>,
           pc'["loop"] = pc["loop"]
    PROVE  AgentInv'
<1>1. LineFrame BY DEF LineFrame, Talking
<1>2. wire \in Seq(LineType) /\ line \in LineType BY LineKinds DEF TypeOK, ClientType
<1>3. line.kind \in CancelKinds /\ (pc["loop"] = "wait" /\ line.kind = "held cancel" => line.of = cur)
  <2>1. CASE line = HeldCancel
    <3>1. line.kind = "held cancel" /\ line.of = IF inTurn THEN cur ELSE None BY <2>1 DEF HeldCancel
    <3> QED BY <3>1 DEF CancelKinds
  <2>2. CASE line = LateCancel
    <3>1. line.kind = "late cancel" BY <2>2 DEF LateCancel
    <3> QED BY <3>1 DEF CancelKinds
  <2> QED BY <2>1, <2>2
<1>4. LineInv' BY <1>1, <1>2, <1>3, CancelJoins DEF AgentInv
<1>5. ReplyInv' /\ RewindInv' BY DEF AgentInv, ReplyInv, RewindInv
<1> QED BY <1>4, <1>5 DEF AgentInv

\* The agent takes what is first on the wire.
LEMMA ReadStep ==
    ASSUME TypeOK, LineInv, AgentReads
    PROVE  LineInv'
<1>1. /\ wire # <<>> /\ wire' = Tail(wire) /\ UNCHANGED <<pc, cur, reply, overlong, eof, ctxDone>>
      /\ Head(wire).kind = "prompt" => agentTurn' = Head(wire).of /\ endedBy' = NoCancel
      /\ Head(wire).kind # "prompt" => agentTurn' = agentTurn /\ endedBy' \in {endedBy, Head(wire)}
      /\ Head(wire).kind # "prompt" /\ agentTurn = None => endedBy' = endedBy
  BY DEF AgentReads, runtimeVars, loopVars
<1>2. wire \in Seq(LineType) BY DEF TypeOK, ClientType
<1>3. /\ 1 \in DOMAIN wire /\ Head(wire) = wire[1] /\ \A i \in DOMAIN wire : i \in Nat
      /\ \A i \in DOMAIN wire' : i \in Nat \ {0} /\ i + 1 \in DOMAIN wire /\ wire'[i] = wire[i + 1]
  BY ONLY <1>1, <1>2
<1> SUFFICES ASSUME Talking' PROVE (TurnAtAgent /\ TurnOnWire /\ TurnEnded)'
  BY DEF LineInv
<1>4. TurnAtAgent /\ TurnOnWire /\ TurnEnded BY <1>1 DEF LineInv, Talking
<1>5. \A p : Awaited(p) <=> pc'["loop"] = "wait" /\ reply' = "none" /\ p = cur' BY <1>1 DEF Awaited
<1>6. ASSUME NEW i \in Nat, Behind(i + 1) PROVE Behind(i)'
  <2> SUFFICES ASSUME NEW j \in DOMAIN wire', j > i
               PROVE  wire'[j].kind # "prompt" /\ (wire'[j].kind = "held cancel" => wire'[j].of = cur')
    BY DEF Behind
  <2>1. j \in Nat /\ j + 1 \in DOMAIN wire /\ wire'[j] = wire[j + 1] /\ j + 1 > i + 1 BY <1>3
  <2> QED BY <1>1, <1>6, <2>1 DEF Behind
<1>7. CASE Head(wire).kind = "prompt"
  <2>1. Awaited(agentTurn') /\ Behind(1) /\ 0 + 1 = 1 BY <1>1, <1>3, <1>4, <1>7 DEF TurnOnWire
  <2>2. Behind(0)' BY <1>6, <2>1
  <2>3. TurnAtAgent' BY <1>5, <2>1, <2>2 DEF TurnAtAgent, Awaited
  <2>4. TurnOnWire'
    <3>1. \A i \in DOMAIN wire' : i > 0 BY <1>3
    <3>2. \A i \in DOMAIN wire' : wire'[i].kind # "prompt" BY <2>2, <3>1 DEF Behind
    <3> QED BY <3>2 DEF TurnOnWire
  <2>5. TurnEnded'
    <3>1. NoCancel.kind = "none" BY DEF NoCancel
    <3>2. endedBy' = NoCancel BY <1>1, <1>7
    <3> QED BY <3>1, <3>2 DEF TurnEnded
  <2> QED BY <2>3, <2>4, <2>5
<1>8. CASE Head(wire).kind # "prompt"
  <2>1. agentTurn' = agentTurn BY <1>1, <1>8
  <2>2. agentTurn # None => Awaited(agentTurn) /\ Behind(0)' /\ (Head(wire).kind = "held cancel" => Head(wire).of = cur)
    <3> SUFFICES ASSUME agentTurn # None
                 PROVE  Awaited(agentTurn) /\ Behind(0)' /\ (Head(wire).kind = "held cancel" => Head(wire).of = cur)
      OBVIOUS
    <3>1. Awaited(agentTurn) /\ Behind(0) BY <1>4 DEF TurnAtAgent
    <3>2. Behind(0 + 1)
      <4>1. \A i \in DOMAIN wire : i > 0 + 1 => i > 0 BY <1>3
      <4> QED BY <3>1, <4>1 DEF Behind
    <3>3. 1 > 0 OBVIOUS
    <3>4. Head(wire).kind = "held cancel" => Head(wire).of = cur BY <1>3, <3>1, <3>3 DEF Behind
    <3> QED BY <1>6, <3>1, <3>2, <3>4
  <2>3. TurnAtAgent' BY <1>5, <2>1, <2>2 DEF TurnAtAgent, Awaited
  <2>4. TurnOnWire'
    <3> SUFFICES ASSUME NEW i \in DOMAIN wire', wire'[i].kind = "prompt"
                 PROVE  (Awaited(wire[i].of) /\ agentTurn = None /\ Behind(i))'
      BY DEF TurnOnWire
    <3>1. i \in Nat /\ i + 1 \in DOMAIN wire /\ wire'[i] = wire[i + 1] BY <1>3
    <3>2. Awaited(wire[i + 1].of) /\ agentTurn = None /\ Behind(i + 1) BY <1>4, <3>1 DEF TurnOnWire
    <3>3. Behind(i)' BY <1>6, <3>1, <3>2
    <3>4. Awaited(wire[i].of)' BY <1>5, <3>1, <3>2 DEF Awaited
    <3> QED BY <2>1, <3>2, <3>3, <3>4
  <2>5. TurnEnded' BY <1>1, <1>4, <1>8, <2>2 DEF TurnEnded, Awaited
  <2> QED BY <2>3, <2>4, <2>5
<1> QED BY <1>7, <1>8

\* While the loop does not wait for an answer, the agent has nothing and gets nothing.
LEMMA NothingThere ==
    ASSUME LineInv, Talking, ~(pc["loop"] = "wait" /\ reply = "none")
    PROVE  agentTurn = None /\ (\A i \in DOMAIN wire : wire[i].kind # "prompt") /\ endedBy.kind # "held cancel"
<1>1. \A p : ~Awaited(p) BY DEF Awaited
<1> QED BY <1>1 DEF LineInv, TurnAtAgent, TurnOnWire, TurnEnded

\* Nor is there anything to say of an empty wire.
LEMMA NothingLeft ==
    ASSUME Talking' => /\ agentTurn' = None /\ endedBy'.kind # "held cancel"
                       /\ \A i \in DOMAIN wire' : wire'[i].kind # "prompt"
    PROVE  LineInv'
BY DEF LineInv, TurnAtAgent, TurnOnWire, TurnEnded

\* The prompt of the turn is sent.
LEMMA PromptStep ==
    ASSUME TypeOK, LoopInv, AgentInv, SendPrompt
    PROVE  LineInv'
<1>1. /\ pc["loop"] = "send" /\ QueueLine(PromptLine(cur)) /\ cur' = cur /\ reply' = reply
      /\ agentTurn' = agentTurn /\ endedBy' = endedBy /\ (Talking' <=> Talking) /\ (Talking => ~eof)
      /\ CanQueueLine => Goto("loop", "wait")
  BY DEF SendPrompt, runtimeVars, agentVars, Talking
<1>2. reply = "none" BY <1>1 DEF AgentInv, ReplyInv
<1> SUFFICES ASSUME Talking' PROVE LineInv'
  BY DEF LineInv
<1>3. agentTurn = None /\ (\A i \in DOMAIN wire : wire[i].kind # "prompt") /\ endedBy.kind # "held cancel"
  BY <1>1, NothingThere DEF AgentInv
<1>4. CASE wire' = wire BY <1>1, <1>3, <1>4, NothingLeft
<1>5. CASE CanQueueLine /\ wire' = Append(wire, PromptLine(cur))
  <2>1. wire \in Seq(LineType) /\ PromptLine(cur) \in LineType
    BY LineKinds DEF TypeOK, ClientType, LoopType
  <2>2. PICK n \in Nat : /\ wire'[n] = PromptLine(cur)
                         /\ \A i \in DOMAIN wire' : i \in 0..n /\ (i # n => i \in DOMAIN wire /\ wire'[i] = wire[i])
    BY ONLY <1>5, <2>1, LongerIs
  <2>3. pc'["loop"] = "wait" /\ PromptLine(cur).of = cur
    BY <1>1, <1>5 DEF Goto, TypeOK, ThreadType, Threads, PromptLine
  <2>4. \A i \in DOMAIN wire' : wire'[i].kind = "prompt" => i = n BY <1>3, <2>2
  <2>5. Awaited(PromptLine(cur).of)' BY <1>1, <1>2, <2>3 DEF Awaited, PromptLine
  <2>6. \A j \in DOMAIN wire' : ~(j > n) BY <2>2
  <2>7. TurnOnWire'
    <3> SUFFICES ASSUME NEW i \in DOMAIN wire', wire'[i].kind = "prompt"
                 PROVE  (Awaited(wire[i].of) /\ agentTurn = None /\ Behind(i))'
      BY DEF TurnOnWire
    <3>1. i = n /\ wire'[i].of = cur' BY <1>1, <2>2, <2>3, <2>4
    <3>2. Awaited(wire[i].of)' BY <1>1, <1>2, <2>3, <3>1 DEF Awaited
    <3>3. Behind(i)' BY <2>6, <3>1 DEF Behind
    <3> QED BY <1>1, <1>3, <3>2, <3>3
  <2>8. TurnAtAgent' /\ TurnEnded' BY <1>1, <1>3 DEF TurnAtAgent, TurnEnded
  <2> QED BY <2>7, <2>8 DEF LineInv
<1> QED BY <1>1, <1>4, <1>5 DEF QueueLine

\* What the agent has is the turn the loop waits for, and what is queued to end a turn
\* ends it, in every reachable state.
THEOREM AgentCorrect == Spec => []AgentInv
<1>1. Init => AgentInv
  <2> SUFFICES ASSUME Init PROVE AgentInv
    OBVIOUS
  <2>1. agentTurn = None /\ endedBy.kind = "none" /\ DOMAIN wire = {} BY DEF Init, NoCancel
  <2> QED BY <2>1 DEF Init, AgentInv, LineInv, TurnAtAgent, TurnOnWire, TurnEnded, ReplyInv, RewindInv
<1>2. TypeOK /\ LoopInv /\ AgentInv /\ [Next]_vars => AgentInv'
  <2> SUFFICES ASSUME TypeOK, LoopInv, AgentInv, [Next]_vars PROVE AgentInv'
    OBVIOUS
  <2> pc \in [Threads -> Labels] /\ "loop" \in Threads /\ \A t \in Cancellers : t \in Threads /\ t # "loop"
    BY CancellersAssumption DEF TypeOK, ThreadType, Threads
  <2> USE DEF runtimeVars, loopVars, clientVars, agentVars, Goto
  <2>1. ASSUME NEW p \in Prompts, Send(p) \/ RemoveQueued(p) PROVE AgentInv'
    BY <2>1, SilentSteps DEF Send, RemoveQueued, AgentInv, RewindInv
  <2>2. ASSUME NEW p \in Prompts, NEW t \in Threads, Lose(t, p) PROVE AgentInv'
    BY <2>2, SilentSteps DEF Lose, AgentInv, RewindInv
  <2>3. ASSUME NEW t \in Cancellers, Cancel(t) PROVE AgentInv'
    BY <2>3, SilentSteps DEF Cancel, AgentInv, RewindInv
  <2>4. CASE ClearQueued \/ RewindBegin \/ RewindEnd
    BY <2>4, SilentSteps DEF ClearQueued, RewindBegin, RewindEnd, AgentInv, RewindInv
  <2>5. CASE Close \/ CloseFinish \/ CloseReturn
    BY <2>5, SilentSteps DEF Close, CloseFinish, CloseReturn, FinishLocked, FinishTail, AgentInv, RewindInv, Threads
  <2>6. CASE Watch \/ WatchFinish \/ WatchDone \/ OwnerEnds
    BY <2>6, SilentSteps DEF Watch, WatchFinish, WatchDone, OwnerEnds, FinishLocked, FinishTail, AgentInv, RewindInv, Threads
  <2>7. ASSUME NEW e \in Errors, LaunchFails(e) PROVE AgentInv'
    BY <2>7, SilentSteps DEF LaunchFails, SetPhase, AgentInv, RewindInv
  <2>8. CASE Launch \/ Pop \/ PopNothing
    BY <2>8, SilentSteps DEF Launch, Pop, PopNothing, CanPop, MarkTurn, AgentInv, RewindInv
  <2>9. CASE SelectWake \/ SelectExit \/ SelectCtx
    BY <2>9, SilentSteps DEF SelectWake, SelectExit, SelectCtx, SetPhase, AgentInv, RewindInv
  <2>10. CASE Begin \/ Settle \/ Report
    BY <2>10, SilentSteps DEF Begin, Settle, Report, AgentInv, RewindInv
  <2>11. CASE Fail \/ SetDone
    BY <2>11, SilentSteps DEF Fail, SetDone, SetPhase, AgentInv, RewindInv
  <2>12. CASE Teardown \/ TeardownFinish
    BY <2>12, SilentSteps DEF Teardown, TeardownFinish, FinishLocked, FinishTail, AgentInv, RewindInv
  <2>13. CASE LineTooLongClose \/ UNCHANGED vars
    BY <2>13, SilentSteps DEF LineTooLongClose, vars, AgentInv, RewindInv
  <2>14. ASSUME NEW p \in Prompts, SendNow(p) PROVE AgentInv'
    <3>1. CASE inTurn /\ phase = "ready"
      <4>1. QueueLine(HeldCancel) BY <2>14, <3>1 DEF SendNow
      <4> QED BY <2>14, <3>1, <4>1, CancelSteps DEF SendNow
    <3>2. CASE ~(inTurn /\ phase = "ready")
      BY <2>14, <3>2, SilentSteps DEF SendNow, AgentInv, RewindInv
    <3> QED BY <3>1, <3>2
  <2>15. ASSUME NEW t \in Cancellers, CancelSend(t) PROVE AgentInv'
    <3>1. CASE pc[t] = "cancelling"
      <4>1. QueueLine(LateCancel) BY <2>15, <3>1 DEF CancelSend
      <4>2. pc["loop"] = "wait" => inTurn BY DEF LoopInv
      <4> QED BY <2>15, <4>1, <4>2, CancelSteps DEF CancelSend
    <3>2. CASE pc[t] # "cancelling"
      BY <2>15, <3>2, SilentSteps DEF CancelSend, AgentInv, RewindInv
    <3> QED BY <3>1, <3>2
  <2>16. CASE Interrupt
    <3>1. QueueLine(HeldCancel) BY <2>16 DEF Interrupt
    <3>2. pc["loop"] = "wait" => inTurn BY DEF LoopInv
    <3> QED BY <2>16, <3>1, <3>2, CancelSteps DEF Interrupt
  <2>17. CASE SendPrompt
    <3>1. ReplyInv' /\ RewindInv' BY <2>17 DEF SendPrompt, AgentInv, ReplyInv, RewindInv
    <3> QED BY <2>17, <3>1, PromptStep DEF AgentInv
  <2>18. ASSUME NEW r \in Stops \cup Errors, Wait(r) PROVE AgentInv'
    <3>1. Talking' => Talking /\ reply # "none" BY <2>18 DEF Wait, WaitEnds, WaitForAgent, Talking
    <3>2. LineInv' BY <2>18, <3>1, NothingThere, NothingLeft DEF Wait, AgentInv
    <3>3. ReplyInv' /\ RewindInv' BY <2>18 DEF Wait, AgentInv, ReplyInv, RewindInv
    <3> QED BY <3>2, <3>3 DEF AgentInv
  <2>19. CASE AgentReads
    <3>1. ReplyInv' /\ RewindInv' BY <2>19 DEF AgentReads, AgentInv, ReplyInv, RewindInv
    <3> QED BY <2>19, <3>1, ReadStep DEF AgentInv
  <2>20. ASSUME NEW r \in Stops \cup Errors, AgentAnswers(r) PROVE AgentInv'
    <3>1. agentTurn # None /\ agentTurn' = None /\ endedBy' = NoCancel /\ wire' = wire /\ (Talking' => Talking)
      BY <2>20 DEF AgentAnswers, Talking
    <3>2. Talking => \A i \in DOMAIN wire : wire[i].kind # "prompt"
      BY <3>1 DEF AgentInv, LineInv, TurnOnWire
    <3>3. NoCancel.kind # "held cancel" BY DEF NoCancel
    <3>4. LineInv' BY <3>1, <3>2, <3>3, NothingLeft
    <3>5. ReplyInv' /\ RewindInv' BY <2>20 DEF AgentAnswers, AgentInv, ReplyInv, RewindInv
    <3> QED BY <3>4, <3>5 DEF AgentInv
  <2>21. CASE OutputEnds \/ LineTooLong \/ TeardownClient
    <3>1. ~Talking' BY <2>21 DEF OutputEnds, LineTooLong, TeardownClient, Talking
    <3>2. ReplyInv' /\ RewindInv'
      BY <2>21 DEF OutputEnds, LineTooLong, TeardownClient, AgentInv, ReplyInv, RewindInv
    <3> QED BY <3>1, <3>2, NothingLeft DEF AgentInv
  <2> QED
    BY <2>1, <2>2, <2>3, <2>4, <2>5, <2>6, <2>7, <2>8, <2>9, <2>10, <2>11, <2>12, <2>13, <2>14,
        <2>15, <2>16, <2>17, <2>18, <2>19, <2>20, <2>21
    DEF Next, Calls, Ending, Loop, Agent
<1> QED BY <1>1, <1>2, TypeCorrect, LoopCorrect, PTL DEF Spec

\* The agent is given one prompt at a time, and none while it is being taken back.
THEOREM OneTurnCorrect == Spec => []OneTurnAtATime
<1>1. TypeOK /\ LoopInv /\ AgentInv => OneTurnAtATime
  <2> SUFFICES ASSUME TypeOK, LoopInv, AgentInv, Talking
               PROVE  Cardinality(AtAgent) <= 1 /\ (AtAgent # {} => inTurn /\ ~rewinding)
    BY DEF OneTurnAtATime
  <2>1. TurnAtAgent /\ TurnOnWire BY DEF AgentInv, LineInv
  <2>2. \A i \in DOMAIN wire : i \in Nat /\ i > 0
    <3>1. wire \in Seq(LineType) BY DEF TypeOK, ClientType
    <3> QED BY ONLY <3>1
  <2>3. \A i, j \in AtAgent : i = j
    <3> SUFFICES ASSUME NEW i \in AtAgent, NEW j \in AtAgent, i < j PROVE FALSE
      <4>1. \A i \in AtAgent : i \in Nat BY <2>2 DEF AtAgent
      <4> QED BY <4>1
    <3>1. j \in DOMAIN wire /\ wire[j].kind = "prompt" /\ i \in Nat
      <4>1. i \in Nat /\ j # 0 BY <2>2 DEF AtAgent
      <4> QED BY <4>1 DEF AtAgent
    <3>2. CASE i \in DOMAIN wire /\ wire[i].kind = "prompt" BY <2>1, <3>1, <3>2 DEF TurnOnWire, Behind
    <3>3. CASE i = 0 /\ agentTurn # None BY <2>1, <3>1, <3>3 DEF TurnAtAgent, Behind
    <3> QED BY <3>2, <3>3 DEF AtAgent
  <2>4. AtAgent # {} => pc["loop"] = "wait" BY <2>1 DEF AtAgent, TurnAtAgent, TurnOnWire, Awaited
  <2>5. Cardinality(AtAgent) <= 1
    <3>1. CASE AtAgent = {} BY <3>1, FS_EmptySet
    <3>2. CASE AtAgent # {}
      <4>1. PICK i : AtAgent = {i} BY <2>3, <3>2
      <4> QED BY <4>1, FS_Singleton
    <3> QED BY <3>1, <3>2
  <2> QED BY <2>4, <2>5 DEF LoopInv, AgentInv, RewindInv
<1> QED BY <1>1, TypeCorrect, LoopCorrect, AgentCorrect, PTL

\* SendNow and Interrupt end the turn they found and no other.
THEOREM HeldCancelCorrect == Spec => []HeldCancelHitsItsTurn
<1>1. AgentInv => HeldCancelHitsItsTurn BY DEF AgentInv, LineInv, TurnEnded, HeldCancelHitsItsTurn
<1> QED BY <1>1, AgentCorrect, PTL

-----------------------------------------------------------------------------
(* What wakes the loop.                                                        *)

\* An edit of the queue, or a prompt that moves in it, is not what leaves it with one.
LEMMA WakeStays ==
    ASSUME NoLostWakeup, pc'["loop"] = "select" => pc["loop"] = "select",
           phase' = "ready" => phase = "ready", queue' # <<>> => queue # <<>>,
           ~rewinding' => ~rewinding, wake => wake'
    PROVE  NoLostWakeup'
BY DEF NoLostWakeup

\* The loop never sleeps on a prompt it could send: no wake-up is lost, whoever sends,
\* edits the queue or ends a rewind between the loop's look at the queue and its select.
THEOREM WakeCorrect == Spec => []NoLostWakeup
<1>1. Init => NoLostWakeup BY DEF Init, NoLostWakeup, Threads
<1>2. TypeOK /\ NoLostWakeup /\ [Next]_vars => NoLostWakeup'
  <2> SUFFICES ASSUME TypeOK, NoLostWakeup, [Next]_vars PROVE NoLostWakeup'
    OBVIOUS
  <2> pc \in [Threads -> Labels] /\ "loop" \in Threads /\ \A t \in Cancellers : t \in Threads /\ t # "loop"
    BY CancellersAssumption DEF TypeOK, ThreadType, Threads
  <2> USE DEF runtimeVars, loopVars, clientVars, agentVars, Goto
  <2>1. ASSUME NEW p \in Prompts, Send(p) \/ SendNow(p) PROVE NoLostWakeup'
    BY <2>1 DEF Send, SendNow, WakeLoop, NoLostWakeup
  <2>2. CASE RewindEnd
    BY <2>2 DEF RewindEnd, WakeLoop, NoLostWakeup
  <2>3. ASSUME NEW p \in Prompts, RemoveQueued(p) PROVE NoLostWakeup'
    <3>1. queue # <<>> BY <2>3 DEF RemoveQueued, ToSet
    <3> QED BY <2>3, <3>1, WakeStays DEF RemoveQueued
  <2>4. CASE ClearQueued
    <3>1. queue # <<>> BY <2>4 DEF ClearQueued, ToSet
    <3> QED BY <2>4, <3>1, WakeStays DEF ClearQueued
  <2>5. ASSUME NEW p \in Prompts, NEW t \in Threads, Lose(t, p) PROVE NoLostWakeup'
    BY <2>5, WakeStays DEF Lose
  <2>6. ASSUME NEW t \in Cancellers, Cancel(t) \/ CancelSend(t) PROVE NoLostWakeup'
    BY <2>6, WakeStays DEF Cancel, CancelSend, DropQueue
  <2>7. CASE RewindBegin \/ Interrupt
    BY <2>7, WakeStays DEF RewindBegin, Interrupt
  <2>8. CASE Close \/ CloseFinish \/ CloseReturn
    BY <2>8, WakeStays DEF Close, CloseFinish, CloseReturn, FinishLocked, FinishTail, DropQueue, Threads, Live
  <2>9. CASE Watch \/ WatchFinish \/ WatchDone \/ OwnerEnds
    BY <2>9, WakeStays DEF Watch, WatchFinish, WatchDone, OwnerEnds, FinishLocked, FinishTail, DropQueue, Threads, Live
  <2>10. CASE PopNothing
    BY <2>10 DEF PopNothing, CanPop, NoLostWakeup
  <2>11. CASE Launch \/ Pop \/ SelectWake \/ SelectCtx
    BY <2>11 DEF Launch, Pop, SelectWake, SelectCtx, NoLostWakeup
  <2>12. ASSUME NEW e \in Errors, LaunchFails(e) PROVE NoLostWakeup'
    BY <2>12 DEF LaunchFails, NoLostWakeup
  <2>13. CASE SelectExit \/ Fail \/ SetDone
    BY <2>13 DEF SelectExit, Fail, SetDone, NoLostWakeup
  <2>14. CASE Begin \/ SendPrompt \/ Settle \/ Report
    BY <2>14 DEF Begin, SendPrompt, Settle, Report, AfterTurn, NoLostWakeup
  <2>15. ASSUME NEW r \in Stops \cup Errors, Wait(r) PROVE NoLostWakeup'
    BY <2>15 DEF Wait, NoLostWakeup
  <2>16. CASE Teardown \/ TeardownFinish \/ TeardownClient
    BY <2>16 DEF Teardown, TeardownFinish, TeardownClient, NoLostWakeup
  <2>17. ASSUME NEW r \in Stops \cup Errors, AgentAnswers(r) PROVE NoLostWakeup'
    BY <2>17, WakeStays DEF AgentAnswers
  <2>18. CASE AgentReads \/ OutputEnds \/ LineTooLong \/ LineTooLongClose \/ UNCHANGED vars
    BY <2>18, WakeStays DEF AgentReads, OutputEnds, LineTooLong, LineTooLongClose, vars
  <2> QED
    BY <2>1, <2>2, <2>3, <2>4, <2>5, <2>6, <2>7, <2>8, <2>9, <2>10, <2>11, <2>12, <2>13, <2>14,
        <2>15, <2>16, <2>17, <2>18
    DEF Next, Calls, Ending, Loop, Agent
<1> QED BY <1>1, <1>2, TypeCorrect, PTL DEF Spec

=============================================================================
