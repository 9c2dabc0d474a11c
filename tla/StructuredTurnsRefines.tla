----------------------- MODULE StructuredTurnsRefines -----------------------
(* StructuredTurns implements PromptRuntime, for every set of prompts and      *)
(* callers: from the invariants StructuredTurnsProofs proves, each step of a   *)
(* pane is one step of PromptRuntime or leaves its variables alone.            *)
EXTENDS StructuredTurnsProofs

\* Where a prompt is reads the place PromptsInv has it in.
LEMMA WhereIs ==
    ASSUME NEW p \in Tagged
    PROVE  /\ Unsent(p)  => Where(p) = "unsent"
           /\ Waiting(p) => Where(p) = "waiting"
           /\ Running(p) => Where(p) = "running"
           /\ Dropped(p) => Where(p) = "dropped"
           /\ Settled(p) => Where(p) = "over"
BY DEF Where, Nowhere, Unsent, Waiting, Running, Dropped, Settled

\* The abstract step that moves the prompts of S to one place, and none when S is
\* empty.
LEMMA Moved ==
    ASSUME NEW S, NEW place,
           \A q \in Tagged : Where(q)' = IF q \in S THEN place ELSE Where(q)
    PROVE  [q \in Tagged |-> Where(q)]' =
           [q \in Tagged |-> IF q \in S THEN place ELSE [r \in Tagged |-> Where(r)][q]]
OBVIOUS

\* A step that leaves the queue's prompts, the turn's and the dropped ones where
\* they are, reports nothing and does not end the pane.
LEMMA Stutter ==
    ASSUME \A q \in Tagged : q \in ToSet(queue') <=> q \in ToSet(queue),
           \A q \in Tagged : q = cur' <=> q = cur,
           \A q \in Tagged : q \in used' <=> q \in used,
           UNCHANGED <<lost, told>>, Live' <=> Live
    PROVE  UNCHANGED Runtime!vars
<1>1. \A q \in Tagged : Where(q)' = Where(q) BY DEF Where
<1>2. (~Live)' = ~Live OBVIOUS
<1> QED BY <1>1, <1>2 DEF Runtime!vars

\* Where the prompts are after S was taken out of the queue by goroutine t.
LEMMA DropWhere ==
    ASSUME PromptsInv, lost \in [Threads -> SUBSET Tagged],
           NEW t \in Threads, NEW S, S \subseteq ToSet(queue), Drop(t, S),
           ToSet(queue') = ToSet(queue) \ S, UNCHANGED <<cur, used>>
    PROVE  \A q \in Tagged : Where(q)' = IF q \in S THEN "dropped" ELSE Where(q)
<1>1. \A u \in Threads : lost'[u] = IF u = t THEN lost[u] \cup (S \cap Tagged) ELSE lost[u]
  BY DEF Drop
<1> SUFFICES ASSUME NEW q \in Tagged PROVE Where(q)' = IF q \in S THEN "dropped" ELSE Where(q)
  OBVIOUS
<1>2. CASE q \in S
  <2>1. Waiting(q) BY <1>2 DEF PromptsInv, Unsent, Running, Dropped, Settled, Nowhere
  <2>2. q \in lost'[t] /\ q \notin ToSet(queue') /\ q # cur' BY <1>1, <1>2, <2>1 DEF Waiting
  <2> QED BY <1>2, <2>2 DEF Where
<1>3. CASE q \notin S
  <2>1. \A u \in Threads : q \in lost'[u] <=> q \in lost[u] BY <1>1, <1>3
  <2>2. q \in ToSet(queue') <=> q \in ToSet(queue) BY <1>3
  <2> QED BY <1>3, <2>1, <2>2 DEF Where
<1> QED BY <1>2, <1>3

\* The prompts that wait are those of the queue.
LEMMA WaitingIs ==
    ASSUME NEW q \in Tagged
    PROVE  q \in ToSet(queue) <=> Where(q) = "waiting"
BY DEF Where

\* Prompts dropped from the queue of a pane that goes on.
LEMMA DropImplements ==
    ASSUME PromptsInv, lost \in [Threads -> SUBSET Tagged],
           NEW t \in Threads, NEW S, S \subseteq ToSet(queue), Drop(t, S),
           ToSet(queue') = ToSet(queue) \ S, UNCHANGED <<cur, used, told>>, Live' <=> Live
    PROVE  [Runtime!Next]_Runtime!vars
<1>1. \A q \in Tagged : Where(q)' = IF q \in S THEN "dropped" ELSE Where(q) BY DropWhere
<1>2. (~Live)' = ~Live OBVIOUS
<1>3. CASE S \cap Tagged = {}
  <2>1. \A q \in Tagged : Where(q)' = Where(q) BY <1>1, <1>3
  <2> QED BY <1>2, <2>1 DEF Runtime!vars
<1>4. CASE S \cap Tagged # {}
  <2>1. \A q \in Tagged : Where(q)' = IF q \in S \cap Tagged THEN "dropped" ELSE Where(q)
    BY <1>1
  <2>2. Runtime!Put(S \cap Tagged, "dropped") BY <2>1, Moved DEF Runtime!Put
  <2>3. S \cap Tagged \in SUBSET Runtime!Waiting BY WaitingIs DEF Runtime!Waiting
  <2>4. Runtime!Drop(S \cap Tagged) BY <1>2, <1>4, <2>2 DEF Runtime!Drop
  <2> QED BY <2>3, <2>4 DEF Runtime!Next
<1> QED BY <1>3, <1>4

\* The queue dropped by what ends the pane, or finds it ended: finish and set.
LEMMA EndImplements ==
    ASSUME PromptsInv, EndInv, lost \in [Threads -> SUBSET Tagged],
           NEW t \in Threads, Drop(t, ToSet(queue)), queue' = <<>>,
           UNCHANGED <<cur, used, told>>, Live => ~ Live', ~ Live => ~ Live'
    PROVE  [Runtime!Next]_Runtime!vars
<1>1. ToSet(queue') = ToSet(queue) \ ToSet(queue) BY NoQueue
<1>2. \A q \in Tagged : Where(q)' = IF q \in ToSet(queue) THEN "dropped" ELSE Where(q)
  BY <1>1, DropWhere
<1>3. CASE ~ Live
  <2>1. ToSet(queue) = {} BY <1>3, NoQueue DEF EndInv
  <2>2. \A q \in Tagged : Where(q)' = Where(q) BY <1>2, <2>1
  <2>3. (~Live)' = ~Live BY <1>3
  <2> QED BY <2>2, <2>3 DEF Runtime!vars
<1>4. CASE Live
  <2>1. \A q \in Tagged : Where(q)' = IF q \in Runtime!Waiting THEN "dropped" ELSE Where(q)
    BY <1>2, WaitingIs DEF Runtime!Waiting
  <2>2. Runtime!Put(Runtime!Waiting, "dropped") BY <2>1, Moved DEF Runtime!Put
  <2>3. Runtime!End BY <1>4, <2>2 DEF Runtime!End
  <2> QED BY <2>3 DEF Runtime!Next
<1> QED BY <1>3, <1>4

\* What OnTurn is told of a tagged prompt, the sender is told in PromptRuntime.
LEMMA TellImplements ==
    ASSUME told \in [Prompts -> Seq({"began", "ended", "lost"})],
           NEW p \in Tagged, NEW w, Tell(p, w)
    PROVE  Runtime!Tell(p, w)
<1>1. \A q \in Tagged : told'[q] = IF q = p THEN Append(told[q], w) ELSE told[q]
  BY TellOne, KindsAssumption
<1> QED BY <1>1 DEF Runtime!Tell

\* The runtime, however its goroutines interleave, keeps its promise to the sender
\* of every tagged prompt: StructuredTurns implements PromptRuntime.
THEOREM RuntimeCorrect == Spec => RuntimeSpec
<1>1. Init => Runtime!Init
  <2> SUFFICES ASSUME Init PROVE Runtime!Init
    OBVIOUS
  <2>1. ToSet(queue) = {} BY NoQueue DEF Init
  <2>2. \A p \in Tagged : Where(p) = "unsent" /\ told[p] = <<>>
    BY <2>1, KindsAssumption DEF Init, Where
  <2>3. (~Live) = FALSE BY DEF Init, Live
  <2> QED BY <2>2, <2>3 DEF Runtime!Init
<1>2. TypeOK /\ LoopInv /\ EndInv /\ PromptsInv /\ [Next]_vars => [Runtime!Next]_Runtime!vars
  <2> SUFFICES ASSUME TypeOK, LoopInv, EndInv, PromptsInv, [Next]_vars
               PROVE  [Runtime!Next]_Runtime!vars
    OBVIOUS
  <2>a. /\ pc \in [Threads -> Labels] /\ lost \in [Threads -> SUBSET Tagged]
        /\ {"loop", "close", "watch", "edit"} \subseteq Threads
        /\ \A t \in Cancellers : t \in Threads /\ t # "loop"
    BY CancellersAssumption DEF TypeOK, ThreadType, Threads
  <2>b. queue \in Seq(Prompts) /\ told \in [Prompts -> Seq({"began", "ended", "lost"})]
    BY DEF TypeOK, RuntimeType, ReportType
  <2>c. IsInjective(queue) /\ ToSet(queue) \subseteq used
    BY DEF PromptsInv
  <2>1. ASSUME NEW p \in Prompts, Send(p) PROVE [Runtime!Next]_Runtime!vars
    <3>1. /\ queue' = Append(queue, p) /\ used' = used \cup {p} /\ p \notin used
          /\ Live /\ UNCHANGED <<phase, cur, lost, told>>
      BY <2>1 DEF Send, loopVars
    <3>2. ToSet(queue') = ToSet(queue) \cup {p} BY <2>b, <2>c, <3>1, AppendSeq
    <3>3. Live' <=> Live BY <3>1 DEF Live
    <3>4. CASE p \notin Tagged
      BY <3>1, <3>2, <3>3, <3>4, Stutter
    <3>5. CASE p \in Tagged
      <4>1. Unsent(p) BY <3>1, <3>5 DEF PromptsInv, Waiting, Running, Dropped, Settled
      <4>2. Where(p) = "unsent" BY <3>5, <4>1, WhereIs
      <4>3. \A q \in Tagged : Where(q)' = IF q \in {p} THEN "waiting" ELSE Where(q)
        BY <3>1, <3>2 DEF Where
      <4>4. Runtime!Put({p}, "waiting") BY <4>3, Moved DEF Runtime!Put
      <4>5. Runtime!Take(p) BY <3>1, <3>3, <3>5, <4>2, <4>4 DEF Runtime!Take
      <4> QED BY <3>5, <4>5 DEF Runtime!Next
    <3> QED BY <3>4, <3>5
  <2>2. ASSUME NEW p \in Prompts, SendNow(p) PROVE [Runtime!Next]_Runtime!vars
    <3>1. PICK rest \in Kept(queue, ToSet(queue) \ {p}) : queue' = <<p>> \o rest
      BY <2>2 DEF SendNow
    <3>2. rest \in Seq(Prompts) /\ IsInjective(rest) /\ ToSet(rest) = ToSet(queue) \ {p}
      BY <2>b, <2>c, KeptSeq, KeptOnce
    <3>3. ToSet(queue') = ToSet(rest) \cup {p} BY <3>1, <3>2, FrontSeq
    <3>4. ToSet(queue') = ToSet(queue) BY <2>2, <3>2, <3>3 DEF SendNow
    <3> QED BY <2>2, <3>4, Stutter DEF SendNow, loopVars, Live
  <2>3. ASSUME NEW p \in Prompts, RemoveQueued(p) PROVE [Runtime!Next]_Runtime!vars
    <3>1. queue' \in Kept(queue, ToSet(queue) \ {p}) /\ p \in ToSet(queue) BY <2>3 DEF RemoveQueued
    <3>2. ToSet(queue') = ToSet(queue) \ {p} BY <2>b, <2>c, <3>1, KeptSeq
    <3>3. Drop("edit", {p}) /\ UNCHANGED <<cur, used, told>> /\ (Live' <=> Live)
      BY <2>3 DEF RemoveQueued, loopVars, Live
    <3> QED BY <2>a, <3>1, <3>2, <3>3, DropImplements
  <2>4. ASSUME NEW t \in Cancellers, Cancel(t) PROVE [Runtime!Next]_Runtime!vars
    <3>1. queue' = <<>> /\ Drop(t, ToSet(queue)) /\ UNCHANGED <<cur, used, told>> /\ (Live' <=> Live)
      BY <2>4 DEF Cancel, DropQueue, loopVars, Live
    <3> QED BY <2>a, <3>1, NoQueue, DropImplements
  <2>5. CASE ClearQueued
    <3>1. queue' \in Kept(queue, Mail \cup System) BY <2>5 DEF ClearQueued
    <3>2. ToSet(queue') = ToSet(queue) \ (ToSet(queue) \ (Mail \cup System))
      BY <2>b, <2>c, <3>1, KeptSeq
    <3>3. /\ Drop("edit", ToSet(queue) \ (Mail \cup System))
          /\ UNCHANGED <<cur, used, told>> /\ (Live' <=> Live)
      BY <2>5 DEF ClearQueued, loopVars, Live
    <3> QED BY <2>a, <3>2, <3>3, DropImplements
  <2>6. CASE Close
    <3>1. /\ queue' = <<>> /\ Drop("close", ToSet(queue)) /\ UNCHANGED <<cur, used, told>>
          /\ phase' = IF Live THEN "closed" ELSE phase
      BY <2>6 DEF Close, FinishLocked, DropQueue, loopVars
    <3> QED BY <2>a, <3>1, EndImplements DEF Live
  <2>7. CASE Watch
    <3>1. /\ queue' = <<>> /\ Drop("watch", ToSet(queue)) /\ UNCHANGED <<cur, used, told>>
          /\ phase' = IF Live THEN "closed" ELSE phase
      BY <2>7 DEF Watch, FinishLocked, DropQueue, loopVars
    <3> QED BY <2>a, <3>1, EndImplements DEF Live
  <2>8. CASE Teardown
    <3>1. /\ queue' = <<>> /\ Drop("loop", ToSet(queue)) /\ UNCHANGED <<cur, used, told>>
          /\ phase' = IF Live THEN "closed" ELSE phase
      BY <2>8 DEF Teardown, FinishLocked, DropQueue, loopVars
    <3> QED BY <2>a, <3>1, EndImplements DEF Live
  <2>9. CASE SelectExit
    <3>1. /\ queue' = <<>> /\ Drop("loop", ToSet(queue)) /\ UNCHANGED <<cur, used, told>>
          /\ phase' = IF Live THEN "exited" ELSE phase
      BY <2>9 DEF SelectExit, SetPhase, DropQueue, loopVars
    <3> QED BY <2>a, <3>1, EndImplements DEF Live
  <2>10. ASSUME NEW e \in Errors, LaunchFails(e) PROVE [Runtime!Next]_Runtime!vars
    <3>1. UNCHANGED <<cur, used, told>> BY <2>10 DEF LaunchFails, loopVars
    <3>2. CASE SetPhase(FailPhase(e))
      <4>1. /\ queue' = <<>> /\ Drop("loop", ToSet(queue))
            /\ phase' = IF Live THEN FailPhase(e) ELSE phase
        BY <3>2 DEF SetPhase, DropQueue
      <4> QED BY <2>a, <3>1, <4>1, FailPhaseFinal, EndImplements DEF Live
    <3>3. CASE UNCHANGED <<runtimeVars, lost>>
      BY <3>1, <3>3, Stutter DEF runtimeVars, Live
    <3> QED BY <2>10, <3>2, <3>3 DEF LaunchFails
  <2>11. CASE Fail
    <3>1. UNCHANGED <<cur, used, told>> BY <2>11 DEF Fail, loopVars
    <3>2. CASE SetPhase(FailPhase(result))
      <4>1. /\ queue' = <<>> /\ Drop("loop", ToSet(queue))
            /\ phase' = IF Live THEN FailPhase(result) ELSE phase
        BY <3>2 DEF SetPhase, DropQueue
      <4> QED BY <2>a, <3>1, <4>1, FailPhaseFinal, EndImplements DEF Live
    <3>3. CASE UNCHANGED <<runtimeVars, lost>>
      BY <3>1, <3>3, Stutter DEF runtimeVars, Live
    <3> QED BY <2>11, <3>2, <3>3 DEF Fail
  <2>12. CASE Pop
    <3>1. /\ cur' = Head(queue) /\ queue' = Tail(queue) /\ queue # <<>> /\ pc["loop"] = "pop"
          /\ phase = "ready" /\ UNCHANGED <<phase, lost, used, told>>
      BY <2>12 DEF Pop, CanPop
    <3>2. Head(queue) \in ToSet(queue) /\ ToSet(queue') = ToSet(queue) \ {Head(queue)}
      BY <2>b, <2>c, <3>1, PopSeq
    <3>3. \A q \in Tagged : q # cur BY <3>1, KindsAssumption DEF LoopInv
    <3>4. Live /\ (Live' <=> Live) BY <3>1 DEF Live
    <3>5. CASE Head(queue) \notin Tagged
      BY <3>1, <3>2, <3>3, <3>4, <3>5, Stutter
    <3>6. CASE Head(queue) \in Tagged
      <4>0. PICK p \in Tagged : p = Head(queue) BY <3>6
      <4>1. Where(p) = "waiting" BY <3>2, <4>0, WaitingIs
      <4>2. \A q \in Tagged : Where(q) # "running" BY <3>3 DEF Where
      <4>3. \A q \in Tagged : Where(q)' = IF q \in {p} THEN "running" ELSE Where(q)
        BY <3>1, <3>2, <3>3, <4>0 DEF Where
      <4>4. Runtime!Put({p}, "running") BY <4>3, Moved DEF Runtime!Put
      <4>5. Runtime!Start(p) BY <3>1, <3>4, <4>1, <4>2, <4>4 DEF Runtime!Start
      <4> QED BY <4>5 DEF Runtime!Next
    <3> QED BY <3>5, <3>6
  <2>13. CASE Begin
    <3>1. /\ Tell(cur, "began") /\ UNCHANGED <<phase, queue, lost, cur, used>>
          /\ pc["loop"] = "begin"
      BY <2>13 DEF Begin, runtimeVars, loopVars
    <3>2. Live' <=> Live BY <3>1 DEF Live
    <3>3. CASE cur \notin Tagged
      <4>1. UNCHANGED told BY <3>1, <3>3 DEF Tell
      <4> QED BY <3>1, <3>2, <4>1, Stutter
    <3>4. CASE cur \in Tagged
      <4>0. PICK p \in Tagged : p = cur BY <3>4
      <4>1. Running(p) BY <4>0 DEF PromptsInv, Unsent, Waiting, Dropped, Settled, Nowhere
      <4>2. Where(p) = "running" /\ told[p] = <<>> BY <3>1, <4>1, WhereIs DEF Running
      <4>3. Runtime!Tell(p, "began") BY <2>b, <3>1, <4>0, TellImplements
      <4>4. \A q \in Tagged : Where(q)' = Where(q) BY <3>1 DEF Where
      <4>5. Runtime!Begin(p) BY <3>2, <4>2, <4>3, <4>4 DEF Runtime!Begin
      <4> QED BY <4>5 DEF Runtime!Next
    <3> QED BY <3>3, <3>4
  <2>14. CASE Report
    <3>1. /\ Tell(cur, "ended") \/ Tell(cur, "lost")
          /\ UNCHANGED <<phase, queue, lost, used>> /\ cur' = None /\ pc["loop"] = "report"
      BY <2>14 DEF Report, runtimeVars
    <3>2. Live' <=> Live BY <3>1 DEF Live
    <3>3. None \notin Tagged BY KindsAssumption
    <3>4. CASE cur \notin Tagged
      <4>1. UNCHANGED told BY <3>1, <3>4 DEF Tell
      <4> QED BY <3>1, <3>2, <3>3, <3>4, <4>1, Stutter
    <3>5. CASE cur \in Tagged
      <4>0. PICK p \in Tagged : p = cur BY <3>5
      <4>1. Running(p) BY <4>0 DEF PromptsInv, Unsent, Waiting, Dropped, Settled, Nowhere
      <4>2. Where(p) = "running" /\ told[p] = <<"began">> BY <3>1, <4>1, WhereIs DEF Running
      <4>3. \E how \in {"ended", "lost"} : Runtime!Tell(p, how)
        BY <2>b, <3>1, <4>0, TellImplements
      <4>4. \A q \in Tagged : Where(q)' = IF q \in {p} THEN "over" ELSE Where(q)
        BY <3>1, <3>3, <4>0, <4>1 DEF Where, Running
      <4>5. Runtime!Put({p}, "over") BY <4>4, Moved DEF Runtime!Put
      <4>6. Runtime!Finish(p) BY <3>2, <4>2, <4>3, <4>5 DEF Runtime!Finish
      <4> QED BY <4>6 DEF Runtime!Next
    <3> QED BY <3>4, <3>5
  <2>15. ASSUME NEW t \in Threads, NEW p \in Prompts, Lose(t, p)
         PROVE  [Runtime!Next]_Runtime!vars
    <3>1. /\ p \in lost[t] /\ lost' = [lost EXCEPT ![t] = lost[t] \ {p}] /\ Tell(p, "lost")
          /\ UNCHANGED <<phase, queue, cur, used>>
      BY <2>15 DEF Lose, runtimeVars, loopVars
    <3>2. \A u \in Threads : lost'[u] = IF u = t THEN lost[u] \ {p} ELSE lost[u]
      BY <2>a, <3>1
    <3>3. p \in Tagged BY <2>a, <3>1
    <3>4. Dropped(p) BY <3>1, <3>3 DEF PromptsInv, Unsent, Waiting, Running, Settled, Nowhere
    <3>5. Where(p) = "dropped" BY <3>3, <3>4, WhereIs
    <3>6. \A u \in Threads : p \notin lost'[u]
      <4>1. \A u \in Threads \ {t} : p \notin lost[u] BY <3>1, <3>4 DEF Dropped
      <4> QED BY <3>2, <4>1
    <3>7. ASSUME NEW q \in Tagged PROVE Where(q)' = IF q \in {p} THEN "over" ELSE Where(q)
      <4>1. CASE q = p
        BY <3>1, <3>4, <3>6, <4>1 DEF Where, Dropped
      <4>2. CASE q # p
        <5>1. \A u \in Threads : q \in lost'[u] <=> q \in lost[u] BY <3>2, <4>2
        <5> QED BY <3>1, <4>2, <5>1 DEF Where
      <4> QED BY <4>1, <4>2
    <3>8. Runtime!Put({p}, "over") BY <3>7, Moved DEF Runtime!Put
    <3>9. Runtime!Tell(p, "lost") BY <2>b, <3>1, <3>3, TellImplements
    <3>10. Live' <=> Live BY <3>1 DEF Live
    <3>11. Runtime!Lose(p) BY <3>3, <3>5, <3>8, <3>9, <3>10 DEF Runtime!Lose
    <3> QED BY <3>3, <3>11 DEF Runtime!Next
  <2>16. CASE Launch
    <3>1. Live' <=> Live BY <2>16 DEF Launch, LaunchedPhase, Live
    <3> QED BY <2>16, <3>1, Stutter DEF Launch, loopVars
  <2>17. ASSUME NEW t \in Cancellers, CancelSend(t) PROVE [Runtime!Next]_Runtime!vars
    BY <2>17, Stutter DEF CancelSend, runtimeVars, loopVars, Live
  <2>18. CASE Interrupt \/ RewindBegin \/ RewindEnd
    BY <2>18, Stutter DEF Interrupt, RewindBegin, RewindEnd, loopVars, Live
  <2>19. CASE CloseFinish \/ CloseReturn \/ WatchFinish \/ WatchDone \/ OwnerEnds
    BY <2>19, Stutter DEF CloseFinish, CloseReturn, WatchFinish, WatchDone, OwnerEnds, FinishTail,
        runtimeVars, loopVars, Live
  <2>20. CASE PopNothing \/ SelectWake \/ SelectCtx
    BY <2>20, Stutter DEF PopNothing, SelectWake, SelectCtx, runtimeVars, loopVars, Live
  <2>21. CASE SendPrompt \/ Settle \/ SetDone \/ TeardownFinish \/ TeardownClient
    BY <2>21, Stutter DEF SendPrompt, Settle, SetDone, TeardownFinish, TeardownClient, FinishTail,
        runtimeVars, loopVars, Live
  <2>22. ASSUME NEW r \in Stops \cup Errors, Wait(r) \/ AgentAnswers(r)
         PROVE  [Runtime!Next]_Runtime!vars
    BY <2>22, Stutter DEF Wait, AgentAnswers, runtimeVars, loopVars, Live
  <2>23. CASE AgentReads \/ OutputEnds \/ LineTooLong \/ LineTooLongClose
    BY <2>23, Stutter DEF AgentReads, OutputEnds, LineTooLong, LineTooLongClose, runtimeVars,
        loopVars, Live
  <2>24. CASE UNCHANGED vars
    BY <2>24, Stutter DEF vars, runtimeVars, loopVars, Live
  <2> QED
    BY <2>1, <2>2, <2>3, <2>4, <2>5, <2>6, <2>7, <2>8, <2>9, <2>10, <2>11, <2>12, <2>13, <2>14,
        <2>15, <2>16, <2>17, <2>18, <2>19, <2>20, <2>21, <2>22, <2>23, <2>24
    DEF Next, Calls, Ending, Loop, Agent
<1> QED BY <1>1, <1>2, TypeCorrect, LoopCorrect, EndCorrect, PromptsCorrect, PTL
    DEF Spec, RuntimeSpec, Runtime!Spec
=============================================================================
