------------------------- MODULE PromptDeliveryProofs -------------------------
(* Proofs about PromptDelivery, for every number of messages, runtimes, turns  *)
(* and crashes: what waits has turns left (TurnsLeftCorrect), what is finished *)
(* stays finished (FinishedCorrect), no accepted message is lost               *)
(* (AcceptedCorrect), what is down as handed is held (HandedCorrect) and every *)
(* prompt is counted before it is sent (CountedCorrect), whatever crashes.     *)
(*                                                                             *)
(* The first three rest on StoreInv, which says how memory and disk stand to   *)
(* each other. Most steps change the box by one call of the store, if at all,  *)
(* and the lemmas show each call to be a GoodStep; the steps that do more      *)
(* (Save, SendPut, DropInbox, Crash) have a case of their own. HandedCorrect   *)
(* rests on HeldInv, which says where each goroutine and each message is, and  *)
(* CountedCorrect on PromptInv, of the one place of the runtime a message is   *)
(* in and of the attempts that are counted by then.                            *)
EXTENDS PromptDelivery, FiniteSetTheorems, WellFoundedInduction, TLAPS

\* What a call of the store may do to a message.
TurnsLeft(x) == x.state = "queued" => x.attempts < MaxAttempts
Forward(x, y) ==
    /\ Finished(x) => y = x
    /\ x = NoMessage <=> y = NoMessage
    /\ x.state = "none" <=> y.state = "none"
GoodMessage(x, y) == y \in Message /\ TurnsLeft(y) /\ Forward(x, y)

\* And to the box.
GoodBox(b) == b \in TypeOfBox /\ HasTurnsLeft(b)
GoodStep(b, c) == GoodBox(c) /\ \A n \in Messages : Forward(b[n], c[n])

\* The bounds are positive numbers.
LEMMA BoundsAreNat == MaxMessages \in Nat /\ MaxAttempts \in Nat \ {0} /\ MaxInbox \in Nat \ {0}
BY InboxAssumption

\* NoMessage is a message, and one whose state is none.
LEMMA NoMessageIs == NoMessage \in Message /\ NoMessage.state = "none" /\ TurnsLeft(NoMessage) /\ ~Finished(NoMessage)
BY BoundsAreNat DEF NoMessage, Message, TurnsLeft, Finished, PromptStates

\* A box is good when each of its messages is.
LEMMA GoodBoxIs ==
    ASSUME NEW b
    PROVE GoodBox(b) <=> b \in [Messages -> Message] /\ \A n \in Messages : TurnsLeft(b[n])
BY DEF GoodBox, TypeOfBox, HasTurnsLeft, Pending, In, TurnsLeft

\* A step that leaves the box alone is good.
LEMMA SameIsGood ==
    ASSUME NEW b, GoodBox(b)
    PROVE GoodStep(b, b)
BY DEF GoodStep, Forward

\* So is one that changes one message well, and one that names a message there is not.
LEMMA OneIsGood ==
    ASSUME NEW b, GoodBox(b), NEW m, NEW y, m \in Messages => GoodMessage(b[m], y)
    PROVE GoodStep(b, [b EXCEPT ![m] = y])
<1> DEFINE c == [b EXCEPT ![m] = y]
<1>1. b \in [Messages -> Message] /\ \A n \in Messages : TurnsLeft(b[n])
  BY GoodBoxIs
<1>2. \A n \in Messages : c[n] = IF n = m THEN y ELSE b[n]
  BY <1>1
<1>3. c \in [Messages -> Message]
  BY <1>1 DEF GoodMessage
<1>4. \A n \in Messages : TurnsLeft(c[n]) /\ Forward(b[n], c[n])
  BY <1>1, <1>2 DEF GoodMessage, Forward
<1> QED
  BY <1>3, <1>4, GoodBoxIs DEF GoodStep

\* What Retried makes of an unfinished message that has begun at most MaxAttempts turns.
LEMMA RetriedIsGood ==
    ASSUME NEW x \in Message, x.state \in {"queued", "delivered"}
    PROVE /\ GoodMessage(x, Retried(x))
          /\ Retried(x).attempts = x.attempts
          /\ Retried(x).state \in {"queued", "undeliverable"}
<1>1. Retried(x) = [state |-> IF x.attempts >= MaxAttempts THEN "undeliverable" ELSE "queued", attempts |-> x.attempts]
  BY DEF Retried, Message
<1>2. x.attempts \in 0..MaxAttempts
  BY DEF Message
<1>3. Retried(x) \in Message
  BY <1>1, <1>2 DEF Message, PromptStates
<1>4. TurnsLeft(Retried(x))
  BY <1>1, <1>2, BoundsAreNat DEF TurnsLeft
<1>5. x # NoMessage /\ Retried(x) # NoMessage /\ ~Finished(x)
  BY <1>1 DEF NoMessage, Finished
<1> QED
  BY <1>1, <1>3, <1>4, <1>5 DEF GoodMessage, Forward

-----------------------------------------------------------------------------
(* Each call of the store is a good step.                                      *)

\* Deliver counts the turn of a queued message and leaves any other alone.
LEMMA DeliverIsGood ==
    ASSUME NEW b, GoodBox(b), NEW m
    PROVE GoodStep(b, Deliver(b, m))
<1>1. CASE b[m].state # "queued"
  BY <1>1, SameIsGood DEF Deliver
<1>2. CASE b[m].state = "queued"
  <2> DEFINE y == [state |-> "delivered", attempts |-> b[m].attempts + 1]
  <2>1. Deliver(b, m) = [b EXCEPT ![m] = y]
    BY <1>2 DEF Deliver
  <2>2. ASSUME m \in Messages PROVE GoodMessage(b[m], y)
    <3>1. b[m] \in Message /\ TurnsLeft(b[m])
      BY <2>2, GoodBoxIs
    <3>2. b[m].attempts \in 0..MaxAttempts /\ b[m].attempts < MaxAttempts
      BY <1>2, <3>1 DEF Message, TurnsLeft
    <3>3. y \in Message
      BY <3>2, BoundsAreNat DEF Message, PromptStates
    <3> QED
      BY <1>2, <3>3 DEF GoodMessage, TurnsLeft, Forward, Finished, NoMessage
  <2>3. GoodStep(b, [b EXCEPT ![m] = y])
    <3> HIDE DEF y
    <3> QED
      BY ONLY GoodBox(b), <2>2, OneIsGood
  <2> QED
    BY <2>1, <2>3
<1> QED
  BY <1>1, <1>2

\* End settles a delivered message, or has it tried again.
LEMMA EndIsGood ==
    ASSUME NEW b, GoodBox(b), NEW m, NEW handled \in BOOLEAN
    PROVE GoodStep(b, End(b, m, handled))
<1>1. CASE b[m].state # "delivered"
  BY <1>1, SameIsGood DEF End
<1>2. CASE b[m].state = "delivered"
  <2> DEFINE y == IF handled THEN [b[m] EXCEPT !.state = "handled"] ELSE Retried(b[m])
  <2>1. End(b, m, handled) = [b EXCEPT ![m] = y]
    BY <1>2 DEF End
  <2>2. ASSUME m \in Messages PROVE GoodMessage(b[m], y)
    <3>1. b[m] \in Message
      BY <2>2, GoodBoxIs
    <3>2. CASE handled
      BY <1>2, <3>1, <3>2 DEF GoodMessage, TurnsLeft, Forward, Finished, NoMessage, Message, PromptStates
    <3>3. CASE ~handled
      BY <1>2, <3>1, <3>3, RetriedIsGood
    <3> QED
      BY <3>2, <3>3
  <2>3. GoodStep(b, [b EXCEPT ![m] = y])
    <3> HIDE DEF y
    <3> QED
      BY ONLY GoodBox(b), <2>2, OneIsGood
  <2> QED
    BY <2>1, <2>3
<1> QED
  BY <1>1, <1>2

\* Fail counts the refusal of a queued message, which has a turn left for it.
LEMMA FailIsGood ==
    ASSUME NEW b, GoodBox(b), NEW m
    PROVE GoodStep(b, Fail(b, m))
<1>1. CASE b[m].state # "queued"
  BY <1>1, SameIsGood DEF Fail
<1>2. CASE b[m].state = "queued"
  <2> DEFINE x == Tried(b[m])
             y == Retried(x)
  <2>1. Fail(b, m) = [b EXCEPT ![m] = y]
    BY <1>2 DEF Fail
  <2>2. ASSUME m \in Messages PROVE GoodMessage(b[m], y)
    <3>1. b[m] \in Message /\ TurnsLeft(b[m])
      BY <2>2, GoodBoxIs
    <3>2. b[m].attempts \in 0..MaxAttempts /\ b[m].attempts < MaxAttempts
      BY <1>2, <3>1 DEF Message, TurnsLeft
    <3>3. x = [state |-> "queued", attempts |-> b[m].attempts + 1]
      BY <1>2, <3>1 DEF Message, Tried
    <3>4. x \in Message /\ x.state = "queued"
      BY <3>2, <3>3, BoundsAreNat DEF Message, PromptStates
    <3>5. GoodMessage(x, Retried(x)) /\ Retried(x).state \in {"queued", "undeliverable"}
      BY <3>4, RetriedIsGood
    <3> QED
      BY <1>2, <3>5 DEF GoodMessage, Forward, Finished, NoMessage
  <2>3. GoodStep(b, [b EXCEPT ![m] = y])
    <3> HIDE DEF y
    <3> QED
      BY ONLY GoodBox(b), <2>2, OneIsGood
  <2> QED
    BY <2>1, <2>3
<1> QED
  BY <1>1, <1>2

\* Read touches unread terminal mail only.
LEMMA ReadIsGood ==
    ASSUME NEW b, GoodBox(b), NEW m
    PROVE GoodStep(b, Read(b, m))
<1>1. CASE b[m].state # "unread"
  BY <1>1, SameIsGood DEF Read
<1>2. CASE b[m].state = "unread"
  <2> DEFINE y == [b[m] EXCEPT !.state = "read"]
  <2>1. Read(b, m) = [b EXCEPT ![m] = y]
    BY <1>2 DEF Read
  <2>2. ASSUME m \in Messages PROVE GoodMessage(b[m], y)
    BY <1>2, <2>2, GoodBoxIs DEF GoodMessage, TurnsLeft, Forward, Finished, NoMessage, Message, PromptStates
  <2>3. GoodStep(b, [b EXCEPT ![m] = y])
    <3> HIDE DEF y
    <3> QED
      BY ONLY GoodBox(b), <2>2, OneIsGood
  <2> QED
    BY <2>1, <2>3
<1> QED
  BY <1>1, <1>2

\* Reroute touches unfinished mail of the prompt route only.
LEMMA RerouteIsGood ==
    ASSUME NEW b, GoodBox(b)
    PROVE GoodStep(b, Reroute(b))
<1> DEFINE u == [state |-> "unread", attempts |-> 0]
<1>1. b \in [Messages -> Message] /\ \A n \in Messages : TurnsLeft(b[n])
  BY GoodBoxIs
<1>2. \A n \in Messages : Reroute(b)[n] = IF b[n].state \in {"queued", "delivered"} THEN u ELSE b[n]
  BY DEF Reroute, Open, In
<1>3. u \in Message /\ TurnsLeft(u) /\ u # NoMessage
  BY BoundsAreNat DEF Message, TurnsLeft, NoMessage
<1>4. \A n \in Messages : Reroute(b)[n] \in Message /\ TurnsLeft(Reroute(b)[n]) /\ Forward(b[n], Reroute(b)[n])
  BY <1>1, <1>2, <1>3 DEF Forward, Finished, NoMessage
<1>5. Reroute(b) = [n \in Messages |-> IF n \in Open(b) THEN u ELSE b[n]]
  BY DEF Reroute
<1>6. Reroute(b) \in [Messages -> Message]
  BY <1>4, <1>5
<1> QED
  BY <1>4, <1>6, GoodBoxIs DEF GoodStep

\* What Load makes of a good box is a good box, with the same messages in it, and
\* the finished ones as they were.
LEMMA RestoredIsGood ==
    ASSUME NEW b, GoodBox(b)
    PROVE GoodStep(b, Restored(b))
<1>1. b \in [Messages -> Message] /\ \A n \in Messages : TurnsLeft(b[n])
  BY GoodBoxIs
<1>2. \A n \in Messages : Restored(b)[n] = IF b[n].state = "delivered" THEN Retried(b[n]) ELSE b[n]
  BY DEF Restored
<1>3. \A n \in Messages : GoodMessage(b[n], Restored(b)[n])
  BY <1>1, <1>2, RetriedIsGood DEF GoodMessage, Forward
<1>4. Restored(b) = [n \in Messages |-> IF b[n].state = "delivered" THEN Retried(b[n]) ELSE b[n]]
  BY DEF Restored
<1>5. Restored(b) \in [Messages -> Message]
  BY <1>3, <1>4 DEF GoodMessage
<1> QED
  BY <1>3, <1>5, GoodBoxIs DEF GoodStep, GoodMessage

-----------------------------------------------------------------------------
(* The kinds of step.                                                          *)

\* What StoreInv needs of the threads, the pane and the sender's route.
Sound(a, k, r) ==
    /\ r \in {"none", "queued", "unread"}
    /\ DOMAIN a = Threads /\ (a[Owner] = "drop" => k = "gone")

\* A step that makes one call of the store at most, and saves nothing.
Quiet ==
    /\ GoodStep(box, box')
    /\ UNCHANGED <<next, disk, diskNext, accepted, crashes>>
    /\ Sound(at', kind', route')

\* The owner is a thread.
LEMMA OwnerIsThread == Owner \in Threads
BY DEF Owner, Threads

\* Goto sends a thread elsewhere, and nobody to drop the inbox.
LEMMA GotoIsSound ==
    ASSUME Sound(at, kind, route), NEW t, NEW label, label # "drop", Goto(t, label),
           kind' = kind, route' \in {"none", "queued", "unread"}
    PROVE Sound(at', kind', route')
BY OwnerIsThread DEF Sound, Goto

\* Neither does a call of the store.
LEMMA CallIsSound ==
    ASSUME Sound(at, kind, route), NEW t, NEW b, NEW l1, NEW l2, l1 # "drop", l2 # "drop", Call(t, b, l1, l2),
           kind' = kind, route' = route
    PROVE Sound(at', kind', route')
<1>1. Goto(t, IF b # box THEN l1 ELSE l2)
  BY DEF Call
<1>2. (IF b # box THEN l1 ELSE l2) # "drop" /\ route' \in {"none", "queued", "unread"}
  BY DEF Sound
<1> QED
  BY <1>1, <1>2, GotoIsSound

\* A step that leaves the store alone is quiet.
LEMMA NoCallIsQuiet ==
    ASSUME GoodBox(box), Sound(at, kind, route), Sound(at', kind', route'),
           UNCHANGED <<box, next, disk, diskNext, accepted, crashes>>
    PROVE Quiet
BY SameIsGood DEF Quiet

\* A goroutine of the tick or a reporter stays where it is, or goes elsewhere.
Moves(t, labels) == UNCHANGED at \/ \E l \in labels : Goto(t, l)

\* Neither way does it go to drop the inbox.
LEMMA MoveIsSound ==
    ASSUME Sound(at, kind, route), NEW t, NEW labels, "drop" \notin labels, Moves(t, labels),
           kind' = kind, route' \in {"none", "queued", "unread"}
    PROVE Sound(at', kind', route')
<1>1. CASE UNCHANGED at
  BY <1>1 DEF Sound
<1>2. CASE \E l \in labels : Goto(t, l)
  BY <1>2, GotoIsSound
<1> QED
  BY <1>1, <1>2 DEF Moves

\* The tick makes one call of the store at most.
LEMMA TickIsQuiet ==
    ASSUME GoodBox(box), Sound(at, kind, route), TickSteps
    PROVE Quiet
<1> USE DEF tickFrame, diskVars, tickVars, runVars, paneVars, storeVars
<1> DEFINE labels == Labels \ {"drop"}
<1>1. CASE TickReroute
  <2>1. Call(Tick, Reroute(box), "save reroute", "cleanup")
    BY <1>1 DEF TickReroute
  <2>2. GoodStep(box, box')
    BY <2>1, RerouteIsGood DEF Call
  <2> QED
    BY <1>1, <2>1, <2>2, CallIsSound DEF TickReroute, Quiet
<1>2. CASE TickInterrupt
  <2>1. Call(Tick, Interrupted(box, First(todo)), "save interrupt", "forget")
    BY <1>2 DEF TickInterrupt
  <2>2. GoodStep(box, box')
    BY <2>1, EndIsGood DEF Call, Interrupted
  <2> QED
    BY <1>2, <2>1, <2>2, CallIsSound DEF TickInterrupt, Quiet
<1>3. CASE TickFail
  <2>1. Call(Tick, Fail(box, First(todo)), "save fail", "offer")
    BY <1>3 DEF TickFail
  <2>2. GoodStep(box, box')
    BY <2>1, FailIsGood DEF Call
  <2> QED
    BY <1>3, <2>1, <2>2, CallIsSound DEF TickFail, Quiet
<1>4. ASSUME \/ TickStart \/ TickPanes \/ TickLook \/ TickSettle \/ TickForget \/ TickPending
             \/ TickOffer \/ TickSend \/ TickUnhand \/ TickRefused \/ TickCleanup
      PROVE Quiet
  <2>1. UNCHANGED <<box, next, disk, diskNext, accepted, crashes, kind, route>>
    BY <1>4 DEF TickStart, TickPanes, TickLook, TickSettle, TickForget, TickPending, TickOffer, TickSend,
                TickUnhand, TickRefused, TickCleanup
  <2>2. Moves(Tick, labels)
    <3>1. CASE TickStart
      BY <3>1 DEF TickStart, Moves, Goto, Labels
    <3>2. CASE TickPanes
      BY <3>2 DEF TickPanes, Moves, Goto, Labels
    <3>3. CASE TickLook
      BY <3>3 DEF TickLook, Moves, Goto, Labels
    <3>4. CASE TickSettle
      BY <3>4 DEF TickSettle, Moves, Goto, Labels
    <3>5. CASE TickForget
      BY <3>5 DEF TickForget, Moves, Goto, Labels
    <3>6. CASE TickPending
      BY <3>6 DEF TickPending, Moves, Goto, Labels
    <3>7. CASE TickOffer
      BY <3>7 DEF TickOffer, Moves, Goto, Labels
    <3>8. CASE TickSend
      BY <3>8 DEF TickSend, Moves, Goto, Labels
    <3>9. CASE TickUnhand
      BY <3>9 DEF TickUnhand, Moves, Goto, Labels
    <3>10. CASE TickRefused
      BY <3>10 DEF TickRefused, Moves, Goto, Labels
    <3>11. CASE TickCleanup
      BY <3>11 DEF TickCleanup, Moves, Goto, Labels
    <3> QED
      BY <1>4, <3>1, <3>2, <3>3, <3>4, <3>5, <3>6, <3>7, <3>8, <3>9, <3>10, <3>11
  <2>3. Sound(at', kind', route')
    BY <2>1, <2>2, MoveIsSound DEF Sound
  <2> QED
    BY <2>1, <2>3, NoCallIsQuiet
<1> QED
  BY <1>1, <1>2, <1>3, <1>4 DEF TickSteps

\* A report makes one call of the store.
LEMMA ReportIsQuiet ==
    ASSUME GoodBox(box), Sound(at, kind, route), NEW t \in Reporters, Reports(t)
    PROVE Quiet
<1> USE DEF reportFrame, diskVars, tickVars, paneVars
<1> DEFINE labels == Labels \ {"drop"}
<1>1. CASE ReportApply(t)
  <2> DEFINE l2 == IF rep[t].what = "began" THEN "prompt" ELSE "forget"
  <2>1. Call(t, Applied(t), "save report", l2)
    BY <1>1 DEF ReportApply
  <2>2. GoodStep(box, Applied(t))
    BY DeliverIsGood, EndIsGood DEF Applied
  <2>3. GoodStep(box, box')
    BY <2>1, <2>2 DEF Call
  <2>4. l2 # "drop" /\ kind' = kind /\ route' = route
    BY <1>1 DEF ReportApply
  <2>5. Sound(at', kind', route')
    <3> HIDE DEF l2
    <3> QED
      BY <2>1, <2>4, CallIsSound
  <2> QED
    BY <1>1, <2>3, <2>5 DEF ReportApply, Quiet
<1>2. ASSUME ReportLook(t) \/ ReportForget(t) \/ ReportDrop(t)
      PROVE Quiet
  <2>1. UNCHANGED <<box, next, disk, diskNext, accepted, crashes, kind, route>>
    BY <1>2 DEF ReportLook, ReportForget, ReportDrop
  <2>2. Moves(t, labels)
    BY <1>2 DEF ReportLook, ReportForget, ReportDrop, AfterReport, Home, Moves, Goto, Labels
  <2>3. Sound(at', kind', route')
    BY <2>1, <2>2, MoveIsSound DEF Sound
  <2> QED
    BY <2>1, <2>3, NoCallIsQuiet
<1> QED
  BY <1>1, <1>2 DEF Reports

\* The runtimes, and what the owner of the pane does short of dropping its inbox,
\* leave the store alone.
LEMMA RuntimeIsQuiet ==
    ASSUME GoodBox(box), Sound(at, kind, route), NEW g \in Gens, NEW t \in Reporters, NEW p,
           \/ Turns(g) \/ CancelPane \/ RuntimeEnds(t, p) \/ Start(g) \/ Retire \/ BecomeTerminal \/ Switch
    PROVE Quiet
<1> USE DEF reportFrame, ownerFrame, diskVars, tickVars, paneVars, runVars
<1> DEFINE labels == Labels \ {"drop"}
<1>1. CASE Turns(g)
  <2>1. UNCHANGED <<box, next, disk, diskNext, accepted, crashes, kind, route>>
    BY <1>1 DEF Turns, Pop, SendPrompt, SendFails, TurnEnds
  <2>2. Moves(Loop(g), labels)
    BY <1>1 DEF Turns, Pop, SendPrompt, SendFails, TurnEnds, Moves, Goto, Labels
  <2>3. Sound(at', kind', route')
    BY <2>1, <2>2, MoveIsSound DEF Sound
  <2> QED
    BY <2>1, <2>3, NoCallIsQuiet
<1>2. ASSUME CancelPane \/ RuntimeEnds(t, p) \/ Start(g) \/ Retire \/ BecomeTerminal \/ Switch
      PROVE Quiet
  <2>1. UNCHANGED <<box, next, disk, diskNext, accepted, crashes, at, route>>
    BY <1>2 DEF CancelPane, RuntimeEnds, Start, Retire, BecomeTerminal, Switch
  <2>2. kind = "gone" => kind' = "gone"
    BY <1>2 DEF CancelPane, RuntimeEnds, Start, Retire, BecomeTerminal, Switch
  <2>3. Sound(at', kind', route')
    BY <2>1, <2>2 DEF Sound
  <2> QED
    BY <2>1, <2>3, NoCallIsQuiet
<1> QED
  BY <1>1, <1>2

\* So do the other steps but four.
LEMMA OthersAreQuiet ==
    ASSUME GoodBox(box), Sound(at, kind, route), NEW m, SendRouted \/ ReadMail(m) \/ RemovePane
    PROVE Quiet
<1> USE DEF ownerFrame, diskVars, tickVars, paneVars, runVars, storeVars
<1>1. CASE SendRouted
  <2>1. Goto(Sender, "put") /\ kind' = kind /\ route' \in {"none", "queued", "unread"}
    BY <1>1 DEF SendRouted
  <2>2. Sound(at', kind', route')
    BY <2>1, GotoIsSound
  <2> QED
    BY <1>1, <2>2, NoCallIsQuiet DEF SendRouted
<1>2. CASE ReadMail(m)
  <2>1. Call(Reader, Read(box, m), "save", "idle") /\ kind' = kind /\ route' = route
    BY <1>2 DEF ReadMail
  <2>2. GoodStep(box, box')
    BY <2>1, ReadIsGood DEF Call
  <2> QED
    BY <1>2, <2>1, <2>2, CallIsSound DEF ReadMail, Quiet
<1>3. CASE RemovePane
  <2>1. Goto(Owner, "drop") /\ kind' = "gone" /\ UNCHANGED <<box, next, disk, diskNext, accepted, crashes, route>>
    BY <1>3 DEF RemovePane
  <2>2. Sound(at', kind', route')
    BY <2>1 DEF Sound, Goto
  <2> QED
    BY <2>1, <2>2, NoCallIsQuiet
<1> QED
  BY <1>1, <1>2, <1>3

\* Every step is quiet, or a save, the arrival of a message, the dropping of the
\* inbox or a crash.
LEMMA StepKinds ==
    ASSUME GoodBox(box), Sound(at, kind, route), [Next]_vars
    PROVE Quiet \/ (\E t \in Threads : Save(t)) \/ SendPut \/ DropInbox \/ Crash
<1>1. CASE UNCHANGED vars
  <2>1. UNCHANGED <<box, next, disk, diskNext, accepted, crashes, at, kind, route>>
    BY <1>1 DEF vars, storeVars, diskVars, paneVars
  <2> QED
    BY <2>1, NoCallIsQuiet DEF Sound
<1>2. CASE Next
  <2>1. CASE TickSteps
    BY <2>1, TickIsQuiet
  <2>2. ASSUME NEW t \in Reporters, Reports(t) PROVE Quiet
    BY <2>2, ReportIsQuiet
  <2>3. Loop(1) \in Reporters /\ 1 \in Gens
    BY DeliveryAssumption DEF Loop, Reporters, Gens
  <2>4. ASSUME NEW g \in Gens, Turns(g) \/ Start(g) PROVE Quiet
    BY <2>3, <2>4, RuntimeIsQuiet
  <2>5. ASSUME NEW t \in Reporters, NEW p, RuntimeEnds(t, p) PROVE Quiet
    BY <2>3, <2>5, RuntimeIsQuiet
  <2>6. CASE CancelPane \/ Retire \/ BecomeTerminal \/ Switch
    BY <2>3, <2>6, RuntimeIsQuiet
  <2>7. ASSUME NEW m, SendRouted \/ ReadMail(m) \/ RemovePane PROVE Quiet
    BY <2>7, OthersAreQuiet
  <2> QED
    BY <1>2, <2>1, <2>2, <2>4, <2>5, <2>6, <2>7 DEF Next
<1> QED
  BY <1>1, <1>2

-----------------------------------------------------------------------------
(* The invariant.                                                              *)

\* Its parts that are about one state of the threads and the pane.
LEMMA SoundIs == Sound(at, kind, route) <=> Routed /\ Dropping
BY DEF Sound, Routed, Dropping

\* A box that is empty is good.
LEMMA EmptyIsGood == GoodBox(EmptyBox) /\ \A m \in Messages : EmptyBox[m] = NoMessage
<1>1. \A m \in Messages : EmptyBox[m] = NoMessage
  BY DEF EmptyBox
<1>2. EmptyBox \in [Messages -> Message]
  BY NoMessageIs DEF EmptyBox
<1> QED
  BY <1>1, <1>2, NoMessageIs, GoodBoxIs

\* The store begins empty.
LEMMA InitStore == Init => StoreInv
<1> SUFFICES ASSUME Init PROVE StoreInv
  OBVIOUS
<1>1. Boxes
  BY EmptyIsGood DEF Init, Boxes, GoodBox
<1>2. Numbers
  BY EmptyIsGood DEF Init, Numbers
<1>3. DiskIsBehind
  BY EmptyIsGood, NoMessageIs DEF Init, DiskIsBehind
<1>4. at[Owner] = "idle" /\ DOMAIN at = Threads
  BY OwnerIsThread DEF Init, AllHome, Home, Owner
<1>5. Routed /\ Dropping
  BY <1>4 DEF Init, Routed, Dropping
<1> QED
  BY <1>1, <1>2, <1>3, <1>5 DEF StoreInv

\* A quiet step keeps it: memory only moves on from the disk.
LEMMA QuietKeeps ==
    ASSUME StoreInv, Quiet
    PROVE StoreInv'
<1>1. GoodBox(box') /\ \A n \in Messages : Forward(box[n], box'[n])
  BY DEF Quiet, GoodStep
<1>2. UNCHANGED <<next, disk, diskNext, accepted, crashes>>
  BY DEF Quiet
<1>3. Boxes'
  BY <1>1, <1>2 DEF StoreInv, Boxes, GoodBox
<1>4. Numbers'
  BY <1>1, <1>2 DEF StoreInv, Numbers, Forward
<1>5. DiskIsBehind'
  BY <1>1, <1>2, NoMessageIs DEF StoreInv, DiskIsBehind, Forward
<1>6. Routed' /\ Dropping'
  BY DEF Quiet, Sound, Routed, Dropping
<1> QED
  BY <1>3, <1>4, <1>5, <1>6 DEF StoreInv

\* After a save the disk is level with memory.
LEMMA SaveKeeps ==
    ASSUME StoreInv, NEW t \in Threads, Save(t)
    PROVE StoreInv'
<1>1. /\ disk' = box /\ diskNext' = next /\ accepted' \subseteq accepted \cup {next - 1}
      /\ UNCHANGED <<box, next, crashes, route, kind>>
  BY DEF Save, storeVars, paneVars
<1>2. Boxes'
  BY <1>1 DEF StoreInv, Boxes
<1>3. Numbers'
  BY <1>1 DEF StoreInv, Numbers
<1>4. DiskIsBehind'
  BY <1>1, NoMessageIs DEF StoreInv, DiskIsBehind
<1>5. at' = [at EXCEPT ![t] = AfterSave(t)] /\ AfterSave(t) # "drop"
  BY DEF Save, Goto, AfterSave, Home
<1>6. Routed' /\ Dropping'
  BY <1>1, <1>5 DEF StoreInv, Routed, Dropping
<1> QED
  BY <1>2, <1>3, <1>4, <1>6 DEF StoreInv

\* What Put does: a new message, and perhaps a finished one that goes.
LEMMA PutIs ==
    ASSUME GoodBox(box), Routed
    PROVE /\ GoodBox(Put(box, next, route))
          /\ \A n \in Messages : n # next =>
                \/ Put(box, next, route)[n] = box[n]
                \/ Put(box, next, route)[n] = NoMessage /\ Finished(box[n])
<1> DEFINE b == Put(box, next, route)
           new == [state |-> route, attempts |-> 0]
<1>1. b = [n \in Messages |-> IF n = next THEN new ELSE IF n \in MakeRoom(box) THEN NoMessage ELSE box[n]]
  BY DEF Put
<1>2. \A n \in MakeRoom(box) : Finished(box[n])
  BY DEF MakeRoom, Spare, Oldest
<1>3. new \in Message /\ TurnsLeft(new)
  BY BoundsAreNat DEF Routed, Message, TurnsLeft, PromptStates
<1>4. \A n \in Messages : box[n] \in Message /\ TurnsLeft(box[n])
  BY GoodBoxIs
<1>5. \A n \in Messages : b[n] = IF n = next THEN new ELSE IF n \in MakeRoom(box) THEN NoMessage ELSE box[n]
  BY <1>1
<1> HIDE DEF new
<1>6. \A n \in Messages : b[n] \in Message /\ TurnsLeft(b[n])
  BY <1>3, <1>4, <1>5, NoMessageIs
<1>7. b \in [Messages -> Message]
  BY <1>1, <1>3, <1>4, NoMessageIs
<1>8. \A n \in Messages : n # next => b[n] = box[n] \/ (b[n] = NoMessage /\ Finished(box[n]))
  BY <1>2, <1>5
<1> QED
  BY <1>6, <1>7, <1>8, GoodBoxIs

\* A message that arrives has no place on the disk yet, and is not accepted yet.
LEMMA PutKeeps ==
    ASSUME StoreInv, SendPut
    PROVE StoreInv'
<1>1. UNCHANGED <<disk, diskNext, accepted, crashes, kind>> /\ route' = "none"
  BY DEF SendPut, diskVars, paneVars
<1>2. Goto(Sender, "save") \/ Goto(Sender, "idle")
  BY DEF SendPut
<1>3. Routed' /\ Dropping'
  BY <1>1, <1>2, OwnerIsThread DEF StoreInv, Routed, Dropping, Goto
<1>4. CASE UNCHANGED storeVars
  BY <1>1, <1>3, <1>4 DEF StoreInv, storeVars, Boxes, Numbers, DiskIsBehind
<1>5. CASE box' = Put(box, next, route) /\ next' = next + 1
  <2>1. /\ GoodBox(box')
        /\ \A n \in Messages : n # next => box'[n] = box[n] \/ (box'[n] = NoMessage /\ Finished(box[n]))
    BY <1>5, PutIs DEF StoreInv, Boxes, GoodBox
  <2>2. Boxes'
    BY <1>1, <2>1 DEF StoreInv, Boxes, GoodBox
  <2>3. next \in Nat \ {0} /\ diskNext \in Nat /\ diskNext <= next
    BY DEF StoreInv, Numbers
  <2>4. \A n \in Messages : n >= next + 1 => box'[n] = NoMessage
    BY <2>1, <2>3, BoundsAreNat DEF StoreInv, Numbers, Messages
  <2>5. accepted \subseteq 0..next
    BY <2>3 DEF StoreInv, Numbers, Messages
  <2>6. Numbers'
    BY <1>1, <1>5, <2>3, <2>4, <2>5 DEF StoreInv, Numbers
  <2>7. ASSUME NEW n \in Messages
        PROVE /\ Finished(disk[n]) => box'[n] \in {disk[n], NoMessage}
              /\ n \in accepted /\ disk[n] = NoMessage => box'[n] = NoMessage
    <3>1. CASE n = next
      <4>1. disk[n] = NoMessage /\ n \notin accepted
        BY <2>3, <3>1 DEF StoreInv, Numbers
      <4> QED
        BY <4>1, NoMessageIs
    <3>2. CASE n # next
      BY <2>1, <3>2, NoMessageIs DEF StoreInv, DiskIsBehind
    <3> QED
      BY <3>1, <3>2
  <2>8. DiskIsBehind'
    BY <1>1, <2>7 DEF DiskIsBehind
  <2> QED
    BY <1>3, <2>2, <2>6, <2>8 DEF StoreInv
<1> QED
  BY <1>4, <1>5 DEF SendPut

\* A pane that is gone leaves no message in memory.
LEMMA DropKeeps ==
    ASSUME StoreInv, DropInbox
    PROVE StoreInv'
<1>1. box' = EmptyBox /\ UNCHANGED <<next, disk, diskNext, accepted, crashes, kind, route>>
  BY DEF DropInbox, Call, diskVars, paneVars
<1>2. Boxes'
  BY <1>1, EmptyIsGood DEF StoreInv, Boxes, GoodBox
<1>3. Numbers'
  BY <1>1, EmptyIsGood DEF StoreInv, Numbers
<1>4. DiskIsBehind'
  BY <1>1, EmptyIsGood DEF StoreInv, DiskIsBehind
<1>5. Routed' /\ Dropping'
  BY <1>1 DEF StoreInv, Routed, Dropping, DropInbox, Call, Goto
<1> QED
  BY <1>2, <1>3, <1>4, <1>5 DEF StoreInv

\* After a crash memory is what the disk had.
LEMMA CrashKeeps ==
    ASSUME StoreInv, Crash
    PROVE StoreInv'
<1>1. /\ box' = Restored(disk) /\ next' = diskNext /\ accepted' = accepted \cap 1..(diskNext - 1)
      /\ at' = AllHome /\ route' = "none" /\ crashes' = crashes + 1
      /\ UNCHANGED <<disk, diskNext>>
  BY DEF Crash
<1>2. GoodBox(box') /\ \A n \in Messages : Forward(disk[n], box'[n])
  BY <1>1, RestoredIsGood DEF StoreInv, Boxes, GoodBox, GoodStep
<1>3. Boxes'
  BY <1>1, <1>2 DEF StoreInv, Boxes, GoodBox
<1>4. Numbers'
  BY <1>1, <1>2 DEF StoreInv, Numbers, Forward
<1>5. DiskIsBehind'
  BY <1>1, <1>2 DEF StoreInv, DiskIsBehind, Forward
<1>6. at'[Owner] = "idle" /\ DOMAIN at' = Threads
  BY <1>1, OwnerIsThread DEF AllHome, Home, Owner
<1>7. Routed' /\ Dropping'
  BY <1>1, <1>6 DEF Routed, Dropping
<1> QED
  BY <1>3, <1>4, <1>5, <1>7 DEF StoreInv

\* Every step keeps it.
LEMMA NextStore ==
    ASSUME StoreInv, [Next]_vars
    PROVE StoreInv'
<1>1. GoodBox(box) /\ Sound(at, kind, route)
  BY SoundIs DEF StoreInv, Boxes, GoodBox
<1> QED
  BY <1>1, StepKinds, QuietKeeps, SaveKeeps, PutKeeps, DropKeeps, CrashKeeps

-----------------------------------------------------------------------------
(* The theorems.                                                               *)

\* Memory and disk agree as the proofs need it, in every state.
THEOREM StoreCorrect == Spec => []StoreInv
<1>1. Init => StoreInv
  BY InitStore
<1>2. StoreInv /\ [Next]_vars => StoreInv'
  BY NextStore
<1> QED
  BY <1>1, <1>2, PTL DEF Spec

\* No message waits that has begun MaxAttempts turns, in memory or after a restart
\* at any moment, so that none is sent to an agent for ever.
THEOREM TurnsLeftCorrect == Spec => []WaitingHasTurnsLeft
<1>1. StoreInv => WaitingHasTurnsLeft
  <2> SUFFICES ASSUME StoreInv PROVE WaitingHasTurnsLeft
    OBVIOUS
  <2>1. GoodBox(disk) /\ HasTurnsLeft(box)
    BY DEF StoreInv, Boxes, GoodBox
  <2>2. HasTurnsLeft(Restored(disk))
    BY <2>1, RestoredIsGood DEF GoodStep, GoodBox
  <2> QED
    BY <2>1, <2>2 DEF WaitingHasTurnsLeft
<1> QED
  BY <1>1, StoreCorrect, PTL

\* A finished message stays as it is, in memory until the process dies and on disk
\* for ever, or makes room for another.
THEOREM FinishedCorrect == Spec => FinishedStays
<1>1. ASSUME StoreInv, [Next]_vars, NEW m \in Messages
      PROVE /\ Finished(box[m]) /\ crashes' = crashes => box'[m] \in {box[m], NoMessage}
            /\ Finished(disk[m]) => disk'[m] \in {disk[m], NoMessage}
  <2> DEFINE Stays == /\ Finished(box[m]) /\ crashes' = crashes => box'[m] \in {box[m], NoMessage}
                      /\ Finished(disk[m]) => disk'[m] \in {disk[m], NoMessage}
  <2>1. GoodBox(box) /\ Sound(at, kind, route)
    BY <1>1, SoundIs DEF StoreInv, Boxes, GoodBox
  <2>2. CASE Quiet
    BY <2>2 DEF Quiet, GoodStep, Forward
  <2>3. ASSUME NEW t \in Threads, Save(t) PROVE Stays
    BY <1>1, <2>3 DEF Save, storeVars, StoreInv, DiskIsBehind
  <2>4. CASE SendPut
    <3>1. box[m] = NoMessage \/ m # next
      BY <1>1, <2>1 DEF StoreInv, Numbers
    <3>2. box' = box \/ box' = Put(box, next, route)
      BY <2>4 DEF SendPut, storeVars
    <3>3. disk' = disk
      BY <2>4 DEF SendPut, diskVars
    <3> QED
      BY <1>1, <2>1, <3>1, <3>2, <3>3, PutIs, NoMessageIs DEF StoreInv
  <2>5. CASE DropInbox
    BY <2>5, EmptyIsGood DEF DropInbox, Call, diskVars
  <2>6. CASE Crash
    BY <1>1, <2>6 DEF Crash, StoreInv, Numbers
  <2> QED
    BY <1>1, <2>1, <2>2, <2>3, <2>4, <2>5, <2>6, StepKinds
<1>2. StoreInv /\ [Next]_vars =>
        [\A m \in Messages :
            /\ Finished(box[m]) /\ crashes' = crashes => box'[m] \in {box[m], NoMessage}
            /\ Finished(disk[m]) => disk'[m] \in {disk[m], NoMessage}]_vars
  BY <1>1
<1> QED
  BY <1>2, StoreCorrect, PTL DEF Spec, FinishedStays

\* A message whose sender was told it was sent leaves the inbox only finished, or
\* with the pane, whatever crashes.
THEOREM AcceptedCorrect == Spec => AcceptedIsKept
<1>1. ASSUME StoreInv, [Next]_vars, NEW m \in Messages, m \in accepted, box[m] # NoMessage, box'[m] = NoMessage
      PROVE Finished(box[m]) \/ kind' = "gone"
  <2>1. GoodBox(box) /\ Sound(at, kind, route)
    BY <1>1, SoundIs DEF StoreInv, Boxes, GoodBox
  <2>2. CASE Quiet
    BY <1>1, <2>2 DEF Quiet, GoodStep, Forward
  <2>3. ASSUME NEW t \in Threads, Save(t) PROVE FALSE
    BY <1>1, <2>3 DEF Save, storeVars
  <2>4. CASE SendPut
    <3>1. m # next
      BY <1>1 DEF StoreInv, Numbers
    <3>2. box' = box \/ box' = Put(box, next, route)
      BY <2>4 DEF SendPut, storeVars
    <3> QED
      BY <1>1, <2>1, <3>1, <3>2, PutIs DEF StoreInv
  <2>5. CASE DropInbox
    BY <1>1, <2>5 DEF DropInbox, StoreInv, Dropping, paneVars
  <2>6. CASE Crash
    <3>1. Forward(disk[m], box'[m])
      BY <1>1, <2>6, RestoredIsGood DEF Crash, StoreInv, Boxes, GoodBox, GoodStep
    <3> QED
      BY <1>1, <3>1 DEF Forward, StoreInv, DiskIsBehind
  <2> QED
    BY <1>1, <2>1, <2>2, <2>3, <2>4, <2>5, <2>6, StepKinds
<1>2. StoreInv /\ [Next]_vars =>
        [\A m \in Messages :
            m \in accepted /\ box[m] # NoMessage /\ box'[m] = NoMessage
                => Finished(box[m]) \/ kind' = "gone"]_vars
  BY <1>1
<1> QED
  BY <1>2, StoreCorrect, PTL DEF Spec, AcceptedIsKept

-----------------------------------------------------------------------------
(* Types and labels.                                                           *)

\* The bounds are numbers.
LEMMA MoreBounds ==
    /\ MaxGen \in Nat \ {0} /\ MaxQueue \in Nat \ {0} /\ MaxCancels \in Nat /\ MaxCrashes \in Nat
    /\ Messages \subseteq Nat /\ NoMail \notin Messages /\ Gens \subseteq Nat /\ NoGen \notin Gens
BY BoundsAreNat, DeliveryAssumption DEF Messages, NoMail, Gens, NoGen

\* A set of messages that is not empty has a first.
LEMMA FirstIs ==
    ASSUME NEW S \in SUBSET Messages, S # {}
    PROVE  First(S) \in S /\ First(S) \in Messages
<1> DEFINE R == {ss \in Nat \X Nat : ss[1] < ss[2]}
<1>1. IsWellFoundedOn(R, Nat)
  BY NatLessThanWellFounded DEF OpToRel
<1>2. S \in SUBSET Nat BY MoreBounds
<1>3. PICK m \in S : \A n \in S : ~(<<n, m>> \in R)
  <2> HIDE DEF R
  <2> QED BY <1>1, <1>2, WFMin
<1>4. \A n \in S : m <= n
  <2> SUFFICES ASSUME NEW n \in S, n < m PROVE FALSE
    BY <1>2
  <2>1. <<n, m>> \in R BY <1>2
  <2> QED BY <1>3, <2>1
<1>5. \E k \in S : \A n \in S : k <= n BY <1>4
<1> QED BY <1>5 DEF First

\* The goroutines are told apart.
LEMMA ThreadsAre ==
    /\ Tick \in Threads /\ Sender \in Threads /\ Reader \in Threads /\ Owner \in Threads
    /\ Tick # Sender /\ Tick # Reader /\ Tick # Owner /\ Sender # Reader /\ Sender # Owner /\ Reader # Owner
    /\ Reporters \subseteq Threads
    /\ Tick \notin Reporters /\ Sender \notin Reporters /\ Reader \notin Reporters /\ Owner \notin Reporters
    /\ \A t \in Threads : t \in {Tick, Sender, Reader, Owner} \/ t \in Reporters
    /\ \A t \in Reporters : t[1] \in {"loop", "cancel", "close"} /\ t[2] \in Gens /\ t = <<t[1], t[2]>>
    /\ \A g \in Gens : Loop(g) \in Reporters /\ Canceller(g) \in Reporters /\ Closer(g) \in Reporters
<1>1. NoGen \notin Gens BY MoreBounds
<1>2. \A t \in Reporters : t[1] \in {"loop", "cancel", "close"} /\ t[2] \in Gens /\ t = <<t[1], t[2]>>
  BY DEF Reporters
<1>3. /\ Tick[1] = "tick" /\ Sender[1] = "sender" /\ Reader[1] = "reader" /\ Owner[1] = "owner"
  BY DEF Tick, Sender, Reader, Owner
<1>4. /\ Tick \in Threads /\ Sender \in Threads /\ Reader \in Threads /\ Owner \in Threads
      /\ \A t \in Threads : t \in {Tick, Sender, Reader, Owner} \/ t \in Reporters
      /\ Reporters \subseteq Threads
  BY DEF Tick, Sender, Reader, Owner, Threads
<1>5. \A g \in Gens : Loop(g) \in Reporters /\ Canceller(g) \in Reporters /\ Closer(g) \in Reporters
  BY DEF Loop, Canceller, Closer, Reporters
<1> QED BY <1>2, <1>3, <1>4, <1>5

\* Each goroutine's labels.
LEMMA LabelsAre ==
    /\ LabelsFor(Tick) = TickLabels /\ LabelsFor(Sender) = {"idle", "put", "save"}
    /\ LabelsFor(Reader) = {"idle", "save"} /\ LabelsFor(Owner) = {"idle", "drop", "save"}
    /\ \A t \in Reporters : LabelsFor(t) = ReportLabels(t)
    /\ \A t \in Threads : Home(t) \in LabelsFor(t) /\ LabelsFor(t) \subseteq Labels
    /\ \A g \in Gens : Home(Loop(g)) = "pop" /\ Home(Canceller(g)) = "idle" /\ Home(Closer(g)) = "idle"
    /\ Home(Tick) = "idle" /\ Home(Sender) = "idle" /\ Home(Reader) = "idle" /\ Home(Owner) = "idle"
<1>1. /\ LabelsFor(Tick) = TickLabels /\ LabelsFor(Sender) = {"idle", "put", "save"}
      /\ LabelsFor(Reader) = {"idle", "save"} /\ LabelsFor(Owner) = {"idle", "drop", "save"}
      /\ \A t \in Reporters : LabelsFor(t) = ReportLabels(t)
  BY ThreadsAre DEF LabelsFor
<1>2. /\ \A g \in Gens : Home(Loop(g)) = "pop" /\ Home(Canceller(g)) = "idle" /\ Home(Closer(g)) = "idle"
      /\ Home(Tick) = "idle" /\ Home(Sender) = "idle" /\ Home(Reader) = "idle" /\ Home(Owner) = "idle"
      /\ \A t \in Threads : Home(t) \in {"idle", "pop"}
  BY DEF Home, Loop, Canceller, Closer, Tick, Sender, Reader, Owner
<1>3. \A t \in Reporters : Home(t) \in LabelsFor(t) /\ LabelsFor(t) \subseteq Labels
  <2> SUFFICES ASSUME NEW t \in Reporters PROVE Home(t) \in ReportLabels(t) /\ ReportLabels(t) \subseteq Labels
    BY <1>1
  <2>1. Home(t) \in {"idle", "pop"} BY <1>2, ThreadsAre
  <2>2. ReportLabels(t) \subseteq {Home(t), "look", "apply", "save report", "forget", "prompt", "wait"}
    BY DEF ReportLabels
  <2>3. {Home(t), "look", "apply", "save report", "forget", "prompt", "wait"} \subseteq Labels
    BY <2>1 DEF Labels, SaveLabels
  <2> QED BY <2>2, <2>3 DEF ReportLabels
<1>4. \A t \in {Tick, Sender, Reader, Owner} : Home(t) \in LabelsFor(t) /\ LabelsFor(t) \subseteq Labels
  BY <1>1, <1>2 DEF TickLabels, Labels, SaveLabels
<1> QED BY <1>1, <1>2, <1>3, <1>4, ThreadsAre

\* A goroutine that goes on is at one of its labels, and the others are where they were.
LEMMA GoesOn ==
    ASSUME at \in [Threads -> Labels], LabelInv, NEW t \in Threads, NEW l \in LabelsFor(t), Goto(t, l)
    PROVE  /\ at' \in [Threads -> Labels] /\ at'[t] = l
           /\ \A u \in Threads : at'[u] \in LabelsFor(u) /\ (u # t => at'[u] = at[u])
<1>1. l \in Labels BY LabelsAre
<1> QED BY <1>1 DEF Goto, LabelInv

\* A goroutine other than the sender's goes on.
LEMMA OtherGoesOn ==
    ASSUME at \in [Threads -> Labels], LabelInv, NEW t \in Threads \ {Sender}, NEW l \in LabelsFor(t), Goto(t, l),
           next' = next
    PROVE  at' \in [Threads -> Labels] /\ LabelInv'
<1>1. /\ at' \in [Threads -> Labels] /\ \A u \in Threads : at'[u] \in LabelsFor(u)
      /\ at'[Sender] = at[Sender]
  BY GoesOn, ThreadsAre
<1> QED BY <1>1 DEF LabelInv

\* The tick is always at one of its labels.
LEMMA TickLabelled ==
    ASSUME at \in [Threads -> Labels], LabelInv, TickSteps
    PROVE  at' \in [Threads -> Labels] /\ LabelInv'
<1>1. UNCHANGED at \/ \E l \in TickLabels : Goto(Tick, l)
  <2>1. CASE TickStart \/ TickLook \/ TickForget \/ TickUnhand \/ TickRefused \/ TickCleanup
    BY <2>1 DEF TickStart, TickLook, TickForget, TickUnhand, TickRefused, TickCleanup, TickLabels
  <2>2. CASE TickPanes
    BY <2>2 DEF TickPanes, TickLabels
  <2>3. CASE TickSettle
    BY <2>3 DEF TickSettle, TickLabels
  <2>4. CASE TickPending
    BY <2>4 DEF TickPending, TickLabels
  <2>5. CASE TickOffer
    BY <2>5 DEF TickOffer, TickLabels
  <2>6. CASE TickSend
    BY <2>6 DEF TickSend, TickLabels
  <2>7. CASE TickReroute
    BY <2>7 DEF TickReroute, Call, TickLabels
  <2>8. CASE TickInterrupt
    BY <2>8 DEF TickInterrupt, Call, TickLabels
  <2>9. CASE TickFail
    BY <2>9 DEF TickFail, Call, TickLabels
  <2> QED BY <2>1, <2>2, <2>3, <2>4, <2>5, <2>6, <2>7, <2>8, <2>9 DEF TickSteps
<1>2. next' = next
  BY DEF TickSteps, TickStart, TickPanes, TickReroute, TickLook, TickSettle, TickInterrupt, TickForget, TickPending,
      TickOffer, TickSend, TickUnhand, TickRefused, TickFail, TickCleanup, tickFrame, storeVars
<1>3. CASE UNCHANGED at BY <1>2, <1>3 DEF LabelInv
<1>4. ASSUME NEW l \in TickLabels, Goto(Tick, l) PROVE at' \in [Threads -> Labels] /\ LabelInv'
  BY <1>2, <1>4, OtherGoesOn, ThreadsAre, LabelsAre
<1> QED BY <1>1, <1>3, <1>4

\* So are those that report, which begin with one another's prompts behind them.
LEMMA ReportLabelled ==
    ASSUME at \in [Threads -> Labels], LabelInv, BeganInv, NEW t \in Reporters, Reports(t)
    PROVE  at' \in [Threads -> Labels] /\ LabelInv'
<1>1. next' = next
  BY DEF Reports, ReportLook, ReportApply, ReportForget, ReportDrop, reportFrame
<1>2. rep[t].what = "began" => t[1] = "loop" BY DEF BeganInv
<1>3. \E l \in ReportLabels(t) : Goto(t, l)
  <2>1. CASE ReportLook(t) BY <2>1 DEF ReportLook, AfterReport, ReportLabels
  <2>2. CASE ReportApply(t) BY <1>2, <2>2 DEF ReportApply, Call, ReportLabels
  <2>3. CASE ReportForget(t) BY <2>3 DEF ReportForget, ReportLabels
  <2>4. CASE ReportDrop(t) BY <2>4 DEF ReportDrop, ReportLabels
  <2> QED BY <2>1, <2>2, <2>3, <2>4 DEF Reports
<1> QED BY <1>1, <1>3, OtherGoesOn, ThreadsAre, LabelsAre

\* And the runtimes' loops.
LEMMA TurnLabelled ==
    ASSUME at \in [Threads -> Labels], LabelInv, NEW g \in Gens, Turns(g)
    PROVE  at' \in [Threads -> Labels] /\ LabelInv'
<1>1. next' = next
  BY DEF Turns, Pop, SendPrompt, SendFails, TurnEnds, reportFrame
<1>2. Goto(Loop(g), "look") \/ Goto(Loop(g), "wait")
  BY DEF Turns, Pop, SendPrompt, SendFails, TurnEnds
<1>3. "look" \in ReportLabels(Loop(g)) /\ "wait" \in ReportLabels(Loop(g))
  BY DEF ReportLabels, Loop
<1> QED BY <1>1, <1>2, <1>3, OtherGoesOn, ThreadsAre, LabelsAre

\* A save goes on where the call that made it needs to.
LEMMA SaveLabelled ==
    ASSUME at \in [Threads -> Labels], LabelInv, BeganInv, NEW t \in Threads, Save(t)
    PROVE  at' \in [Threads -> Labels] /\ LabelInv'
<1>1. next' = next /\ Goto(t, AfterSave(t)) /\ at[t] \in SaveLabels BY DEF Save, storeVars
<1>2. AfterSave(t) \in LabelsFor(t)
  <2>1. CASE t = Tick
    <3>1. at[t] \in {"save interrupt", "save reroute", "save fail"}
      BY <1>1, <2>1, LabelsAre DEF LabelInv, TickLabels, SaveLabels
    <3> QED BY <2>1, <3>1, LabelsAre DEF AfterSave, TickLabels
  <2>2. CASE t \in {Sender, Reader, Owner}
    <3>1. at[t] = "save" BY <1>1, <2>2, LabelsAre DEF LabelInv, SaveLabels
    <3> QED BY <3>1, LabelsAre DEF AfterSave
  <2>3. CASE t \in Reporters
    <3>1. at[t] = "save report" \/ at[t] = Home(t)
      <4>1. at[t] \in ReportLabels(t) BY <2>3, LabelsAre DEF LabelInv
      <4>2. at[t] \in {Home(t), "look", "apply", "save report", "forget", "prompt", "wait"}
        BY <4>1 DEF ReportLabels
      <4> QED BY <1>1, <4>2 DEF SaveLabels
    <3>2. Home(t) \in {"idle", "pop"} BY DEF Home
    <3>3. at[t] = "save report" BY <1>1, <3>1, <3>2 DEF SaveLabels
    <3> QED BY <2>3, <3>3, LabelsAre DEF AfterSave, ReportLabels, BeganInv
  <2> QED BY <2>1, <2>2, <2>3, ThreadsAre
<1>3. CASE t # Sender BY <1>1, <1>2, <1>3, OtherGoesOn
<1>4. CASE t = Sender
  <2>1. AfterSave(t) = "idle"
    <3>1. at[t] = "save" BY <1>1, <1>4, LabelsAre DEF LabelInv, SaveLabels
    <3> QED BY <1>4, <3>1, LabelsAre DEF AfterSave
  <2>2. /\ at' \in [Threads -> Labels] /\ at'[Sender] = "idle"
        /\ \A u \in Threads : at'[u] \in LabelsFor(u)
    BY <1>1, <1>2, <1>4, <2>1, GoesOn, ThreadsAre
  <2> QED BY <2>2 DEF LabelInv
<1> QED BY <1>3, <1>4

\* Every goroutine is at one of its labels after every step.
LEMMA LabelSteps ==
    ASSUME at \in [Threads -> Labels], LabelInv, BeganInv, next \in Nat \ {0}, Next
    PROVE  at' \in [Threads -> Labels] /\ LabelInv'
<1>1. ASSUME SendRouted \/ SendPut PROVE at' \in [Threads -> Labels] /\ LabelInv'
  <2>1. PICK l \in {"idle", "put", "save"} : Goto(Sender, l) BY <1>1 DEF SendRouted, SendPut
  <2>2. /\ at' \in [Threads -> Labels] /\ at'[Sender] = l
        /\ \A u \in Threads : at'[u] \in LabelsFor(u)
    BY <2>1, GoesOn, ThreadsAre, LabelsAre
  <2>3. CASE SendRouted
    <3>1. Goto(Sender, "put") /\ next <= MaxMessages /\ next' = next BY <2>3 DEF SendRouted, storeVars
    <3>2. at'[Sender] = "put" BY <3>1, GoesOn, ThreadsAre, LabelsAre
    <3> QED BY <2>2, <3>1, <3>2 DEF LabelInv
  <2>4. CASE SendPut
    <3>1. (Goto(Sender, "save") /\ next' = next + 1) \/ Goto(Sender, "idle") BY <2>4 DEF SendPut
    <3>2. (at'[Sender] = "save" /\ next' = next + 1) \/ at'[Sender] = "idle"
      BY <3>1, GoesOn, ThreadsAre, LabelsAre
    <3> QED BY <2>2, <3>2 DEF LabelInv
  <2> QED BY <1>1, <2>3, <2>4
<1>2. ASSUME NEW m \in Messages, ReadMail(m) PROVE at' \in [Threads -> Labels] /\ LabelInv'
  <2>1. (Goto(Reader, "save") \/ Goto(Reader, "idle")) /\ next' = next BY <1>2 DEF ReadMail, Call
  <2> QED BY <2>1, OtherGoesOn, ThreadsAre, LabelsAre
<1>3. ASSUME RemovePane \/ DropInbox PROVE at' \in [Threads -> Labels] /\ LabelInv'
  <2>1. (\E l \in {"drop", "save", "idle"} : Goto(Owner, l)) /\ next' = next BY <1>3 DEF RemovePane, DropInbox, Call
  <2> QED BY <2>1, OtherGoesOn, ThreadsAre, LabelsAre
<1>4. ASSUME Crash PROVE at' \in [Threads -> Labels] /\ LabelInv'
  <2>1. at' = AllHome BY <1>4 DEF Crash
  <2>2. \A t \in Threads : at'[t] \in LabelsFor(t) /\ at'[t] \in Labels BY <2>1, LabelsAre DEF AllHome
  <2>3. at'[Sender] = "idle" BY <2>1, ThreadsAre, LabelsAre DEF AllHome
  <2>4. at' \in [Threads -> Labels] BY <2>1, <2>2 DEF AllHome
  <2> QED BY <2>2, <2>3, <2>4 DEF LabelInv
<1>5. ASSUME CancelPane \/ Retire \/ BecomeTerminal \/ Switch \/ (\E g \in Gens : Start(g))
             \/ \E t \in Reporters, p \in {"needs setup", "final"} : RuntimeEnds(t, p)
      PROVE at' \in [Threads -> Labels] /\ LabelInv'
  <2>1. at' = at /\ next' = next
    BY <1>5 DEF CancelPane, Retire, BecomeTerminal, Switch, Start, RuntimeEnds, ownerFrame, reportFrame
  <2> QED BY <2>1 DEF LabelInv
<1>6. ASSUME NEW t \in Threads, Save(t) PROVE at' \in [Threads -> Labels] /\ LabelInv'
  BY <1>6, SaveLabelled
<1>7. ASSUME NEW t \in Reporters, Reports(t) PROVE at' \in [Threads -> Labels] /\ LabelInv'
  BY <1>7, ReportLabelled
<1>8. ASSUME NEW g \in Gens, Turns(g) PROVE at' \in [Threads -> Labels] /\ LabelInv'
  BY <1>8, TurnLabelled
<1> QED BY <1>1, <1>2, <1>3, <1>4, <1>5, <1>6, <1>7, <1>8, TickLabelled DEF Next

\* Nobody but the tick, and a crash, touches what the tick has; reporters forget too.
LEMMA WhoTicks ==
    ASSUME at \in [Threads -> Labels], LabelInv, Next
    PROVE  \/ TickSteps \/ Save(Tick) \/ Crash
           \/ /\ UNCHANGED tickVars /\ at'[Tick] = at[Tick]
              /\ UNCHANGED handed \/ \E t \in Reporters : ReportForget(t)
<1> DEFINE Apart == /\ UNCHANGED tickVars /\ at'[Tick] = at[Tick]
                    /\ UNCHANGED handed \/ \E t \in Reporters : ReportForget(t)
<1>1. \A t \in Threads \ {Tick} : \A l : Goto(t, l) => at'[Tick] = at[Tick] BY ThreadsAre DEF Goto
<1>2. ASSUME NEW t \in Threads \ {Tick}, Save(t) PROVE Apart
  BY <1>1, <1>2 DEF Save
<1>3. CASE SendRouted BY <1>1, <1>3, ThreadsAre DEF SendRouted
<1>4. CASE SendPut
  <2>1. Goto(Sender, "save") \/ Goto(Sender, "idle") BY <1>4 DEF SendPut
  <2> QED BY <1>1, <1>4, <2>1, ThreadsAre DEF SendPut
<1>5. ASSUME NEW m \in Messages, ReadMail(m) PROVE Apart
  BY <1>1, <1>5, ThreadsAre DEF ReadMail, Call
<1>6. ASSUME NEW t \in Reporters, Reports(t) PROVE Apart
  <2>1. Sender \in Threads /\ t \in Threads \ {Tick} BY ThreadsAre
  <2>2. (\E l : Goto(t, l)) /\ UNCHANGED tickVars
    BY <1>6 DEF Reports, ReportLook, ReportApply, ReportForget, ReportDrop, Call, reportFrame
  <2>3. UNCHANGED handed \/ ReportForget(t)
    BY <1>6 DEF Reports, ReportLook, ReportApply, ReportDrop
  <2> QED BY <1>1, <2>1, <2>2, <2>3
<1>7. ASSUME NEW g \in Gens, Turns(g) PROVE Apart
  <2>1. Loop(g) \in Threads \ {Tick} BY ThreadsAre
  <2>2. (\E l : Goto(Loop(g), l)) /\ UNCHANGED tickVars /\ UNCHANGED handed
    BY <1>7 DEF Turns, Pop, SendPrompt, SendFails, TurnEnds, reportFrame
  <2> QED BY <1>1, <2>1, <2>2
<1>8. ASSUME CancelPane \/ Retire \/ BecomeTerminal \/ Switch \/ (\E g \in Gens : Start(g))
             \/ \E t \in Reporters, p \in {"needs setup", "final"} : RuntimeEnds(t, p)
      PROVE Apart
  BY <1>8 DEF CancelPane, Retire, BecomeTerminal, Switch, Start, RuntimeEnds, ownerFrame, reportFrame
<1>9. ASSUME RemovePane \/ DropInbox PROVE Apart
  <2>1. Owner \in Threads \ {Tick} BY ThreadsAre
  <2>2. (\E l : Goto(Owner, l)) /\ UNCHANGED tickVars /\ UNCHANGED handed
    BY <1>9 DEF RemovePane, DropInbox, Call
  <2> QED BY <1>1, <2>1, <2>2
<1> QED BY <1>2, <1>3, <1>4, <1>5, <1>6, <1>7, <1>8, <1>9 DEF Next

\* Where the tick is sent.
LEMMA TickGoes ==
    ASSUME at \in [Threads -> Labels], NEW l, Goto(Tick, l)
    PROVE  at'[Tick] = l
BY ThreadsAre DEF Goto

\* What the tick has keeps its type, and it has the message at hand.
LEMMA TickTypes ==
    ASSUME at \in [Threads -> Labels], LabelInv, TodoInv, TickType, PaneType, Next
    PROVE  TickType' /\ TodoInv'
<1>1. CASE TickSteps
  <2> USE DEF tickFrame
  <2>1. CASE TickStart
    <3>1. at'[Tick] = "panes" BY <2>1, TickGoes DEF TickStart
    <3> QED BY <2>1, <3>1 DEF TickStart, TickType, PaneType, TodoInv
  <2>2. CASE TickPanes
    <3>1. at'[Tick] \in {"cleanup", "reroute", "look"} BY <2>2, TickGoes DEF TickPanes
    <3> QED BY <2>2, <3>1 DEF TickPanes, TickType, tickVars, TodoInv
  <2>3. CASE TickReroute
    <3>1. at'[Tick] \in {"save reroute", "cleanup"} BY <2>3, TickGoes DEF TickReroute, Call
    <3> QED BY <2>3, <3>1 DEF TickReroute, TickType, tickVars, TodoInv
  <2>4. CASE TickLook
    <3>1. at'[Tick] = "settle" BY <2>4, TickGoes DEF TickLook
    <3>2. InFlight(box) \subseteq Messages /\ Alive(copy) \in BOOLEAN BY DEF InFlight, In, Alive
    <3> QED BY <2>4, <3>1, <3>2 DEF TickLook, TickType, TodoInv
  <2>5. CASE TickSettle
    <3>1. CASE Stale(First(todo))
      <4>1. at'[Tick] = "interrupt" BY <2>5, <3>1, TickGoes DEF TickSettle
      <4> QED BY <2>5, <3>1, <4>1 DEF TickSettle, TickType, TodoInv
    <3>2. CASE ~ Stale(First(todo))
      <4>1. at[Tick] = "settle" /\ at' = at BY <2>5, <3>2 DEF TickSettle
      <4> QED BY <2>5, <3>2, <4>1 DEF TickSettle, TickType, TodoInv
    <3> QED BY <3>1, <3>2
  <2>6. CASE TickInterrupt
    <3>1. at[Tick] = "interrupt" BY <2>6 DEF TickInterrupt
    <3> QED BY <2>6, <3>1 DEF TickInterrupt, TickType, tickVars, TodoInv
  <2>7. CASE TickForget
    <3>1. at'[Tick] = "settle" BY <2>7, TickGoes DEF TickForget
    <3> QED BY <2>7, <3>1 DEF TickForget, Forget, TickType, TodoInv
  <2>8. CASE TickPending
    <3>1. at'[Tick] \in {"offer", "cleanup"} BY <2>8, TickGoes DEF TickPending
    <3>2. Pending(box) \subseteq Messages BY DEF Pending, In
    <3> QED BY <2>8, <3>1, <3>2 DEF TickPending, TickType, TodoInv
  <2>9. CASE TickOffer
    <3>1. CASE todo = {}
      <4>1. at'[Tick] = "cleanup" BY <2>9, <3>1, TickGoes DEF TickOffer
      <4> QED BY <2>9, <3>1, <4>1 DEF TickOffer, TickType, TodoInv
    <3>2. CASE todo # {} /\ WasHanded(First(todo))
      <4>1. at' = at /\ at[Tick] = "offer" BY <2>9, <3>2 DEF TickOffer
      <4> QED BY <2>9, <3>2, <4>1 DEF TickOffer, TickType, TodoInv
    <3>3. CASE todo # {} /\ ~ WasHanded(First(todo))
      <4>1. todo' = todo BY <2>9, <3>3 DEF TickOffer
      <4>2. handed' = [handed EXCEPT ![First(todo)] = copy] BY <2>9, <3>3 DEF TickOffer
      <4>3. copy' = copy /\ live' = live BY <2>9 DEF TickOffer
      <4> QED BY <3>3, <4>1, <4>2, <4>3 DEF TickType, TodoInv
    <3> QED BY <3>1, <3>2, <3>3
  <2>10. CASE TickSend
    <3>1. at[Tick] = "send" /\ handed' = handed /\ copy' = copy /\ live' = live BY <2>10 DEF TickSend
    <3>2. todo' = todo \/ (todo' = todo \ {First(todo)} /\ Goto(Tick, "offer")) BY <2>10 DEF TickSend
    <3>3. CASE todo' = todo BY <3>1, <3>3 DEF TickType, TodoInv
    <3>4. CASE todo' = todo \ {First(todo)} /\ Goto(Tick, "offer")
      <4>1. at'[Tick] = "offer" BY <3>4, TickGoes
      <4> QED BY <3>1, <3>4, <4>1 DEF TickType, TodoInv
    <3> QED BY <3>2, <3>3, <3>4
  <2>11. CASE TickUnhand
    <3>1. at'[Tick] = "cleanup" BY <2>11, TickGoes DEF TickUnhand
    <3> QED BY <2>11, <3>1 DEF TickUnhand, Forget, TickType, TodoInv
  <2>12. CASE TickRefused
    <3>1. at[Tick] = "refused" BY <2>12 DEF TickRefused
    <3> QED BY <2>12, <3>1 DEF TickRefused, Forget, TickType, tickVars, TodoInv
  <2>13. CASE TickFail
    <3>1. at'[Tick] \in {"save fail", "offer"} BY <2>13, TickGoes DEF TickFail, Call
    <3> QED BY <2>13, <3>1 DEF TickFail, TickType, TodoInv
  <2>14. CASE TickCleanup
    <3>1. at'[Tick] = "idle" BY <2>14, TickGoes DEF TickCleanup
    <3> QED BY <2>14, <3>1 DEF TickCleanup, TickType, NoneHanded, TodoInv
  <2> QED BY <1>1, <2>1, <2>2, <2>3, <2>4, <2>5, <2>6, <2>7, <2>8, <2>9, <2>10, <2>11, <2>12, <2>13, <2>14 DEF TickSteps
<1>2. CASE Save(Tick)
  <2>1. at'[Tick] = AfterSave(Tick) /\ at[Tick] \in SaveLabels BY <1>2, TickGoes DEF Save
  <2>2. at[Tick] \in TickLabels BY LabelsAre, ThreadsAre DEF LabelInv
  <2>3. at'[Tick] \in {"forget", "offer", "cleanup"} /\ (at'[Tick] = "forget" => at[Tick] = "save interrupt")
    BY <2>1, <2>2 DEF AfterSave, TickLabels, SaveLabels
  <2>4. UNCHANGED <<handed, copy, live, todo>> BY <1>2 DEF Save, tickVars
  <2> QED BY <2>3, <2>4 DEF TickType, TodoInv
<1>3. CASE Crash
  <2>1. at'[Tick] = "idle" BY <1>3, ThreadsAre, LabelsAre DEF Crash, AllHome
  <2> QED BY <1>3, <2>1 DEF Crash, TickType, NoneHanded, TodoInv
<1>4. CASE UNCHANGED tickVars /\ at'[Tick] = at[Tick] /\ (UNCHANGED handed \/ \E t \in Reporters : ReportForget(t))
  <2>1. handed' \in [Messages -> Gens \cup {NoGen}]
    BY <1>4 DEF ReportForget, Forget, TickType
  <2> QED BY <1>4, <2>1 DEF TickType, tickVars, TodoInv
<1> QED BY <1>1, <1>2, <1>3, <1>4, WhoTicks

\* What a report and a phase are.
Report == [of : Messages \cup {NoMail}, what : {"none", "began"} \cup Outcomes]
Phases == {"none", "live", "needs setup", "final"}
\* The types of the runtimes' variables, one by one.
LEMMA RunTypeIs ==
    RunType <=>
        /\ rep \in [Reporters -> Report] /\ drops \in [Reporters -> SUBSET Messages] /\ phase \in [Gens -> Phases]
        /\ queue \in [Gens -> Seq(Messages)] /\ (\A g \in Gens : Len(queue[g]) <= MaxQueue)
        /\ turn \in [Gens -> Messages \cup {NoMail}]
BY DEF RunType, Report, Phases

\* The loop of a runtime is the only one of its name.
LEMMA LoopIs ==
    ASSUME NEW t \in Reporters, NEW g \in Gens, t[1] = "loop", t[2] = g
    PROVE  t = Loop(g)
BY ThreadsAre DEF Loop

\* A report goes out and back, and a dropped message is reported once.
LEMMA ReportRuns ==
    ASSUME RunType, BeganInv, NEW t \in Reporters, Reports(t)
    PROVE  RunType' /\ BeganInv'
<1>1. UNCHANGED runVars
  BY DEF Reports, ReportLook, ReportApply, ReportForget, ReportDrop
<1>2. NoReport \in Report /\ NoReport.what # "began" BY DEF NoReport, Report
<1>3. CASE ReportLook(t)
  <2>1. drops' = drops /\ (rep' = rep \/ rep' = [rep EXCEPT ![t] = NoReport]) BY <1>3 DEF ReportLook
  <2> QED BY <1>1, <1>2, <2>1, RunTypeIs DEF runVars, BeganInv, RunType, Report
<1>4. CASE ReportApply(t)
  <2>1. drops' = drops /\ rep' = rep BY <1>4 DEF ReportApply
  <2> QED BY <1>1, <2>1 DEF runVars, BeganInv, RunType
<1>5. CASE ReportForget(t)
  <2>1. drops' = drops /\ rep' = [rep EXCEPT ![t] = NoReport] BY <1>5 DEF ReportForget
  <2> QED BY <1>1, <1>2, <2>1, RunTypeIs DEF runVars, BeganInv, RunType, Report
<1>6. CASE ReportDrop(t)
  <2> DEFINE m == First(drops[t])
             r == [of |-> m, what |-> "lost"]
  <2>1. drops[t] # {} /\ rep' = [rep EXCEPT ![t] = r] /\ drops' = [drops EXCEPT ![t] = @ \ {m}]
    BY <1>6 DEF ReportDrop
  <2>2. drops \in [Reporters -> SUBSET Messages] BY DEF RunType
  <2>3. m \in Messages BY <2>1, <2>2, FirstIs
  <2>4. r \in Report /\ r.what # "began" BY <2>3 DEF Report, Outcomes
  <2>5. rep \in [Reporters -> Report] BY RunTypeIs
  <2> HIDE DEF r, m
  <2>6. rep' \in [Reporters -> Report] BY <2>1, <2>4, <2>5
  <2>7. drops' \in [Reporters -> SUBSET Messages] BY <2>1, <2>2
  <2>8. RunType' BY <1>1, <2>6, <2>7 DEF runVars, RunType, Report
  <2>9. BeganInv' BY <1>1, <2>1, <2>4, <2>5 DEF runVars, BeganInv
  <2> QED BY <2>8, <2>9
<1> QED BY <1>3, <1>4, <1>5, <1>6 DEF Reports

\* The head of a queue that is not empty is a message, and the rest is a queue.
LEMMA HeadIs ==
    ASSUME NEW s \in Seq(Messages), s # <<>>, Len(s) <= MaxQueue
    PROVE  /\ Head(s) \in Messages /\ Tail(s) \in Seq(Messages) /\ Len(Tail(s)) <= MaxQueue
           /\ ToSet(s) \subseteq Messages /\ ToSet(s) = {Head(s)} \cup ToSet(Tail(s))
<1>1. Len(s) \in Nat \ {0} BY SMT
<1>2. Head(s) = s[1] /\ Head(s) \in Messages /\ Tail(s) \in Seq(Messages) /\ Len(Tail(s)) = Len(s) - 1
  BY <1>1
<1>3. DOMAIN s = 1..Len(s) /\ DOMAIN Tail(s) = 1..(Len(s) - 1) BY <1>2
<1>4. \A i \in 1..(Len(s) - 1) : Tail(s)[i] = s[i + 1] BY <1>1
<1>5. ToSet(s) = {s[i] : i \in 1..Len(s)} /\ ToSet(Tail(s)) = {Tail(s)[i] : i \in 1..(Len(s) - 1)}
  BY <1>3 DEF ToSet
<1>6. ToSet(s) \subseteq Messages BY <1>5
<1>7. ASSUME NEW i \in 1..Len(s) PROVE s[i] \in {s[1]} \cup ToSet(Tail(s))
  <2>1. CASE i = 1 BY <2>1
  <2>2. CASE i # 1
    <3>1. i - 1 \in 1..(Len(s) - 1) /\ (i - 1) + 1 = i BY <1>1, <2>2
    <3>2. Tail(s)[i - 1] = s[i] BY <1>4, <3>1
    <3> QED BY <1>5, <3>1, <3>2
  <2> QED BY <2>1, <2>2
<1>8. ASSUME NEW i \in 1..(Len(s) - 1) PROVE Tail(s)[i] \in ToSet(s)
  BY <1>1, <1>4, <1>5
<1>9. 1 \in 1..Len(s) BY <1>1
<1> QED
  BY <1>1, <1>2, <1>5, <1>6, <1>7, <1>8, <1>9, MoreBounds

\* A loop takes a turn of what is in its queue, and reports of its own turn.
LEMMA TurnRuns ==
    ASSUME RunType, BeganInv, NEW g \in Gens, Turns(g)
    PROVE  RunType' /\ BeganInv'
<1> DEFINE t == Loop(g)
<1>0. t \in Reporters /\ t[1] = "loop" /\ t[2] = g BY ThreadsAre DEF Loop
<1>1. /\ rep \in [Reporters -> Report] /\ queue \in [Gens -> Seq(Messages)] /\ turn \in [Gens -> Messages \cup {NoMail}]
      /\ \A h \in Gens : Len(queue[h]) <= MaxQueue
  BY RunTypeIs
<1>2. drops' = drops /\ phase' = phase
  BY DEF Turns, Pop, SendPrompt, SendFails, TurnEnds, runVars
<1>3. CASE Pop(g)
  <2> DEFINE m == Head(queue[g])
             r == [of |-> m, what |-> "began"]
  <2>1. /\ queue[g] # <<>> /\ turn' = [turn EXCEPT ![g] = m] /\ queue' = [queue EXCEPT ![g] = Tail(@)]
        /\ rep' = [rep EXCEPT ![t] = r]
    BY <1>3 DEF Pop
  <2>2. m \in Messages /\ Tail(queue[g]) \in Seq(Messages) /\ Len(Tail(queue[g])) <= MaxQueue
    BY <1>1, <2>1, HeadIs
  <2>3. r \in Report /\ r.of = m BY <2>2 DEF Report
  <2> HIDE DEF r, m, t
  <2>4. rep' \in [Reporters -> Report] BY <1>1, <2>1, <2>3
  <2>5. queue' \in [Gens -> Seq(Messages)] BY <1>1, <2>1, <2>2
  <2>6. \A h \in Gens : Len(queue'[h]) <= MaxQueue BY <1>1, <2>1, <2>2
  <2>7. turn' \in [Gens -> Messages \cup {NoMail}] BY <1>1, <2>1, <2>2
  <2>8. RunType' BY <1>2, <2>4, <2>5, <2>6, <2>7 DEF RunType, Report
  <2>9. ASSUME NEW u \in Reporters, rep'[u].what = "began" PROVE u[1] = "loop" /\ turn'[u[2]] = rep'[u].of
    <3>1. CASE u = t BY <1>0, <1>1, <2>1, <2>3, <3>1
    <3>2. CASE u # t
      <4>1. rep'[u] = rep[u] BY <1>1, <2>1, <3>2
      <4>2. u[1] = "loop" /\ turn[u[2]] = rep[u].of BY <2>9, <4>1 DEF BeganInv
      <4>3. u[2] # g BY <3>2, <4>2, LoopIs DEF t
      <4> QED BY <1>1, <2>1, <4>1, <4>2, <4>3
    <3> QED BY <3>1, <3>2
  <2> QED BY <2>8, <2>9 DEF BeganInv
<1>4. ASSUME queue' = queue, NEW x \in Messages \cup {NoMail}, turn' = turn \/ turn' = [turn EXCEPT ![g] = x],
             NEW r \in Report, r.what # "began", rep' = [rep EXCEPT ![t] = r]
      PROVE  RunType' /\ BeganInv'
  <2> HIDE DEF t
  <2>1. rep' \in [Reporters -> Report] BY <1>1, <1>4
  <2>2. turn' \in [Gens -> Messages \cup {NoMail}] BY <1>1, <1>4
  <2>3. RunType' BY <1>2, <1>4, <2>1, <2>2 DEF RunType, Report
  <2>4. ASSUME NEW u \in Reporters, rep'[u].what = "began" PROVE u[1] = "loop" /\ turn'[u[2]] = rep'[u].of
    <3>1. u # t BY <1>1, <1>4, <2>4
    <3>2. rep'[u] = rep[u] BY <1>1, <1>4, <3>1
    <3>3. u[1] = "loop" /\ turn[u[2]] = rep[u].of BY <2>4, <3>2 DEF BeganInv
    <3>4. u[2] # g
      <4>1. u[2] = g => u = Loop(g) BY <3>3, LoopIs
      <4> QED BY <3>1, <4>1 DEF t
    <3>5. u[2] \in Gens BY ThreadsAre
    <3>6. turn'[u[2]] = turn[u[2]] BY <1>1, <1>4, <3>4, <3>5
    <3> QED BY <3>2, <3>3, <3>6
  <2> QED BY <2>3, <2>4 DEF BeganInv
<1>5. turn[g] \in Messages \cup {NoMail} /\ NoMail \in Messages \cup {NoMail} BY <1>1
<1>6. CASE SendPrompt(g)
  <2>1. queue' = queue /\ turn' = turn /\ rep' = [rep EXCEPT ![t] = NoReport] BY <1>6 DEF SendPrompt, runVars
  <2>2. NoReport \in Report /\ NoReport.what # "began" BY DEF NoReport, Report
  <2> QED BY <1>4, <1>5, <2>1, <2>2
<1>7. ASSUME NEW what \in Outcomes, queue' = queue, turn' = [turn EXCEPT ![g] = NoMail],
             rep' = [rep EXCEPT ![t] = [of |-> turn[g], what |-> what]]
      PROVE  RunType' /\ BeganInv'
  <2> DEFINE r == [of |-> turn[g], what |-> what]
  <2>1. r \in Report /\ r.what # "began" BY <1>5 DEF Report, Outcomes
  <2>2. rep' = [rep EXCEPT ![t] = r] BY <1>7
  <2> HIDE DEF r, t
  <2> QED BY <1>4, <1>5, <1>7, <2>1, <2>2
<1>8. CASE SendFails(g)
  BY <1>7, <1>8 DEF SendFails, Outcomes
<1>9. ASSUME NEW what \in Outcomes, TurnEnds(g, what) PROVE RunType' /\ BeganInv'
  BY <1>7, <1>9 DEF TurnEnds
<1> QED BY <1>3, <1>6, <1>8, <1>9 DEF Turns

\* What is dropped of a queue is reported on by the goroutine that dropped it.
LEMMA DropRuns ==
    ASSUME RunType, BeganInv, NEW t \in Reporters, DropQueue(t), UNCHANGED <<rep, turn>>,
           phase' \in [Gens -> Phases]
    PROVE  RunType' /\ BeganInv'
<1>1. t[2] \in Gens BY ThreadsAre
<1>2. queue \in [Gens -> Seq(Messages)] /\ \A h \in Gens : Len(queue[h]) <= MaxQueue BY RunTypeIs
<1>3. ToSet(queue[t[2]]) \subseteq Messages
  <2>1. DOMAIN queue[t[2]] = 1..Len(queue[t[2]]) BY <1>1, <1>2
  <2> QED BY <1>1, <1>2, <2>1 DEF ToSet
<1>4. drops' \in [Reporters -> SUBSET Messages] BY <1>3 DEF DropQueue, RunType
<1>5. <<>> \in Seq(Messages) /\ Len(<<>>) <= MaxQueue BY MoreBounds
<1>6. queue' \in [Gens -> Seq(Messages)] /\ \A h \in Gens : Len(queue'[h]) <= MaxQueue
  BY <1>1, <1>2, <1>5 DEF DropQueue
<1> QED BY <1>4, <1>6, RunTypeIs DEF RunType, Phases, BeganInv

\* The runtime takes what the tick sends it while it has room.
LEMMA SendRuns ==
    ASSUME at \in [Threads -> Labels], LabelInv, TodoInv, TickType, RunType, GensInv, TickSend
    PROVE  \/ UNCHANGED <<queue, todo>>
           \/ /\ copy \in Gens /\ First(todo) \in todo /\ First(todo) \in Messages
              /\ queue' = [queue EXCEPT ![copy] = Append(@, First(todo))] /\ todo' = todo \ {First(todo)}
              /\ Len(queue[copy]) < MaxQueue /\ phase[copy] = "live"
<1>1. First(todo) \in todo /\ First(todo) \in Messages BY FirstIs DEF TodoInv, TickSend, TickType
<1>2. copy \in Gens
  <2>1. at[Tick] = "send" BY DEF TickSend
  <2>2. live /\ copy # NoGen BY <2>1 DEF GensInv
  <2> QED BY <2>2 DEF TickType
<1>3. Len(queue[copy]) \in Nat
  <2>1. queue[copy] \in Seq(Messages) BY <1>2, RunTypeIs
  <2> QED BY <2>1
<1>4. UNCHANGED <<queue, todo>> \/ /\ ~NoRoom(copy) /\ queue' = [queue EXCEPT ![copy] = Append(@, First(todo))]
                                   /\ todo' = todo \ {First(todo)}
  BY DEF TickSend
<1> QED BY <1>1, <1>2, <1>3, <1>4, MoreBounds DEF NoRoom

\* What the runtimes have keeps its type, and only a loop reports that its turn began.
LEMMA RunTypes ==
    ASSUME at \in [Threads -> Labels], LabelInv, TodoInv, TickType, PaneType, RunType, BeganInv, GensInv, Next
    PROVE  RunType' /\ BeganInv'
<1>1. ASSUME UNCHANGED <<rep, drops, runVars>> PROVE RunType' /\ BeganInv'
  BY <1>1 DEF runVars, RunType, BeganInv
<1>2. CASE (\E t \in Threads : Save(t)) \/ SendRouted \/ SendPut \/ (\E m \in Messages : ReadMail(m))
           \/ RemovePane \/ DropInbox \/ Retire \/ BecomeTerminal \/ Switch
  BY <1>1, <1>2 DEF Save, SendRouted, SendPut, ReadMail, RemovePane, DropInbox, Retire, BecomeTerminal, Switch,
                    ownerFrame, runVars
<1>3. CASE TickSteps
  <2>1. CASE TickSend
    <3>1. UNCHANGED <<rep, drops, phase, turn>> BY <2>1 DEF TickSend
    <3>2. CASE queue' = queue BY <1>1, <3>1, <3>2 DEF runVars
    <3>3. CASE /\ copy \in Gens /\ First(todo) \in Messages
               /\ queue' = [queue EXCEPT ![copy] = Append(@, First(todo))] /\ Len(queue[copy]) < MaxQueue
      <4> DEFINE m == First(todo)
                 s == Append(queue[copy], m)
      <4>1. queue \in [Gens -> Seq(Messages)] /\ \A h \in Gens : Len(queue[h]) <= MaxQueue BY RunTypeIs
      <4>2. s \in Seq(Messages) /\ Len(s) = Len(queue[copy]) + 1 /\ Len(queue[copy]) \in Nat BY <3>3, <4>1
      <4>3. Len(s) <= MaxQueue BY <3>3, <4>2, MoreBounds
      <4>4. queue' = [queue EXCEPT ![copy] = s] BY <3>3
      <4> HIDE DEF s, m
      <4>5. queue' \in [Gens -> Seq(Messages)] /\ \A h \in Gens : Len(queue'[h]) <= MaxQueue
        BY <4>1, <4>2, <4>3, <4>4
      <4> QED BY <3>1, <4>5 DEF RunType, BeganInv
    <3> QED BY <2>1, <3>2, <3>3, SendRuns
  <2>2. CASE ~TickSend
    BY <1>1, <1>3, <2>2 DEF TickSteps, TickStart, TickPanes, TickReroute, TickLook, TickSettle, TickInterrupt, TickForget,
        TickPending, TickOffer, TickUnhand, TickRefused, TickFail, TickCleanup, tickFrame
  <2> QED BY <2>1, <2>2
<1>4. ASSUME NEW t \in Reporters, Reports(t) PROVE RunType' /\ BeganInv' BY <1>4, ReportRuns
<1>5. ASSUME NEW g \in Gens, Turns(g) PROVE RunType' /\ BeganInv' BY <1>5, TurnRuns
<1>6. CASE CancelPane
  <2>1. cur \in Gens /\ UNCHANGED <<rep, phase, turn>> /\ DropQueue(Canceller(cur))
    BY <1>6 DEF CancelPane, PaneType
  <2>2. Canceller(cur) \in Reporters BY <2>1, ThreadsAre
  <2>3. phase' \in [Gens -> Phases] BY <2>1, RunTypeIs
  <2> QED BY <2>1, <2>2, <2>3, DropRuns
<1>7. ASSUME NEW t \in Reporters, NEW p \in {"needs setup", "final"}, RuntimeEnds(t, p) PROVE RunType' /\ BeganInv'
  <2>1. UNCHANGED <<rep, turn>> /\ DropQueue(t) /\ phase' = [phase EXCEPT ![t[2]] = p] BY <1>7 DEF RuntimeEnds
  <2>2. phase' \in [Gens -> Phases] BY <2>1, RunTypeIs DEF Phases
  <2> QED BY <2>1, <2>2, DropRuns
<1>8. ASSUME NEW g \in Gens, Start(g) PROVE RunType' /\ BeganInv'
  <2>1. UNCHANGED <<rep, drops, queue, turn>> /\ phase' = [phase EXCEPT ![g] = "live"] BY <1>8 DEF Start, ownerFrame
  <2>2. phase' \in [Gens -> Phases] BY <2>1, RunTypeIs DEF Phases
  <2> QED BY <2>1, <2>2 DEF RunType, Phases, BeganInv
<1>9. CASE Crash
  <2>1. /\ rep' = NoReports /\ drops' = NoDrops /\ queue' = EmptyQueues /\ turn' = NoTurns
        /\ phase' = [g \in Gens |-> IF phase[g] = "none" THEN "none" ELSE "final"]
    BY <1>9 DEF Crash
  <2>2. NoReport \in Report /\ NoReport.what # "began" BY DEF NoReport, Report
  <2>3. rep' \in [Reporters -> Report] /\ BeganInv' BY <2>1, <2>2 DEF NoReports, BeganInv
  <2>4. queue' \in [Gens -> Seq(Messages)] /\ \A g \in Gens : Len(queue'[g]) <= MaxQueue
    <3>1. <<>> \in Seq(Messages) /\ Len(<<>>) <= MaxQueue BY MoreBounds
    <3> QED BY <2>1, <3>1 DEF EmptyQueues
  <2>5. phase' \in [Gens -> Phases] BY <2>1 DEF Phases
  <2> QED BY <2>1, <2>3, <2>4, <2>5 DEF RunType, Report, Phases, NoDrops, NoTurns
<1> QED BY <1>2, <1>3, <1>4, <1>5, <1>6, <1>7, <1>8, <1>9 DEF Next

\* What the pane is keeps its type.
LEMMA PaneTypes ==
    ASSUME PaneType, RunType, Next
    PROVE  PaneType'
<1>1. CASE (\E t \in Threads : Save(t)) \/ SendRouted \/ SendPut \/ (\E m \in Messages : ReadMail(m))
           \/ (\E t \in Reporters : Reports(t)) \/ (\E g \in Gens : Turns(g)) \/ DropInbox
           \/ \E t \in Reporters, p \in {"needs setup", "final"} : RuntimeEnds(t, p)
  <2>1. UNCHANGED <<paneVars, crashes>>
    BY <1>1 DEF Save, SendRouted, SendPut, ReadMail, Reports, ReportLook, ReportApply, ReportForget, ReportDrop,
        Turns, Pop, SendPrompt, SendFails, TurnEnds, DropInbox, RuntimeEnds, reportFrame
  <2> QED BY <2>1 DEF paneVars, PaneType
<1>2. CASE TickSteps
  <2>1. UNCHANGED <<paneVars, crashes>>
    BY <1>2 DEF TickSteps, TickStart, TickPanes, TickReroute, TickLook, TickSettle, TickInterrupt, TickForget,
        TickPending, TickOffer, TickSend, TickUnhand, TickRefused, TickFail, TickCleanup, tickFrame
  <2> QED BY <2>1 DEF paneVars, PaneType
<1>3. CASE CancelPane BY <1>3, MoreBounds DEF CancelPane, PaneType
<1>4. ASSUME NEW g \in Gens, Start(g) PROVE PaneType' BY <1>4 DEF Start, ownerFrame, PaneType
<1>5. CASE Retire \/ BecomeTerminal \/ RemovePane \/ Switch
  BY <1>5 DEF Retire, BecomeTerminal, RemovePane, Switch, ownerFrame, PaneType
<1>6. CASE Crash BY <1>6, MoreBounds DEF Crash, PaneType
<1> QED BY <1>1, <1>2, <1>3, <1>4, <1>5, <1>6 DEF Next

-----------------------------------------------------------------------------
(* The types of the store.                                                     *)

\* There are finitely many messages, and so in a box.
LEMMA HeldIsFinite ==
    ASSUME NEW b
    PROVE  /\ IsFiniteSet(Held(b)) /\ Cardinality(Held(b)) \in Nat /\ Held(b) \subseteq Messages
           /\ \A n \in Messages : n \in Held(b) <=> b[n].state # "none"
<1>1. IsFiniteSet(Messages) BY BoundsAreNat, FS_Interval DEF Messages
<1>2. Held(b) \subseteq Messages BY DEF Held
<1>3. IsFiniteSet(Held(b)) BY <1>1, <1>2, FS_Subset
<1>4. Cardinality(Held(b)) \in Nat BY <1>3, FS_CardinalityType
<1>5. \A n \in Messages : n \in Held(b) <=> b[n].state # "none" BY DEF Held, In
<1> QED BY <1>2, <1>3, <1>4, <1>5

\* A set is no larger than one it is a part of.
LEMMA FewerHeld ==
    ASSUME NEW b, NEW c, Held(c) \subseteq Held(b)
    PROVE  Cardinality(Held(c)) <= Cardinality(Held(b))
BY HeldIsFinite, FS_Subset

\* A call of the store brings no message and takes none away.
LEMMA GoodHolds ==
    ASSUME NEW b, NEW c, GoodStep(b, c)
    PROVE  Held(c) = Held(b)
BY HeldIsFinite DEF GoodStep, Forward

\* A message that arrives makes room for itself, so that the inbox keeps to its limit.
LEMMA PutHolds ==
    ASSUME Cardinality(Held(box)) <= MaxInbox, CanPut(box), Routed
    PROVE  Cardinality(Held(Put(box, next, route))) <= MaxInbox
<1> DEFINE H == Held(box)
           b == Put(box, next, route)
<1>1. IsFiniteSet(H) /\ Cardinality(H) \in Nat BY HeldIsFinite
<1>2. \A n \in Messages : n # next => (n \in MakeRoom(box) => b[n] = NoMessage) /\ (n \notin MakeRoom(box) => b[n] = box[n])
  BY DEF Put
<1>3. ASSUME NEW n \in Held(b), n # next PROVE n \in H /\ n \notin MakeRoom(box)
  <2>1. n \in Messages /\ b[n].state # "none" BY HeldIsFinite
  <2>2. n \notin MakeRoom(box) BY <1>2, <1>3, <2>1, NoMessageIs
  <2>3. box[n].state # "none" BY <1>2, <1>3, <2>1, <2>2
  <2> QED BY <2>1, <2>2, <2>3, HeldIsFinite
<1>4. CASE Full(box)
  <2>1. PICK x : x \in MakeRoom(box) BY <1>4 DEF CanPut
  <2>2. x \in H BY <1>4, <2>1 DEF MakeRoom, Spare, Oldest
  <2>3. Held(b) \subseteq (H \ {x}) \cup {next} BY <1>3, <2>1
  <2>4. IsFiniteSet(H \ {x}) /\ Cardinality(H \ {x}) = Cardinality(H) - 1 BY <1>1, <2>2, FS_RemoveElement
  <2>5. /\ IsFiniteSet((H \ {x}) \cup {next})
        /\ Cardinality((H \ {x}) \cup {next}) \in {Cardinality(H \ {x}), Cardinality(H \ {x}) + 1}
    BY <2>4, FS_AddElement
  <2>6. Cardinality(Held(b)) <= Cardinality((H \ {x}) \cup {next}) BY <2>3, <2>5, FS_Subset
  <2>7. Cardinality(Held(b)) \in Nat BY HeldIsFinite
  <2> DEFINE i == Cardinality(Held(b))
             j == Cardinality((H \ {x}) \cup {next})
             k == Cardinality(H \ {x})
             l == Cardinality(H)
  <2>8. i \in Nat /\ l \in Nat /\ k = l - 1 /\ j \in {k, k + 1} /\ i <= j /\ l <= MaxInbox
    BY <1>1, <2>4, <2>5, <2>6, <2>7
  <2> HIDE DEF i, j, k, l
  <2>9. i <= MaxInbox BY <2>8, BoundsAreNat
  <2> QED BY <2>9 DEF i
<1>5. CASE ~Full(box)
  <2>1. Held(b) \subseteq H \cup {next} BY <1>3
  <2>2. /\ IsFiniteSet(H \cup {next}) /\ Cardinality(H \cup {next}) \in {Cardinality(H), Cardinality(H) + 1}
    BY <1>1, FS_AddElement
  <2>3. Cardinality(Held(b)) <= Cardinality(H \cup {next}) BY <2>1, <2>2, FS_Subset
  <2>4. Cardinality(Held(b)) \in Nat BY HeldIsFinite
  <2>5. ~(Cardinality(H) >= MaxInbox) BY <1>5 DEF Full
  <2> DEFINE i == Cardinality(Held(b))
             j == Cardinality(H \cup {next})
             l == Cardinality(H)
  <2>6. i \in Nat /\ l \in Nat /\ j \in {l, l + 1} /\ i <= j /\ ~(l >= MaxInbox)
    BY <1>1, <2>2, <2>3, <2>4, <2>5
  <2> HIDE DEF i, j, l
  <2>7. i <= MaxInbox BY <2>6, BoundsAreNat
  <2> QED BY <2>7 DEF i
<1> QED BY <1>4, <1>5

\* Only a loop that sends a prompt, and a crash, touch what the agent was sent.
LEMMA PromptedIs ==
    ASSUME Next
    PROVE  UNCHANGED prompted \/ Crash \/ \E g \in Gens : SendPrompt(g)
<1>1. ASSUME NEW g \in Gens, Turns(g) PROVE UNCHANGED prompted \/ SendPrompt(g)
  BY <1>1 DEF Turns, Pop, SendFails, TurnEnds
<1>2. CASE TickSteps
  BY <1>2 DEF TickSteps, TickStart, TickPanes, TickReroute, TickLook, TickSettle, TickInterrupt, TickForget,
        TickPending, TickOffer, TickSend, TickUnhand, TickRefused, TickFail, TickCleanup, tickFrame
<1>3. CASE (\E t \in Threads : Save(t)) \/ SendRouted \/ SendPut \/ (\E m \in Messages : ReadMail(m))
           \/ (\E t \in Reporters : Reports(t)) \/ DropInbox \/ CancelPane \/ (\E g \in Gens : Start(g))
           \/ Retire \/ BecomeTerminal \/ RemovePane \/ Switch
           \/ \E t \in Reporters, p \in {"needs setup", "final"} : RuntimeEnds(t, p)
  BY <1>3 DEF Save, SendRouted, SendPut, ReadMail, Reports, ReportLook, ReportApply, ReportForget, ReportDrop,
        DropInbox, RuntimeEnds, CancelPane, Start, Retire, BecomeTerminal, RemovePane, Switch, ownerFrame
<1> QED BY <1>1, <1>2, <1>3 DEF Next

\* The store and what the agent was sent keep their types.
LEMMA StoreTypes ==
    ASSUME StoreInv, StoreInv', at \in [Threads -> Labels], LabelInv, StoreType, RunType, Next
    PROVE  StoreType'
<1>1. /\ next \in Nat /\ next >= 1 /\ next <= MaxMessages + 1
      /\ diskNext \in Nat /\ diskNext >= 1 /\ diskNext <= next
      /\ Cardinality(Held(box)) <= MaxInbox /\ Cardinality(Held(disk)) <= MaxInbox
  BY BoundsAreNat DEF StoreType
<1>2. /\ box' \in TypeOfBox /\ disk' \in TypeOfBox /\ route' \in {"none", "queued", "unread"}
      /\ next' \in Nat \ {0} /\ diskNext' \in Nat \ {0} /\ diskNext' <= next'
  BY DEF StoreInv, Boxes, Numbers, Routed
<1>3. GoodBox(box) /\ GoodBox(disk) /\ Sound(at, kind, route)
  BY SoundIs DEF StoreInv, Boxes, GoodBox
<1> DEFINE Limits == /\ Cardinality(Held(box')) <= MaxInbox /\ Cardinality(Held(disk')) <= MaxInbox
                     /\ next' <= MaxMessages + 1 /\ accepted' \subseteq Messages
<1>4. Limits
  <2>1. CASE Quiet
    <3>1. Held(box') = Held(box) /\ UNCHANGED <<next, disk, accepted>> BY <2>1, GoodHolds DEF Quiet
    <3> QED BY <1>1, <3>1 DEF StoreType
  <2>2. ASSUME NEW t \in Threads, Save(t) PROVE Limits
    <3>1. disk' = box /\ box' = box /\ next' = next BY <2>2 DEF Save, storeVars
    <3>2. accepted' \subseteq Messages
      <4>1. CASE t # Sender BY <2>2, <4>1 DEF Save, StoreType
      <4>2. CASE t = Sender
        <5>1. at[Sender] \in SaveLabels /\ at[Sender] \in {"idle", "put", "save"}
          BY <2>2, <4>2, LabelsAre, ThreadsAre DEF Save, LabelInv
        <5>2. at[Sender] = "save" BY <5>1 DEF SaveLabels
        <5>3. next > 1 BY <5>2 DEF LabelInv
        <5>4. next - 1 \in Messages BY <1>1, <5>3, BoundsAreNat DEF Messages
        <5> QED BY <2>2, <4>2, <5>4 DEF Save, StoreType
      <4> QED BY <4>1, <4>2
    <3> QED BY <1>1, <3>1, <3>2
  <2>3. CASE SendPut
    <3>1. accepted' = accepted /\ disk' = disk BY <2>3 DEF SendPut, diskVars
    <3>2. CASE CanPut(box)
      <4>1. box' = Put(box, next, route) /\ next' = next + 1 /\ at[Sender] = "put" BY <2>3, <3>2 DEF SendPut
      <4>2. next <= MaxMessages BY <4>1 DEF LabelInv
      <4>3. Cardinality(Held(box')) <= MaxInbox BY <1>1, <3>2, <4>1, PutHolds DEF StoreInv
      <4> QED BY <1>1, <3>1, <4>1, <4>2, <4>3, BoundsAreNat DEF StoreType
    <3>3. CASE ~CanPut(box)
      <4>1. box' = box /\ next' = next BY <2>3, <3>3 DEF SendPut, storeVars
      <4> QED BY <1>1, <3>1, <4>1 DEF StoreType
    <3> QED BY <3>2, <3>3
  <2>4. CASE DropInbox
    <3>1. box' = EmptyBox /\ UNCHANGED <<next, disk, accepted>> BY <2>4 DEF DropInbox, Call, diskVars
    <3>2. Held(EmptyBox) \subseteq Held(box) BY EmptyIsGood, NoMessageIs, HeldIsFinite
    <3>3. Cardinality(Held(EmptyBox)) <= Cardinality(Held(box)) BY <3>2, FewerHeld
    <3>4. Cardinality(Held(EmptyBox)) \in Nat /\ Cardinality(Held(box)) \in Nat BY HeldIsFinite
    <3>5. Cardinality(Held(EmptyBox)) <= MaxInbox BY <1>1, <3>3, <3>4, BoundsAreNat
    <3> QED BY <1>1, <3>1, <3>5 DEF StoreType
  <2>5. CASE Crash
    <3>1. box' = Restored(disk) /\ next' = diskNext /\ disk' = disk /\ accepted' \subseteq accepted BY <2>5 DEF Crash
    <3>2. Held(box') = Held(disk) BY <1>3, <3>1, RestoredIsGood, GoodHolds
    <3> QED BY <1>1, <3>1, <3>2, BoundsAreNat DEF StoreType
  <2> QED BY <1>3, <2>1, <2>2, <2>3, <2>4, <2>5, StepKinds
<1>5. prompted' \in [Messages -> 0..(MaxAttempts + 1)]
  <2>1. prompted \in [Messages -> 0..(MaxAttempts + 1)] BY DEF StoreType
  <2>2. CASE UNCHANGED prompted BY <2>1, <2>2
  <2>3. CASE Crash
    <3>1. prompted' = [m \in Messages |-> IF m < diskNext THEN prompted[m] ELSE 0] BY <2>3 DEF Crash
    <3>2. 0 \in 0..(MaxAttempts + 1) BY BoundsAreNat
    <3> QED BY <2>1, <3>1, <3>2
  <2>4. ASSUME NEW g \in Gens, SendPrompt(g) PROVE prompted' \in [Messages -> 0..(MaxAttempts + 1)]
    <3>1. prompted' = [prompted EXCEPT ![turn[g]] = IF @ > MaxAttempts THEN @ ELSE @ + 1] BY <2>4 DEF SendPrompt
    <3>2. \A m \in Messages : prompted[m] \in 0..(MaxAttempts + 1) BY <2>1
    <3>3. \A m \in Messages : (IF prompted[m] > MaxAttempts THEN prompted[m] ELSE prompted[m] + 1) \in 0..(MaxAttempts + 1)
      BY <3>2, BoundsAreNat
    <3>4. \A m \in Messages : prompted'[m] \in 0..(MaxAttempts + 1) BY <2>1, <3>1, <3>3
    <3>5. DOMAIN prompted' = Messages /\ prompted' = [m \in Messages |-> prompted'[m]] BY <2>1, <3>1
    <3> QED BY <3>4, <3>5
  <2> QED BY <2>2, <2>3, <2>4, PromptedIs
<1>6. next' \in 1..(MaxMessages + 1) /\ diskNext' \in 1..next' BY <1>2, <1>4, BoundsAreNat
<1> QED BY <1>2, <1>4, <1>5, <1>6 DEF StoreType

-----------------------------------------------------------------------------
(* What is down as handed is held.                                             *)

\* A runtime that began never becomes one that did not, and only a start brings the
\* pane another.
LEMMA PhaseGrows ==
    ASSUME RunType, PaneType, Next
    PROVE  /\ \A g \in Gens : phase[g] # "none" => phase'[g] # "none"
           /\ cur' \in {cur, NoGen} \/ \E g \in Gens : Start(g) /\ cur' = g /\ phase'[g] = "live"
<1> DEFINE Grows == /\ \A g \in Gens : phase[g] # "none" => phase'[g] # "none"
                    /\ cur' \in {cur, NoGen} \/ \E g \in Gens : Start(g) /\ cur' = g /\ phase'[g] = "live"
<1>1. phase \in [Gens -> Phases] BY RunTypeIs
<1>2. CASE (\E t \in Threads : Save(t)) \/ SendRouted \/ SendPut \/ (\E m \in Messages : ReadMail(m))
           \/ (\E t \in Reporters : Reports(t)) \/ (\E g \in Gens : Turns(g)) \/ DropInbox
  <2>1. phase' = phase /\ cur' = cur
    BY <1>2 DEF Save, SendRouted, SendPut, ReadMail, Reports, ReportLook, ReportApply, ReportForget, ReportDrop,
        Turns, Pop, SendPrompt, SendFails, TurnEnds, DropInbox, reportFrame, runVars, paneVars
  <2> QED BY <2>1
<1>3. CASE TickSteps
  <2>1. phase' = phase /\ cur' = cur
    BY <1>3 DEF TickSteps, TickStart, TickPanes, TickReroute, TickLook, TickSettle, TickInterrupt, TickForget,
        TickPending, TickOffer, TickSend, TickUnhand, TickRefused, TickFail, TickCleanup, tickFrame, runVars, paneVars
  <2> QED BY <2>1
<1>4. CASE CancelPane \/ Retire \/ BecomeTerminal \/ RemovePane \/ Switch
  <2>1. phase' = phase /\ cur' \in {cur, NoGen}
    BY <1>4 DEF CancelPane, Retire, BecomeTerminal, RemovePane, Switch, ownerFrame
  <2> QED BY <2>1
<1>5. ASSUME NEW t \in Reporters, NEW p \in {"needs setup", "final"}, RuntimeEnds(t, p) PROVE Grows
  BY <1>1, <1>5 DEF RuntimeEnds, reportFrame, paneVars
<1>6. ASSUME NEW g \in Gens, Start(g) PROVE Grows
  BY <1>1, <1>6 DEF Start
<1>7. CASE Crash BY <1>1, <1>7 DEF Crash
<1> QED BY <1>2, <1>3, <1>4, <1>5, <1>6, <1>7 DEF Next

\* What the tick writes down as handed is its own copy, or nothing.
LEMMA HandedIs ==
    ASSUME at \in [Threads -> Labels], LabelInv, TodoInv, TickType, Next
    PROVE  \A m \in Messages : handed'[m] \in {handed[m], copy, NoGen}
<1>1. CASE TickSteps
  BY <1>1 DEF TickSteps, TickStart, TickPanes, TickReroute, TickLook, TickSettle, TickInterrupt, TickForget, Forget,
        TickPending, TickOffer, TickSend, TickUnhand, TickRefused, TickFail, TickCleanup, tickVars, NoneHanded, TickType
<1>2. CASE Save(Tick) BY <1>2 DEF Save
<1>3. CASE Crash BY <1>3 DEF Crash, NoneHanded
<1>4. ASSUME UNCHANGED handed \/ \E t \in Reporters : ReportForget(t)
      PROVE  \A m \in Messages : handed'[m] \in {handed[m], copy, NoGen}
  BY <1>4 DEF ReportForget, Forget, TickType
<1> QED BY <1>1, <1>2, <1>3, <1>4, WhoTicks

\* Where the tick is, it found the runtime alive, and has the message at hand down as
\* handed to it.
LEMMA GensSteps ==
    ASSUME at \in [Threads -> Labels], LabelInv, TodoInv, TickType, RunType, PaneType, GensInv, Next
    PROVE  GensInv'
<1> DEFINE L1 == {"offer", "send", "unhand", "refused", "fail", "save fail"}
           L2 == {"send", "unhand", "refused"}
           Alert == /\ (live => copy # NoGen) /\ (at[Tick] = "idle" => ~live)
                    /\ at[Tick] \in L1 => live
                    /\ at[Tick] \in L2 => handed[First(todo)] \in {copy, NoGen}
<1>1. Alert BY DEF GensInv
<1>2. Alert'
  <2>1. CASE TickSteps
    <3> USE DEF tickFrame
    <3>1. CASE TickStart
      <4>1. at'[Tick] = "panes" /\ ~live /\ live' = live BY <1>1, <3>1, TickGoes DEF TickStart
      <4> QED BY <4>1
    <3>2. CASE TickPanes
      <4>1. at'[Tick] \in {"cleanup", "reroute", "look"} /\ UNCHANGED tickVars BY <3>2, TickGoes DEF TickPanes
      <4> QED BY <1>1, <4>1 DEF tickVars
    <3>3. CASE TickReroute
      <4>1. at'[Tick] \in {"save reroute", "cleanup"} /\ UNCHANGED tickVars BY <3>3, TickGoes DEF TickReroute, Call
      <4> QED BY <1>1, <4>1 DEF tickVars
    <3>4. CASE TickLook
      <4>1. at'[Tick] = "settle" /\ live' = Alive(copy) /\ copy' = copy BY <3>4, TickGoes DEF TickLook
      <4> QED BY <4>1 DEF Alive
    <3>5. CASE TickSettle
      <4>1. at'[Tick] \in {"settle", "interrupt"} /\ live' = live /\ copy' = copy BY <3>5, TickGoes DEF TickSettle
      <4> QED BY <1>1, <4>1
    <3>6. CASE TickInterrupt
      <4>1. at'[Tick] \in {"save interrupt", "forget"} /\ UNCHANGED tickVars BY <3>6, TickGoes DEF TickInterrupt, Call
      <4> QED BY <1>1, <4>1 DEF tickVars
    <3>7. CASE TickForget
      <4>1. at'[Tick] = "settle" /\ live' = live /\ copy' = copy BY <3>7, TickGoes DEF TickForget
      <4> QED BY <1>1, <4>1
    <3>8. CASE TickPending
      <4>1. at'[Tick] = "cleanup" \/ (at'[Tick] = "offer" /\ live) BY <3>8, TickGoes DEF TickPending
      <4>2. live' = live /\ copy' = copy BY <3>8 DEF TickPending
      <4> QED BY <1>1, <4>1, <4>2
    <3>9. CASE TickOffer
      <4>1. at[Tick] = "offer" /\ live' = live /\ copy' = copy BY <3>9 DEF TickOffer
      <4>2. CASE todo = {} \/ WasHanded(First(todo))
        <5>1. at'[Tick] \in {"cleanup", "offer"} BY <3>9, <4>1, <4>2, TickGoes DEF TickOffer
        <5> QED BY <1>1, <4>1, <5>1
      <4>3. CASE todo # {} /\ ~WasHanded(First(todo))
        <5>1. todo' = todo /\ handed' = [handed EXCEPT ![First(todo)] = copy] BY <3>9, <4>3 DEF TickOffer
        <5>2. First(todo) \in Messages BY <4>3, FirstIs DEF TickType
        <5>3. handed'[First(todo)] = copy BY <5>1, <5>2 DEF TickType
        <5>4. at'[Tick] = "send" BY <3>9, <4>3, TickGoes DEF TickOffer
        <5>5. live /\ copy # NoGen BY <1>1, <4>1
        <5> QED BY <4>1, <5>1, <5>3, <5>4, <5>5
      <4> QED BY <4>2, <4>3
    <3>10. CASE TickSend
      <4>1. at[Tick] = "send" /\ UNCHANGED <<handed, copy, live>> BY <3>10 DEF TickSend
      <4>2. (at'[Tick] \in {"refused", "unhand"} /\ todo' = todo) \/ at'[Tick] = "offer" BY <3>10, TickGoes DEF TickSend
      <4> QED BY <1>1, <4>1, <4>2
    <3>11. CASE TickUnhand
      <4>1. at'[Tick] = "cleanup" /\ live' = live /\ copy' = copy BY <3>11, TickGoes DEF TickUnhand
      <4> QED BY <1>1, <4>1
    <3>12. CASE TickRefused
      <4>1. at[Tick] = "refused" /\ at'[Tick] = "fail" /\ live' = live /\ copy' = copy
        BY <3>12, TickGoes DEF TickRefused, tickVars
      <4> QED BY <1>1, <4>1
    <3>13. CASE TickFail
      <4>1. at[Tick] = "fail" /\ at'[Tick] \in {"save fail", "offer"} /\ live' = live /\ copy' = copy
        BY <3>13, TickGoes DEF TickFail, Call
      <4> QED BY <1>1, <4>1
    <3>14. CASE TickCleanup
      <4>1. at'[Tick] = "idle" /\ live' = FALSE BY <3>14, TickGoes DEF TickCleanup
      <4> QED BY <4>1
    <3> QED BY <2>1, <3>1, <3>2, <3>3, <3>4, <3>5, <3>6, <3>7, <3>8, <3>9, <3>10, <3>11, <3>12, <3>13, <3>14 DEF TickSteps
  <2>2. CASE Save(Tick)
    <3>1. at'[Tick] = AfterSave(Tick) /\ at[Tick] \in SaveLabels BY <2>2, TickGoes DEF Save
    <3>2. at[Tick] \in TickLabels BY LabelsAre, ThreadsAre DEF LabelInv
    <3>3. at'[Tick] \in {"forget", "offer", "cleanup"} /\ (at'[Tick] = "offer" => at[Tick] = "save fail")
      BY <3>1, <3>2 DEF AfterSave, TickLabels, SaveLabels
    <3>4. live' = live /\ copy' = copy BY <2>2 DEF Save, tickVars
    <3> QED BY <1>1, <3>3, <3>4
  <2>3. CASE Crash
    <3>1. at'[Tick] = "idle" /\ live' = FALSE BY <2>3, ThreadsAre, LabelsAre DEF Crash, AllHome
    <3> QED BY <3>1
  <2>4. CASE /\ UNCHANGED tickVars /\ at'[Tick] = at[Tick]
             /\ UNCHANGED handed \/ \E t \in Reporters : ReportForget(t)
    <3>1. UNCHANGED <<copy, live, todo>> BY <2>4 DEF tickVars
    <3>2. at[Tick] \in L2 => handed'[First(todo)] \in {copy, NoGen}
      <4>1. \A m \in Messages : handed'[m] \in {handed[m], NoGen} BY <2>4 DEF ReportForget, Forget, TickType
      <4>2. at[Tick] \in L2 => First(todo) \in Messages BY FirstIs DEF TodoInv, TickType
      <4> QED BY <1>1, <4>1, <4>2
    <3> QED BY <1>1, <2>4, <3>1, <3>2
  <2> QED BY <2>1, <2>2, <2>3, <2>4, WhoTicks
<1>3. ASSUME NEW g \in {cur, copy} \cup {handed[m] : m \in Messages}, g # NoGen PROVE g \in Gens /\ phase'[g] # "none"
  <2>1. g \in Gens /\ phase[g] # "none" BY <1>3 DEF GensInv, PaneType, TickType
  <2> QED BY <2>1, PhaseGrows
<1>4. cur' # NoGen => phase'[cur'] # "none" BY <1>3, PhaseGrows
<1>5. copy' \in {copy, cur, NoGen}
  <2>1. CASE TickSteps
    BY <2>1 DEF TickSteps, TickStart, TickPanes, TickReroute, TickLook, TickSettle, TickInterrupt, TickForget,
        TickPending, TickOffer, TickSend, TickUnhand, TickRefused, TickFail, TickCleanup, tickVars
  <2>2. CASE Save(Tick) \/ Crash \/ UNCHANGED tickVars BY <2>2 DEF Save, Crash, tickVars
  <2> QED BY <2>1, <2>2, WhoTicks
<1>6. copy' # NoGen => phase'[copy'] # "none" BY <1>3, <1>5
<1>7. ASSUME NEW m \in Messages, handed'[m] # NoGen PROVE phase'[handed'[m]] # "none"
  BY <1>3, <1>7, HandedIs
<1> QED
  <2> HIDE DEF L1, L2
  <2>1. \A g \in {cur', copy'} \cup {handed'[m] : m \in Messages} : g # NoGen => phase'[g] # "none"
    BY <1>4, <1>6, <1>7
  <2> QED BY <1>2, <2>1 DEF GensInv, L1, L2

\* Nothing happens to a loop but by its own steps.
LEMMA OtherLoops ==
    ASSUME at \in [Threads -> Labels], RunType, NEW t \in Reporters, NEW l, Goto(t, l), NEW g \in Gens, Loop(g) # t,
           UNCHANGED turn, \A u \in Reporters : u # t => rep'[u] = rep[u], TurnInv, turn[g] # NoMail
    PROVE  \/ at'[Loop(g)] \in {"prompt", "wait"}
           \/ at'[Loop(g)] \in {"look", "apply", "save report"} /\ rep'[Loop(g)].what = "began"
<1>1. Loop(g) \in Reporters BY ThreadsAre
<1>2. at'[Loop(g)] = at[Loop(g)] BY <1>1, ThreadsAre DEF Goto
<1>3. rep'[Loop(g)] = rep[Loop(g)] BY <1>1
<1> QED BY <1>2, <1>3 DEF TurnInv

\* A loop has a turn while it sends it, reports that it began or waits for its end.
LEMMA TurnSteps ==
    ASSUME at \in [Threads -> Labels], LabelInv, TodoInv, TickType, RunType, BeganInv, TurnInv, Next
    PROVE  TurnInv'
<1> DEFINE Busy(g) == \/ at[Loop(g)] \in {"prompt", "wait"}
                      \/ at[Loop(g)] \in {"look", "apply", "save report"} /\ rep[Loop(g)].what = "began"
<1>0. \A g \in Gens : turn[g] # NoMail => Busy(g) BY DEF TurnInv
<1>1. ASSUME UNCHANGED <<turn, rep>>, \A g \in Gens : at'[Loop(g)] = at[Loop(g)] PROVE TurnInv'
  BY <1>1 DEF TurnInv
<1>2. ASSUME NEW t \in Threads \ Reporters, NEW l, Goto(t, l), UNCHANGED <<turn, rep>> PROVE TurnInv'
  <2>1. \A g \in Gens : at'[Loop(g)] = at[Loop(g)] BY <1>2, ThreadsAre DEF Goto
  <2> QED BY <1>1, <1>2, <2>1
<1>3. ASSUME NEW t \in Reporters, NEW l, Goto(t, l), UNCHANGED turn, \A u \in Reporters : u # t => rep'[u] = rep[u],
             \A g \in Gens : t = Loop(g) /\ turn[g] # NoMail =>
                l \in {"prompt", "wait"} \/ (l \in {"look", "apply", "save report"} /\ rep'[t].what = "began")
      PROVE  TurnInv'
  <2> SUFFICES ASSUME NEW g \in Gens, turn[g] # NoMail PROVE Busy(g)'
    BY <1>3 DEF TurnInv
  <2>1. CASE t # Loop(g) BY <1>3, <2>1, OtherLoops
  <2>2. CASE t = Loop(g)
    <3>1. at'[t] = l BY <1>3, ThreadsAre DEF Goto
    <3> QED BY <1>3, <2>2, <3>1
  <2> QED BY <2>1, <2>2
<1>4. CASE TickSteps
  <2>1. UNCHANGED <<turn, rep>>
    BY <1>4 DEF TickSteps, TickStart, TickPanes, TickReroute, TickLook, TickSettle, TickInterrupt, TickForget,
        TickPending, TickOffer, TickSend, TickUnhand, TickRefused, TickFail, TickCleanup, tickFrame, runVars
  <2>2. UNCHANGED at \/ \E l : Goto(Tick, l)
    BY <1>4 DEF TickSteps, TickStart, TickPanes, TickReroute, TickLook, TickSettle, TickInterrupt, TickForget,
        TickPending, TickOffer, TickSend, TickUnhand, TickRefused, TickFail, TickCleanup, Call
  <2>3. Tick \in Threads \ Reporters BY ThreadsAre
  <2> QED BY <1>1, <1>2, <2>1, <2>2, <2>3
<1>5. ASSUME NEW t \in Threads, Save(t) PROVE TurnInv'
  <2>1. UNCHANGED <<turn, rep>> /\ Goto(t, AfterSave(t)) /\ at[t] \in SaveLabels BY <1>5 DEF Save, runVars
  <2>2. CASE t \notin Reporters BY <1>2, <2>1, <2>2
  <2>3. CASE t \in Reporters
    <3>1. ASSUME NEW g \in Gens, t = Loop(g), turn[g] # NoMail PROVE AfterSave(t) = "prompt"
      <4>1. at[t] = "save report" /\ rep[t].what = "began" BY <1>0, <2>1, <3>1 DEF SaveLabels
      <4> QED BY <4>1 DEF AfterSave
    <3> DEFINE l == AfterSave(t)
    <3>2. Goto(t, l) /\ \A g \in Gens : t = Loop(g) /\ turn[g] # NoMail => l = "prompt" BY <2>1, <3>1
    <3>3. UNCHANGED turn /\ \A u \in Reporters : u # t => rep'[u] = rep[u] BY <2>1
    <3> HIDE DEF l
    <3> QED BY <1>3, <2>3, <3>2, <3>3
  <2> QED BY <2>2, <2>3
<1>6. CASE SendRouted \/ SendPut \/ (\E m \in Messages : ReadMail(m)) \/ RemovePane \/ DropInbox
  <2>1. UNCHANGED <<turn, rep>>
    BY <1>6 DEF SendRouted, SendPut, ReadMail, RemovePane, DropInbox, runVars
  <2>2. \E t \in {Sender, Reader, Owner} : \E l : Goto(t, l)
    BY <1>6 DEF SendRouted, SendPut, ReadMail, RemovePane, DropInbox, Call
  <2> QED BY <1>2, <2>1, <2>2, ThreadsAre
<1>7. CASE CancelPane \/ Retire \/ BecomeTerminal \/ Switch \/ (\E g \in Gens : Start(g))
           \/ \E t \in Reporters, p \in {"needs setup", "final"} : RuntimeEnds(t, p)
  BY <1>1, <1>7 DEF CancelPane, Retire, BecomeTerminal, Switch, Start, RuntimeEnds, ownerFrame
<1>8. ASSUME NEW t \in Reporters, Reports(t) PROVE TurnInv'
  <2>1. UNCHANGED turn BY <1>8 DEF Reports, ReportLook, ReportApply, ReportForget, ReportDrop, runVars
  <2>2. \A u \in Reporters : u # t => rep'[u] = rep[u]
    BY <1>8, RunTypeIs DEF Reports, ReportLook, ReportApply, ReportForget, ReportDrop
  <2>3. \A g \in Gens : t = Loop(g) => Home(t) = "pop" /\ t[1] = "loop" BY LabelsAre DEF Loop
  <2>4. CASE ReportLook(t)
    <3>1. CASE Heard(t)
      <4>1. Goto(t, "apply") /\ rep' = rep /\ at[t] = "look" BY <2>4, <3>1 DEF ReportLook
      <4>2. \A g \in Gens : t = Loop(g) /\ turn[g] # NoMail => rep'[t].what = "began" BY <1>0, <4>1
      <4> QED BY <1>3, <2>1, <2>2, <4>1, <4>2
    <3>2. CASE ~Heard(t)
      <4>1. Goto(t, AfterReport(t)) /\ at[t] = "look" BY <2>4, <3>2 DEF ReportLook
      <4>2. ASSUME NEW g \in Gens, t = Loop(g), turn[g] # NoMail PROVE AfterReport(t) = "prompt"
        <5>1. rep[t].what = "began" BY <1>0, <4>1, <4>2
        <5> QED BY <2>3, <4>2, <5>1 DEF AfterReport
      <4> QED BY <1>3, <2>1, <2>2, <4>1, <4>2
    <3> QED BY <3>1, <3>2
  <2>5. CASE ReportApply(t)
    <3>1. /\ rep' = rep /\ at[t] = "apply"
          /\ Goto(t, "save report") \/ Goto(t, IF rep[t].what = "began" THEN "prompt" ELSE "forget")
      BY <2>5 DEF ReportApply, Call
    <3>2. ASSUME NEW g \in Gens, t = Loop(g), turn[g] # NoMail PROVE rep'[t].what = "began"
      BY <1>0, <3>1, <3>2
    <3>3. CASE Goto(t, "save report") BY <1>3, <2>1, <2>2, <3>2, <3>3
    <3>4. CASE Goto(t, IF rep[t].what = "began" THEN "prompt" ELSE "forget")
      <4>1. CASE rep[t].what = "began"
        <5>1. Goto(t, "prompt") BY <3>4, <4>1
        <5> QED BY <1>3, <2>1, <2>2, <5>1
      <4>2. CASE rep[t].what # "began"
        <5>1. Goto(t, "forget") /\ \A g \in Gens : t = Loop(g) => turn[g] = NoMail BY <3>1, <3>2, <3>4, <4>2
        <5> QED BY <1>3, <2>1, <2>2, <5>1
      <4> QED BY <4>1, <4>2
    <3> QED BY <3>1, <3>3, <3>4
  <2>6. CASE ReportForget(t)
    <3>1. at[t] = "forget" /\ Goto(t, Home(t)) BY <2>6 DEF ReportForget
    <3> QED BY <1>0, <1>3, <2>1, <2>2, <3>1
  <2>7. CASE ReportDrop(t)
    <3>1. at[t] = Home(t) /\ Goto(t, "look") BY <2>7 DEF ReportDrop
    <3>2. \A g \in Gens : t = Loop(g) => turn[g] = NoMail BY <1>0, <2>3, <3>1
    <3> QED BY <1>3, <2>1, <2>2, <3>1, <3>2
  <2> QED BY <1>8, <2>4, <2>5, <2>6, <2>7 DEF Reports
<1>9. ASSUME NEW g \in Gens, Turns(g) PROVE TurnInv'
  <2> SUFFICES ASSUME NEW h \in Gens, turn'[h] # NoMail PROVE Busy(h)'
    BY DEF TurnInv
  <2>0. Loop(g) \in Reporters /\ Loop(h) \in Reporters /\ (g # h => Loop(g) # Loop(h)) BY ThreadsAre DEF Loop
  <2>1. CASE h # g
    <3>1. \E l : Goto(Loop(g), l) BY <1>9 DEF Turns, Pop, SendPrompt, SendFails, TurnEnds
    <3>2. at'[Loop(h)] = at[Loop(h)] BY <2>0, <2>1, <3>1, ThreadsAre DEF Goto
    <3>3. turn'[h] = turn[h] BY <1>9, <2>1, RunTypeIs DEF Turns, Pop, SendPrompt, SendFails, TurnEnds, runVars
    <3>4. rep'[Loop(h)] = rep[Loop(h)]
      BY <1>9, <2>0, <2>1, RunTypeIs DEF Turns, Pop, SendPrompt, SendFails, TurnEnds
    <3> QED BY <1>0, <3>2, <3>3, <3>4
  <2>2. CASE h = g
    <3>1. CASE Pop(g)
      <4>1. at'[Loop(g)] = "look" /\ rep'[Loop(g)] = [of |-> Head(queue[g]), what |-> "began"]
        BY <2>0, <3>1, RunTypeIs, ThreadsAre DEF Pop, Goto
      <4> QED BY <2>2, <4>1
    <3>2. CASE SendPrompt(g)
      <4>1. at'[Loop(g)] = "wait" BY <2>0, <3>2, ThreadsAre DEF SendPrompt, Goto
      <4> QED BY <2>2, <4>1
    <3>3. CASE SendFails(g) \/ \E what \in Outcomes : TurnEnds(g, what)
      <4>1. turn' = [turn EXCEPT ![g] = NoMail] BY <3>3 DEF SendFails, TurnEnds
      <4>2. turn'[g] = NoMail BY <4>1, RunTypeIs
      <4> QED BY <2>2, <4>2
    <3> QED BY <1>9, <3>1, <3>2, <3>3 DEF Turns
  <2> QED BY <2>1, <2>2
<1>10. CASE Crash BY <1>10 DEF Crash, NoTurns, TurnInv
<1> QED BY <1>4, <1>5, <1>6, <1>7, <1>8, <1>9, <1>10 DEF Next

\* Where a message that is held is: at the tick, or somewhere in the runtime.
ByTick(m) == m \in todo /\ at[Tick] \in {"send", "unhand", "refused"} /\ First(todo) = m
ByReport(t, m) == rep[t].of = m /\ at[t] \in {"look", "apply", "save report", "forget"}
InRun(m, g) ==
    \/ m \in ToSet(queue[g]) \/ turn[g] = m
    \/ \E t \in Reporters : t[2] = g /\ (m \in drops[t] \/ ByReport(t, m))
\* HeldBy is one of the two.
LEMMA HeldIs == ASSUME NEW m, NEW g PROVE HeldBy(m, g) <=> InRun(m, g) \/ ByTick(m)
BY DEF HeldBy, InRun, ByTick, ByReport

\* The tick gives the message at hand to the runtime, or it is down as handed no longer.
LEMMA TickHolds ==
    ASSUME at \in [Threads -> Labels], LabelInv, TodoInv, TickType, RunType, GensInv, HandedInv, TickSteps,
           NEW m \in Messages, handed'[m] = cur, cur # NoGen
    PROVE  HeldBy(m, cur)'
<1> USE DEF tickFrame, runVars
<1>0. handed[m] = cur => InRun(m, cur) \/ ByTick(m) BY HeldIs DEF HandedInv
<1>1. UNCHANGED <<turn, rep, drops, cur>> /\ \A t \in Reporters : at'[t] = at[t]
  <2>1. UNCHANGED <<turn, rep, drops, cur>>
    BY DEF TickSteps, TickStart, TickPanes, TickReroute, TickLook, TickSettle, TickInterrupt, TickForget,
        TickPending, TickOffer, TickSend, TickUnhand, TickRefused, TickFail, TickCleanup, paneVars
  <2>2. UNCHANGED at \/ \E l : Goto(Tick, l)
    BY DEF TickSteps, TickStart, TickPanes, TickReroute, TickLook, TickSettle, TickInterrupt, TickForget,
        TickPending, TickOffer, TickSend, TickUnhand, TickRefused, TickFail, TickCleanup, Call
  <2> QED BY <2>1, <2>2, ThreadsAre DEF Goto
<1>2. ASSUME queue' = queue, InRun(m, cur) PROVE HeldBy(m, cur)'
  BY <1>1, <1>2 DEF HeldBy, InRun, ByReport
<1>3. ASSUME queue' = queue, handed[m] = cur, ~ByTick(m) PROVE HeldBy(m, cur)'
  BY <1>0, <1>2, <1>3
<1>4. ASSUME queue' = queue, handed' = handed, at[Tick] \notin {"send", "unhand", "refused"} PROVE HeldBy(m, cur)'
  BY <1>3, <1>4 DEF ByTick
<1>5. CASE TickStart \/ TickPanes \/ TickReroute \/ TickLook \/ TickSettle \/ TickInterrupt \/ TickPending \/ TickFail
  BY <1>4, <1>5 DEF TickStart, TickPanes, TickReroute, TickLook, TickSettle, TickInterrupt, TickPending, TickFail
<1>6. ASSUME NEW n, Forget(n), queue' = queue, n = First(todo) PROVE HeldBy(m, cur)'
  <2>1. m # n /\ handed[m] = cur
    <3>1. handed' = [handed EXCEPT ![n] = NoGen] BY <1>6 DEF Forget
    <3>2. handed'[m] = IF m = n THEN NoGen ELSE handed[m] BY <3>1 DEF TickType
    <3> QED BY <3>2
  <2> QED BY <1>3, <1>6, <2>1 DEF ByTick
<1>7. CASE TickForget \/ TickUnhand \/ TickRefused
  BY <1>6, <1>7 DEF TickForget, TickUnhand, TickRefused
<1>8. CASE TickCleanup
  <2>1. queue' = queue /\ (handed' = handed \/ handed' = NoneHanded) /\ at[Tick] = "cleanup" BY <1>8 DEF TickCleanup
  <2>2. NoneHanded[m] = NoGen BY DEF NoneHanded
  <2> QED BY <1>4, <2>1, <2>2
<1>9. CASE TickOffer
  <2>1. queue' = queue /\ at[Tick] = "offer" BY <1>9 DEF TickOffer
  <2>2. CASE handed' = handed BY <1>4, <2>1, <2>2
  <2>3. CASE handed' # handed
    <3>1. /\ todo # {} /\ todo' = todo /\ handed' = [handed EXCEPT ![First(todo)] = copy] /\ Goto(Tick, "send")
      BY <1>9, <2>3 DEF TickOffer
    <3>2. First(todo) \in todo BY <3>1, FirstIs DEF TickType
    <3>3. CASE m = First(todo)
      <4>1. at'[Tick] = "send" BY <3>1, TickGoes
      <4> QED BY <3>1, <3>2, <3>3, <4>1 DEF HeldBy
    <3>4. CASE m # First(todo)
      <4>1. handed[m] = cur BY <3>1, <3>4 DEF TickType
      <4> QED BY <1>3, <2>1, <4>1 DEF ByTick
    <3> QED BY <3>3, <3>4
  <2> QED BY <2>2, <2>3
<1>10. CASE TickSend
  <2>1. handed' = handed /\ at[Tick] = "send" /\ copy' = copy BY <1>10 DEF TickSend
  <2>2. CASE UNCHANGED <<queue, todo>>
    <3>1. CASE ByTick(m)
      <4>1. at'[Tick] \in {"refused", "unhand"} \/ todo' = todo \ {First(todo)} BY <1>10, TickGoes DEF TickSend
      <4> QED BY <2>2, <3>1, <4>1 DEF HeldBy, ByTick
    <3>2. CASE ~ByTick(m) BY <1>3, <2>1, <2>2, <3>2
    <3> QED BY <3>1, <3>2
  <2>3. CASE /\ copy \in Gens /\ First(todo) \in todo /\ First(todo) \in Messages
             /\ queue' = [queue EXCEPT ![copy] = Append(@, First(todo))]
    <3> DEFINE n == First(todo)
               s == Append(queue[copy], n)
    <3>1. queue[copy] \in Seq(Messages) /\ queue \in [Gens -> Seq(Messages)] BY <2>3, RunTypeIs
    <3>2. ToSet(s) = ToSet(queue[copy]) \cup {n}
      <4>1. /\ DOMAIN s = 1..(Len(queue[copy]) + 1) /\ DOMAIN queue[copy] = 1..Len(queue[copy])
            /\ Len(queue[copy]) \in Nat /\ s[Len(queue[copy]) + 1] = n
            /\ \A i \in 1..Len(queue[copy]) : s[i] = queue[copy][i]
        BY <2>3, <3>1
      <4> HIDE DEF s, n
      <4>2. \A i \in 1..(Len(queue[copy]) + 1) : i \in 1..Len(queue[copy]) \/ i = Len(queue[copy]) + 1 BY <4>1
      <4>3. \A i \in 1..Len(queue[copy]) : i \in 1..(Len(queue[copy]) + 1) BY <4>1
      <4>4. Len(queue[copy]) + 1 \in 1..(Len(queue[copy]) + 1) BY <4>1
      <4>5. ToSet(s) = {s[i] : i \in 1..(Len(queue[copy]) + 1)} /\ ToSet(queue[copy]) = {queue[copy][i] : i \in 1..Len(queue[copy])}
        BY <4>1 DEF ToSet
      <4> QED BY <4>1, <4>2, <4>3, <4>4, <4>5
    <3>3. queue' = [queue EXCEPT ![copy] = s] BY <2>3
    <3> HIDE DEF s
    <3>4. cur \in Gens => ToSet(queue[cur]) \subseteq ToSet(queue'[cur]) BY <3>1, <3>2, <3>3
    <3>5. cur \in Gens
      <4>1. handed[m] \in Gens \cup {NoGen} BY DEF TickType
      <4> QED BY <2>1, <4>1
    <3>6. CASE m = n
      <4>1. handed[n] \in {copy, NoGen} BY <2>1 DEF GensInv
      <4>2. copy = cur BY <2>1, <3>6, <4>1
      <4>3. n \in ToSet(queue'[cur]) BY <2>3, <3>1, <3>2, <3>3, <4>2
      <4>4. m \in ToSet(queue[cur])' BY <1>1, <3>6, <4>3
      <4> QED BY <1>1, <4>4 DEF HeldBy
    <3>7. CASE m # n
      <4>1. InRun(m, cur) BY <1>0, <2>1, <3>7 DEF ByTick
      <4> QED BY <1>1, <3>4, <3>5, <4>1 DEF InRun, ByReport, HeldBy
    <3> QED BY <3>6, <3>7
  <2> QED BY <1>10, <2>2, <2>3, SendRuns
<1> QED BY <1>5, <1>7, <1>8, <1>9, <1>10 DEF TickSteps

\* What a step of one goroutine that reports leaves alone still holds its messages.
LEMMA OthersHold ==
    ASSUME at \in [Threads -> Labels], NEW t \in Reporters, NEW l, Goto(t, l), NEW m, NEW g,
           UNCHANGED <<queue, turn, todo>>, HeldBy(m, g),
           \A u \in Reporters : u # t => rep'[u] = rep[u] /\ drops'[u] = drops[u],
           ~(t[2] = g /\ (m \in drops[t] \/ ByReport(t, m)))
    PROVE  HeldBy(m, g)'
<1>1. at'[Tick] = at[Tick] /\ \A u \in Reporters : u # t => at'[u] = at[u] BY ThreadsAre DEF Goto
<1>2. CASE ByTick(m)
  BY <1>1, <1>2 DEF HeldBy, ByTick
<1>3. CASE InRun(m, g)
  BY <1>1, <1>3 DEF InRun, ByReport, HeldBy
<1> QED BY <1>2, <1>3, HeldIs

\* A report is ignored only when the message is not down as handed to its runtime, and it
\* is forgotten before the report is done.
LEMMA ReportHolds ==
    ASSUME at \in [Threads -> Labels], LabelInv, TickType, RunType, BeganInv, HandedInv,
           NEW t \in Reporters, Reports(t), NEW m \in Messages, handed'[m] = cur, cur # NoGen
    PROVE  HeldBy(m, cur)'
<1>1. UNCHANGED <<queue, turn, todo, cur>>
  BY DEF Reports, ReportLook, ReportApply, ReportForget, ReportDrop, runVars, reportFrame, tickVars, paneVars
<1>2. \A u \in Reporters : u # t => rep'[u] = rep[u] /\ drops'[u] = drops[u]
  BY RunTypeIs DEF Reports, ReportLook, ReportApply, ReportForget, ReportDrop
<1>3. \E l : Goto(t, l)
  BY DEF Reports, ReportLook, ReportApply, ReportForget, ReportDrop, Call
<1>4. handed[m] = cur
  BY DEF Reports, ReportLook, ReportApply, ReportForget, ReportDrop, Forget, TickType
<1>5. HeldBy(m, cur) BY <1>4 DEF HandedInv
<1>6. CASE ~(t[2] = cur /\ (m \in drops[t] \/ ByReport(t, m)))
  BY <1>1, <1>2, <1>3, <1>5, <1>6, OthersHold
<1>7. ASSUME t[2] = cur, \/ m \in drops'[t] \/ turn[cur] = m
                         \/ rep'[t].of = m /\ at'[t] \in {"look", "apply", "save report", "forget"}
      PROVE  HeldBy(m, cur)'
  BY <1>1, <1>7 DEF HeldBy
<1>8. CASE t[2] = cur /\ m \in drops[t]
  <2>1. CASE ReportDrop(t)
    <3>1. /\ rep' = [rep EXCEPT ![t] = [of |-> First(drops[t]), what |-> "lost"]]
          /\ drops' = [drops EXCEPT ![t] = @ \ {First(drops[t])}] /\ Goto(t, "look")
      BY <2>1 DEF ReportDrop
    <3>2. at'[t] = "look" BY <3>1, ThreadsAre DEF Goto
    <3>3. rep'[t].of = First(drops[t]) BY <3>1, RunTypeIs
    <3>4. drops'[t] = drops[t] \ {First(drops[t])} BY <3>1, RunTypeIs
    <3> QED BY <1>7, <1>8, <3>2, <3>3, <3>4
  <2>2. CASE drops' = drops BY <1>7, <1>8, <2>2
  <2> QED BY <2>1, <2>2 DEF Reports, ReportLook, ReportApply, ReportForget
<1>9. CASE t[2] = cur /\ ByReport(t, m)
  <2>1. rep[t].of = m /\ at[t] \in {"look", "apply", "save report", "forget"} BY <1>9 DEF ByReport
  <2>2. CASE ReportLook(t)
    <3>1. Heard(t) BY <1>4, <1>9, <2>1 DEF Heard
    <3>2. Goto(t, "apply") /\ rep' = rep BY <2>2, <3>1 DEF ReportLook
    <3>3. at'[t] = "apply" BY <3>2, ThreadsAre DEF Goto
    <3> QED BY <1>7, <1>9, <2>1, <3>2, <3>3
  <2>3. CASE ReportApply(t)
    <3>1. rep' = rep /\ (Goto(t, "save report") \/ Goto(t, "forget") \/ (Goto(t, "prompt") /\ rep[t].what = "began"))
      BY <2>3 DEF ReportApply, Call
    <3>2. rep[t].what = "began" => turn[cur] = m BY <1>9, <2>1 DEF BeganInv
    <3>3. at'[t] \in {"save report", "forget"} \/ turn[cur] = m BY <3>1, <3>2, ThreadsAre DEF Goto
    <3> QED BY <1>7, <1>9, <2>1, <3>1, <3>3
  <2>4. CASE ReportForget(t)
    <3>1. handed'[m] = NoGen BY <2>1, <2>4 DEF ReportForget, Forget, TickType
    <3> QED BY <3>1
  <2>5. CASE ReportDrop(t)
    <3>1. at[t] = Home(t) BY <2>5 DEF ReportDrop
    <3> QED BY <2>1, <3>1 DEF Home
  <2> QED BY <2>2, <2>3, <2>4, <2>5 DEF Reports
<1> QED BY <1>6, <1>8, <1>9

\* A loop goes on with a message it took from its queue until it has reported on it.
LEMMA TurnHolds ==
    ASSUME at \in [Threads -> Labels], LabelInv, TickType, RunType, BeganInv, TurnInv, HandedInv,
           NEW h \in Gens, Turns(h), NEW m \in Messages, handed'[m] = cur, cur # NoGen
    PROVE  HeldBy(m, cur)'
<1> DEFINE t == Loop(h)
<1>0. t \in Reporters /\ t[1] = "loop" /\ t[2] = h BY ThreadsAre DEF Loop
<1>1. UNCHANGED <<todo, cur, handed, drops>> /\ at'[Tick] = at[Tick]
      /\ \A u \in Reporters : u # t => rep'[u] = rep[u] /\ at'[u] = at[u]
  <2>1. UNCHANGED <<todo, cur, handed, drops>>
    BY DEF Turns, Pop, SendPrompt, SendFails, TurnEnds, reportFrame, tickVars, paneVars
  <2>2. \E l : Goto(t, l) BY DEF Turns, Pop, SendPrompt, SendFails, TurnEnds
  <2>3. at'[Tick] = at[Tick] /\ \A u \in Reporters : u # t => at'[u] = at[u] BY <1>0, <2>2, ThreadsAre DEF Goto
  <2>4. \A u \in Reporters : u # t => rep'[u] = rep[u]
    BY <1>0, RunTypeIs DEF Turns, Pop, SendPrompt, SendFails, TurnEnds
  <2> QED BY <2>1, <2>3, <2>4
<1>2. HeldBy(m, cur) BY <1>1 DEF HandedInv
<1>3. \A g \in Gens : g # h => queue'[g] = queue[g] /\ turn'[g] = turn[g]
  BY RunTypeIs DEF Turns, Pop, SendPrompt, SendFails, TurnEnds, runVars
<1>4. cur \in Gens BY <1>1 DEF TickType
<1>5. CASE ByTick(m) BY <1>1, <1>5 DEF ByTick, HeldBy
<1>6. CASE cur # h /\ InRun(m, cur)
  <2>1. queue'[cur] = queue[cur] /\ turn'[cur] = turn[cur] BY <1>3, <1>4, <1>6
  <2>2. \A u \in Reporters : u[2] = cur => u # t BY <1>0, <1>6
  <2> QED BY <1>1, <1>6, <2>1, <2>2 DEF InRun, ByReport, HeldBy
<1>7. CASE cur = h /\ InRun(m, cur)
  <2>1. ASSUME \/ m \in ToSet(queue'[h]) \/ turn'[h] = m
               \/ \E u \in Reporters : u[2] = h /\ m \in drops[u]
               \/ \E u \in Reporters : u # t /\ u[2] = h /\ ByReport(u, m)
               \/ rep'[t].of = m /\ at'[t] = "look"
        PROVE  HeldBy(m, cur)'
    BY <1>0, <1>1, <1>7, <2>1 DEF HeldBy, ByReport
  <2>2. CASE Pop(h)
    <3>1. /\ at[t] = "pop" /\ queue[h] # <<>> /\ turn' = [turn EXCEPT ![h] = Head(queue[h])]
          /\ queue' = [queue EXCEPT ![h] = Tail(@)]
      BY <2>2 DEF Pop
    <3>2. queue[h] \in Seq(Messages) /\ Len(queue[h]) <= MaxQueue BY RunTypeIs
    <3>3. ToSet(queue[h]) = {Head(queue[h])} \cup ToSet(Tail(queue[h])) BY <3>1, <3>2, HeadIs
    <3>4. queue'[h] = Tail(queue[h]) /\ turn'[h] = Head(queue[h]) BY <3>1, RunTypeIs
    <3>5. turn[h] # m BY <3>1, MoreBounds DEF TurnInv
    <3>6. ~ByReport(t, m) BY <3>1 DEF ByReport
    <3> QED BY <1>7, <2>1, <3>3, <3>4, <3>5, <3>6 DEF InRun
  <2>3. CASE SendPrompt(h)
    <3>1. at[t] = "prompt" /\ queue' = queue /\ turn' = turn BY <2>3 DEF SendPrompt, runVars
    <3>2. ~ByReport(t, m) BY <3>1 DEF ByReport
    <3> QED BY <1>7, <2>1, <3>1, <3>2 DEF InRun
  <2>4. ASSUME at[t] \in {"prompt", "wait"}, queue' = queue, Goto(t, "look"), rep'[t].of = turn[h]
        PROVE  HeldBy(m, cur)'
    <3>2. at'[t] = "look" BY <1>0, <2>4, ThreadsAre DEF Goto
    <3>3. ~ByReport(t, m) BY <2>4 DEF ByReport
    <3> QED BY <1>7, <2>1, <2>4, <3>2, <3>3 DEF InRun
  <2>5. CASE SendFails(h)
    <3>1. /\ at[t] = "prompt" /\ queue' = queue /\ Goto(t, "look")
          /\ rep' = [rep EXCEPT ![t] = [of |-> turn[h], what |-> "lost"]]
      BY <2>5 DEF SendFails
    <3>2. rep'[t].of = turn[h] BY <1>0, <3>1, RunTypeIs
    <3> QED BY <2>4, <3>1, <3>2
  <2>6. ASSUME NEW what \in Outcomes, TurnEnds(h, what) PROVE HeldBy(m, cur)'
    <3>1. /\ at[t] = "wait" /\ queue' = queue /\ Goto(t, "look")
          /\ rep' = [rep EXCEPT ![t] = [of |-> turn[h], what |-> what]]
      BY <2>6 DEF TurnEnds
    <3>2. rep'[t].of = turn[h] BY <1>0, <3>1, RunTypeIs
    <3> QED BY <2>4, <3>1, <3>2
  <2> QED BY <2>2, <2>3, <2>5, <2>6 DEF Turns
<1> QED BY <1>2, <1>5, <1>6, <1>7, HeldIs

\* A queue that is dropped is in the hands of the goroutine that reports on it.
LEMMA DropHolds ==
    ASSUME RunType, NEW t \in Reporters, DropQueue(t), UNCHANGED <<at, rep, turn, todo>>, NEW m, NEW g \in Gens,
           HeldBy(m, g)
    PROVE  HeldBy(m, g)'
<1>1. /\ drops[t] = {} /\ drops' = [drops EXCEPT ![t] = ToSet(queue[t[2]])]
      /\ queue' = [queue EXCEPT ![t[2]] = <<>>]
  BY DEF DropQueue
<1>2. t[2] \in Gens BY ThreadsAre
<1>3. drops'[t] = ToSet(queue[t[2]]) /\ (\A u \in Reporters : u # t => drops'[u] = drops[u])
  BY <1>1, RunTypeIs
<1>4. g # t[2] => queue'[g] = queue[g] BY <1>1, RunTypeIs
<1>5. CASE m \in ToSet(queue[g]) /\ g = t[2] BY <1>3, <1>5 DEF HeldBy
<1>6. CASE m \in ToSet(queue[g]) /\ g # t[2] BY <1>4, <1>6 DEF HeldBy
<1>7. CASE \E u \in Reporters : u[2] = g /\ m \in drops[u]
  <2>1. PICK u \in Reporters : u[2] = g /\ m \in drops[u] BY <1>7
  <2>2. m \in drops'[u] BY <1>1, <1>3, <2>1
  <2> QED BY <2>1, <2>2 DEF HeldBy
<1>8. CASE ~(m \in ToSet(queue[g])) /\ ~(\E u \in Reporters : u[2] = g /\ m \in drops[u])
  BY <1>8 DEF HeldBy
<1> QED BY <1>5, <1>6, <1>7, <1>8

\* A save of a report goes on with the prompt, whose turn it is, or with the forgetting.
LEMMA SaveHolds ==
    ASSUME at \in [Threads -> Labels], LabelInv, BeganInv, NEW t \in Threads, Save(t), NEW m, NEW g \in Gens,
           HeldBy(m, g)
    PROVE  HeldBy(m, g)'
<1>1. UNCHANGED <<queue, turn, drops, rep, todo>> /\ Goto(t, AfterSave(t)) /\ at[t] \in SaveLabels
  BY DEF Save, runVars, tickVars
<1>2. CASE t \in Reporters
  <2>1. \A u \in Reporters : u # t => rep'[u] = rep[u] /\ drops'[u] = drops[u] BY <1>1
  <2>2. CASE ~(t[2] = g /\ (m \in drops[t] \/ ByReport(t, m)))
    BY <1>1, <1>2, <2>1, <2>2, OthersHold
  <2>3. CASE t[2] = g /\ m \in drops[t]
    BY <1>1, <1>2, <2>3 DEF HeldBy
  <2>4. CASE t[2] = g /\ ByReport(t, m)
    <3>1. rep[t].of = m /\ at[t] = "save report" BY <1>1, <2>4 DEF ByReport, SaveLabels
    <3>2. at'[t] = AfterSave(t) BY <1>1, <1>2, ThreadsAre DEF Goto
    <3>3. CASE rep[t].what = "began"
      <4>1. turn[g] = m BY <1>2, <2>4, <3>1, <3>3 DEF BeganInv
      <4> QED BY <1>1, <4>1 DEF HeldBy
    <3>4. CASE rep[t].what # "began"
      <4>1. at'[t] = "forget" BY <3>1, <3>2, <3>4 DEF AfterSave
      <4> QED BY <1>1, <1>2, <2>4, <3>1, <4>1 DEF HeldBy
    <3> QED BY <3>3, <3>4
  <2> QED BY <2>2, <2>3, <2>4
<1>3. CASE t \notin Reporters
  <2>1. \A u \in Reporters : at'[u] = at[u] BY <1>1, <1>3, ThreadsAre DEF Goto
  <2>2. CASE InRun(m, g) BY <1>1, <2>1, <2>2 DEF InRun, ByReport, HeldBy
  <2>3. CASE ByTick(m)
    <3>1. t # Tick BY <1>1, <2>3 DEF ByTick, SaveLabels
    <3>2. at'[Tick] = at[Tick] BY <1>1, <3>1, ThreadsAre DEF Goto
    <3> QED BY <1>1, <2>3, <3>2 DEF ByTick, HeldBy
  <2> QED BY <2>2, <2>3, HeldIs
<1> QED BY <1>2, <1>3

\* What is down as handed to the pane's runtime stays in its hands.
LEMMA HandedSteps ==
    ASSUME at \in [Threads -> Labels], TickType, RunType, PaneType, HeldInv, Next
    PROVE  HandedInv'
<1> USE DEF HeldInv
<1> SUFFICES ASSUME NEW m \in Messages, handed'[m] = cur', cur' # NoGen PROVE HeldBy(m, cur)'
  BY DEF HandedInv
<1>1. ASSUME cur' = cur, handed' = handed PROVE cur \in Gens /\ HeldBy(m, cur)
  BY <1>1 DEF HandedInv, PaneType
<1>2. ASSUME cur' = cur, HeldBy(m, cur') PROVE HeldBy(m, cur)
  BY <1>2
<1>3. CASE TickSteps
  <2>1. cur' = cur
    BY <1>3 DEF TickSteps, TickStart, TickPanes, TickReroute, TickLook, TickSettle, TickInterrupt, TickForget,
        TickPending, TickOffer, TickSend, TickUnhand, TickRefused, TickFail, TickCleanup, tickFrame, paneVars
  <2> QED BY <1>3, <2>1, TickHolds
<1>4. ASSUME NEW t \in Reporters, Reports(t) PROVE HeldBy(m, cur)'
  <2>1. cur' = cur BY <1>4 DEF Reports, ReportLook, ReportApply, ReportForget, ReportDrop, reportFrame, paneVars
  <2> QED BY <1>4, <2>1, ReportHolds
<1>5. ASSUME NEW g \in Gens, Turns(g) PROVE HeldBy(m, cur)'
  <2>1. cur' = cur BY <1>5 DEF Turns, Pop, SendPrompt, SendFails, TurnEnds, reportFrame, paneVars
  <2> QED BY <1>5, <2>1, TurnHolds
<1>6. ASSUME NEW t \in Threads, Save(t) PROVE HeldBy(m, cur)'
  <2>1. cur' = cur /\ handed' = handed BY <1>6 DEF Save, paneVars
  <2> QED BY <1>1, <1>6, <2>1, SaveHolds
<1>7. ASSUME NEW t \in Reporters, DropQueue(t), UNCHANGED <<at, rep, turn, tickVars, cur, handed>> PROVE HeldBy(m, cur)'
  BY <1>1, <1>7, DropHolds DEF tickVars
<1>8. CASE CancelPane
  <2>1. DropQueue(Canceller(cur)) /\ UNCHANGED <<at, rep, turn, tickVars, cur, handed>> BY <1>8 DEF CancelPane
  <2>2. Canceller(cur) \in Reporters BY <1>1, <2>1, ThreadsAre
  <2> QED BY <1>7, <2>1, <2>2
<1>9. ASSUME NEW t \in Reporters, NEW p, RuntimeEnds(t, p) PROVE HeldBy(m, cur)'
  BY <1>7, <1>9 DEF RuntimeEnds, reportFrame, paneVars
<1>10. ASSUME UNCHANGED <<queue, turn, drops, rep, tickVars, cur, handed>>, NEW t \in Threads \ (Reporters \cup {Tick}),
              UNCHANGED at \/ \E l : Goto(t, l)
       PROVE  HeldBy(m, cur)'
  <2>1. \A u \in Reporters \cup {Tick} : at'[u] = at[u] BY <1>10, ThreadsAre DEF Goto
  <2> QED BY <1>1, <1>10, <2>1 DEF HeldBy, tickVars
<1>11. CASE SendRouted \/ SendPut \/ (\E n \in Messages : ReadMail(n)) \/ DropInbox \/ Switch
  <2>1. UNCHANGED <<queue, turn, drops, rep, tickVars, cur, handed>>
    BY <1>11 DEF SendRouted, SendPut, ReadMail, DropInbox, Switch, ownerFrame, runVars, paneVars
  <2>2. \E t \in {Sender, Reader, Owner} : UNCHANGED at \/ \E l : Goto(t, l)
    BY <1>11 DEF SendRouted, SendPut, ReadMail, DropInbox, Switch, Call, ownerFrame
  <2> QED BY <1>10, <2>1, <2>2, ThreadsAre
<1>12. CASE Retire \/ BecomeTerminal \/ RemovePane \/ Crash
  BY <1>12 DEF Retire, BecomeTerminal, RemovePane, Crash
<1>13. ASSUME NEW g \in Gens, Start(g) PROVE HeldBy(m, cur)'
  <2>1. cur' = g /\ handed' = handed /\ phase[g] = "none" BY <1>13 DEF Start, ownerFrame
  <2> QED BY <2>1 DEF GensInv
<1> QED BY <1>3, <1>4, <1>5, <1>6, <1>8, <1>9, <1>11, <1>12, <1>13 DEF Next

-----------------------------------------------------------------------------
(* The theorems about types and what is handed.                                *)

\* At the start nothing is sent, held or handed.
LEMMA InitHeld == Init => TypeOK /\ HeldInv
<1> SUFFICES ASSUME Init PROVE TypeOK /\ HeldInv
  OBVIOUS
<1>1. at = AllHome BY DEF Init
<1>2. \A t \in Threads : at[t] = Home(t) /\ at[t] \in LabelsFor(t) /\ at[t] \in Labels
  BY <1>1, LabelsAre DEF AllHome
<1>3. at \in [Threads -> Labels] BY <1>1, <1>2 DEF AllHome
<1>4. at[Tick] = "idle" /\ at[Sender] = "idle" BY <1>2, ThreadsAre, LabelsAre
<1>5. StoreType
  <2>1. EmptyBox \in TypeOfBox BY EmptyIsGood DEF GoodBox
  <2>2. Held(EmptyBox) = {} BY EmptyIsGood, NoMessageIs, HeldIsFinite
  <2>3. Cardinality(Held(EmptyBox)) <= MaxInbox BY <2>2, FS_EmptySet, BoundsAreNat
  <2>4. 1 \in 1..(MaxMessages + 1) /\ 1 \in 1..1 /\ 0 \in 0..(MaxAttempts + 1) BY BoundsAreNat
  <2> QED BY <2>1, <2>3, <2>4 DEF Init, StoreType
<1>6. TickType BY DEF Init, TickType, NoneHanded
<1>7. RunType
  <2>1. NoReport \in Report BY DEF NoReport, Report
  <2>2. <<>> \in Seq(Messages) /\ Len(<<>>) <= MaxQueue BY MoreBounds
  <2>3. rep \in [Reporters -> Report] BY <2>1 DEF Init, NoReports
  <2>4. queue \in [Gens -> Seq(Messages)] /\ \A g \in Gens : Len(queue[g]) <= MaxQueue
    BY <2>2 DEF Init, EmptyQueues
  <2>5. drops \in [Reporters -> SUBSET Messages] BY DEF Init, NoDrops
  <2>6. phase \in [Gens -> Phases] BY DEF Init, Phases
  <2>7. turn \in [Gens -> Messages \cup {NoMail}] BY DEF Init, NoTurns
  <2> QED BY <2>3, <2>4, <2>5, <2>6, <2>7, RunTypeIs
<1>8. PaneType BY MoreBounds DEF Init, PaneType
<1>9. LabelInv BY <1>2, <1>4 DEF LabelInv
<1>10. TodoInv /\ GensInv /\ HandedInv BY <1>4 DEF Init, TodoInv, GensInv, HandedInv, NoneHanded
<1>11. BeganInv /\ TurnInv BY DEF Init, BeganInv, TurnInv, NoReports, NoReport, NoTurns
<1> QED BY <1>3, <1>5, <1>6, <1>7, <1>8, <1>9, <1>10, <1>11 DEF TypeOK, HeldInv

\* Every step keeps the types, and what is down as handed in the hands it is in.
LEMMA NextHeld ==
    ASSUME StoreInv, StoreInv', TypeOK, HeldInv, [Next]_vars
    PROVE  TypeOK' /\ HeldInv'
<1>1. CASE Next
  <2>1. at' \in [Threads -> Labels] /\ LabelInv'
    <3>1. next \in Nat \ {0} BY DEF StoreInv, Numbers
    <3> QED BY <1>1, <3>1, LabelSteps DEF TypeOK, HeldInv
  <2>2. TickType' /\ TodoInv' BY <1>1, TickTypes DEF TypeOK, HeldInv
  <2>3. RunType' /\ BeganInv' BY <1>1, RunTypes DEF TypeOK, HeldInv
  <2>4. PaneType' BY <1>1, PaneTypes DEF TypeOK
  <2>5. StoreType' BY <1>1, StoreTypes DEF TypeOK, HeldInv
  <2>6. GensInv' BY <1>1, GensSteps DEF TypeOK, HeldInv
  <2>7. TurnInv' BY <1>1, TurnSteps DEF TypeOK, HeldInv
  <2>8. HandedInv' BY <1>1, HandedSteps DEF TypeOK
  <2> QED BY <2>1, <2>2, <2>3, <2>4, <2>5, <2>6, <2>7, <2>8 DEF TypeOK, HeldInv
<1>2. CASE UNCHANGED vars
  <2>1. UNCHANGED <<at, box, next, disk, diskNext, accepted, prompted, handed, copy, live, todo, route, rep, drops,
                    phase, queue, turn, cur, kind, on, cancels, crashes>>
    BY <1>2 DEF vars, storeVars, diskVars, tickVars, runVars, paneVars
  <2>2. TypeOK' BY <2>1 DEF TypeOK, StoreType, TickType, RunType, PaneType
  <2>3. LabelInv' /\ TodoInv' /\ GensInv' BY <2>1 DEF HeldInv, LabelInv, TodoInv, GensInv
  <2>4. BeganInv' /\ TurnInv' BY <2>1 DEF HeldInv, BeganInv, TurnInv
  <2>5. HandedInv' BY <2>1 DEF HeldInv, HandedInv, HeldBy
  <2> QED BY <2>2, <2>3, <2>4, <2>5 DEF HeldInv
<1> QED BY <1>1, <1>2

\* Both at once, since each needs the other.
LEMMA HeldCorrect == Spec => [](TypeOK /\ HeldInv)
<1>1. Init => TypeOK /\ HeldInv BY InitHeld
<1>2. StoreInv /\ StoreInv' /\ (TypeOK /\ HeldInv) /\ [Next]_vars => (TypeOK /\ HeldInv)' BY NextHeld
<1> QED BY <1>1, <1>2, StoreCorrect, PTL DEF Spec

\* Every variable has its type, and the inbox and the queues keep to their limits.
THEOREM TypeCorrect == Spec => []TypeOK
BY HeldCorrect, PTL

\* A message that is down as handed to the pane's runtime is somewhere in it, or about to
\* be given to it or reported on: the tick never passes it over for ever.
THEOREM HandedCorrect == Spec => []HandedIsHeld
<1>1. HeldInv => HandedIsHeld
  <2> SUFFICES ASSUME HandedInv PROVE HandedIsHeld
    BY DEF HeldInv
  <2>1. ASSUME NEW m \in Messages, NEW g \in Gens, handed[m] = g, g = cur PROVE HeldBy(m, g)
    <3>1. cur # NoGen BY <2>1, MoreBounds
    <3> QED BY <2>1, <3>1 DEF HandedInv
  <2> QED BY <2>1 DEF HandedIsHeld
<1> QED BY <1>1, HeldCorrect, PTL

-----------------------------------------------------------------------------
(* Prompts are counted: what a call of the store does to a message's count.     *)

\* What is unfinished on the prompt route, queued or delivered.
LEMMA OpenIs ==
    ASSUME NEW b, NEW m \in Messages
    PROVE  /\ m \in Open(b) <=> b[m].state \in {"queued", "delivered"}
           /\ m \in Pending(b) <=> b[m].state = "queued"
           /\ m \in InFlight(b) <=> b[m].state = "delivered"
           /\ m \in Open(b) <=> m \in Pending(b) \/ m \in InFlight(b)
BY DEF Open, Pending, InFlight, In

\* A call opens no message and takes back no attempt; it may touch one message only, and
\* deliver none.
Calls(b, c) == \A n \in Messages : n \in Open(c) => n \in Open(b) /\ b[n].attempts <= c[n].attempts
Aside(b, c, m) == \A n \in Messages : n # m => c[n] = b[n]
Ends(b, c) == \A n \in Messages : n \in InFlight(c) => n \in InFlight(b)

\* A message that waits is delivered and its attempt counted; any other is left as it is.
LEMMA DeliverCounts ==
    ASSUME NEW b, GoodBox(b), NEW m \in Messages
    PROVE  /\ Calls(b, Deliver(b, m)) /\ Aside(b, Deliver(b, m), m)
           /\ b[m].state = "queued" =>
                Deliver(b, m)[m] = [state |-> "delivered", attempts |-> b[m].attempts + 1] /\ Deliver(b, m) # b
           /\ b[m].state # "queued" => Deliver(b, m) = b
<1>1. b \in [Messages -> Message] BY GoodBoxIs
<1>2. CASE b[m].state # "queued"
  <2>1. \A n \in Messages : b[n].attempts \in Nat BY <1>1, BoundsAreNat DEF Message
  <2> QED BY <1>2, <2>1, OpenIs DEF Deliver, Calls, Aside
<1>3. CASE b[m].state = "queued"
  <2> DEFINE y == [state |-> "delivered", attempts |-> b[m].attempts + 1]
  <2>1. Deliver(b, m) = [b EXCEPT ![m] = y] BY <1>3 DEF Deliver
  <2>2. \A n \in Messages : b[n].attempts \in Nat BY <1>1, BoundsAreNat DEF Message
  <2>3. Deliver(b, m)[m] = y /\ \A n \in Messages : n # m => Deliver(b, m)[n] = b[n] BY <1>1, <2>1
  <2>4. Calls(b, Deliver(b, m))
    <3> SUFFICES ASSUME NEW n \in Messages, n \in Open(Deliver(b, m))
                 PROVE  n \in Open(b) /\ b[n].attempts <= Deliver(b, m)[n].attempts
      BY DEF Calls
    <3>1. CASE n = m BY <1>3, <2>2, <2>3, <3>1, OpenIs
    <3>2. CASE n # m
      <4>1. Deliver(b, m)[n] = b[n] BY <2>3, <3>2
      <4> QED BY <2>2, <4>1, OpenIs
    <3> QED BY <3>1, <3>2
  <2>5. Deliver(b, m)[m] # b[m] BY <1>3, <2>3
  <2> QED BY <1>3, <2>3, <2>4, <2>5 DEF Aside
<1> QED BY <1>2, <1>3

\* Retried keeps the attempts, and makes the message wait or gives it up.
LEMMA EndCounts ==
    ASSUME NEW b, GoodBox(b), NEW m \in Messages, NEW handled \in BOOLEAN
    PROVE  /\ Calls(b, End(b, m, handled)) /\ Aside(b, End(b, m, handled), m) /\ Ends(b, End(b, m, handled))
           /\ m \notin InFlight(End(b, m, handled))
           /\ End(b, m, handled) = b => m \notin InFlight(b)
<1>1. b \in [Messages -> Message] BY GoodBoxIs
<1>2. \A n \in Messages : b[n].attempts \in Nat BY <1>1, BoundsAreNat DEF Message
<1>3. CASE b[m].state # "delivered"
  BY <1>2, <1>3, OpenIs DEF End, Calls, Aside, Ends
<1>4. CASE b[m].state = "delivered"
  <2> DEFINE y == IF handled THEN [b[m] EXCEPT !.state = "handled"] ELSE Retried(b[m])
             c == End(b, m, handled)
  <2>1. c = [b EXCEPT ![m] = y] BY <1>4 DEF End
  <2>2. y.state \in {"handled", "queued", "undeliverable"} /\ y.attempts = b[m].attempts
    <3>1. b[m] \in Message BY <1>1
    <3>2. CASE handled BY <3>1, <3>2 DEF Message
    <3>3. CASE ~handled BY <1>4, <3>1, <3>3, RetriedIsGood
    <3> QED BY <3>2, <3>3
  <2>3. c[m] = y /\ \A n \in Messages : n # m => c[n] = b[n] BY <1>1, <2>1
  <2> HIDE DEF c, y
  <2>4. Calls(b, c)
    <3> SUFFICES ASSUME NEW n \in Messages, n \in Open(c) PROVE n \in Open(b) /\ b[n].attempts <= c[n].attempts
      BY DEF Calls
    <3>1. CASE n = m BY <1>2, <1>4, <2>2, <2>3, <3>1, OpenIs
    <3>2. CASE n # m
      <4>1. c[n] = b[n] BY <2>3, <3>2
      <4> QED BY <1>2, <4>1, OpenIs
    <3> QED BY <3>1, <3>2
  <2>5. m \notin InFlight(c) BY <2>2, <2>3, OpenIs
  <2>6. Ends(b, c) BY <2>3, <2>5, OpenIs DEF Ends
  <2>7. c # b BY <1>4, <2>5, OpenIs
  <2> QED BY <2>3, <2>4, <2>5, <2>6, <2>7 DEF Aside, c
<1> QED BY <1>3, <1>4

\* A refusal is counted.
LEMMA FailCounts ==
    ASSUME NEW b, GoodBox(b), NEW m \in Messages
    PROVE  Calls(b, Fail(b, m)) /\ Aside(b, Fail(b, m), m) /\ Ends(b, Fail(b, m))
<1>1. b \in [Messages -> Message] BY GoodBoxIs
<1>2. \A n \in Messages : b[n].attempts \in Nat BY <1>1, BoundsAreNat DEF Message
<1>3. CASE b[m].state # "queued"
  BY <1>2, <1>3, OpenIs DEF Fail, Calls, Aside, Ends
<1>4. CASE b[m].state = "queued"
  <2> DEFINE x == Tried(b[m])
             y == Retried(x)
             c == Fail(b, m)
  <2>1. c = [b EXCEPT ![m] = y] BY <1>4 DEF Fail
  <2>2. y.state \in {"queued", "undeliverable"} /\ y.attempts = b[m].attempts + 1
    <3>1. b[m] \in Message /\ TurnsLeft(b[m]) BY GoodBoxIs
    <3>2. x = [state |-> "queued", attempts |-> b[m].attempts + 1] BY <1>4, <3>1 DEF Message, Tried
    <3>3. b[m].attempts \in 0..MaxAttempts /\ b[m].attempts < MaxAttempts BY <1>4, <3>1 DEF Message, TurnsLeft
    <3>4. x \in Message /\ x.state = "queued" BY <3>2, <3>3, BoundsAreNat DEF Message, PromptStates
    <3> QED BY <3>2, <3>4, RetriedIsGood
  <2>3. c[m] = y /\ \A n \in Messages : n # m => c[n] = b[n] BY <1>1, <2>1
  <2> HIDE DEF c, x, y
  <2>4. Calls(b, c)
    <3> SUFFICES ASSUME NEW n \in Messages, n \in Open(c) PROVE n \in Open(b) /\ b[n].attempts <= c[n].attempts
      BY DEF Calls
    <3>1. CASE n = m BY <1>2, <1>4, <2>2, <2>3, <3>1, OpenIs
    <3>2. CASE n # m
      <4>1. c[n] = b[n] BY <2>3, <3>2
      <4> QED BY <1>2, <4>1, OpenIs
    <3> QED BY <3>1, <3>2
  <2>5. Ends(b, c)
    <3>1. m \notin InFlight(c) BY <2>2, <2>3, OpenIs
    <3> QED BY <2>3, <3>1, OpenIs DEF Ends
  <2> QED BY <2>3, <2>4, <2>5 DEF Aside, c
<1> QED BY <1>3, <1>4

\* Reading and rerouting leave nothing open that they touch, and a restart what there was.
LEMMA OthersCount ==
    ASSUME NEW b, GoodBox(b), NEW m \in Messages
    PROVE  Calls(b, Read(b, m)) /\ Calls(b, Reroute(b)) /\ Calls(b, Restored(b)) /\ Calls(b, b)
<1>1. b \in [Messages -> Message] BY GoodBoxIs
<1>2. \A n \in Messages : b[n].attempts \in Nat BY <1>1, BoundsAreNat DEF Message
<1>3. Calls(b, b) BY <1>2 DEF Calls
<1>4. Calls(b, Read(b, m))
  <2>1. CASE b[m].state # "unread" BY <1>3, <2>1 DEF Read
  <2>2. CASE b[m].state = "unread"
    <3>1. Read(b, m) = [b EXCEPT ![m].state = "read"] BY <2>2 DEF Read
    <3>2. Read(b, m)[m].state = "read" /\ \A n \in Messages : n # m => Read(b, m)[n] = b[n]
      <4>1. b[m] \in Message BY <1>1
      <4> QED BY <1>1, <3>1, <4>1 DEF Message
    <3> QED BY <1>2, <3>2, OpenIs DEF Calls
  <2> QED BY <2>1, <2>2
<1>5. Calls(b, Reroute(b))
  <2>1. \A n \in Messages : Reroute(b)[n] = IF n \in Open(b) THEN [state |-> "unread", attempts |-> 0] ELSE b[n]
    BY DEF Reroute
  <2>2. \A n \in Messages : n \notin Open(Reroute(b)) BY <2>1, OpenIs
  <2> QED BY <2>2 DEF Calls
<1>6. Calls(b, Restored(b))
  <2>1. \A n \in Messages : Restored(b)[n] = IF b[n].state = "delivered" THEN Retried(b[n]) ELSE b[n]
    BY DEF Restored
  <2>2. \A n \in Messages : b[n].state = "delivered" => Retried(b[n]).attempts = b[n].attempts
    BY <1>1, RetriedIsGood
  <2>3. \A n \in Messages : Restored(b)[n].attempts = b[n].attempts BY <2>1, <2>2
  <2>4. \A n \in Messages : n \in Open(Restored(b)) => n \in Open(b) BY <2>1, OpenIs
  <2> QED BY <1>2, <2>3, <2>4 DEF Calls
<1> QED BY <1>3, <1>4, <1>5, <1>6

-----------------------------------------------------------------------------
(* Only the pane's runtime has anything to say.                                *)

\* A goroutine that is not silent, and a live runtime, are the pane's.
LEMMA BusyIsCur ==
    ASSUME CalmInv, PaneType
    PROVE  /\ \A t \in Reporters : ~Silent(t) => t[2] = cur /\ cur \in Gens /\ cur # NoGen
           /\ \A g \in Gens : phase[g] = "live" => g = cur /\ cur # NoGen
           /\ \A t \in Reporters : at[t] \notin {"idle", "pop"} => ~Silent(t)
           /\ cur # NoGen <=> cur \in Gens
<1>1. \A t \in Reporters : t[2] \in Gens BY ThreadsAre
<1>2. \A t \in Reporters : ~Silent(t) => t[2] = cur BY <1>1 DEF CalmInv
<1>3. \A g \in Gens : g # NoGen BY MoreBounds
<1>4. \A t \in Reporters : at[t] \notin {"idle", "pop"} => ~Silent(t) BY DEF Silent, Home
<1>5. \A g \in Gens : phase[g] = "live" => g = cur BY DEF CalmInv
<1> QED BY <1>1, <1>2, <1>3, <1>4, <1>5 DEF PaneType

\* A pane that has gone stays gone, and the inbox of no other is dropped.
LEMMA GoneStays ==
    ASSUME Next, kind' # "gone", Dropping
    PROVE  kind # "gone" /\ ~RemovePane /\ ~DropInbox
<1>1. ~RemovePane BY DEF RemovePane
<1>2. kind' = kind \/ BecomeTerminal
  <2>1. CASE TickSteps
    BY <2>1 DEF TickSteps, TickStart, TickPanes, TickReroute, TickLook, TickSettle, TickInterrupt, TickForget,
        TickPending, TickOffer, TickSend, TickUnhand, TickRefused, TickFail, TickCleanup, tickFrame, paneVars
  <2>2. CASE ~TickSteps
    BY <1>1, <2>2 DEF Next, Save, SendRouted, SendPut, ReadMail, Reports, ReportLook, ReportApply, ReportForget,
        ReportDrop, Turns, Pop, SendPrompt, SendFails, TurnEnds, reportFrame, paneVars, CancelPane, RuntimeEnds, Start,
        Retire, DropInbox, Switch, Crash, ownerFrame
  <2> QED BY <2>1, <2>2
<1>3. kind # "gone" BY <1>2 DEF BecomeTerminal
<1> QED BY <1>1, <1>3 DEF DropInbox, Dropping

\* A step of one goroutine leaves the others as silent as they were.
LEMMA OthersSilent ==
    ASSUME at \in [Threads -> Labels], NEW t \in Reporters, NEW l, Goto(t, l) \/ UNCHANGED at,
           \A u \in Reporters : u # t => drops'[u] = drops[u],
           NEW u \in Reporters, u # t, Silent(u)
    PROVE  Silent(u)'
BY ThreadsAre DEF Goto, Silent

\* What one goroutine of the pane's runtime does keeps the others silent.
LEMMA CalmReports ==
    ASSUME at \in [Threads -> Labels], LabelInv, PaneType, CalmInv, NEW t \in Reporters, t[2] = cur, NEW l,
           Goto(t, l) \/ UNCHANGED at, UNCHANGED <<phase, cur, kind>>,
           \A u \in Reporters : u # t => drops'[u] = drops[u],
           \A g \in Gens : g # cur => queue'[g] = queue[g],
           phase[cur] # "live" => queue'[cur] = queue[cur]
    PROVE  CalmInv'
<1>1. at'[Tick] = at[Tick] BY ThreadsAre DEF Goto
<1>2. ASSUME NEW u \in Reporters, u[2] # cur PROVE Silent(u)'
  <2>1. Silent(u) BY <1>2, BusyIsCur
  <2>2. u # t BY <1>2
  <2> QED BY <2>1, <2>2, OthersSilent
<1>3. ASSUME NEW g \in Gens, phase[g] # "live" PROVE queue'[g] = <<>>
  BY <1>3 DEF CalmInv
<1> QED BY <1>1, <1>2, <1>3 DEF CalmInv

\* The others are silent, and an ended runtime's queue is empty, after every step.
LEMMA CalmSteps ==
    ASSUME ~LateReports, at \in [Threads -> Labels], LabelInv, TodoInv, TickType, RunType, PaneType, GensInv, Dropping,
           CalmInv, Next, kind' # "gone"
    PROVE  CalmInv'
<1>0. kind # "gone" /\ ~RemovePane /\ ~DropInbox BY GoneStays
<1>1. ASSUME UNCHANGED <<phase, cur, kind, queue, drops>>, \A t \in Reporters : at'[t] = at[t],
             at'[Tick] = "reroute" => at[Tick] = "reroute" \/ kind # "structured"
      PROVE  CalmInv'
  BY <1>1 DEF CalmInv, Silent
<1>2. CASE TickSteps
  <2>1. UNCHANGED <<phase, cur, kind, drops>>
    BY <1>2 DEF TickSteps, TickStart, TickPanes, TickReroute, TickLook, TickSettle, TickInterrupt, TickForget,
        TickPending, TickOffer, TickSend, TickUnhand, TickRefused, TickFail, TickCleanup, tickFrame, paneVars, runVars
  <2>2. at' = at \/ \E l : Goto(Tick, l)
    BY <1>2 DEF TickSteps, TickStart, TickPanes, TickReroute, TickLook, TickSettle, TickInterrupt, TickForget,
        TickPending, TickOffer, TickSend, TickUnhand, TickRefused, TickFail, TickCleanup, Call
  <2>3. \A t \in Reporters : at'[t] = at[t] BY <2>2, ThreadsAre DEF Goto
  <2>4. at'[Tick] = "reroute" => at[Tick] = "reroute" \/ kind # "structured"
    BY <1>2, TickGoes DEF TickSteps, TickStart, TickPanes, TickReroute, TickLook, TickSettle, TickInterrupt, TickForget,
        TickPending, TickOffer, TickSend, TickUnhand, TickRefused, TickFail, TickCleanup, Call
  <2>5. CASE queue' = queue BY <1>1, <2>1, <2>3, <2>4, <2>5
  <2>6. CASE queue' # queue
    <3>1. TickSend
      BY <1>2, <2>6 DEF TickSteps, TickStart, TickPanes, TickReroute, TickLook, TickSettle, TickInterrupt, TickForget,
        TickPending, TickOffer, TickUnhand, TickRefused, TickFail, TickCleanup, tickFrame, runVars
    <3>2. copy \in Gens /\ queue' = [queue EXCEPT ![copy] = Append(@, First(todo))] /\ phase[copy] = "live"
      BY <2>6, <3>1, SendRuns
    <3>3. \A g \in Gens : g # copy => queue'[g] = queue[g] BY <3>2, RunTypeIs
    <3> QED BY <2>1, <2>3, <2>4, <3>2, <3>3 DEF CalmInv, Silent
  <2> QED BY <2>5, <2>6
<1>3. ASSUME NEW t \in Threads, Save(t) PROVE CalmInv'
  <2>1. UNCHANGED <<phase, cur, kind, queue, drops>> /\ Goto(t, AfterSave(t)) /\ at[t] \in SaveLabels
    BY <1>3 DEF Save, runVars, paneVars
  <2>2. CASE t \in Reporters
    <3>1. t[2] = cur BY <2>1, <2>2, BusyIsCur DEF SaveLabels
    <3> QED BY <2>1, <2>2, <3>1, CalmReports
  <2>3. CASE t \notin Reporters
    <3>1. \A u \in Reporters : at'[u] = at[u] BY <2>1, <2>3, ThreadsAre DEF Goto
    <3>2. at'[Tick] = "reroute" => at[Tick] = "reroute"
      <4>1. AfterSave(t) # "reroute" BY DEF AfterSave, Home
      <4> QED BY <2>1, <4>1, ThreadsAre DEF Goto
    <3> QED BY <1>1, <2>1, <3>1, <3>2
  <2> QED BY <2>2, <2>3
<1>4. CASE SendRouted \/ SendPut \/ (\E m \in Messages : ReadMail(m)) \/ Switch
  <2>1. UNCHANGED <<phase, cur, kind, queue, drops>>
    BY <1>4 DEF SendRouted, SendPut, ReadMail, Switch, runVars, paneVars, ownerFrame
  <2>2. \E t \in {Sender, Reader} : UNCHANGED at \/ \E l : Goto(t, l)
    BY <1>4 DEF SendRouted, SendPut, ReadMail, Switch, Call, ownerFrame
  <2>3. \A u \in Reporters \cup {Tick} : at'[u] = at[u] BY <2>2, ThreadsAre DEF Goto
  <2> QED BY <1>1, <2>1, <2>3
<1>5. ASSUME NEW t \in Reporters, Reports(t) PROVE CalmInv'
  <2>1. UNCHANGED <<phase, cur, kind, queue>>
    BY <1>5 DEF Reports, ReportLook, ReportApply, ReportForget, ReportDrop, runVars, reportFrame, paneVars
  <2>2. \E l : Goto(t, l) BY <1>5 DEF Reports, ReportLook, ReportApply, ReportForget, ReportDrop, Call
  <2>3. ~Silent(t)
    BY <1>5 DEF Reports, ReportLook, ReportApply, ReportForget, ReportDrop, Silent, Home
  <2>4. \A u \in Reporters : u # t => drops'[u] = drops[u]
    BY <1>5, RunTypeIs DEF Reports, ReportLook, ReportApply, ReportForget, ReportDrop
  <2>5. t[2] = cur BY <2>3, BusyIsCur
  <2> QED BY <2>1, <2>2, <2>4, <2>5, CalmReports
<1>6. ASSUME NEW g \in Gens, Turns(g) PROVE CalmInv'
  <2>1. UNCHANGED <<phase, cur, kind, drops>>
    BY <1>6 DEF Turns, Pop, SendPrompt, SendFails, TurnEnds, runVars, reportFrame, paneVars
  <2>2. \E l : Goto(Loop(g), l) BY <1>6 DEF Turns, Pop, SendPrompt, SendFails, TurnEnds
  <2>3. Loop(g) \in Reporters /\ Loop(g)[2] = g BY ThreadsAre DEF Loop
  <2>4. phase[g] = "live" \/ (at[Loop(g)] \in {"prompt", "wait"} /\ queue' = queue)
    BY <1>6 DEF Turns, Pop, SendPrompt, SendFails, TurnEnds, runVars
  <2>5. g = cur BY <2>3, <2>4, BusyIsCur
  <2>6. \A h \in Gens : h # g => queue'[h] = queue[h]
    BY <1>6, RunTypeIs DEF Turns, Pop, SendPrompt, SendFails, TurnEnds, runVars
  <2> QED BY <2>1, <2>2, <2>3, <2>4, <2>5, <2>6, CalmReports
<1>7. CASE CancelPane
  <2>1. /\ cur \in Gens /\ phase[cur] = "live" /\ DropQueue(Canceller(cur)) /\ UNCHANGED <<phase, cur, kind, at>>
    BY <1>7 DEF CancelPane, PaneType
  <2>2. Canceller(cur) \in Reporters /\ Canceller(cur)[2] = cur BY <2>1, ThreadsAre DEF Canceller
  <2>3. /\ \A u \in Reporters : u # Canceller(cur) => drops'[u] = drops[u]
        /\ \A g \in Gens : g # cur => queue'[g] = queue[g]
    BY <2>1, <2>2, RunTypeIs DEF DropQueue
  <2> QED BY <2>1, <2>2, <2>3, CalmReports
<1>8. ASSUME NEW t \in Reporters, NEW p \in {"needs setup", "final"}, RuntimeEnds(t, p) PROVE CalmInv'
  <2>1. /\ phase[t[2]] = "live" /\ DropQueue(t) /\ UNCHANGED <<cur, kind, at>> /\ phase' = [phase EXCEPT ![t[2]] = p]
    BY <1>8 DEF RuntimeEnds, reportFrame, paneVars
  <2>2. t[2] = cur /\ t[2] \in Gens BY <2>1, BusyIsCur, ThreadsAre
  <2>3. /\ \A u \in Reporters : u # t => drops'[u] = drops[u]
        /\ \A g \in Gens : g # cur => queue'[g] = queue[g] /\ phase'[g] = phase[g]
        /\ queue'[cur] = <<>> /\ phase'[cur] # "live"
    BY <2>1, <2>2, RunTypeIs DEF DropQueue
  <2>4. ASSUME NEW u \in Reporters, u[2] # cur PROVE Silent(u)'
    <3>1. Silent(u) BY <2>4, BusyIsCur
    <3> QED BY <2>1, <2>2, <2>3, <2>4, <3>1 DEF Silent
  <2>5. ASSUME NEW g \in Gens, phase'[g] # "live" PROVE queue'[g] = <<>>
    BY <2>3, <2>5 DEF CalmInv
  <2> QED BY <2>1, <2>3, <2>4, <2>5 DEF CalmInv
<1>9. ASSUME NEW g \in Gens, Start(g) PROVE CalmInv'
  <2>1. /\ kind = "structured" /\ cur = NoGen /\ phase[g] = "none" /\ phase' = [phase EXCEPT ![g] = "live"] /\ cur' = g
        /\ UNCHANGED <<kind, at, drops, queue>>
    BY <1>9 DEF Start, ownerFrame
  <2>2. \A h \in Gens : h # g => phase'[h] = phase[h] BY <2>1, RunTypeIs
  <2>3. \A h \in Gens : h # NoGen BY MoreBounds
  <2>4. \A u \in Reporters : Silent(u)' BY <2>1, <2>3, BusyIsCur DEF Silent
  <2>5. phase'[g] = "live" BY <2>1, RunTypeIs
  <2> QED BY <2>1, <2>2, <2>3, <2>4, <2>5 DEF CalmInv
<1>10. CASE Retire \/ BecomeTerminal
  <2>1. /\ Closed /\ cur' = NoGen /\ UNCHANGED <<phase, at, drops, queue>> /\ kind' \in {kind, "terminal"}
    BY <1>10 DEF Retire, BecomeTerminal, ownerFrame
  <2>2. cur # NoGen => phase[cur] # "live" /\ Silent(Closer(cur)) /\ Silent(Loop(cur)) /\ Silent(Canceller(cur))
    BY <2>1 DEF Closed
  <2>3. ASSUME NEW u \in Reporters PROVE Silent(u)
    <3>1. CASE u[2] # cur BY <3>1, BusyIsCur
    <3>2. CASE u[2] = cur
      <4>1. cur # NoGen BY <3>2, ThreadsAre, MoreBounds
      <4>2. u \in {Loop(cur), Canceller(cur), Closer(cur)} BY <3>2, ThreadsAre DEF Loop, Canceller, Closer
      <4> QED BY <2>2, <4>1, <4>2
    <3> QED BY <3>1, <3>2
  <2>4. \A u \in Reporters : Silent(u)' BY <2>1, <2>3 DEF Silent
  <2>5. \A g \in Gens : phase[g] # "live" BY <2>2, BusyIsCur
  <2> QED BY <2>1, <2>4, <2>5 DEF CalmInv
<1>11. CASE Crash
  <2>1. /\ cur' = NoGen /\ at' = AllHome /\ drops' = NoDrops /\ queue' = EmptyQueues
        /\ phase' = [g \in Gens |-> IF phase[g] = "none" THEN "none" ELSE "final"]
    BY <1>11 DEF Crash
  <2>2. \A u \in Reporters : Silent(u)' BY <2>1, ThreadsAre DEF Silent, AllHome, NoDrops
  <2>3. \A g \in Gens : phase'[g] # "live" /\ queue'[g] = <<>> BY <2>1 DEF EmptyQueues
  <2>4. at'[Tick] = "idle" BY <2>1, ThreadsAre, LabelsAre DEF AllHome
  <2> QED BY <2>1, <2>2, <2>3, <2>4 DEF CalmInv
<1> QED BY <1>0, <1>2, <1>3, <1>4, <1>5, <1>6, <1>7, <1>8, <1>9, <1>10, <1>11 DEF Next

-----------------------------------------------------------------------------
(* A prompt is counted before it is sent.                                      *)

\* Every part of the invariant at once, of a pane that has not gone.
AllInv ==
    /\ StoreInv /\ TypeOK /\ HeldInv /\ kind # "gone"
    /\ CalmInv /\ OnceInv /\ OwnInv /\ LookInv /\ ReadyInv /\ CountInv

\* What of it is about types and numbers.
LEMMA TypesAre ==
    ASSUME AllInv
    PROVE  /\ at \in [Threads -> Labels] /\ LabelInv /\ TodoInv /\ BeganInv /\ TurnInv /\ GensInv /\ HandedInv
           /\ StoreType /\ TickType /\ RunType /\ PaneType /\ GoodBox(box) /\ GoodBox(disk)
           /\ next \in Nat /\ diskNext \in Nat /\ diskNext <= next
           /\ box \in [Messages -> Message] /\ disk \in [Messages -> Message]
           /\ \A m \in Messages : /\ prompted[m] \in Nat /\ box[m].attempts \in Nat /\ disk[m].attempts \in Nat
                                  /\ m \in Nat /\ (m >= next => m \notin Open(box) /\ box[m] = NoMessage)
                                  /\ (m >= diskNext => m \notin Open(disk))
<1>1. /\ StoreInv /\ TypeOK /\ HeldInv BY DEF AllInv
<1>2. /\ at \in [Threads -> Labels] /\ LabelInv /\ TodoInv /\ BeganInv /\ TurnInv /\ GensInv /\ HandedInv
      /\ StoreType /\ TickType /\ RunType /\ PaneType
  BY <1>1 DEF TypeOK, HeldInv
<1>3. GoodBox(box) /\ GoodBox(disk) BY <1>1 DEF StoreInv, Boxes, GoodBox
<1>4. box \in [Messages -> Message] /\ disk \in [Messages -> Message] BY <1>3 DEF GoodBox, TypeOfBox
<1>5. next \in Nat /\ diskNext \in Nat /\ diskNext <= next BY <1>1 DEF StoreInv, Numbers
<1>6. ASSUME NEW m \in Messages
      PROVE  /\ prompted[m] \in Nat /\ box[m].attempts \in Nat /\ disk[m].attempts \in Nat
             /\ m \in Nat /\ (m >= next => m \notin Open(box) /\ box[m] = NoMessage)
             /\ (m >= diskNext => m \notin Open(disk))
  <2>1. prompted[m] \in 0..(MaxAttempts + 1) BY <1>2 DEF StoreType
  <2>2. box[m] \in Message /\ disk[m] \in Message BY <1>4
  <2>3. (m >= next => box[m] = NoMessage) /\ (m >= diskNext => disk[m] = NoMessage)
    BY <1>1 DEF StoreInv, Numbers
  <2>4. (m >= next => m \notin Open(box)) /\ (m >= diskNext => m \notin Open(disk))
    BY <2>3, NoMessageIs, OpenIs
  <2> QED BY <2>1, <2>2, <2>3, <2>4, BoundsAreNat, MoreBounds DEF Message
<1> QED BY <1>2, <1>3, <1>4, <1>5, <1>6

\* The places, one by one, before a step and after it.
Kinds == {"loop", "cancel", "close"}
QueueIs == <<"queue", "loop">>
TurnIs == <<"turn", "loop">>
Reporting == {"look", "apply", "save report", "forget"}
\* There are no others.
LEMMA PlacesAre ==
    \A p : p \in Places <=> p \in {QueueIs, TurnIs} \/ \E k \in Kinds : p = <<"drops", k>> \/ p = <<"report", k>>
BY DEF Places, Kinds, QueueIs, TurnIs

\* What it is to be in one of them.
LEMMA PlaceIs ==
    ASSUME NEW m
    PROVE  /\ IsAt(QueueIs, m) <=> m \in ToSet(queue[cur])
           /\ IsAt(TurnIs, m) <=> turn[cur] = m
           /\ \A k : IsAt(<<"drops", k>>, m) <=> m \in drops[<<k, cur>>]
           /\ \A k : IsAt(<<"report", k>>, m) <=> ReportsOn(<<k, cur>>, m, Reporting)
           /\ IsAt(QueueIs, m)' <=> m \in ToSet(queue'[cur'])
           /\ IsAt(TurnIs, m)' <=> turn'[cur'] = m
           /\ \A k : IsAt(<<"drops", k>>, m)' <=> m \in drops'[<<k, cur'>>]
           /\ \A k : IsAt(<<"report", k>>, m)' <=>
                rep'[<<k, cur'>>].of = m /\ rep'[<<k, cur'>>].what # "began" /\ at'[<<k, cur'>>] \in Reporting
BY DEF IsAt, QueueIs, TurnIs, Reporting, ReportsOn

\* The goroutines of the pane's runtime.
LEMMA CurThreads ==
    ASSUME AllInv
    PROVE  /\ cur # NoGen <=> cur \in Gens
           /\ \A k \in Kinds : cur # NoGen => <<k, cur>> \in Reporters /\ <<k, cur>>[1] = k /\ <<k, cur>>[2] = cur
           /\ \A t \in Reporters : t[2] = cur => cur # NoGen /\ t[1] \in Kinds /\ t = <<t[1], cur>>
           /\ cur # NoGen => Loop(cur) \in Reporters /\ Loop(cur) = <<"loop", cur>>
<1>1. cur # NoGen <=> cur \in Gens BY TypesAre, BusyIsCur DEF AllInv
<1>2. \A g \in Gens : \A k \in Kinds : <<k, g>> \in Reporters BY DEF Reporters, Kinds
<1>3. \A t \in Reporters : t[1] \in Kinds /\ t[2] \in Gens /\ t = <<t[1], t[2]>> BY ThreadsAre DEF Kinds
<1> QED BY <1>1, <1>2, <1>3, ThreadsAre DEF Loop

\* A goroutine that reports that a turn began is the loop of it, and has left the report
\* behind when it forgets.
LEMMA BeganIs ==
    ASSUME AllInv, NEW t \in Reporters
    PROVE  /\ at[t] \notin {"idle", "pop"} \/ drops[t] # {} => t[2] = cur /\ cur \in Gens /\ cur # NoGen
           /\ rep[t].what = "began" => t[1] = "loop" /\ turn[t[2]] = rep[t].of /\ t = Loop(t[2])
           /\ at[t] = "forget" /\ rep[t].of \in Messages => rep[t].what # "began"
           /\ rep[t].of \in Messages \cup {NoMail}
           /\ t = Loop(cur) /\ turn[cur] # NoMail => turn[cur] \in Messages /\
                (at[t] \in {"prompt", "wait"} \/ (at[t] \in {"look", "apply", "save report"} /\ rep[t].what = "began"))
<1>1. at[t] \notin {"idle", "pop"} \/ drops[t] # {} => t[2] = cur /\ cur \in Gens /\ cur # NoGen
  <2>1. at[t] \notin {"idle", "pop"} \/ drops[t] # {} => ~Silent(t) BY DEF Silent, Home
  <2> QED BY <2>1, TypesAre, BusyIsCur DEF AllInv
<1>2. rep[t].what = "began" => t[1] = "loop" /\ turn[t[2]] = rep[t].of BY TypesAre DEF BeganInv
<1>3. t[2] \in Gens /\ (t[1] = "loop" => t = Loop(t[2])) BY ThreadsAre DEF Loop
<1>4. \A g \in Gens : turn[g] \in Messages \cup {NoMail} /\ (turn[g] # NoMail =>
            at[Loop(g)] \in {"prompt", "wait"} \/ (at[Loop(g)] \in {"look", "apply", "save report"} /\ rep[Loop(g)].what = "began"))
  BY TypesAre, RunTypeIs DEF TurnInv
<1>5. rep[t] \in Report BY TypesAre, RunTypeIs
<1>6. at[t] = "forget" /\ rep[t].of \in Messages => rep[t].what # "began"
  BY <1>2, <1>3, <1>4, MoreBounds
<1>7. t = Loop(cur) => cur = t[2] BY DEF Loop
<1> QED BY <1>1, <1>2, <1>3, <1>4, <1>5, <1>6, <1>7 DEF Report

\* What a step may leave as it was: where a message is, or that it is in one place.
Kept(m) == \A p \in Places : IsAt(p, m)' => IsAt(p, m)
Only(m, b) == \A p \in Places : IsAt(p, m)' => p = b
\* And what it may take away: nothing gets a message or a live runtime.
Shrinks ==
    /\ cur' = cur /\ (Serving' => Serving)
    /\ \A m \in Messages : (Fresh(m)' => Fresh(m)) /\ (Has(m)' => Has(m))

\* A message that stays where it is, or goes to one place, is in one place.
LEMMA OnceKeeps ==
    ASSUME AllInv, cur' = cur,
           cur # NoGen =>
              /\ \A i, j \in 1..Len(queue'[cur]) : queue'[cur][i] = queue'[cur][j] => i = j
              /\ \A m \in Messages : Kept(m) \/ \E b \in Places : Only(m, b)
    PROVE  OnceInv'
<1>1. ASSUME cur # NoGen, NEW m \in Messages, NEW p \in Places, NEW q \in Places, IsAt(p, m)', IsAt(q, m)'
      PROVE  p = q
  <2>0. Kept(m) \/ \E b \in Places : Only(m, b) BY <1>1
  <2>1. CASE Kept(m)
    <3>1. IsAt(p, m) /\ IsAt(q, m) BY <1>1, <2>1 DEF Kept
    <3> QED BY <1>1, <3>1 DEF AllInv, OnceInv
  <2>2. CASE \E b \in Places : Only(m, b) BY <1>1, <2>2 DEF Only
  <2> QED BY <2>0, <2>1, <2>2
<1> QED BY <1>1 DEF OnceInv

\* What the runtime has stays down as handed to it, while nobody forgets it.
LEMMA OwnKeeps ==
    ASSUME AllInv, Shrinks,
           \A m \in Messages : handed'[m] = handed[m] \/ (~Fresh(m)' /\ ~(Serving' /\ Has(m)')),
           \/ at'[Tick] = "idle" \/ copy' = cur
           \/ at[Tick] # "idle" /\ copy' = copy /\ \A m \in Messages : handed'[m] \in {handed[m], NoGen, copy}
    PROVE  OwnInv'
<1>1. \A m \in Messages : (Fresh(m)' \/ (Serving' /\ Has(m)')) => handed'[m] = cur'
  <2> SUFFICES ASSUME NEW m \in Messages, Fresh(m)' \/ (Serving' /\ Has(m)') PROVE handed'[m] = cur'
    OBVIOUS
  <2>1. handed'[m] = handed[m] OBVIOUS
  <2>2. Fresh(m) \/ (Serving /\ Has(m)) BY DEF Shrinks
  <2>3. handed[m] = cur BY <2>2 DEF AllInv, OwnInv
  <2> QED BY <2>1, <2>3 DEF Shrinks
<1>2. at'[Tick] # "idle" => \A m \in Messages : handed'[m] = cur' /\ cur' # NoGen => copy' = cur'
  BY DEF AllInv, OwnInv, Shrinks
<1> QED BY <1>1, <1>2 DEF OwnInv

\* What a step of the tick forgets, the runtime has not, so that it keeps what it has.
LEMMA LookKeeps ==
    ASSUME AllInv, Shrinks, UNCHANGED tickVars, at'[Tick] = at[Tick],
           \A g \in Gens : phase'[g] = "live" => phase[g] = "live",
           \/ UNCHANGED handed
           \/ \E n \in Messages : handed' = [handed EXCEPT ![n] = NoGen] /\ (Serving => Has(n))
    PROVE  LookInv'
<1> DEFINE L == {"settle", "interrupt", "save interrupt", "forget"}
           M == {"interrupt", "save interrupt", "forget"}
           S == {"send", "unhand", "refused"}
           n == First(todo)
<1>0. copy' = copy /\ live' = live /\ todo' = todo /\ cur' = cur BY DEF tickVars, Shrinks
<1>1. at[Tick] \in {"interrupt", "save interrupt", "forget", "send", "unhand", "refused", "fail"} => n \in Messages
  BY TypesAre, FirstIs DEF TodoInv, TickType
<1>2. \A m \in Messages : handed'[m] \in {handed[m], NoGen} /\ (Serving /\ ~Has(m) => handed'[m] = handed[m])
  BY TypesAre DEF TickType
<1>3. at'[Tick] \in L /\ ~live' => (copy' # NoGen => phase'[copy'] # "live") /\ \A m \in todo' : ~Fresh(m)'
  <2>1. copy \in Gens \cup {NoGen} /\ todo \subseteq Messages BY TypesAre DEF TickType
  <2> QED BY <1>0, <2>1 DEF AllInv, LookInv, Shrinks
<1>4. at'[Tick] \in M /\ live' => handed'[First(todo')] # copy'
  <2>1. live => copy # NoGen BY TypesAre DEF GensInv
  <2>2. at[Tick] \in M /\ live => handed[n] # copy BY DEF AllInv, LookInv
  <2> QED BY <1>0, <1>1, <1>2, <2>1, <2>2
<1>5. at'[Tick] \in S => (~Fresh(First(todo)) /\ (Serving => ~Has(First(todo))))'
  <2>1. at[Tick] \in S => ~Fresh(n) /\ (Serving => ~Has(n)) BY DEF AllInv, LookInv
  <2>2. First(todo') = n BY <1>0
  <2> QED BY <1>1, <2>1, <2>2 DEF Shrinks
<1>6. at'[Tick] = "send" /\ Serving' /\ copy' = cur' => handed'[First(todo')] = cur'
  <2>1. at[Tick] = "send" /\ Serving => ~Has(n) /\ (copy = cur => handed[n] = cur) BY DEF AllInv, LookInv
  <2> QED BY <1>0, <1>1, <1>2, <2>1 DEF Shrinks
<1>7. at'[Tick] = "fail" => handed'[First(todo')] = NoGen
  BY <1>0, <1>1, <1>2 DEF AllInv, LookInv
<1> QED BY <1>3, <1>4, <1>5, <1>6, <1>7 DEF LookInv

\* What is asked of a message where it is.
Waits(p, m) ==
    IF p[1] = "report" /\ at[<<p[2], cur>>] \in {"save report", "forget"}
    THEN m < next /\ (at[<<p[2], cur>>] = "forget" => Ready(m))
    ELSE m \in Open(box) \/ Settled(m)
Offering == {"offer", "send", "unhand", "refused", "fail", "save fail"}

\* The part of the invariant about what waits, in these words.
LEMMA ReadyIs ==
    ReadyInv <=>
        /\ \A m \in Messages : Fresh(m) => Ready(m)
        /\ Serving => \A m \in Messages, p \in Places : IsAt(p, m) => Waits(p, m)
        /\ Serving /\ at[Tick] \in Offering /\ copy = cur => \A m \in todo : Ready(m) \/ Has(m)
        /\ cur # NoGen => \A t \in Reporters, m \in Messages :
            t[2] = cur /\ ReportsOn(t, m, {"save report"}) => m \notin InFlight(box)
BY DEF ReadyInv, Waits, Offering

\* A step of the store that makes no queued message anything else, settles what it takes
\* away and delivers none.
Gentle ==
    /\ next' >= next /\ next' \in Nat
    /\ \A m \in Messages : (Ready(m) => Ready(m)') /\ (m \in Open(box) \/ Settled(m) => (m \in Open(box) \/ Settled(m))')
                           /\ (m \in InFlight(box') => m \in InFlight(box))

\* Such are a step that leaves the store alone, and a save.
LEMMA SaveIsGentle ==
    ASSUME AllInv, UNCHANGED <<box, next>>, disk' \in {box, disk}
    PROVE  Gentle
<1>1. next' >= next /\ next' \in Nat BY TypesAre
<1>2. ASSUME NEW m \in Messages, Settled(m) PROVE Settled(m)' BY <1>2 DEF Settled
<1>3. ASSUME NEW m \in Messages, m \in Pending(box) PROVE m \in Pending(box') BY <1>3
<1> QED BY <1>1, <1>2, <1>3 DEF Gentle, Ready

\* After such a step, what waits is asked what it was where it stays.
LEMMA WaitsOn ==
    ASSUME AllInv, Gentle, cur' = cur, Serving, NEW m \in Messages, NEW p \in Places, IsAt(p, m),
           at'[<<p[2], cur>>] = at[<<p[2], cur>>] \/ (p[1] = "report" =>
             {at[<<p[2], cur>>], at'[<<p[2], cur>>]} \cap {"save report", "forget"} = {})
    PROVE  Waits(p, m)'
<1>1. Waits(p, m) BY ReadyIs DEF AllInv
<1>2. m \in Nat /\ next \in Nat BY TypesAre
<1>3. CASE p[1] = "report" /\ at[<<p[2], cur>>] \in {"save report", "forget"}
  <2>1. at'[<<p[2], cur'>>] = at[<<p[2], cur>>] BY <1>3
  <2>2. m < next /\ (at[<<p[2], cur>>] = "forget" => Ready(m)) BY <1>1, <1>3 DEF Waits
  <2>3. m < next' BY <1>2, <2>2 DEF Gentle
  <2>4. (Ready(m) => Ready(m)') BY DEF Gentle
  <2> QED BY <1>3, <2>1, <2>2, <2>3, <2>4 DEF Waits
<1>4. CASE ~(p[1] = "report" /\ at[<<p[2], cur>>] \in {"save report", "forget"})
  <2>1. ~(p[1] = "report" /\ at'[<<p[2], cur'>>] \in {"save report", "forget"}) BY <1>4
  <2>2. (m \in Open(box) \/ Settled(m))' BY <1>1, <1>4 DEF Waits, Gentle
  <2> QED BY <2>1, <2>2 DEF Waits
<1> QED BY <1>3, <1>4

\* The tick goes on as it was, or offers what waits, and forgets no message.
TickWaits ==
    at'[Tick] \in Offering /\ copy' = cur =>
        /\ at[Tick] \in Offering /\ copy = cur /\ todo' \subseteq todo
        /\ \A m \in todo : Has(m) => Ready(m)' \/ Has(m)'

\* A gentle step keeps what waits waiting.
LEMMA ReadyKeeps ==
    ASSUME AllInv, Shrinks, Gentle, TickWaits, todo' \subseteq Messages,
           Serving' => \A m \in Messages, p \in Places : IsAt(p, m)' => Waits(p, m)',
           \A t \in Reporters, m \in Messages :
                t[2] = cur /\ ReportsOn(t, m, {"save report"})' => ReportsOn(t, m, {"save report"})
    PROVE  ReadyInv'
<1>1. \A m \in Messages : Fresh(m)' => Ready(m)' BY ReadyIs DEF AllInv, Shrinks, Gentle
<1>2. Serving' /\ at'[Tick] \in Offering /\ copy' = cur' => \A m \in todo' : Ready(m)' \/ Has(m)'
  <2> SUFFICES ASSUME Serving', at'[Tick] \in Offering, copy' = cur', NEW m \in todo' PROVE Ready(m)' \/ Has(m)'
    OBVIOUS
  <2>1. m \in todo /\ m \in Messages /\ at[Tick] \in Offering /\ copy = cur /\ (Has(m) => Ready(m)' \/ Has(m)')
    BY DEF TickWaits, Shrinks
  <2>2. Ready(m) \/ Has(m) BY <2>1, ReadyIs DEF AllInv, Shrinks
  <2> QED BY <2>1, <2>2 DEF Gentle
<1>3. cur' # NoGen => \A t \in Reporters, m \in Messages :
            t[2] = cur' /\ ReportsOn(t, m, {"save report"})' => m \notin InFlight(box')
  BY ReadyIs DEF AllInv, Shrinks, Gentle
<1> QED BY <1>1, <1>2, <1>3, ReadyIs DEF ReadyInv, Waits, Offering

\* What counts a turn, keeps it counted.
LEMMA CountedOn ==
    ASSUME NEW m \in Messages, NEW b, NEW c, NEW more \in Nat, b[m].attempts \in Nat, c[m].attempts \in Nat,
           prompted[m] \in Nat, prompted' = prompted, Counted(b, m, more),
           m \in Open(c) => m \in Open(b) /\ b[m].attempts <= c[m].attempts
    PROVE  m \in Open(c) => prompted'[m] + more <= c[m].attempts
BY DEF Counted

\* What a step does to the counts of what is waiting already, and of what the disk has.
Counts ==
    /\ cur' = cur /\ prompted' = prompted /\ next' \in Nat /\ next' >= next
    /\ box' \in [Messages -> Message] /\ disk' \in {disk, box}
    /\ \A m \in Messages : m < next /\ m \in Open(box') => m \in Open(box) /\ box[m].attempts <= box'[m].attempts

\* The turns that are counted stay so, on the disk too.
LEMMA CountStays ==
    ASSUME AllInv, Counts, NEW m \in Messages, NEW more \in {0, 1}, Counted(box, m, more),
           m < next \/ prompted[m] + more = 0
    PROVE  Counted(box, m, more)' /\ (Counted(disk, m, more) => Counted(disk, m, more)')
<1>1. box'[m].attempts \in Nat /\ prompted[m] \in Nat
  <2>1. box'[m] \in Message BY DEF Counts
  <2> QED BY <2>1, TypesAre, BoundsAreNat DEF Message
<1>2. CASE m < next
  <2>1. m \in Open(box') => m \in Open(box) /\ box[m].attempts <= box'[m].attempts BY <1>2 DEF Counts
  <2>2. box[m].attempts \in Nat /\ more \in Nat BY TypesAre
  <2>3. m \in Open(box') => prompted'[m] + more <= box'[m].attempts BY <1>1, <2>1, <2>2, CountedOn DEF Counts
  <2> QED BY <2>3 DEF Counted, Counts
<1>3. CASE prompted[m] + more = 0
  <2>1. disk'[m].attempts \in Nat /\ box'[m].attempts \in Nat BY <1>1, TypesAre DEF Counts
  <2>2. prompted'[m] + more = 0 BY <1>3 DEF Counts
  <2>3. prompted'[m] + more <= disk'[m].attempts /\ prompted'[m] + more <= box'[m].attempts BY <2>1, <2>2
  <2> QED BY <2>3 DEF Counted
<1> QED BY <1>2, <1>3

\* Every prompt that was sent stays counted.
LEMMA CountsAll ==
    ASSUME AllInv, Counts
    PROVE  \A m \in Messages : Counted(box, m, 0)' /\ Counted(disk, m, 0)' /\ (m >= next' => prompted'[m] = 0)
<1> SUFFICES ASSUME NEW m \in Messages
             PROVE  Counted(box, m, 0)' /\ Counted(disk, m, 0)' /\ (m >= next' => prompted'[m] = 0)
  OBVIOUS
<1>1. Counted(box, m, 0) /\ Counted(disk, m, 0) /\ (m >= next => prompted[m] = 0) BY DEF AllInv, CountInv
<1>2. m \in Nat /\ next \in Nat /\ prompted[m] \in Nat BY TypesAre
<1>3. m < next \/ prompted[m] + 0 = 0 BY <1>1, <1>2
<1>4. m >= next' => m >= next BY <1>2 DEF Counts
<1> QED BY <1>1, <1>3, <1>4, CountStays DEF Counts

\* What a step does to the turn: it is the same, or a message there is; and its prompt is sent
\* only after the save.
TurnGoes ==
    cur # NoGen /\ turn'[cur] # NoMail =>
        /\ turn'[cur] \in Messages /\ (turn'[cur] = turn[cur] \/ turn'[cur] < next)
        /\ at'[Loop(cur)] \in {"prompt", "save report"} =>
             /\ turn'[cur] = turn[cur]
             /\ at'[Loop(cur)] = at[Loop(cur)] \/ (at[Loop(cur)] = "save report" /\ disk' = box)

\* So does the one that a turn is about to send.
LEMMA CountKeeps ==
    ASSUME AllInv, Counts, TurnGoes
    PROVE  CountInv'
<1>1. ASSUME cur # NoGen, turn'[cur] # NoMail
      PROVE  /\ turn'[cur] < next'
             /\ at'[Loop(cur)] = "prompt" => Counted(box, turn[cur], 1)' /\ Counted(disk, turn[cur], 1)'
             /\ at'[Loop(cur)] = "save report" => Counted(box, turn[cur], 1)'
  <2>0. PICK x \in Messages : x = turn'[cur] BY <1>1 DEF TurnGoes
  <2>1. x \in Nat /\ next \in Nat /\ next' \in Nat /\ next' >= next BY TypesAre DEF Counts
  <2>2. x < next
    <3>1. turn[cur] # NoMail /\ x = turn[cur] => x < next BY <1>1 DEF AllInv, CountInv
    <3> QED BY <1>1, <2>0, <3>1 DEF TurnGoes
  <2>3. x < next' BY <2>1, <2>2
  <2>4. ASSUME x = turn[cur]
        PROVE  /\ at[Loop(cur)] = "prompt" => Counted(box, x, 1) /\ Counted(disk, x, 1)
               /\ at[Loop(cur)] = "save report" => Counted(box, x, 1)
    BY <1>1, <2>0, <2>4 DEF AllInv, CountInv
  <2>5. turn'[cur'] = x /\ cur' = cur BY <2>0 DEF Counts
  <2>6. Counted(box, x, 1) => Counted(box, x, 1)' /\ (Counted(disk, x, 1) => Counted(disk, x, 1)')
    BY <2>1, <2>2, CountStays
  <2>7. CASE at'[Loop(cur)] \in {"prompt", "save report"}
    <3>1. x = turn[cur] /\ (at'[Loop(cur)] = at[Loop(cur)] \/ (at[Loop(cur)] = "save report" /\ disk' = box))
      BY <1>1, <2>0, <2>7 DEF TurnGoes
    <3>2. CASE at'[Loop(cur)] = at[Loop(cur)]
      <4>1. at'[Loop(cur)] = "prompt" => Counted(box, x, 1)' /\ Counted(disk, x, 1)' BY <2>4, <2>6, <3>1, <3>2
      <4>2. at'[Loop(cur)] = "save report" => Counted(box, x, 1)' BY <2>4, <2>6, <3>1, <3>2
      <4> QED BY <2>0, <2>3, <2>5, <4>1, <4>2
    <3>3. CASE at[Loop(cur)] = "save report" /\ disk' = box
      <4>1. Counted(box, x, 1) BY <2>4, <3>1, <3>3
      <4>2. Counted(box, x, 1)' BY <2>6, <4>1
      <4>3. Counted(disk, x, 1)' BY <3>3, <4>1 DEF Counted, Counts
      <4> QED BY <2>0, <2>3, <2>5, <4>2, <4>3
    <3> QED BY <3>1, <3>2, <3>3
  <2> QED BY <2>0, <2>3, <2>7
<1> QED BY <1>1, CountsAll DEF CountInv, Counts

\* A step that leaves the runtimes alone.
Still ==
    /\ UNCHANGED <<cur, queue, turn, phase, drops, rep>>
    /\ \A t \in Reporters : at'[t] = at[t]

\* What is somewhere stays there.
LEMMA StillIs ==
    ASSUME AllInv, Still
    PROVE  /\ Shrinks /\ (Serving' <=> Serving)
           /\ \A m \in Messages : (Fresh(m)' <=> Fresh(m)) /\ (Has(m)' <=> Has(m))
           /\ cur # NoGen => \A m \in Messages, p \in Places : IsAt(p, m)' <=> IsAt(p, m)
           /\ \A t \in Reporters, m \in Messages :
                ReportsOn(t, m, {"save report"})' <=> ReportsOn(t, m, {"save report"})
<1>1. cur' = cur /\ (Serving' <=> Serving) BY DEF Still, Serving
<1>2. ASSUME cur # NoGen, NEW m \in Messages, NEW p \in Places PROVE IsAt(p, m)' <=> IsAt(p, m)
  <2>1. \A k \in Kinds : at'[<<k, cur'>>] = at[<<k, cur>>] /\ rep'[<<k, cur'>>] = rep[<<k, cur>>]
    BY <1>1, <1>2, CurThreads DEF Still
  <2>2. CASE p \in {QueueIs, TurnIs} BY <2>2, PlaceIs DEF Still
  <2>3. ASSUME NEW k \in Kinds, p = <<"drops", k>> PROVE IsAt(p, m)' <=> IsAt(p, m)
    BY <2>3, PlaceIs DEF Still
  <2>4. ASSUME NEW k \in Kinds, p = <<"report", k>> PROVE IsAt(p, m)' <=> IsAt(p, m)
    <3>1. at'[<<k, cur'>>] = at[<<k, cur>>] /\ rep'[<<k, cur'>>] = rep[<<k, cur>>] BY <2>1
    <3>2. IsAt(<<"report", k>>, m) <=>
             rep[<<k, cur>>].of = m /\ rep[<<k, cur>>].what # "began" /\ at[<<k, cur>>] \in Reporting
      BY PlaceIs DEF ReportsOn
    <3>3. IsAt(<<"report", k>>, m)' <=>
             rep'[<<k, cur'>>].of = m /\ rep'[<<k, cur'>>].what # "began" /\ at'[<<k, cur'>>] \in Reporting
      BY PlaceIs
    <3>4. IsAt(<<"report", k>>, m)' <=> IsAt(<<"report", k>>, m) BY <3>1, <3>2, <3>3
    <3> QED BY <2>4, <3>4
  <2> QED BY <2>2, <2>3, <2>4, PlacesAre
<1>3. ASSUME NEW m \in Messages PROVE Has(m)' <=> Has(m) BY <1>1, <1>2 DEF Has
<1>4. ASSUME NEW m \in Messages PROVE Fresh(m)' <=> Fresh(m)
  <2>1. CASE cur = NoGen BY <1>1, <2>1 DEF Fresh
  <2>2. CASE cur # NoGen
    <3>1. at'[Loop(cur')] = at[Loop(cur)] /\ rep'[Loop(cur')] = rep[Loop(cur)] BY <1>1, <2>2, CurThreads DEF Still
    <3> QED BY <1>1, <3>1 DEF Fresh, Begins, Still
  <2> QED BY <2>1, <2>2
<1>5. \A t \in Reporters, m \in Messages : ReportsOn(t, m, {"save report"})' <=> ReportsOn(t, m, {"save report"})
  BY DEF Still, ReportsOn
<1> QED BY <1>1, <1>2, <1>3, <1>4, <1>5 DEF Shrinks

\* So that it is in one place still.
LEMMA StillOnce ==
    ASSUME AllInv, Still
    PROVE  OnceInv'
<1>1. cur' = cur /\ queue' = queue BY DEF Still
<1>2. cur # NoGen => \A i, j \in 1..Len(queue'[cur]) : queue'[cur][i] = queue'[cur][j] => i = j
  BY <1>1 DEF AllInv, OnceInv
<1>3. cur # NoGen => \A m \in Messages : Kept(m) BY StillIs DEF Kept
<1> QED BY <1>1, <1>2, <1>3, OnceKeeps

\* Its turn goes on as it did.
LEMMA StillTurns ==
    ASSUME AllInv, Still
    PROVE  TurnGoes
<1> SUFFICES ASSUME cur # NoGen, turn[cur] # NoMail
             PROVE turn[cur] \in Messages /\ at'[Loop(cur)] = at[Loop(cur)]
  BY DEF TurnGoes, Still
<1>1. cur \in Gens /\ Loop(cur) \in Reporters BY CurThreads
<1>2. turn[cur] \in Messages BY <1>1, TypesAre, RunTypeIs
<1> QED BY <1>1, <1>2 DEF Still

\* And what waits there waits, after a gentle step of the store.
LEMMA StillReady ==
    ASSUME AllInv, Still, Gentle, TickWaits, todo' \subseteq Messages
    PROVE  ReadyInv'
<1>1. ASSUME Serving', NEW m \in Messages, NEW p \in Places, IsAt(p, m)' PROVE Waits(p, m)'
  <2>1. Serving /\ cur # NoGen /\ cur' = cur BY <1>1, StillIs DEF Serving, Still
  <2>2. IsAt(p, m) BY <1>1, <2>1, StillIs
  <2>3. <<p[2], cur>> \in Reporters BY <2>1, PlacesAre, CurThreads DEF QueueIs, TurnIs, Kinds
  <2> QED BY <2>1, <2>2, <2>3, WaitsOn DEF Still
<1>2. \A t \in Reporters, m \in Messages :
                t[2] = cur /\ ReportsOn(t, m, {"save report"})' => ReportsOn(t, m, {"save report"})
  BY StillIs
<1> QED BY <1>1, <1>2, StillIs, ReadyKeeps

\* A pane that has no runtime has no more to ask.
LEMMA NoRuntime ==
    ASSUME cur' = NoGen
    PROVE  /\ OnceInv' /\ OwnInv' /\ ReadyInv' /\ ~Serving'
           /\ \A m \in Messages : ~Fresh(m)' /\ ~Has(m)'
<1>1. ~Serving' /\ \A m \in Messages : ~Fresh(m)' /\ ~Has(m)' BY DEF Serving, Fresh, Has
<1> QED BY <1>1 DEF OnceInv, OwnInv, ReadyInv

\* Another goroutine's step leaves the tick what it was.
LEMMA StillOwn ==
    ASSUME AllInv, Shrinks, \A m \in Messages : Has(m) => Has(m)', UNCHANGED <<handed, tickVars>>, at'[Tick] = at[Tick],
           \A g \in Gens : phase'[g] = "live" => phase[g] = "live"
    PROVE  OwnInv' /\ LookInv' /\ TickWaits /\ todo' \subseteq Messages
<1>1. OwnInv'
  <2>1. \A m \in Messages : handed'[m] = handed[m] OBVIOUS
  <2>2. at'[Tick] = "idle" \/ (at[Tick] # "idle" /\ copy' = copy /\ \A m \in Messages : handed'[m] \in {handed[m], NoGen, copy})
    BY DEF tickVars
  <2> QED BY <2>1, <2>2, OwnKeeps
<1>2. LookInv' BY LookKeeps
<1>3. TickWaits BY TypesAre DEF TickWaits, tickVars, Shrinks, TickType
<1> QED BY <1>1, <1>2, <1>3, TypesAre DEF tickVars, TickType

\* What the pane's runtime has, the tick has down as handed to its own copy of it.
LEMMA HisIs ==
    ASSUME AllInv, NEW m \in Messages, Fresh(m) \/ (Serving /\ Has(m))
    PROVE  handed[m] = cur /\ cur # NoGen /\ (at[Tick] # "idle" => copy = cur)
<1>1. handed[m] = cur BY DEF AllInv, OwnInv
<1>2. cur # NoGen BY DEF Fresh, Has
<1> QED BY <1>1, <1>2 DEF AllInv, OwnInv

\* The message at hand is none of the runtime's when the tick takes it back.
LEMMA AtHand ==
    ASSUME AllInv
    PROVE  /\ at[Tick] \in {"interrupt", "save interrupt", "forget", "send", "unhand", "refused", "fail"} =>
                /\ First(todo) \in todo /\ First(todo) \in Messages
                /\ ~Fresh(First(todo)) /\ ~(Serving /\ Has(First(todo)))
           /\ todo \subseteq Messages
<1>1. todo \subseteq Messages BY TypesAre DEF TickType
<1>2. at[Tick] \in {"interrupt", "save interrupt", "forget", "send", "unhand", "refused", "fail"} =>
         First(todo) \in todo /\ First(todo) \in Messages
  BY <1>1, TypesAre, FirstIs DEF TodoInv
<1> DEFINE n == First(todo)
<1>3. at[Tick] \in {"interrupt", "save interrupt", "forget"} => ~Fresh(n) /\ ~(Serving /\ Has(n))
  <2> SUFFICES ASSUME at[Tick] \in {"interrupt", "save interrupt", "forget"}, Fresh(n) \/ (Serving /\ Has(n)) PROVE FALSE
    OBVIOUS
  <2>1. n \in todo /\ n \in Messages BY <1>2
  <2>2. handed[n] = cur /\ copy = cur /\ cur # NoGen BY <2>1, HisIs
  <2>3. CASE live BY <2>2, <2>3 DEF AllInv, LookInv
  <2>4. CASE ~live
    <3>1. phase[copy] # "live" /\ ~Fresh(n) BY <2>1, <2>2, <2>4 DEF AllInv, LookInv
    <3> QED BY <2>2, <3>1 DEF Serving
  <2> QED BY <2>3, <2>4, TypesAre DEF TickType
<1>4. at[Tick] \in {"send", "unhand", "refused"} => ~Fresh(n) /\ ~(Serving /\ Has(n)) BY DEF AllInv, LookInv
<1>5. at[Tick] = "fail" => ~Fresh(n) /\ ~(Serving /\ Has(n))
  <2>1. at[Tick] = "fail" => handed[n] = NoGen BY DEF AllInv, LookInv
  <2> QED BY <1>2, <2>1, HisIs
<1> QED BY <1>1, <1>2, <1>3, <1>4, <1>5

\* The end of a turn that the tick, or a report, tells the store of, and a refusal: they
\* touch one message, which is not one of the runtime's, or keep what waits waiting.
LEMMA EndIsGentle ==
    ASSUME AllInv, UNCHANGED <<next, disk>>, NEW n \in Messages, ~Fresh(n), ~(Serving /\ Has(n)),
           Calls(box, box'), Aside(box, box', n), Ends(box, box')
    PROVE  /\ \A m \in Messages : m # n =>
                (Ready(m)' <=> Ready(m)) /\ ((m \in Open(box) \/ Settled(m))' <=> m \in Open(box) \/ Settled(m))
           /\ \A m \in Messages : m \in InFlight(box') => m \in InFlight(box)
           /\ \A m \in Messages : Settled(m) => Settled(m)'
<1>1. \A m \in Messages : m # n => box'[m] = box[m] BY DEF Aside
<1>2. \A m \in Messages : m # n => (m \in Open(box') <=> m \in Open(box)) /\ (m \in Pending(box') <=> m \in Pending(box))
  BY <1>1, OpenIs
<1>3. \A m \in Messages : Settled(m) => Settled(m)' BY DEF Calls, Settled
<1> QED BY <1>2, <1>3 DEF Ready, Settled, Ends

\* After one, what is in the runtime waits as it did.
LEMMA EndsReady ==
    ASSUME AllInv, Still, UNCHANGED <<next, disk>>, NEW n \in Messages, ~Fresh(n), ~(Serving /\ Has(n)),
           Calls(box, box'), Aside(box, box', n), Ends(box, box'), TickWaits, todo' \subseteq Messages,
           at'[Tick] \in Offering => n \notin todo'
    PROVE  ReadyInv'
<1>1. Shrinks /\ (Serving' <=> Serving) /\ cur' = cur BY StillIs DEF Still
<1>2. \A m \in Messages : Fresh(m)' => Ready(m)'
  BY <1>1, EndIsGentle, ReadyIs DEF AllInv, Shrinks
<1>3. ASSUME Serving', NEW m \in Messages, NEW p \in Places, IsAt(p, m)' PROVE Waits(p, m)'
  <2>1. Serving /\ cur # NoGen BY <1>1, <1>3 DEF Serving
  <2>2. IsAt(p, m) BY <1>3, <2>1, StillIs
  <2>3. m # n BY <2>1, <2>2 DEF Has
  <2>4. Waits(p, m) BY <2>1, <2>2, ReadyIs DEF AllInv
  <2>5. <<p[2], cur>> \in Reporters BY <2>1, PlacesAre, CurThreads DEF QueueIs, TurnIs, Kinds
  <2>6. at'[<<p[2], cur'>>] = at[<<p[2], cur>>] BY <1>1, <2>5 DEF Still
  <2>7. (Ready(m)' <=> Ready(m)) /\ ((m \in Open(box) \/ Settled(m))' <=> m \in Open(box) \/ Settled(m))
    BY <2>3, EndIsGentle
  <2> QED BY <2>4, <2>6, <2>7 DEF Waits
<1>4. Serving' /\ at'[Tick] \in Offering /\ copy' = cur' => \A m \in todo' : Ready(m)' \/ Has(m)'
  <2> SUFFICES ASSUME Serving', at'[Tick] \in Offering, copy' = cur', NEW m \in todo' PROVE Ready(m)' \/ Has(m)'
    OBVIOUS
  <2>1. m \in todo /\ m \in Messages /\ at[Tick] \in Offering /\ copy = cur BY <1>1 DEF TickWaits
  <2>2. Ready(m) \/ Has(m) BY <1>1, <2>1, ReadyIs DEF AllInv
  <2>3. m # n OBVIOUS
  <2> QED BY <1>1, <2>1, <2>2, <2>3, EndIsGentle, StillIs
<1>5. cur' # NoGen => \A t \in Reporters, m \in Messages :
            t[2] = cur' /\ ReportsOn(t, m, {"save report"})' => m \notin InFlight(box')
  <2> SUFFICES ASSUME cur # NoGen, NEW t \in Reporters, NEW m \in Messages, t[2] = cur, ReportsOn(t, m, {"save report"})'
               PROVE  m \notin InFlight(box')
    BY <1>1
  <2>1. m \notin InFlight(box) BY StillIs, ReadyIs DEF AllInv
  <2> QED BY <2>1, EndIsGentle
<1> QED BY <1>2, <1>3, <1>4, <1>5, ReadyIs DEF ReadyInv, Waits, Offering

\* The tick leaves the runtimes alone, but for what it sends.
LEMMA TickStill ==
    ASSUME AllInv, TickSteps
    PROVE  /\ queue' = queue => Still
           /\ UNCHANGED <<cur, kind, phase, next, disk, prompted>>
           /\ ~TickReroute /\ ~TickInterrupt /\ ~TickFail => box' = box
           /\ queue' # queue => TickSend
<1> USE DEF tickFrame, runVars, paneVars, diskVars
<1>1. UNCHANGED <<turn, rep, drops, cur, kind, phase, next, disk, prompted>>
  BY DEF TickSteps, TickStart, TickPanes, TickReroute, TickLook, TickSettle, TickInterrupt, TickForget,
      TickPending, TickOffer, TickSend, TickUnhand, TickRefused, TickFail, TickCleanup, storeVars
<1>2. UNCHANGED at \/ \E l : Goto(Tick, l)
  BY DEF TickSteps, TickStart, TickPanes, TickReroute, TickLook, TickSettle, TickInterrupt, TickForget,
      TickPending, TickOffer, TickSend, TickUnhand, TickRefused, TickFail, TickCleanup, Call
<1>3. \A t \in Reporters : at'[t] = at[t] BY <1>2, TypesAre, ThreadsAre DEF Goto
<1>4. ~TickReroute /\ ~TickInterrupt /\ ~TickFail => box' = box
  BY DEF TickSteps, TickStart, TickPanes, TickLook, TickSettle, TickForget,
      TickPending, TickOffer, TickSend, TickUnhand, TickRefused, TickCleanup, storeVars
<1>5. queue' # queue => TickSend
  BY DEF TickSteps, TickStart, TickPanes, TickReroute, TickLook, TickSettle, TickInterrupt, TickForget,
      TickPending, TickOffer, TickUnhand, TickRefused, TickFail, TickCleanup
<1> QED BY <1>1, <1>3, <1>4, <1>5 DEF Still

\* When it forgets the message at hand, the runtime has not.
LEMMA ForgetsOwn ==
    ASSUME AllInv, Still, at[Tick] # "idle", copy' = copy,
           at[Tick] \in {"interrupt", "save interrupt", "forget", "send", "unhand", "refused", "fail"},
           UNCHANGED handed \/ Forget(First(todo))
    PROVE  OwnInv' /\ (Forget(First(todo)) => handed'[First(todo)] = NoGen)
<1>0. PICK n \in Messages : n = First(todo) BY AtHand
<1>1. ~Fresh(n) /\ ~(Serving /\ Has(n)) BY <1>0, AtHand
<1>2. Forget(n) => handed'[n] = NoGen BY <1>1, TypesAre DEF Forget, TickType
<1>3. \A m \in Messages : handed'[m] = handed[m] \/ (m = n /\ handed'[m] = NoGen)
  BY <1>0, TypesAre DEF Forget, TickType
<1>4. ~Fresh(n)' /\ ~(Serving' /\ Has(n)') BY <1>1, StillIs
<1>5. \A m \in Messages : handed'[m] = handed[m] \/ (~Fresh(m)' /\ ~(Serving' /\ Has(m)')) BY <1>3, <1>4
<1>6. \A m \in Messages : handed'[m] \in {handed[m], NoGen, copy} BY <1>3
<1>7. OwnInv' BY <1>5, <1>6, StillIs, OwnKeeps
<1> QED BY <1>0, <1>2, <1>7

\* The tick's steps up to what it offers.
LEMMA TickLooks ==
    ASSUME AllInv, Still, UNCHANGED <<next, disk>>,
           TickStart \/ TickPanes \/ TickLook \/ TickSettle \/ TickInterrupt \/ TickForget
    PROVE  OwnInv' /\ LookInv' /\ ReadyInv'
<1>0. Shrinks /\ (Serving' <=> Serving) /\ cur' = cur /\ phase' = phase /\ at \in [Threads -> Labels]
  BY StillIs, TypesAre DEF Still
<1>1. \A m \in Messages : (Fresh(m)' <=> Fresh(m)) /\ (Has(m)' <=> Has(m)) BY StillIs
<1>2. ASSUME handed' = handed, at[Tick] # "idle", copy' = copy PROVE OwnInv'
  BY <1>0, <1>2, OwnKeeps
<1>3. ASSUME box' = box, at'[Tick] \notin Offering, todo' \subseteq Messages PROVE ReadyInv'
  BY <1>3, SaveIsGentle, StillReady DEF TickWaits
<1>4. CASE TickStart
  <2>1. at'[Tick] = "panes" /\ copy' = cur /\ UNCHANGED <<box, handed, live, todo>> BY <1>0, <1>4, TickGoes DEF TickStart
  <2>2. OwnInv' BY <1>0, <2>1, OwnKeeps
  <2>3. LookInv' BY <2>1 DEF LookInv
  <2>4. ReadyInv' BY <1>3, <2>1, AtHand DEF Offering
  <2> QED BY <2>2, <2>3, <2>4
<1>5. CASE TickPanes
  <2>1. at[Tick] = "panes" /\ at'[Tick] \in {"cleanup", "reroute", "look"} /\ UNCHANGED <<box, handed, copy, live, todo>>
    BY <1>0, <1>5, TickGoes DEF TickPanes, tickVars
  <2>2. LookInv' BY <2>1 DEF LookInv
  <2>3. ReadyInv' BY <1>3, <2>1, AtHand DEF Offering
  <2> QED BY <1>2, <2>1, <2>2, <2>3
<1>6. CASE TickLook
  <2>1. /\ at[Tick] = "look" /\ at'[Tick] = "settle" /\ UNCHANGED <<box, handed, copy>> /\ live' = Alive(copy)
        /\ todo' = InFlight(box)
    BY <1>0, <1>6, TickGoes DEF TickLook
  <2>2. ASSUME NEW m \in todo' PROVE ~Fresh(m)' /\ m \in Messages
    <3>1. m \in Messages /\ m \in InFlight(box) BY <2>1 DEF InFlight, In
    <3>2. Fresh(m) => Ready(m) BY <3>1, ReadyIs DEF AllInv
    <3>3. ~Ready(m) BY <3>1, OpenIs DEF Ready, Settled
    <3> QED BY <1>1, <3>1, <3>2, <3>3
  <2>3. ~live' => (copy' # NoGen => phase'[copy'] # "live") BY <1>0, <2>1 DEF Alive
  <2>4. LookInv' BY <2>1, <2>2, <2>3 DEF LookInv
  <2>5. ReadyInv' BY <1>3, <2>1, <2>2 DEF Offering
  <2> QED BY <1>2, <2>1, <2>4, <2>5
<1>7. CASE TickSettle
  <2>1. /\ at[Tick] = "settle" /\ todo # {} /\ UNCHANGED <<box, handed, copy, live>>
        /\ \/ Stale(First(todo)) /\ at'[Tick] = "interrupt" /\ todo' = todo
           \/ at'[Tick] = "settle" /\ todo' = todo \ {First(todo)}
    BY <1>0, <1>7, TickGoes DEF TickSettle
  <2>2. todo' \subseteq todo /\ todo' \subseteq Messages BY <2>1, AtHand
  <2>3. ~live' => (copy' # NoGen => phase'[copy'] # "live") /\ \A m \in todo' : ~Fresh(m)'
    BY <1>0, <1>1, <2>1, <2>2 DEF AllInv, LookInv
  <2>4. at'[Tick] = "interrupt" /\ live' => handed'[First(todo')] # copy'
    <3>1. live => copy # NoGen BY TypesAre DEF GensInv
    <3> QED BY <2>1, <3>1 DEF Stale
  <2>5. LookInv' BY <2>1, <2>3, <2>4 DEF LookInv
  <2>6. ReadyInv' BY <1>3, <2>1, <2>2 DEF Offering
  <2> QED BY <1>2, <2>1, <2>5, <2>6
<1> DEFINE n == First(todo)
<1>8. CASE TickInterrupt
  <2>1. /\ at[Tick] = "interrupt" /\ at'[Tick] \in {"save interrupt", "forget"} /\ box' = End(box, n, FALSE)
        /\ UNCHANGED <<handed, copy, live, todo>>
    BY <1>0, <1>8, TickGoes DEF TickInterrupt, Call, tickVars, Interrupted
  <2>2. n \in Messages /\ ~Fresh(n) /\ ~(Serving /\ Has(n)) /\ todo \subseteq Messages BY <2>1, AtHand
  <2>3. ~live' => (copy' # NoGen => phase'[copy'] # "live") /\ \A m \in todo' : ~Fresh(m)'
    BY <1>0, <1>1, <2>1, <2>2 DEF AllInv, LookInv
  <2>4. live' => handed'[First(todo')] # copy' BY <2>1 DEF AllInv, LookInv
  <2>5. LookInv' BY <2>1, <2>3, <2>4 DEF LookInv
  <2>6. Calls(box, box') /\ Aside(box, box', n) /\ Ends(box, box') BY <2>1, <2>2, TypesAre, EndCounts
  <2>7. TickWaits /\ at'[Tick] \notin Offering BY <2>1 DEF TickWaits, Offering
  <2>8. ReadyInv' BY <2>1, <2>2, <2>6, <2>7, EndsReady
  <2> QED BY <1>2, <2>1, <2>5, <2>8
<1>9. CASE TickForget
  <2>1. /\ at[Tick] = "forget" /\ at'[Tick] = "settle" /\ Forget(n) /\ todo' = todo \ {n} /\ UNCHANGED <<box, copy, live>>
    BY <1>0, <1>9, TickGoes DEF TickForget
  <2>2. OwnInv' BY <2>1, ForgetsOwn
  <2>3. todo' \subseteq todo /\ todo' \subseteq Messages BY <2>1, AtHand
  <2>4. ~live' => (copy' # NoGen => phase'[copy'] # "live") /\ \A m \in todo' : ~Fresh(m)'
    BY <1>0, <1>1, <2>1, <2>3 DEF AllInv, LookInv
  <2>5. LookInv' BY <2>1, <2>4 DEF LookInv
  <2>6. ReadyInv' BY <1>3, <2>1, <2>3 DEF Offering
  <2> QED BY <2>2, <2>5, <2>6
<1> QED BY <1>4, <1>5, <1>6, <1>7, <1>8, <1>9

\* And from what it offers on, short of giving it to the runtime.
LEMMA TickOffers ==
    ASSUME AllInv, Still, UNCHANGED <<next, disk>>,
           TickPending \/ TickOffer \/ TickSend \/ TickUnhand \/ TickRefused \/ TickFail \/ TickCleanup
    PROVE  OwnInv' /\ LookInv' /\ ReadyInv'
<1>0. Shrinks /\ (Serving' <=> Serving) /\ cur' = cur /\ phase' = phase /\ queue' = queue /\ at \in [Threads -> Labels]
  BY StillIs, TypesAre DEF Still
<1>1. \A m \in Messages : (Fresh(m)' <=> Fresh(m)) /\ (Has(m)' <=> Has(m)) BY StillIs
<1>2. ASSUME handed' = handed, at[Tick] # "idle", copy' = copy PROVE OwnInv'
  BY <1>0, <1>2, OwnKeeps
<1>3. ASSUME box' = box, TickWaits, todo' \subseteq Messages PROVE ReadyInv'
  BY <1>3, SaveIsGentle, StillReady
<1>4. ASSUME at[Tick] \in Offering, copy' = copy, todo' \subseteq todo PROVE TickWaits /\ todo' \subseteq Messages
  BY <1>0, <1>1, <1>4, AtHand DEF TickWaits
<1>5. ASSUME at'[Tick] \notin Offering PROVE TickWaits
  BY <1>5 DEF TickWaits
<1>6. CASE TickPending
  <2>1. /\ at[Tick] = "settle" /\ UNCHANGED <<box, handed, copy, live>>
        /\ \/ at'[Tick] = "offer" /\ todo' = Pending(box)
           \/ at'[Tick] = "cleanup" /\ todo' = todo
    BY <1>0, <1>6, TickGoes DEF TickPending
  <2>2. LookInv' BY <2>1 DEF LookInv
  <2>3. CASE at'[Tick] = "cleanup" BY <1>2, <1>3, <1>5, <2>1, <2>2, <2>3, AtHand DEF Offering
  <2>4. CASE at'[Tick] = "offer" /\ todo' = Pending(box)
    <3>1. \A m \in todo' : Ready(m)' BY <2>1, <2>4 DEF Ready
    <3>2. Gentle BY <2>1, SaveIsGentle
    <3>3. ReadyInv'
      <4>1. \A m \in Messages : Fresh(m)' => Ready(m)' BY <1>1, <3>2, ReadyIs DEF AllInv, Gentle
      <4>2. ASSUME Serving', NEW m \in Messages, NEW p \in Places, IsAt(p, m)' PROVE Waits(p, m)'
        <5>1. Serving /\ cur # NoGen BY <1>0, <4>2 DEF Serving
        <5>2. IsAt(p, m) BY <4>2, <5>1, StillIs
        <5>3. <<p[2], cur>> \in Reporters BY <5>1, PlacesAre, CurThreads DEF QueueIs, TurnIs, Kinds
        <5> QED BY <1>0, <3>2, <5>1, <5>2, <5>3, WaitsOn DEF Still
      <4>3. cur' # NoGen => \A t \in Reporters, m \in Messages :
                t[2] = cur' /\ ReportsOn(t, m, {"save report"})' => m \notin InFlight(box')
        BY <1>0, <2>1, StillIs, ReadyIs DEF AllInv
      <4> QED BY <3>1, <4>1, <4>2, <4>3, ReadyIs DEF ReadyInv, Waits, Offering
    <3> QED BY <1>2, <2>1, <2>2, <3>3
  <2> QED BY <2>1, <2>3, <2>4
<1>7. CASE TickOffer
  <2>1. at[Tick] = "offer" /\ UNCHANGED <<box, copy, live>> BY <1>7 DEF TickOffer
  <2>2. CASE todo = {} \/ WasHanded(First(todo))
    <3>1. at'[Tick] \in {"cleanup", "offer"} /\ handed' = handed /\ todo' \subseteq todo
      BY <1>0, <1>7, <2>1, <2>2, TickGoes DEF TickOffer
    <3>2. LookInv' BY <3>1 DEF LookInv
    <3> QED BY <1>2, <1>3, <1>4, <2>1, <3>1, <3>2 DEF Offering
  <2>3. CASE todo # {} /\ ~WasHanded(First(todo))
    <3>0. PICK n \in Messages : n = First(todo) BY <2>3, AtHand, FirstIs
    <3>1. at'[Tick] = "send" /\ todo' = todo /\ handed' = [handed EXCEPT ![n] = copy]
      BY <1>0, <1>7, <2>3, <3>0, TickGoes DEF TickOffer
    <3>2. handed'[n] = copy /\ \A m \in Messages : m # n => handed'[m] = handed[m]
      BY <3>1, TypesAre DEF TickType
    <3>3. ~Fresh(n) /\ ~(Serving /\ Has(n)) BY <2>1, <2>3, <3>0, HisIs DEF WasHanded
    <3>4. \A m \in Messages : handed'[m] = handed[m] \/ (~Fresh(m)' /\ ~(Serving' /\ Has(m)'))
      BY <1>0, <1>1, <3>2, <3>3
    <3>5. \A m \in Messages : handed'[m] \in {handed[m], NoGen, copy} BY <3>2
    <3>6. OwnInv' BY <1>0, <2>1, <3>4, <3>5, OwnKeeps
    <3>7. First(todo') = n BY <3>0, <3>1
    <3>8. (~Fresh(First(todo)) /\ (Serving => ~Has(First(todo))))'
      BY <1>0, <1>1, <3>3, <3>7
    <3>9. LookInv' BY <2>1, <3>1, <3>2, <3>7, <3>8 DEF LookInv
    <3> QED BY <1>3, <1>4, <2>1, <3>1, <3>6, <3>9 DEF Offering
  <2> QED BY <2>2, <2>3
<1>8. CASE TickSend
  <2>1. at[Tick] = "send" /\ UNCHANGED <<box, handed, copy, live>> BY <1>8 DEF TickSend, storeVars
  <2>2. (at'[Tick] \in {"refused", "unhand"} /\ todo' = todo) \/ (at'[Tick] = "offer" /\ todo' \subseteq todo)
    BY <1>0, <1>8, TickGoes DEF TickSend
  <2>3. LookInv'
    <3>1. CASE at'[Tick] = "offer" BY <3>1 DEF LookInv
    <3>2. CASE at'[Tick] \in {"refused", "unhand"} /\ todo' = todo
      <4>0. PICK n \in Messages : n = First(todo) BY <2>1, AtHand
      <4>1. ~Fresh(n) /\ ~(Serving /\ Has(n)) /\ First(todo') = n BY <2>1, <3>2, <4>0, AtHand
      <4>2. (~Fresh(First(todo)) /\ (Serving => ~Has(First(todo))))' BY <1>0, <1>1, <4>1
      <4> QED BY <3>2, <4>2 DEF LookInv
    <3> QED BY <2>2, <3>1, <3>2
  <2> QED BY <1>2, <1>3, <1>4, <2>1, <2>2, <2>3 DEF Offering
<1>9. CASE TickUnhand
  <2>1. /\ at[Tick] = "unhand" /\ at'[Tick] = "cleanup" /\ Forget(First(todo)) /\ todo' = {} /\ UNCHANGED <<box, copy, live>>
    BY <1>0, <1>9, TickGoes DEF TickUnhand
  <2>2. OwnInv' BY <2>1, ForgetsOwn
  <2>3. LookInv' BY <2>1 DEF LookInv
  <2> QED BY <1>3, <1>5, <2>1, <2>2, <2>3 DEF Offering
<1>10. CASE TickRefused
  <2>1. /\ at[Tick] = "refused" /\ at'[Tick] = "fail" /\ Forget(First(todo)) /\ UNCHANGED <<box, copy, live, todo>>
    BY <1>0, <1>10, TickGoes DEF TickRefused, tickVars
  <2>2. OwnInv' /\ handed'[First(todo)] = NoGen BY <2>1, ForgetsOwn
  <2>3. LookInv' BY <2>1, <2>2 DEF LookInv
  <2> QED BY <1>3, <1>4, <2>1, <2>2, <2>3 DEF Offering
<1>11. CASE TickFail
  <2>0. PICK n \in Messages : n = First(todo) /\ at[Tick] = "fail" BY <1>11, AtHand DEF TickFail
  <2>1. /\ at'[Tick] \in {"save fail", "offer"} /\ box' = Fail(box, n) /\ todo' = todo \ {n} /\ UNCHANGED <<handed, copy, live>>
    BY <1>0, <1>11, <2>0, TickGoes DEF TickFail, Call
  <2>2. ~Fresh(n) /\ ~(Serving /\ Has(n)) BY <2>0, AtHand
  <2>3. LookInv' BY <2>1 DEF LookInv
  <2>4. Calls(box, box') /\ Aside(box, box', n) /\ Ends(box, box') BY <2>1, TypesAre, FailCounts
  <2>5. TickWaits /\ todo' \subseteq Messages BY <1>4, <2>0, <2>1 DEF Offering
  <2>6. ReadyInv' BY <2>1, <2>2, <2>4, <2>5, EndsReady
  <2> QED BY <1>2, <2>0, <2>1, <2>3, <2>6
<1>12. CASE TickCleanup
  <2>1. /\ at[Tick] = "cleanup" /\ at'[Tick] = "idle" /\ handed' = (IF copy = NoGen THEN NoneHanded ELSE handed)
        /\ todo' = {} /\ UNCHANGED box
    BY <1>0, <1>12, TickGoes DEF TickCleanup
  <2>2. ASSUME NEW m \in Messages PROVE handed'[m] = handed[m] \/ (~Fresh(m)' /\ ~(Serving' /\ Has(m)'))
    <3>1. CASE copy # NoGen BY <2>1, <3>1
    <3>2. CASE copy = NoGen
      <4>1. ~Fresh(m) /\ ~(Serving /\ Has(m)) BY <2>1, <3>2, HisIs
      <4> QED BY <1>0, <1>1, <4>1
    <3> QED BY <3>1, <3>2
  <2>3. OwnInv' BY <1>0, <2>1, <2>2, OwnKeeps
  <2>4. LookInv' BY <2>1 DEF LookInv
  <2> QED BY <1>3, <1>5, <2>1, <2>3, <2>4 DEF Offering
<1> QED BY <1>6, <1>7, <1>8, <1>9, <1>10, <1>11, <1>12

\* A queue without repetitions.
Apart(q) == \A i, j \in 1..Len(q) : q[i] = q[j] => i = j

\* A message that is not in it may join it, and its head is not in the rest.
LEMMA ApartIs ==
    ASSUME NEW q \in Seq(Messages), Apart(q)
    PROVE  /\ \A n \in Messages : /\ ToSet(Append(q, n)) = ToSet(q) \cup {n}
                                  /\ n \notin ToSet(q) => Apart(Append(q, n))
           /\ q # <<>> => Apart(Tail(q)) /\ Head(q) \notin ToSet(Tail(q))
<1>1. Len(q) \in Nat /\ DOMAIN q = 1..Len(q) /\ ToSet(q) = {q[i] : i \in 1..Len(q)} BY DEF ToSet
<1>2. ASSUME NEW n \in Messages
      PROVE  ToSet(Append(q, n)) = ToSet(q) \cup {n} /\ (n \notin ToSet(q) => Apart(Append(q, n)))
  <2> DEFINE s == Append(q, n)
             k == Len(q)
  <2>1. /\ DOMAIN s = 1..(k + 1) /\ Len(s) = k + 1 /\ k \in Nat /\ s[k + 1] = n
        /\ \A i \in 1..k : s[i] = q[i]
    BY <1>1
  <2> HIDE DEF s, k
  <2>2. \A i \in 1..(k + 1) : i \in 1..k \/ i = k + 1 BY <2>1
  <2>3. (\A i \in 1..k : i \in 1..(k + 1)) /\ k + 1 \in 1..(k + 1) BY <2>1
  <2>4. ToSet(s) = {s[i] : i \in 1..(k + 1)} /\ ToSet(q) = {q[i] : i \in 1..k} BY <1>1, <2>1 DEF ToSet, k
  <2>5. ToSet(s) = ToSet(q) \cup {n} BY <2>1, <2>2, <2>3, <2>4
  <2>6. ASSUME n \notin ToSet(q), NEW i \in 1..(k + 1), NEW j \in 1..(k + 1), s[i] = s[j] PROVE i = j
    <3>1. CASE i \in 1..k /\ j \in 1..k BY <2>1, <2>6, <3>1 DEF Apart, k
    <3>2. CASE i \in 1..k /\ j = k + 1 BY <2>1, <2>4, <2>6, <3>2
    <3>3. CASE j \in 1..k /\ i = k + 1 BY <2>1, <2>4, <2>6, <3>3
    <3> QED BY <2>2, <3>1, <3>2, <3>3
  <2> QED BY <2>1, <2>5, <2>6 DEF Apart, s
<1>3. ASSUME q # <<>> PROVE Apart(Tail(q)) /\ Head(q) \notin ToSet(Tail(q))
  <2> DEFINE s == Tail(q)
             k == Len(q)
  <2>1. k \in Nat \ {0} BY <1>3
  <2>2. Head(q) = q[1] /\ Len(s) = k - 1 /\ DOMAIN s = 1..(k - 1) /\ \A i \in 1..(k - 1) : s[i] = q[i + 1]
    BY <1>3, <2>1
  <2>3. Apart(q) /\ \A i, j \in 1..k : q[i] = q[j] => i = j BY DEF Apart
  <2> HIDE DEF s, k
  <2>4. ASSUME NEW i \in 1..(k - 1), NEW j \in 1..(k - 1), s[i] = s[j] PROVE i = j
    <3>1. i + 1 \in 1..k /\ j + 1 \in 1..k BY <2>1
    <3>2. i + 1 = j + 1 BY <2>2, <2>3, <2>4, <3>1
    <3> QED BY <3>2
  <2>5. ASSUME NEW i \in 1..(k - 1) PROVE s[i] # q[1]
    <3>1. i + 1 \in 1..k /\ 1 \in 1..k /\ i + 1 # 1 BY <2>1
    <3> QED BY <2>2, <2>3, <3>1
  <2>6. ToSet(s) = {s[i] : i \in 1..(k - 1)} BY <2>2 DEF ToSet
  <2> QED BY <2>2, <2>4, <2>5, <2>6 DEF Apart, s
<1> QED BY <1>2, <1>3

\* The queue of the pane's runtime is one.
LEMMA CurQueue ==
    ASSUME AllInv, cur # NoGen
    PROVE  /\ cur \in Gens /\ queue[cur] \in Seq(Messages) /\ Len(queue[cur]) <= MaxQueue /\ Apart(queue[cur])
           /\ ToSet(queue[cur]) \subseteq Messages /\ turn[cur] \in Messages \cup {NoMail}
<1>1. cur \in Gens BY CurThreads
<1>2. queue[cur] \in Seq(Messages) /\ Len(queue[cur]) <= MaxQueue /\ turn[cur] \in Messages \cup {NoMail}
  BY <1>1, TypesAre, RunTypeIs
<1>3. Apart(queue[cur]) BY DEF AllInv, OnceInv, Apart
<1>4. ToSet(queue[cur]) \subseteq Messages
  <2>1. DOMAIN queue[cur] = 1..Len(queue[cur]) BY <1>2
  <2> QED BY <1>2, <2>1 DEF ToSet
<1> QED BY <1>1, <1>2, <1>3, <1>4

\* The runtime takes what the tick sends it, which it has not, and which waits.
LEMMA TickGives ==
    ASSUME AllInv, TickSend, queue' # queue
    PROVE  OnceInv' /\ OwnInv' /\ LookInv' /\ ReadyInv'
<1>1. /\ copy \in Gens /\ First(todo) \in todo /\ phase[copy] = "live" /\ Len(queue[copy]) < MaxQueue
      /\ queue' = [queue EXCEPT ![copy] = Append(@, First(todo))] /\ todo' = todo \ {First(todo)}
  BY TypesAre, SendRuns
<1>2. copy = cur /\ cur # NoGen /\ Serving /\ cur \in Gens BY <1>1, TypesAre, BusyIsCur DEF AllInv, Serving
<1>3. /\ at[Tick] = "send" /\ Goto(Tick, "offer")
      /\ UNCHANGED <<box, next, disk, handed, copy, live, turn, phase, rep, drops, cur>>
  BY <1>1 DEF TickSend, storeVars, diskVars, paneVars
<1>4. at'[Tick] = "offer" /\ \A t \in Reporters : at'[t] = at[t] BY <1>3, TypesAre, ThreadsAre DEF Goto
<1>5. PICK n \in Messages : n = First(todo) /\ ~Fresh(n) /\ ~Has(n) BY <1>2, <1>3, AtHand
<1>6. n \notin ToSet(queue[cur]) /\ handed[n] = cur
  BY <1>2, <1>3, <1>5 DEF Fresh, AllInv, LookInv
<1>7. queue'[cur] = Append(queue[cur], n) BY <1>1, <1>2, <1>5, TypesAre, RunTypeIs
<1>8. ToSet(queue'[cur]) = ToSet(queue[cur]) \cup {n} /\ Apart(queue'[cur])
  BY <1>2, <1>6, <1>7, CurQueue, ApartIs
<1>9. Ready(n)
  <2>1. n \in todo BY <1>1, <1>5
  <2> QED BY <1>2, <1>3, <1>5, <2>1, ReadyIs DEF AllInv, Offering
<1>10. ASSUME NEW m \in Messages, NEW p \in Places PROVE IsAt(p, m)' <=> IsAt(p, m) \/ (p = QueueIs /\ m = n)
  <2>1. CASE p = QueueIs BY <1>3, <1>8, <2>1, PlaceIs
  <2>2. CASE p = TurnIs
    <3>1. QueueIs # TurnIs BY DEF QueueIs, TurnIs
    <3> QED BY <1>3, <2>2, <3>1, PlaceIs
  <2>3. ASSUME NEW k \in Kinds, p = <<"drops", k>> PROVE IsAt(p, m)' <=> IsAt(p, m) /\ p # QueueIs
    <3>1. p # QueueIs BY <2>3 DEF QueueIs
    <3> QED BY <1>3, <2>3, <3>1, PlaceIs
  <2>4. ASSUME NEW k \in Kinds, p = <<"report", k>> PROVE IsAt(p, m)' <=> IsAt(p, m) /\ p # QueueIs
    <3>1. p # QueueIs BY <2>4 DEF QueueIs
    <3>2. at'[<<k, cur>>] = at[<<k, cur>>] BY <1>2, <1>4, CurThreads
    <3>3. IsAt(<<"report", k>>, m) <=>
             rep[<<k, cur>>].of = m /\ rep[<<k, cur>>].what # "began" /\ at[<<k, cur>>] \in Reporting
      BY PlaceIs DEF ReportsOn
    <3>4. IsAt(<<"report", k>>, m)' <=>
             rep'[<<k, cur'>>].of = m /\ rep'[<<k, cur'>>].what # "began" /\ at'[<<k, cur'>>] \in Reporting
      BY PlaceIs
    <3>5. IsAt(<<"report", k>>, m)' <=> IsAt(<<"report", k>>, m) BY <1>3, <3>2, <3>3, <3>4
    <3> QED BY <2>4, <3>1, <3>5
  <2> QED BY <2>1, <2>2, <2>3, <2>4, PlacesAre
<1>11. QueueIs \in Places BY PlacesAre
<1>12. \A m \in Messages : Has(m)' <=> Has(m) \/ m = n BY <1>2, <1>3, <1>10, <1>11 DEF Has
<1>13. \A m \in Messages : Fresh(m)' <=> Fresh(m) \/ m = n
  <2>1. at'[Loop(cur')] = at[Loop(cur)] /\ rep'[Loop(cur')] = rep[Loop(cur)] BY <1>2, <1>3, <1>4, CurThreads
  <2> QED BY <1>2, <1>3, <1>8, <2>1 DEF Fresh, Begins
<1>14. OnceInv'
  <2>1. ASSUME NEW m \in Messages PROVE Kept(m) \/ \E b \in Places : Only(m, b)
    <3>1. CASE m # n BY <1>10, <3>1 DEF Kept
    <3>2. CASE m = n
      <4>1. \A p \in Places : IsAt(p, m)' => p = QueueIs BY <1>2, <1>5, <1>10, <3>2 DEF Has
      <4> QED BY <1>11, <4>1 DEF Only
    <3> QED BY <3>1, <3>2
  <2> QED BY <1>3, <1>8, <2>1, OnceKeeps DEF Apart
<1>15. OwnInv'
  <2>1. \A m \in Messages : (Fresh(m)' \/ (Serving' /\ Has(m)')) => handed'[m] = cur'
    BY <1>2, <1>3, <1>6, <1>12, <1>13 DEF AllInv, OwnInv
  <2> QED BY <1>2, <1>3, <2>1 DEF OwnInv
<1>16. LookInv' BY <1>4 DEF LookInv
<1>17. Gentle BY <1>3, SaveIsGentle
<1>18. ReadyInv'
  <2>1. \A m \in Messages : Fresh(m)' => Ready(m)' BY <1>9, <1>13, <1>17, ReadyIs DEF AllInv, Gentle
  <2>2. ASSUME NEW m \in Messages, NEW p \in Places, IsAt(p, m)' PROVE Waits(p, m)'
    <3>1. <<p[2], cur>> \in Reporters BY <1>2, PlacesAre, CurThreads DEF QueueIs, TurnIs, Kinds
    <3>2. CASE IsAt(p, m) BY <1>2, <1>3, <1>4, <1>17, <3>1, <3>2, WaitsOn
    <3>3. CASE p = QueueIs /\ m = n
      <4>1. p[1] # "report" BY <3>3 DEF QueueIs
      <4>2. (Ready(m))' BY <1>9, <1>17, <3>3 DEF Gentle
      <4>3. (m \in Open(box) \/ Settled(m))' BY <4>2, OpenIs DEF Ready
      <4> QED BY <4>1, <4>3 DEF Waits
    <3> QED BY <1>10, <2>2, <3>2, <3>3
  <2>3. \A m \in todo' : Ready(m)' \/ Has(m)'
    BY <1>1, <1>2, <1>3, <1>12, <1>17, AtHand, ReadyIs DEF AllInv, Offering, Gentle
  <2>4. \A t \in Reporters, m \in Messages : t[2] = cur' /\ ReportsOn(t, m, {"save report"})' => m \notin InFlight(box')
    <3>1. \A t \in Reporters, m \in Messages : ReportsOn(t, m, {"save report"})' <=> ReportsOn(t, m, {"save report"})
      BY <1>3, <1>4 DEF ReportsOn
    <3> QED BY <1>2, <1>3, <3>1, ReadyIs DEF AllInv
  <2> QED BY <2>1, <2>2, <2>3, <2>4, ReadyIs DEF ReadyInv, Waits, Offering
<1> QED BY <1>14, <1>15, <1>16, <1>18

\* The parts of the invariant that a step may disturb besides CalmInv.
Rest == OnceInv /\ OwnInv /\ LookInv /\ ReadyInv /\ CountInv

\* The store keeps its types.
LEMMA StoreGoes ==
    ASSUME StoreInv'
    PROVE  box' \in [Messages -> Message] /\ next' \in Nat
BY DEF StoreInv, Boxes, Numbers, TypeOfBox

\* A call of the store, and a save, take no count back.
LEMMA CallsCount ==
    ASSUME AllInv, StoreInv', Calls(box, box'), UNCHANGED <<cur, prompted, next>>, disk' \in {disk, box}
    PROVE  Counts
BY StoreGoes, TypesAre DEF Counts, Calls

\* Nor do they when there is none.
LEMMA SameCalls ==
    ASSUME AllInv, UNCHANGED box
    PROVE  Calls(box, box') /\ Ends(box, box')
BY TypesAre DEF Calls, Ends

\* Every step of the tick keeps the rest.
LEMMA TickRest ==
    ASSUME AllInv, StoreInv', TickSteps
    PROVE  Rest'
<1>1. UNCHANGED <<cur, phase, next, disk, prompted>> BY TickStill
<1>2. CountInv'
  <2>1. Calls(box, box')
    <3>1. ASSUME NEW m \in Messages PROVE Calls(box, Reroute(box)) BY <3>1, TypesAre, OthersCount
    <3>2. 1 \in Messages BY InboxAssumption DEF Messages
    <3>3. CASE TickReroute BY <3>1, <3>2, <3>3 DEF TickReroute, Call
    <3>4. CASE TickInterrupt
      <4>1. at[Tick] = "interrupt" /\ box' = End(box, First(todo), FALSE) BY <3>4 DEF TickInterrupt, Call, Interrupted
      <4> QED BY <4>1, TypesAre, AtHand, EndCounts
    <3>5. CASE TickFail
      <4>1. at[Tick] = "fail" /\ box' = Fail(box, First(todo)) BY <3>5 DEF TickFail, Call
      <4> QED BY <4>1, TypesAre, AtHand, FailCounts
    <3> QED BY <3>3, <3>4, <3>5, TickStill, SameCalls
  <2>2. TurnGoes
    <3>1. CASE queue' = queue BY <3>1, TickStill, StillTurns
    <3>2. CASE queue' # queue
      <4>1. Goto(Tick, "offer") /\ turn' = turn BY <3>2, TickStill DEF TickSend
      <4>2. cur # NoGen => Loop(cur) \in Reporters /\ turn[cur] \in Messages \cup {NoMail} BY CurThreads, CurQueue
      <4>3. cur # NoGen => at'[Loop(cur)] = at[Loop(cur)] BY <4>1, <4>2, TypesAre, ThreadsAre DEF Goto
      <4> QED BY <4>1, <4>2, <4>3 DEF TurnGoes
    <3> QED BY <3>1, <3>2
  <2> QED BY <1>1, <2>1, <2>2, CallsCount, CountKeeps
<1>3. CASE queue' # queue BY <1>2, <1>3, TickStill, TickGives DEF Rest
<1>4. CASE queue' = queue /\ ~TickReroute
  <2>1. Still BY <1>4, TickStill
  <2>2. OwnInv' /\ LookInv' /\ ReadyInv' BY <1>1, <1>4, <2>1, TickLooks, TickOffers DEF TickSteps
  <2> QED BY <1>2, <2>1, <2>2, StillOnce DEF Rest
<1>5. CASE TickReroute
  <2>1. at[Tick] = "reroute" /\ at'[Tick] \in {"save reroute", "cleanup"} BY <1>5, TypesAre, TickGoes DEF TickReroute, Call
  <2>2. cur' = NoGen BY <1>1, <2>1 DEF AllInv, CalmInv
  <2>3. LookInv' BY <2>1 DEF LookInv
  <2> QED BY <1>2, <2>2, <2>3, NoRuntime DEF Rest
<1> QED BY <1>3, <1>4, <1>5

\* A goroutine that reports goes on to the next part of its report.
Onward(t) ==
    /\ UNCHANGED <<cur, queue, turn, phase, drops, rep>>
    /\ \A u \in Threads : u # t => at'[u] = at[u]
    /\ rep[t].what = "began" \/ {at[t], at'[t]} \subseteq Reporting
    /\ at'[t] \in {"look", "apply"} => at[t] \in {"look", "apply"}

\* Its message stays where it is.
LEMMA OnwardIs ==
    ASSUME AllInv, NEW t \in Reporters, t[2] = cur, Onward(t)
    PROVE  /\ Shrinks /\ (Serving' <=> Serving) /\ cur # NoGen
           /\ \A m \in Messages : Has(m)' <=> Has(m)
           /\ \A m \in Messages, p \in Places : IsAt(p, m)' <=> IsAt(p, m)
           /\ OnceInv'
<1>1. cur' = cur /\ (Serving' <=> Serving) /\ cur # NoGen BY CurThreads DEF Onward, Serving
<1>2. ASSUME NEW m \in Messages, NEW p \in Places PROVE IsAt(p, m)' <=> IsAt(p, m)
  <2>1. CASE p \in {QueueIs, TurnIs} BY <2>1, PlaceIs DEF Onward
  <2>2. ASSUME NEW k \in Kinds, p = <<"drops", k>> PROVE IsAt(p, m)' <=> IsAt(p, m)
    BY <2>2, PlaceIs DEF Onward
  <2>3. ASSUME NEW k \in Kinds, p = <<"report", k>> PROVE IsAt(p, m)' <=> IsAt(p, m)
    <3>1. <<k, cur>> \in Reporters BY <1>1, CurThreads
    <3>2. IsAt(<<"report", k>>, m) <=>
             rep[<<k, cur>>].of = m /\ rep[<<k, cur>>].what # "began" /\ at[<<k, cur>>] \in Reporting
      BY PlaceIs DEF ReportsOn
    <3>3. IsAt(<<"report", k>>, m)' <=>
             rep'[<<k, cur>>].of = m /\ rep'[<<k, cur>>].what # "began" /\ at'[<<k, cur>>] \in Reporting
      BY <1>1, PlaceIs
    <3>4. CASE <<k, cur>> # t
      <4>1. at'[<<k, cur>>] = at[<<k, cur>>] BY <3>1, <3>4, ThreadsAre DEF Onward
      <4> QED BY <2>3, <3>2, <3>3, <4>1 DEF Onward
    <3>5. CASE <<k, cur>> = t
      <4>1. rep' = rep /\ (rep[t].what = "began" \/ (at[t] \in Reporting /\ at'[t] \in Reporting)) BY DEF Onward
      <4> QED BY <2>3, <3>2, <3>3, <3>5, <4>1
    <3> QED BY <3>4, <3>5
  <2> QED BY <2>1, <2>2, <2>3, PlacesAre
<1>3. \A m \in Messages : Has(m)' <=> Has(m) BY <1>1, <1>2 DEF Has
<1>4. ASSUME NEW m \in Messages, Fresh(m)' PROVE Fresh(m)
  <2>1. Loop(cur) \in Threads BY <1>1, CurThreads, ThreadsAre
  <2>2. at'[Loop(cur)] = at[Loop(cur)] \/ (at'[Loop(cur)] \in {"look", "apply"} => at[Loop(cur)] \in {"look", "apply"})
    BY <2>1 DEF Onward
  <2>3. Begins(m)' => Begins(m) BY <1>1, <2>2 DEF Begins, Onward
  <2>4. queue' = queue BY DEF Onward
  <2> QED BY <1>1, <1>4, <2>3, <2>4 DEF Fresh
<1>5. OnceInv'
  <2>1. queue' = queue BY DEF Onward
  <2>2. \A m \in Messages : Kept(m) BY <1>2 DEF Kept
  <2> QED BY <1>1, <2>1, <2>2, CurQueue, OnceKeeps DEF Apart
<1> QED BY <1>1, <1>2, <1>3, <1>4, <1>5 DEF Shrinks

\* What waits goes to another place of the runtime, where it is asked no more.
LEMMA WaitsThere ==
    ASSUME AllInv, Gentle, cur' = cur, NEW m \in Messages, NEW p \in Places, m \in Open(box) \/ Settled(m),
           ~(p[1] = "report" /\ at'[<<p[2], cur>>] \in {"save report", "forget"})
    PROVE  Waits(p, m)'
<1>1. ~(p[1] = "report" /\ at'[<<p[2], cur'>>] \in {"save report", "forget"}) OBVIOUS
<1>2. (m \in Open(box) \/ Settled(m))' BY DEF Gentle
<1> QED BY <1>1, <1>2 DEF Waits

\* What waits in a live runtime is unfinished or settled, unless its report is under way.
LEMMA WaitsHere ==
    ASSUME AllInv, NEW m \in Messages
    PROVE  /\ Fresh(m) => m \in Open(box) \/ Settled(m)
           /\ Serving => \A p \in Places : IsAt(p, m) =>
                \/ m \in Open(box) \/ Settled(m)
                \/ p[1] = "report" /\ at[<<p[2], cur>>] \in {"save report", "forget"}
<1>1. Fresh(m) => m \in Open(box) \/ Settled(m) BY ReadyIs, OpenIs DEF AllInv, Ready
<1>2. Serving => \A p \in Places : IsAt(p, m) =>
                \/ m \in Open(box) \/ Settled(m)
                \/ p[1] = "report" /\ at[<<p[2], cur>>] \in {"save report", "forget"}
  BY ReadyIs DEF AllInv, Waits
<1> QED BY <1>1, <1>2

\* A step of the runtime that leaves the tick alone, and the store but for a save, and
\* forgets at most a message that it no longer has.
LEMMA RunStep ==
    ASSUME AllInv, Shrinks, UNCHANGED <<tickVars, box, next>>, disk' \in {box, disk}, at'[Tick] = at[Tick],
           \A g \in Gens : phase'[g] = "live" => phase[g] = "live",
           cur # NoGen =>
              /\ \A i, j \in 1..Len(queue'[cur]) : queue'[cur][i] = queue'[cur][j] => i = j
              /\ \A m \in Messages : Kept(m) \/ \E b \in Places : Only(m, b),
           UNCHANGED handed \/ \E n \in Messages : handed' = [handed EXCEPT ![n] = NoGen] /\ Has(n) /\ ~Has(n)' /\ ~Fresh(n)',
           Serving' => \A m \in Messages : Has(m) => Has(m)' \/ Ready(m),
           Serving' => \A m \in Messages, p \in Places : IsAt(p, m)' => Waits(p, m)',
           \A t \in Reporters, m \in Messages :
                t[2] = cur /\ ReportsOn(t, m, {"save report"})' => ReportsOn(t, m, {"save report"})
    PROVE  OnceInv' /\ OwnInv' /\ LookInv' /\ ReadyInv'
<1>0. cur' = cur BY DEF Shrinks
<1>1. OnceInv' BY <1>0, OnceKeeps
<1>2. OwnInv'
  <2>1. \A m \in Messages : handed'[m] = handed[m] \/ (~Fresh(m)' /\ ~(Serving' /\ Has(m)') /\ handed'[m] = NoGen)
    BY TypesAre DEF TickType
  <2>2. at'[Tick] = "idle" \/ (at[Tick] # "idle" /\ copy' = copy /\ \A m \in Messages : handed'[m] \in {handed[m], NoGen, copy})
    BY <2>1 DEF tickVars
  <2> QED BY <2>1, <2>2, OwnKeeps
<1>3. LookInv' BY LookKeeps
<1>4. Gentle BY SaveIsGentle
<1>5. \A m \in Messages : Fresh(m)' => Ready(m)' BY <1>4, ReadyIs DEF AllInv, Shrinks, Gentle
<1>6. Serving' /\ at'[Tick] \in Offering /\ copy' = cur' => \A m \in todo' : Ready(m)' \/ Has(m)'
  <2> SUFFICES ASSUME Serving', at'[Tick] \in Offering, copy' = cur', NEW m \in todo' PROVE Ready(m)' \/ Has(m)'
    OBVIOUS
  <2>1. m \in todo /\ m \in Messages /\ at[Tick] \in Offering /\ copy = cur BY <1>0, TypesAre DEF tickVars, TickType
  <2>2. Ready(m) \/ Has(m) BY <2>1, ReadyIs DEF AllInv, Shrinks
  <2> QED BY <1>4, <2>1, <2>2 DEF Gentle
<1>7. cur' # NoGen => \A t \in Reporters, m \in Messages :
            t[2] = cur' /\ ReportsOn(t, m, {"save report"})' => m \notin InFlight(box')
  BY <1>0, <1>4, ReadyIs DEF AllInv, Gentle
<1>8. ReadyInv' BY <1>5, <1>6, <1>7, ReadyIs DEF ReadyInv, Waits, Offering
<1> QED BY <1>1, <1>2, <1>3, <1>8

\* A save that the runtime's report makes lets it forget the message, or send the prompt.
LEMMA ReportSaves ==
    ASSUME AllInv, StoreInv', NEW t \in Reporters, Save(t)
    PROVE  Rest'
<1>1. /\ at[t] \in SaveLabels /\ disk' = box /\ Goto(t, AfterSave(t))
      /\ UNCHANGED <<box, next, prompted, handed, tickVars, rep, drops, phase, queue, turn, cur>>
  BY DEF Save, storeVars, runVars, paneVars
<1>2. at[t] = "save report"
  <2>1. at[t] \in ReportLabels(t) BY TypesAre, ThreadsAre, LabelsAre DEF LabelInv
  <2>2. Home(t) \in {"idle", "pop"} BY DEF Home
  <2> QED BY <1>1, <2>1, <2>2 DEF ReportLabels, SaveLabels
<1>3. t[2] = cur /\ cur # NoGen BY <1>2, BeganIs
<1>4. /\ at'[t] = (IF rep[t].what = "began" THEN "prompt" ELSE "forget") /\ at'[Tick] = at[Tick]
      /\ \A u \in Threads : u # t => at'[u] = at[u]
  BY <1>1, <1>2, TypesAre, ThreadsAre DEF Goto, AfterSave
<1>5. Onward(t) BY <1>1, <1>2, <1>4 DEF Onward, Reporting
<1>6. /\ Shrinks /\ \A m \in Messages : Has(m)' <=> Has(m)
      /\ \A m \in Messages, p \in Places : IsAt(p, m)' <=> IsAt(p, m)
  BY <1>3, <1>5, OnwardIs
<1>7. Gentle BY <1>1, SaveIsGentle
<1>8. ASSUME Serving', NEW m \in Messages, NEW p \in Places, IsAt(p, m)' PROVE Waits(p, m)'
  <2>1. IsAt(p, m) /\ Serving BY <1>6, <1>8 DEF Shrinks
  <2>2. <<p[2], cur>> \in Reporters BY <1>3, PlacesAre, CurThreads DEF QueueIs, TurnIs, Kinds
  <2>3. CASE p[1] # "report" BY <1>1, <1>7, <2>1, <2>3, WaitsOn
  <2>4. CASE p[1] = "report" /\ <<p[2], cur>> # t
    <3>1. at'[<<p[2], cur>>] = at[<<p[2], cur>>] BY <1>4, <2>2, <2>4, ThreadsAre
    <3> QED BY <1>1, <1>7, <2>1, <3>1, WaitsOn
  <2>5. CASE p[1] = "report" /\ <<p[2], cur>> = t
    <3>1. ReportsOn(t, m, Reporting)
      <4>1. PICK k \in Kinds : p = <<"report", k>> BY <2>5, PlacesAre DEF QueueIs, TurnIs
      <4> QED BY <2>1, <2>5, <4>1, PlaceIs
    <3>2. at'[t] = "forget" BY <1>4, <3>1 DEF ReportsOn
    <3>3. m < next BY <1>2, <2>1, <2>5, ReadyIs DEF AllInv, Waits
    <3>4. m \notin InFlight(box) BY <1>2, <1>3, <3>1, ReadyIs DEF AllInv, ReportsOn
    <3>5. Ready(m)'
      <4>1. CASE m \in Pending(box) BY <1>1, <4>1 DEF Ready
      <4>2. CASE m \notin Pending(box)
        <5>1. m \notin Open(box) BY <3>4, <4>2, OpenIs
        <5>2. Settled(m)' BY <1>1, <3>3, <5>1 DEF Settled
        <5> QED BY <5>2 DEF Ready
      <4> QED BY <4>1, <4>2
    <3>6. m < next' BY <1>1, <3>3
    <3>7. at'[<<p[2], cur'>>] = "forget" BY <1>1, <2>5, <3>2
    <3> QED BY <2>5, <3>5, <3>6, <3>7 DEF Waits
  <2> QED BY <2>3, <2>4, <2>5
<1>9. \A u \in Reporters, m \in Messages :
            u[2] = cur /\ ReportsOn(u, m, {"save report"})' => ReportsOn(u, m, {"save report"})
  BY <1>1, <1>2, <1>4, ThreadsAre DEF ReportsOn
<1>10. OnceInv' /\ OwnInv' /\ LookInv' /\ ReadyInv'
  <2>1. \A i, j \in 1..Len(queue'[cur]) : queue'[cur][i] = queue'[cur][j] => i = j
    BY <1>1, <1>3, CurQueue DEF Apart
  <2>2. \A m \in Messages : Kept(m) BY <1>6 DEF Kept
  <2> QED BY <1>1, <1>3, <1>4, <1>6, <1>8, <1>9, <2>1, <2>2, RunStep
<1>11. Counts BY <1>1, SameCalls, CallsCount
<1>12. TurnGoes
  <2>1. cur # NoGen => turn[cur] \in Messages \cup {NoMail} /\ Loop(cur) \in Threads BY CurQueue, CurThreads, ThreadsAre
  <2>2. cur # NoGen => at'[Loop(cur)] = at[Loop(cur)] \/ at[Loop(cur)] = "save report" BY <1>2, <1>4, <2>1
  <2> QED BY <1>1, <2>1, <2>2 DEF TurnGoes
<1> QED BY <1>10, <1>11, <1>12, CountKeeps DEF Rest

\* And any other save lets its goroutine go on.
LEMMA OthersSave ==
    ASSUME AllInv, StoreInv', NEW t \in Threads \ Reporters, Save(t)
    PROVE  Rest'
<1>1. /\ at[t] \in SaveLabels /\ disk' = box /\ Goto(t, AfterSave(t))
      /\ UNCHANGED <<box, next, prompted, handed, tickVars, rep, drops, phase, queue, turn, cur>>
  BY DEF Save, storeVars, runVars, paneVars
<1>2. \A u \in Threads : u # t => at'[u] = at[u] BY <1>1, TypesAre DEF Goto
<1>3. Still BY <1>1, <1>2, ThreadsAre DEF Still
<1>4. Shrinks /\ (\A m \in Messages : (Fresh(m)' <=> Fresh(m)) /\ (Has(m)' <=> Has(m))) /\ (Serving' <=> Serving)
  BY <1>3, StillIs
<1>5. Gentle BY <1>1, SaveIsGentle
<1>6. CountInv' BY <1>1, <1>3, SameCalls, CallsCount, StillTurns, CountKeeps
<1>7. CASE t # Tick
  <2>1. at'[Tick] = at[Tick] BY <1>2, <1>7, ThreadsAre
  <2>2. OwnInv' /\ LookInv' /\ TickWaits /\ todo' \subseteq Messages BY <1>1, <1>4, <2>1, StillOwn
  <2> QED BY <1>3, <1>5, <1>6, <2>2, StillOnce, StillReady DEF Rest
<1>8. CASE t = Tick
  <2>1. at[Tick] \in TickLabels BY TypesAre, ThreadsAre, LabelsAre DEF LabelInv
  <2>2. at'[Tick] = AfterSave(Tick) BY <1>1, <1>8, TypesAre, ThreadsAre DEF Goto
  <2>3. \/ at[Tick] = "save interrupt" /\ at'[Tick] = "forget"
        \/ at[Tick] = "save fail" /\ at'[Tick] = "offer"
        \/ at[Tick] = "save reroute" /\ at'[Tick] = "cleanup"
    BY <1>1, <1>8, <2>1, <2>2 DEF SaveLabels, TickLabels, AfterSave
  <2>4. OwnInv'
    <3>1. \A m \in Messages : handed'[m] = handed[m] BY <1>1
    <3>2. at[Tick] # "idle" /\ copy' = copy /\ \A m \in Messages : handed'[m] \in {handed[m], NoGen, copy}
      BY <1>1, <2>3 DEF tickVars
    <3> QED BY <1>4, <3>1, <3>2, OwnKeeps
  <2>5. LookInv'
    <3>1. CASE at'[Tick] # "forget" BY <2>3, <3>1 DEF LookInv
    <3>2. CASE at'[Tick] = "forget"
      <4>1. at[Tick] = "save interrupt" BY <2>3, <3>2
      <4>2. todo \subseteq Messages BY AtHand
      <4>3. ~live' => (copy' # NoGen => phase'[copy'] # "live") /\ \A m \in todo' : ~Fresh(m)'
        BY <1>1, <1>4, <4>1, <4>2 DEF AllInv, LookInv, tickVars
      <4>4. live' => handed'[First(todo')] # copy' BY <1>1, <4>1 DEF AllInv, LookInv, tickVars
      <4> QED BY <3>2, <4>3, <4>4 DEF LookInv
    <3> QED BY <3>1, <3>2
  <2>6. TickWaits /\ todo' \subseteq Messages
    <3>1. todo' = todo /\ copy' = copy /\ todo \subseteq Messages BY <1>1, AtHand DEF tickVars
    <3> QED BY <1>4, <2>3, <3>1 DEF TickWaits, Offering
  <2> QED BY <1>3, <1>5, <1>6, <2>4, <2>5, <2>6, StillOnce, StillReady DEF Rest
<1> QED BY <1>7, <1>8

\* A new message is queued or unread, and makes room only of what is finished.
LEMMA PutIsGentle ==
    ASSUME AllInv, box' = Put(box, next, route), next' = next + 1, disk' = disk
    PROVE  /\ Gentle
           /\ \A m \in Messages : m < next /\ m \in Open(box') => m \in Open(box) /\ box[m].attempts <= box'[m].attempts
<1>1. next \in Nat /\ next' \in Nat /\ next' >= next BY TypesAre
<1>2. \A m \in MakeRoom(box) : m \in Messages /\ Finished(box[m]) BY DEF MakeRoom, Spare, Oldest, Held
<1>3. ASSUME NEW m \in Messages, m # next
      PROVE  box'[m] = box[m] \/ (box'[m] = NoMessage /\ Finished(box[m]))
  BY <1>2, <1>3 DEF Put
<1>4. ASSUME NEW m \in Messages, (m \in Open(box') /\ m # next) \/ m \in InFlight(box')
      PROVE  box'[m] = box[m] /\ m # next
  <2>1. next \in Messages => box'[next].state = route BY DEF Put
  <2>2. route # "delivered" BY DEF AllInv, StoreInv, Routed
  <2>3. m # next BY <1>4, <2>1, <2>2, OpenIs
  <2>4. box'[m] # NoMessage BY <1>4, OpenIs, NoMessageIs
  <2> QED BY <1>3, <2>3, <2>4
<1>5. ASSUME NEW m \in Messages, m \in Open(box) PROVE box'[m] = box[m] /\ m # next
  <2>1. m # next BY <1>1, <1>5, TypesAre
  <2>2. ~Finished(box[m]) BY <1>5, OpenIs DEF Finished
  <2> QED BY <1>3, <2>1, <2>2
<1>6. ASSUME NEW m \in Messages, Settled(m) PROVE Settled(m)'
  <2>1. m # next /\ m < next' BY <1>1, <1>6, TypesAre DEF Settled
  <2>2. m \notin Open(box') BY <1>4, <1>6, <2>1, OpenIs DEF Settled
  <2> QED BY <1>6, <2>1, <2>2 DEF Settled
<1>7. ASSUME NEW m \in Messages PROVE Ready(m) => Ready(m)'
  <2>1. m \in Pending(box) => m \in Pending(box') BY <1>5, OpenIs
  <2> QED BY <1>6, <2>1 DEF Ready
<1>8. ASSUME NEW m \in Messages PROVE m \in Open(box) => m \in Open(box')
  BY <1>5, OpenIs
<1>9. \A m \in Messages : m \in InFlight(box') => m \in InFlight(box) BY <1>4, OpenIs
<1>10. Gentle BY <1>1, <1>6, <1>7, <1>8, <1>9 DEF Gentle
<1>11. ASSUME NEW m \in Messages, m < next, m \in Open(box')
       PROVE  m \in Open(box) /\ box[m].attempts <= box'[m].attempts
  <2>1. m # next BY <1>1, <1>11, TypesAre
  <2>2. box'[m] = box[m] BY <1>4, <1>11, <2>1
  <2>3. box[m].attempts \in Nat BY TypesAre
  <2> QED BY <1>11, <2>2, <2>3, OpenIs
<1> QED BY <1>10, <1>11

\* The sender, the reader and the off switch leave the runtimes alone.
LEMMA SendersRest ==
    ASSUME AllInv, StoreInv', SendRouted \/ SendPut \/ (\E m \in Messages : ReadMail(m)) \/ Switch
    PROVE  Rest'
<1>1. /\ UNCHANGED <<disk, prompted, handed, tickVars, rep, drops, phase, queue, turn, cur>>
      /\ \E t \in {Sender, Reader} : UNCHANGED at \/ \E l : Goto(t, l)
  BY DEF SendRouted, SendPut, ReadMail, Switch, runVars, paneVars, ownerFrame, diskVars, Call
<1>2. \A u \in Reporters \cup {Tick} : at'[u] = at[u] BY <1>1, TypesAre, ThreadsAre DEF Goto
<1>3. Still BY <1>1, <1>2 DEF Still
<1>4. Shrinks /\ \A m \in Messages : Has(m) => Has(m)' BY <1>3, StillIs
<1>5. OwnInv' /\ LookInv' /\ TickWaits /\ todo' \subseteq Messages BY <1>1, <1>2, <1>4, StillOwn
<1>6. ASSUME Gentle, Counts PROVE Rest'
  BY <1>3, <1>5, <1>6, StillOnce, StillReady, StillTurns, CountKeeps DEF Rest
<1>7. CASE SendRouted \/ Switch
  <2>1. UNCHANGED <<box, next>> BY <1>7 DEF SendRouted, Switch, storeVars, ownerFrame
  <2>2. Gentle BY <1>1, <2>1, SaveIsGentle
  <2> QED BY <1>1, <1>6, <2>1, <2>2, SameCalls, CallsCount
<1>8. CASE SendPut
  <2>1. CASE CanPut(box)
    <3>1. box' = Put(box, next, route) /\ next' = next + 1 BY <1>8, <2>1 DEF SendPut
    <3>2. next' \in Nat /\ next' >= next BY <3>1, TypesAre
    <3>3. Gentle /\ Counts BY <1>1, <3>1, <3>2, PutIsGentle, StoreGoes DEF Counts
    <3> QED BY <1>6, <3>3
  <2>2. CASE ~CanPut(box)
    <3>1. UNCHANGED <<box, next>> BY <1>8, <2>2 DEF SendPut, storeVars
    <3>2. Gentle BY <1>1, <3>1, SaveIsGentle
    <3> QED BY <1>1, <1>6, <3>1, <3>2, SameCalls, CallsCount
  <2> QED BY <2>1, <2>2
<1>9. ASSUME NEW m \in Messages, ReadMail(m) PROVE Rest'
  <2>1. kind = "terminal" /\ box' = Read(box, m) /\ next' = next BY <1>9 DEF ReadMail, Call
  <2>2. cur' = NoGen BY <1>1, <2>1 DEF AllInv, CalmInv
  <2>3. Calls(box, box') BY <2>1, TypesAre, OthersCount
  <2>4. CountInv' BY <1>1, <1>3, <2>1, <2>3, CallsCount, StillTurns, CountKeeps
  <2> QED BY <1>5, <2>2, <2>4, NoRuntime DEF Rest
<1> QED BY <1>7, <1>8, <1>9

\* A goroutine that has reported has no message any more.
Leaves(t) ==
    /\ UNCHANGED <<cur, queue, turn, phase, drops>>
    /\ rep' = [rep EXCEPT ![t] = NoReport]
    /\ \A u \in Threads : u # t => at'[u] = at[u]
    /\ at'[t] \notin {"look", "apply"}

\* The others have theirs.
LEMMA LeavesIs ==
    ASSUME AllInv, NEW t \in Reporters, t[2] = cur, Leaves(t)
    PROVE  /\ Shrinks /\ (Serving' <=> Serving) /\ cur # NoGen
           /\ \A m \in Messages, p \in Places : IsAt(p, m)' <=> IsAt(p, m) /\ p # <<"report", t[1]>>
           /\ \A p \in Places : p[1] = "report" /\ p # <<"report", t[1]>> => at'[<<p[2], cur>>] = at[<<p[2], cur>>]
           /\ \A u \in Reporters, m \in Messages :
                ReportsOn(u, m, {"save report"})' => u # t /\ ReportsOn(u, m, {"save report"})
           /\ OnceInv'
<1>1. cur' = cur /\ (Serving' <=> Serving) /\ cur # NoGen BY CurThreads DEF Leaves, Serving
<1>2. rep'[t] = NoReport /\ \A u \in Reporters : u # t => rep'[u] = rep[u] /\ at'[u] = at[u]
  BY TypesAre, RunTypeIs, ThreadsAre DEF Leaves
<1>3. t[1] \in Kinds /\ t = <<t[1], cur>> BY CurThreads
<1>4. NoMail \notin Messages /\ NoReport.of = NoMail BY MoreBounds DEF NoReport
<1>5. ASSUME NEW p \in Places, p[1] = "report", p # <<"report", t[1]>>
      PROVE  <<p[2], cur>> \in Reporters /\ <<p[2], cur>> # t
  <2>1. PICK k \in Kinds : p = <<"report", k>> BY <1>5, PlacesAre DEF QueueIs, TurnIs
  <2> QED BY <1>1, <1>3, <1>5, <2>1, CurThreads
<1>6. ASSUME NEW m \in Messages, NEW p \in Places PROVE IsAt(p, m)' <=> IsAt(p, m) /\ p # <<"report", t[1]>>
  <2>1. CASE p \in {QueueIs, TurnIs}
    <3>1. p # <<"report", t[1]>> BY <2>1 DEF QueueIs, TurnIs
    <3> QED BY <2>1, <3>1, PlaceIs DEF Leaves
  <2>2. ASSUME NEW k \in Kinds, p = <<"drops", k>> PROVE IsAt(p, m)' <=> IsAt(p, m) /\ p # <<"report", t[1]>>
    BY <2>2, PlaceIs DEF Leaves
  <2>3. ASSUME NEW k \in Kinds, p = <<"report", k>> PROVE IsAt(p, m)' <=> IsAt(p, m) /\ p # <<"report", t[1]>>
    <3>1. IsAt(<<"report", k>>, m) <=>
             rep[<<k, cur>>].of = m /\ rep[<<k, cur>>].what # "began" /\ at[<<k, cur>>] \in Reporting
      BY PlaceIs DEF ReportsOn
    <3>2. IsAt(<<"report", k>>, m)' <=>
             rep'[<<k, cur>>].of = m /\ rep'[<<k, cur>>].what # "began" /\ at'[<<k, cur>>] \in Reporting
      BY <1>1, PlaceIs
    <3>3. CASE k = t[1] BY <1>2, <1>3, <1>4, <2>3, <3>2, <3>3
    <3>4. CASE k # t[1]
      <4>1. p # <<"report", t[1]>> /\ p[1] = "report" /\ p[2] = k BY <2>3, <3>4
      <4>2. rep'[<<k, cur>>] = rep[<<k, cur>>] /\ at'[<<k, cur>>] = at[<<k, cur>>] BY <1>2, <1>5, <4>1
      <4>3. IsAt(<<"report", k>>, m)' <=> IsAt(<<"report", k>>, m) BY <3>1, <3>2, <4>2
      <4> QED BY <2>3, <4>1, <4>3
    <3> QED BY <3>3, <3>4
  <2> QED BY <2>1, <2>2, <2>3, PlacesAre
<1>7. \A m \in Messages : Has(m)' => Has(m) BY <1>1, <1>6 DEF Has
<1>8. ASSUME NEW m \in Messages, Fresh(m)' PROVE Fresh(m)
  <2>1. Begins(m)' => Begins(m)
    <3>1. CASE Loop(cur) = t BY <1>1, <3>1 DEF Leaves, Begins
    <3>2. CASE Loop(cur) # t
      <4>1. rep'[Loop(cur)] = rep[Loop(cur)] /\ at'[Loop(cur)] = at[Loop(cur)] BY <1>1, <1>2, <3>2, CurThreads
      <4> QED BY <1>1, <4>1 DEF Leaves, Begins
    <3> QED BY <3>1, <3>2
  <2>2. queue' = queue BY DEF Leaves
  <2> QED BY <1>1, <1>8, <2>1, <2>2 DEF Fresh
<1>9. \A u \in Reporters, m \in Messages :
         ReportsOn(u, m, {"save report"})' => u # t /\ ReportsOn(u, m, {"save report"})
  BY <1>2, <1>4 DEF ReportsOn
<1>10. OnceInv'
  <2>1. queue' = queue BY DEF Leaves
  <2>2. \A m \in Messages : Kept(m) BY <1>6 DEF Kept
  <2> QED BY <1>1, <2>1, <2>2, CurQueue, OnceKeeps DEF Apart
<1> QED BY <1>1, <1>2, <1>5, <1>6, <1>7, <1>8, <1>9, <1>10 DEF Shrinks

\* A turn's loop is at its report, so that another report means that there is no turn.
LEMMA NoTurn ==
    ASSUME AllInv, NEW t \in Reporters, t[2] = cur,
           at[t] \in {"look", "apply", "save report"} => rep[t].what # "began" \/ rep[t].of = NoMail,
           at[t] \notin {"prompt", "wait"}
    PROVE  cur # NoGen /\ turn[cur] # NoMail => t # Loop(cur)
<1> SUFFICES ASSUME cur # NoGen, turn[cur] # NoMail, t = Loop(cur) PROVE FALSE
  OBVIOUS
<1>1. at[t] \in {"look", "apply", "save report"} /\ rep[t].what = "began" BY BeganIs
<1>2. rep[t].of = NoMail BY <1>1
<1> QED BY <1>1, <1>2, BeganIs

\* What the other goroutines do not touch goes on.
LEMMA OtherTurn ==
    ASSUME AllInv, NEW t \in Reporters, turn' = turn, \A u \in Threads : u # t => at'[u] = at[u],
           t # Loop(cur) \/ turn[cur] = NoMail \/ at'[t] \notin {"prompt", "save report"}
    PROVE  TurnGoes
<1>1. cur # NoGen => turn[cur] \in Messages \cup {NoMail} /\ Loop(cur) \in Threads BY CurQueue, CurThreads, ThreadsAre
<1>2. cur # NoGen /\ t # Loop(cur) => at'[Loop(cur)] = at[Loop(cur)] BY <1>1
<1> QED BY <1>1, <1>2 DEF TurnGoes

\* The look at the generation: a report of what the runtime had is heard while it is live.
LEMMA LookRest ==
    ASSUME AllInv, StoreInv', NEW t \in Reporters, ReportLook(t)
    PROVE  Rest'
<1>1. /\ at[t] = "look" /\ Goto(t, IF Heard(t) THEN "apply" ELSE AfterReport(t))
      /\ rep' = IF Heard(t) THEN rep ELSE [rep EXCEPT ![t] = NoReport]
      /\ UNCHANGED <<box, next, disk, handed, prompted, tickVars, drops, phase, queue, turn, cur>>
  BY DEF ReportLook, runVars, reportFrame, paneVars, diskVars
<1>2. t[2] = cur /\ cur # NoGen BY <1>1, BeganIs
<1>3. /\ at'[t] = (IF Heard(t) THEN "apply" ELSE AfterReport(t)) /\ at'[Tick] = at[Tick]
      /\ \A u \in Threads : u # t => at'[u] = at[u]
  BY <1>1, TypesAre, ThreadsAre DEF Goto
<1>4. Counts BY <1>1, SameCalls, CallsCount
<1>5. Gentle BY <1>1, SaveIsGentle
<1>6. \A i, j \in 1..Len(queue'[cur]) : queue'[cur][i] = queue'[cur][j] => i = j
  BY <1>1, <1>2, CurQueue DEF Apart
<1>7. CASE Heard(t)
  <2>1. Onward(t) BY <1>1, <1>3, <1>7 DEF Onward, Reporting
  <2>2. /\ Shrinks /\ \A m \in Messages : Has(m)' <=> Has(m)
        /\ \A m \in Messages, p \in Places : IsAt(p, m)' <=> IsAt(p, m)
    BY <1>2, <2>1, OnwardIs
  <2>3. ASSUME Serving', NEW m \in Messages, NEW p \in Places, IsAt(p, m)' PROVE Waits(p, m)'
    <3>1. IsAt(p, m) /\ Serving BY <2>2, <2>3 DEF Shrinks
    <3>2. <<p[2], cur>> \in Reporters BY <1>2, PlacesAre, CurThreads DEF QueueIs, TurnIs, Kinds
    <3>3. at'[<<p[2], cur>>] = at[<<p[2], cur>>] \/ {at[<<p[2], cur>>], at'[<<p[2], cur>>]} \cap {"save report", "forget"} = {}
      BY <1>1, <1>3, <1>7, <3>2, ThreadsAre
    <3> QED BY <1>1, <1>5, <3>1, <3>3, WaitsOn
  <2>4. \A u \in Reporters, m \in Messages :
            u[2] = cur /\ ReportsOn(u, m, {"save report"})' => ReportsOn(u, m, {"save report"})
    BY <1>1, <1>3, <1>7, ThreadsAre DEF ReportsOn
  <2>5. OnceInv' /\ OwnInv' /\ LookInv' /\ ReadyInv'
    <3>1. \A m \in Messages : Kept(m) BY <2>2 DEF Kept
    <3> QED BY <1>1, <1>2, <1>3, <1>6, <2>2, <2>3, <2>4, <3>1, RunStep
  <2>6. TurnGoes BY <1>1, <1>3, <1>7, OtherTurn
  <2> QED BY <1>4, <2>5, <2>6, CountKeeps DEF Rest
<1>8. CASE ~Heard(t)
  <2>1. Leaves(t)
    <3>1. AfterReport(t) \in {"prompt", "idle", "pop"} BY DEF AfterReport, Home
    <3> QED BY <1>1, <1>3, <1>8, <3>1 DEF Leaves
  <2>2. /\ Shrinks /\ (Serving' <=> Serving)
        /\ \A m \in Messages, p \in Places : IsAt(p, m)' <=> IsAt(p, m) /\ p # <<"report", t[1]>>
        /\ \A p \in Places : p[1] = "report" /\ p # <<"report", t[1]>> => at'[<<p[2], cur>>] = at[<<p[2], cur>>]
        /\ \A u \in Reporters, m \in Messages :
                ReportsOn(u, m, {"save report"})' => u # t /\ ReportsOn(u, m, {"save report"})
    BY <1>2, <2>1, LeavesIs
  <2>3. rep[t].what # "began" \/ rep[t].of = NoMail
    <3> SUFFICES ASSUME rep[t].what = "began", rep[t].of # NoMail PROVE FALSE
      OBVIOUS
    <3>1. rep[t].of \in Messages /\ t = Loop(cur) /\ turn[cur] = rep[t].of BY <1>2, BeganIs
    <3>2. Fresh(rep[t].of) BY <1>1, <1>2, <3>1 DEF Fresh, Begins
    <3>3. handed[rep[t].of] = cur BY <3>1, <3>2, HisIs
    <3> QED BY <1>2, <1>8, <3>3 DEF Heard
  <2>4. ASSUME Serving, NEW m \in Messages PROVE ~IsAt(<<"report", t[1]>>, m)
    <3> SUFFICES ASSUME IsAt(<<"report", t[1]>>, m) PROVE FALSE
      OBVIOUS
    <3>1. t = <<t[1], cur>> /\ <<"report", t[1]>> \in Places BY <1>2, CurThreads, PlacesAre
    <3>2. rep[t].of = m BY <3>1, PlaceIs DEF ReportsOn
    <3>3. Has(m) BY <1>2, <3>1 DEF Has
    <3>4. handed[m] = cur BY <2>4, <3>3, HisIs
    <3> QED BY <1>2, <1>8, <3>2, <3>4 DEF Heard
  <2>5. ASSUME Serving', NEW m \in Messages, NEW p \in Places, IsAt(p, m)' PROVE Waits(p, m)'
    <3>1. IsAt(p, m) /\ Serving /\ p # <<"report", t[1]>> BY <2>2, <2>5
    <3>2. p[1] = "report" => at'[<<p[2], cur>>] = at[<<p[2], cur>>] BY <2>2, <3>1
    <3> QED BY <1>1, <1>5, <3>1, <3>2, WaitsOn
  <2>6. Serving' => \A m \in Messages : Has(m) => Has(m)'
    <3>1. ASSUME Serving', NEW m \in Messages, Has(m) PROVE Has(m)'
      <4>1. PICK p \in Places : IsAt(p, m) BY <3>1 DEF Has
      <4>2. p # <<"report", t[1]>> BY <2>2, <2>4, <3>1, <4>1
      <4>3. IsAt(p, m)' BY <2>2, <4>1, <4>2
      <4> QED BY <1>1, <1>2, <4>3 DEF Has
    <3> QED BY <3>1
  <2>7. OnceInv' /\ OwnInv' /\ LookInv' /\ ReadyInv'
    <3>1. \A m \in Messages : Kept(m) BY <2>2 DEF Kept
    <3> QED BY <1>1, <1>2, <1>3, <1>6, <2>2, <2>5, <2>6, <3>1, RunStep
  <2>8. TurnGoes
    <3>1. turn[cur] # NoMail => t # Loop(cur) BY <1>1, <1>2, <2>3, NoTurn
    <3> QED BY <1>1, <1>3, <3>1, OtherTurn
  <2> QED BY <1>4, <2>7, <2>8, CountKeeps DEF Rest
<1> QED BY <1>7, <1>8

\* No message is delivered, and none ended.
LEMMA NoMailIs ==
    ASSUME AllInv, NEW m, m \notin Messages, NEW handled \in BOOLEAN
    PROVE  Deliver(box, m) = box /\ End(box, m, handled) = box
<1>1. box \in [Messages -> Message] BY TypesAre
<1>2. \A x : [box EXCEPT ![m] = x] = box BY <1>1
<1> QED BY <1>2 DEF Deliver, End

\* A call that touches one message leaves the others as they were.
LEMMA AsideIs ==
    ASSUME AllInv, UNCHANGED <<next, disk>>, NEW n \in Messages, Aside(box, box', n), NEW m \in Messages, m # n
    PROVE  /\ Ready(m)' <=> Ready(m)
           /\ (m \in Open(box) \/ Settled(m))' <=> m \in Open(box) \/ Settled(m)
           /\ m \in InFlight(box') <=> m \in InFlight(box)
<1>1. box'[m] = box[m] BY DEF Aside
<1>2. (m \in Open(box') <=> m \in Open(box)) /\ (m \in Pending(box') <=> m \in Pending(box))
      /\ (m \in InFlight(box') <=> m \in InFlight(box))
  BY <1>1, OpenIs
<1> QED BY <1>2 DEF Ready, Settled

\* What the apply of a report leaves to show: its message.
LEMMA ApplyIs ==
    ASSUME AllInv, NEW t \in Reporters, ReportApply(t)
    PROVE  /\ at[t] = "apply" /\ t[2] = cur /\ cur # NoGen /\ box' = Applied(t)
           /\ UNCHANGED <<next, disk, handed, prompted, tickVars, rep, drops, phase, queue, turn, cur>>
           /\ at'[t] = IF box' # box THEN "save report" ELSE IF rep[t].what = "began" THEN "prompt" ELSE "forget"
           /\ at'[Tick] = at[Tick] /\ \A u \in Threads : u # t => at'[u] = at[u]
           /\ Onward(t) /\ OwnInv' /\ LookInv' /\ OnceInv' /\ Shrinks /\ (Serving' <=> Serving)
           /\ \A m \in Messages : Has(m)' <=> Has(m)
           /\ \A m \in Messages, p \in Places : IsAt(p, m)' <=> IsAt(p, m)
<1>1. /\ at[t] = "apply" /\ box' = Applied(t)
      /\ Goto(t, IF box' # box THEN "save report" ELSE IF rep[t].what = "began" THEN "prompt" ELSE "forget")
      /\ UNCHANGED <<next, disk, handed, prompted, tickVars, rep, drops, phase, queue, turn, cur>>
  BY DEF ReportApply, Call, runVars, reportFrame, paneVars, diskVars
<1>2. t[2] = cur /\ cur # NoGen BY <1>1, BeganIs
<1>3. /\ at'[t] = IF box' # box THEN "save report" ELSE IF rep[t].what = "began" THEN "prompt" ELSE "forget"
      /\ at'[Tick] = at[Tick] /\ \A u \in Threads : u # t => at'[u] = at[u]
  BY <1>1, TypesAre, ThreadsAre DEF Goto
<1>4. Onward(t) BY <1>1, <1>3 DEF Onward, Reporting
<1>5. /\ Shrinks /\ (Serving' <=> Serving) /\ OnceInv' /\ \A m \in Messages : Has(m)' <=> Has(m)
      /\ \A m \in Messages, p \in Places : IsAt(p, m)' <=> IsAt(p, m)
  BY <1>2, <1>4, OnwardIs
<1>6. OwnInv' /\ LookInv' BY <1>1, <1>3, <1>5, StillOwn
<1> QED BY <1>1, <1>2, <1>3, <1>4, <1>5, <1>6

\* The readiness after an apply: what is to show of each place of each message, and of
\* the goroutine itself.
LEMMA ApplyReady ==
    ASSUME AllInv, NEW t \in Reporters, ReportApply(t),
           \A m \in Messages : Fresh(m)' => Ready(m)',
           Serving => \A m \in Messages, p \in Places : IsAt(p, m) => Waits(p, m)',
           \A m \in Messages : Ready(m) => Ready(m)' \/ Has(m),
           \A u \in Reporters, m \in Messages : u[2] = cur /\ ReportsOn(u, m, {"save report"})' => m \notin InFlight(box')
    PROVE  ReadyInv'
<1>1. /\ UNCHANGED <<tickVars, cur>> /\ at'[Tick] = at[Tick] /\ (Serving' <=> Serving)
      /\ \A m \in Messages : Has(m)' <=> Has(m)
      /\ \A m \in Messages, p \in Places : IsAt(p, m)' <=> IsAt(p, m)
  BY ApplyIs
<1>2. Serving' => \A m \in Messages, p \in Places : IsAt(p, m)' => Waits(p, m)' BY <1>1
<1>3. Serving' /\ at'[Tick] \in Offering /\ copy' = cur' => \A m \in todo' : Ready(m)' \/ Has(m)'
  <2> SUFFICES ASSUME Serving', at'[Tick] \in Offering, copy' = cur', NEW m \in todo' PROVE Ready(m)' \/ Has(m)'
    OBVIOUS
  <2>1. m \in todo /\ m \in Messages /\ at[Tick] \in Offering /\ copy = cur BY <1>1, TypesAre DEF tickVars, TickType
  <2>2. Ready(m) \/ Has(m) BY <1>1, <2>1, ReadyIs DEF AllInv
  <2> QED BY <1>1, <2>1, <2>2
<1>4. cur' # NoGen => \A u \in Reporters, m \in Messages :
            u[2] = cur' /\ ReportsOn(u, m, {"save report"})' => m \notin InFlight(box')
  BY <1>1
<1> QED BY <1>2, <1>3, <1>4, ReadyIs DEF ReadyInv, Waits, Offering

\* A goroutine of the runtime at a report place is the one there.
LEMMA ReportPlace ==
    ASSUME AllInv, NEW t \in Reporters, t[2] = cur, NEW m \in Messages, NEW p \in Places, IsAt(p, m)
    PROVE  /\ p = <<"report", t[1]>> => ReportsOn(t, m, Reporting)
           /\ p[1] = "report" /\ p # <<"report", t[1]>> => <<p[2], cur>> \in Reporters /\ <<p[2], cur>> # t
           /\ p = <<"report", t[1]>> => <<p[2], cur>> = t
           /\ <<"report", t[1]>> \in Places /\ QueueIs \in Places /\ TurnIs \in Places
<1>1. t[1] \in Kinds /\ t = <<t[1], cur>> /\ cur # NoGen BY CurThreads
<1>2. ASSUME p[1] = "report", p # <<"report", t[1]>> PROVE <<p[2], cur>> \in Reporters /\ <<p[2], cur>> # t
  <2>1. PICK k \in Kinds : p = <<"report", k>> BY <1>2, PlacesAre DEF QueueIs, TurnIs
  <2> QED BY <1>1, <1>2, <2>1, CurThreads
<1>3. p = <<"report", t[1]>> => ReportsOn(t, m, Reporting)
  <2>1. IsAt(<<"report", t[1]>>, m) <=> ReportsOn(<<t[1], cur>>, m, Reporting) BY PlaceIs
  <2> QED BY <1>1, <2>1
<1>4. p = <<"report", t[1]>> => <<p[2], cur>> = t BY <1>1
<1>5. <<"report", t[1]>> \in Places /\ QueueIs \in Places /\ TurnIs \in Places BY <1>1, PlacesAre
<1> QED BY <1>2, <1>3, <1>4, <1>5

\* The report that a turn ended ends it.
LEMMA EndRest ==
    ASSUME AllInv, StoreInv', NEW t \in Reporters, ReportApply(t), rep[t].what # "began"
    PROVE  ReadyInv' /\ CountInv'
<1>1. /\ at[t] = "apply" /\ t[2] = cur /\ cur # NoGen /\ box' = Applied(t)
      /\ UNCHANGED <<next, disk, prompted, tickVars, rep, drops, phase, queue, turn, cur>>
      /\ at'[t] = (IF box' # box THEN "save report" ELSE "forget")
      /\ \A u \in Threads : u # t => at'[u] = at[u]
      /\ Shrinks
  BY ApplyIs
<1>2. PICK handled \in BOOLEAN : box' = End(box, rep[t].of, handled) BY <1>1 DEF Applied
<1>3. /\ Calls(box, box') /\ Ends(box, box')
      /\ rep[t].of \in Messages => /\ Aside(box, box', rep[t].of) /\ rep[t].of \notin InFlight(box')
                                   /\ box' = box => rep[t].of \notin InFlight(box)
  <2>1. CASE rep[t].of \in Messages BY <1>2, <2>1, EndCounts, TypesAre
  <2>2. CASE rep[t].of \notin Messages BY <1>2, <2>2, NoMailIs, SameCalls
  <2> QED BY <2>1, <2>2
<1>4. rep[t].of \notin Messages => box' = box BY <1>2, NoMailIs
<1>5. CountInv'
  <2>1. turn[cur] # NoMail => t # Loop(cur) BY <1>1, NoTurn
  <2>2. TurnGoes BY <1>1, <2>1, OtherTurn
  <2> QED BY <1>1, <1>3, <2>2, CallsCount, CountKeeps
\* Its message is in no other place.
<1>6. ASSUME NEW m \in Messages, rep[t].of = m
      PROVE  ~Fresh(m) /\ Has(m) /\ \A p \in Places : IsAt(p, m) => p = <<"report", t[1]>>
  <2>0. t = <<t[1], cur>> /\ t[1] \in Kinds BY <1>1, CurThreads
  <2>1. ReportsOn(t, m, Reporting) BY <1>1, <1>6 DEF ReportsOn, Reporting
  <2>2. IsAt(<<"report", t[1]>>, m) /\ <<"report", t[1]>> \in Places
    <3>1. IsAt(<<"report", t[1]>>, m) <=> ReportsOn(<<t[1], cur>>, m, Reporting) BY PlaceIs
    <3> QED BY <2>0, <2>1, <3>1, PlacesAre
  <2>3. \A p \in Places : IsAt(p, m) => p = <<"report", t[1]>> BY <1>1, <2>2 DEF AllInv, OnceInv
  <2>4. ~IsAt(QueueIs, m) /\ ~IsAt(TurnIs, m) BY <2>3, PlacesAre DEF QueueIs, TurnIs
  <2> QED BY <1>1, <2>2, <2>3, <2>4, PlaceIs DEF Fresh, Begins, Has
<1>7. ASSUME NEW m \in Messages, rep[t].of # m
      PROVE  /\ Ready(m)' <=> Ready(m)
             /\ (m \in Open(box) \/ Settled(m))' <=> m \in Open(box) \/ Settled(m)
  <2>1. CASE rep[t].of \in Messages BY <1>1, <1>3, <1>7, <2>1, AsideIs
  <2>2. CASE rep[t].of \notin Messages BY <1>1, <1>4, <2>2 DEF Ready, Settled
  <2> QED BY <2>1, <2>2
<1>8. \A m \in Messages : Fresh(m)' => Ready(m)'
  <2> SUFFICES ASSUME NEW m \in Messages, Fresh(m)' PROVE Ready(m)'
    OBVIOUS
  <2>1. Fresh(m) BY <1>1 DEF Shrinks
  <2>2. rep[t].of # m BY <1>6, <2>1
  <2> QED BY <1>7, <2>1, <2>2, ReadyIs DEF AllInv
<1>9. ASSUME Serving, NEW m \in Messages, NEW p \in Places, IsAt(p, m) PROVE Waits(p, m)'
  <2>1. Waits(p, m) BY <1>9, ReadyIs DEF AllInv
  <2>2. CASE p = <<"report", t[1]>>
    <3>1. rep[t].of = m /\ <<p[2], cur>> = t BY <1>1, <1>9, <2>2, ReportPlace DEF ReportsOn
    <3>2. m \in Open(box) \/ Settled(m) BY <1>1, <2>1, <3>1 DEF Waits
    <3>3. m < next'
      <4>1. m \in Nat /\ next \in Nat /\ (m >= next => m \notin Open(box)) BY TypesAre
      <4>2. m < next BY <3>2, <4>1 DEF Settled
      <4> QED BY <1>1, <4>2
    <3>4. ASSUME at'[t] = "forget" PROVE Ready(m)'
      <4>1. box' = box /\ m \notin InFlight(box) BY <1>1, <1>3, <3>1, <3>4
      <4>2. m \in Pending(box) \/ Settled(m) BY <3>2, <4>1, OpenIs
      <4>3. Pending(box') = Pending(box) /\ (Settled(m)' <=> Settled(m)) BY <1>1, <4>1 DEF Settled
      <4> QED BY <4>2, <4>3 DEF Ready
    <3>5. at'[<<p[2], cur'>>] = at'[t] BY <1>1, <3>1
    <3>6. p[1] = "report" /\ at'[t] \in {"save report", "forget"} BY <1>1, <2>2
    <3> QED BY <3>3, <3>4, <3>5, <3>6 DEF Waits
  <2>3. CASE p # <<"report", t[1]>>
    <3>1. rep[t].of # m BY <1>6, <1>9, <2>3
    <3>2. p[1] = "report" => at'[<<p[2], cur'>>] = at[<<p[2], cur>>]
      <4>1. p[1] = "report" => <<p[2], cur>> \in Reporters /\ <<p[2], cur>> # t BY <1>1, <1>9, <2>3, ReportPlace
      <4> QED BY <1>1, <4>1, ThreadsAre
    <3>3. /\ Ready(m)' <=> Ready(m)
          /\ (m \in Open(box) \/ Settled(m))' <=> m \in Open(box) \/ Settled(m)
      BY <1>7, <3>1
    <3> QED BY <1>1, <2>1, <3>2, <3>3 DEF Waits
  <2> QED BY <2>2, <2>3
<1>10. \A m \in Messages : Ready(m) => Ready(m)' \/ Has(m)
  <2> SUFFICES ASSUME NEW m \in Messages, Ready(m), ~Has(m) PROVE Ready(m)'
    OBVIOUS
  <2>1. rep[t].of # m BY <1>6
  <2> QED BY <1>7, <2>1
<1>11. ASSUME NEW u \in Reporters, NEW m \in Messages, u[2] = cur, ReportsOn(u, m, {"save report"})'
       PROVE  m \notin InFlight(box')
  <2>1. CASE u = t BY <1>1, <1>3, <1>11, <2>1 DEF ReportsOn
  <2>2. CASE u # t
    <3>1. ReportsOn(u, m, {"save report"}) BY <1>1, <1>11, <2>2, ThreadsAre DEF ReportsOn
    <3>2. m \notin InFlight(box) BY <1>1, <1>11, <3>1, ReadyIs DEF AllInv
    <3> QED BY <1>3, <3>2 DEF Ends
  <2> QED BY <2>1, <2>2
<1>12. ReadyInv' BY <1>8, <1>9, <1>10, <1>11, ApplyReady
<1> QED BY <1>5, <1>12

\* The report that a turn began delivers its message, which waited, or finds it settled.
LEMMA BeganRest ==
    ASSUME AllInv, StoreInv', NEW t \in Reporters, ReportApply(t), rep[t].what = "began"
    PROVE  ReadyInv' /\ CountInv'
<1>1. /\ at[t] = "apply" /\ t[2] = cur /\ cur # NoGen /\ box' = Deliver(box, rep[t].of)
      /\ UNCHANGED <<next, disk, prompted, tickVars, rep, drops, phase, queue, turn, cur>>
      /\ at'[t] = (IF box' # box THEN "save report" ELSE "prompt")
      /\ \A u \in Threads : u # t => at'[u] = at[u]
      /\ Shrinks
  BY ApplyIs DEF Applied
<1>2. t = Loop(cur) /\ turn[cur] = rep[t].of /\ rep[t].of \in Messages \cup {NoMail} BY <1>1, BeganIs
<1>3. \A m \in Messages : ~ReportsOn(t, m, Reporting) /\ ~ReportsOn(t, m, {"save report"})' BY <1>1 DEF ReportsOn
\* The labels of the places are as they were.
<1>4. ASSUME NEW m \in Messages, NEW p \in Places, IsAt(p, m)
      PROVE  p[1] = "report" => at'[<<p[2], cur'>>] = at[<<p[2], cur>>]
  <2>1. p # <<"report", t[1]>> BY <1>1, <1>3, <1>4, ReportPlace
  <2>2. p[1] = "report" => <<p[2], cur>> \in Reporters /\ <<p[2], cur>> # t BY <1>1, <1>4, <2>1, ReportPlace
  <2> QED BY <1>1, <2>2, ThreadsAre
<1>5. ASSUME NEW u \in Reporters, NEW m \in Messages, u[2] = cur, ReportsOn(u, m, {"save report"})'
      PROVE  m \notin InFlight(box) /\ ReportsOn(u, m, Reporting)
  <2>1. u # t BY <1>3, <1>5
  <2>2. ReportsOn(u, m, {"save report"}) BY <1>1, <1>5, <2>1, ThreadsAre DEF ReportsOn
  <2> QED BY <1>1, <1>5, <2>2, ReadyIs DEF AllInv, ReportsOn, Reporting
<1>6. Calls(box, box')
  <2>1. CASE rep[t].of \in Messages BY <1>1, <2>1, DeliverCounts, TypesAre
  <2>2. CASE rep[t].of \notin Messages
    <3>1. box' = box BY <1>1, <2>2, NoMailIs
    <3> QED BY <3>1, SameCalls
  <2> QED BY <2>1, <2>2
<1>7. Counts BY <1>1, <1>6, CallsCount
\* Nothing is delivered: the message is settled, or there is none.
<1>8. ASSUME box' = box, rep[t].of \in Messages => rep[t].of \notin Open(box) /\ rep[t].of \notin Open(disk)
      PROVE  ReadyInv' /\ CountInv'
  <2>1. Gentle BY <1>1, <1>8, SaveIsGentle
  <2>2. \A m \in Messages : Fresh(m)' => Ready(m)' BY <1>1, <2>1, ReadyIs DEF AllInv, Gentle, Shrinks
  <2>3. ASSUME Serving, NEW m \in Messages, NEW p \in Places, IsAt(p, m) PROVE Waits(p, m)'
    BY <1>1, <1>4, <2>1, <2>3, WaitsOn
  <2>4. \A m \in Messages : Ready(m) => Ready(m)' \/ Has(m) BY <2>1 DEF Gentle
  <2>5. \A u \in Reporters, m \in Messages : u[2] = cur /\ ReportsOn(u, m, {"save report"})' => m \notin InFlight(box')
    BY <1>5, <1>8
  <2>6. ReadyInv' BY <2>2, <2>3, <2>4, <2>5, ApplyReady
  <2>7. ASSUME turn[cur] # NoMail
        PROVE  turn[cur] < next /\ Counted(box, turn[cur], 1)' /\ Counted(disk, turn[cur], 1)'
    <3>1. turn[cur] \notin Open(box) /\ turn[cur] \notin Open(disk) /\ turn[cur] < next
      BY <1>1, <1>2, <1>8, <2>7 DEF AllInv, CountInv
    <3> QED BY <1>1, <1>8, <3>1 DEF Counted
  <2>8. CountInv'
    <3>1. cur' # NoGen /\ turn'[cur'] # NoMail =>
            /\ turn'[cur'] < next'
            /\ at'[Loop(cur')] = "prompt" => Counted(box, turn[cur], 1)' /\ Counted(disk, turn[cur], 1)'
            /\ at'[Loop(cur')] = "save report" => Counted(box, turn[cur], 1)'
      BY <1>1, <2>7
    <3> QED BY <1>7, <3>1, CountsAll DEF CountInv
  <2> QED BY <2>6, <2>8
\* The message waits, and is delivered.
<1>9. ASSUME NEW n \in Messages, rep[t].of = n, n \in Pending(box)
      PROVE  ReadyInv' /\ CountInv'
  <2>1. /\ box'[n] = [state |-> "delivered", attempts |-> box[n].attempts + 1] /\ box' # box
        /\ Aside(box, box', n)
    <3>1. box' = Deliver(box, n) /\ GoodBox(box) BY <1>1, <1>9, TypesAre
    <3>2. box[n].state = "queued" BY <1>9, OpenIs
    <3> QED BY <3>1, <3>2, DeliverCounts
  <2>2. ASSUME NEW m \in Messages, m # n
        PROVE  /\ Ready(m)' <=> Ready(m)
               /\ (m \in Open(box) \/ Settled(m))' <=> m \in Open(box) \/ Settled(m)
               /\ m \in InFlight(box') <=> m \in InFlight(box)
    BY <1>1, <2>1, <2>2, AsideIs
  <2>3. n \in Open(box') /\ at'[t] = "save report"
    <3>1. box'[n].state = "delivered" BY <2>1
    <3>2. n \in Open(box') BY <3>1, OpenIs
    <3>3. at'[t] = "save report" BY <1>1, <2>1
    <3> QED BY <3>2, <3>3
  <2>4. IsAt(TurnIs, n) /\ TurnIs \in Places BY <1>2, <1>9, PlaceIs, PlacesAre
  <2>5. Has(n) /\ \A p \in Places : IsAt(p, n) => p = TurnIs BY <1>1, <2>4 DEF Has, AllInv, OnceInv
  <2>6. ~Fresh(n)'
    <3>1. n \notin ToSet(queue[cur])
      <4>1. QueueIs \in Places /\ QueueIs # TurnIs BY PlacesAre DEF QueueIs, TurnIs
      <4> QED BY <2>5, <4>1, PlaceIs
    <3>2. ~Begins(n)' BY <1>1, <1>2, <2>3 DEF Begins
    <3> QED BY <1>1, <3>1, <3>2 DEF Fresh
  <2>7. \A m \in Messages : Fresh(m)' => Ready(m)'
    <3> SUFFICES ASSUME NEW m \in Messages, Fresh(m)' PROVE Ready(m)'
      OBVIOUS
    <3>1. m # n /\ Fresh(m) BY <1>1, <2>6 DEF Shrinks
    <3> QED BY <2>2, <3>1, ReadyIs DEF AllInv
  <2>8. ASSUME Serving, NEW m \in Messages, NEW p \in Places, IsAt(p, m) PROVE Waits(p, m)'
    <3>1. CASE m = n
      <4>1. p[1] # "report" BY <2>5, <2>8, <3>1 DEF TurnIs
      <4>2. (m \in Open(box) \/ Settled(m))' BY <2>3, <3>1
      <4> QED BY <4>1, <4>2 DEF Waits
    <3>2. CASE m # n
      <4>1. Waits(p, m) BY <2>8, ReadyIs DEF AllInv
      <4>2. p[1] = "report" => at'[<<p[2], cur'>>] = at[<<p[2], cur>>] BY <1>4, <2>8
      <4>3. /\ Ready(m)' <=> Ready(m)
            /\ (m \in Open(box) \/ Settled(m))' <=> m \in Open(box) \/ Settled(m)
        BY <2>2, <3>2
      <4> QED BY <1>1, <4>1, <4>2, <4>3 DEF Waits
    <3> QED BY <3>1, <3>2
  <2>9. \A m \in Messages : Ready(m) => Ready(m)' \/ Has(m) BY <2>2, <2>5
  <2>10. ASSUME NEW u \in Reporters, NEW m \in Messages, u[2] = cur, ReportsOn(u, m, {"save report"})'
         PROVE  m \notin InFlight(box')
    <3>1. m # n
      <4> SUFFICES ASSUME m = n PROVE FALSE
        OBVIOUS
      <4>1. ReportsOn(u, m, Reporting) /\ u = <<u[1], cur>> /\ u[1] \in Kinds BY <1>5, <2>10, CurThreads
      <4>2. IsAt(<<"report", u[1]>>, m) /\ <<"report", u[1]>> \in Places BY <4>1, PlaceIs, PlacesAre
      <4> QED BY <2>5, <4>2 DEF TurnIs
    <3> QED BY <1>5, <2>2, <2>10, <3>1
  <2>11. ReadyInv' BY <2>7, <2>8, <2>9, <2>10, ApplyReady
  <2>12. n < next' /\ Counted(box, n, 1)'
    <3>1. n < next BY <1>1, <1>2, <1>9, MoreBounds DEF AllInv, CountInv
    <3>2. n \in Open(box) /\ Counted(box, n, 0) BY <1>9, OpenIs DEF AllInv, CountInv
    <3>3. prompted[n] + 0 <= box[n].attempts /\ prompted[n] \in Nat /\ box[n].attempts \in Nat BY <3>2, TypesAre DEF Counted
    <3>4. prompted'[n] = prompted[n] BY <1>1
    <3>6. box'[n].attempts = box[n].attempts + 1 BY <2>1
    <3>5. prompted'[n] + 1 <= box'[n].attempts BY <3>3, <3>4, <3>6
    <3> QED BY <1>1, <3>1, <3>5 DEF Counted
  <2>13. CountInv'
    <3>1. cur' # NoGen /\ turn'[cur'] # NoMail =>
            /\ turn'[cur'] < next'
            /\ at'[Loop(cur')] # "prompt"
            /\ at'[Loop(cur')] = "save report" => Counted(box, turn[cur], 1)'
      BY <1>1, <1>2, <1>9, <2>3, <2>12
    <3> QED BY <1>7, <3>1, CountsAll DEF CountInv
  <2> QED BY <2>11, <2>13
<1>10. CASE rep[t].of \notin Messages
  <2>1. box' = box BY <1>1, <1>10, NoMailIs
  <2> QED BY <1>8, <1>10, <2>1
<1>11. CASE rep[t].of \in Messages /\ rep[t].of \notin Pending(box)
  <2>0. PICK n \in Messages : n = rep[t].of BY <1>11
  <2>1. Fresh(n) BY <1>1, <1>2, <2>0 DEF Fresh, Begins
  <2>2. Settled(n) BY <1>11, <2>0, <2>1, ReadyIs DEF AllInv, Ready
  <2>3. box' = box BY <1>1, <1>11, <2>0, DeliverCounts, TypesAre, OpenIs
  <2> QED BY <1>8, <2>0, <2>2, <2>3 DEF Settled
<1> QED BY <1>9, <1>10, <1>11

\* Every apply keeps the rest.
LEMMA ApplyRest ==
    ASSUME AllInv, StoreInv', NEW t \in Reporters, ReportApply(t)
    PROVE  Rest'
BY ApplyIs, EndRest, BeganRest DEF Rest

\* The runtime forgets a message that its turn, or a drop, is reported of.
LEMMA ForgetRest ==
    ASSUME AllInv, StoreInv', NEW t \in Reporters, ReportForget(t)
    PROVE  Rest'
<1>1. /\ at[t] = "forget" /\ Goto(t, Home(t)) /\ rep' = [rep EXCEPT ![t] = NoReport]
      /\ handed' = [handed EXCEPT ![rep[t].of] = NoGen]
      /\ UNCHANGED <<box, next, disk, prompted, tickVars, drops, phase, queue, turn, cur>>
  BY DEF ReportForget, Forget, runVars, reportFrame, paneVars, diskVars
<1>2. t[2] = cur /\ cur # NoGen BY <1>1, BeganIs
<1>3. at'[t] = Home(t) /\ at'[Tick] = at[Tick] /\ \A u \in Threads : u # t => at'[u] = at[u]
  BY <1>1, TypesAre, ThreadsAre DEF Goto
<1>4. Home(t) \in {"idle", "pop"} BY DEF Home
<1>5. Leaves(t) BY <1>1, <1>3, <1>4 DEF Leaves
<1>6. /\ Shrinks /\ (Serving' <=> Serving)
      /\ \A m \in Messages, p \in Places : IsAt(p, m)' <=> IsAt(p, m) /\ p # <<"report", t[1]>>
      /\ \A p \in Places : p[1] = "report" /\ p # <<"report", t[1]>> => at'[<<p[2], cur>>] = at[<<p[2], cur>>]
      /\ \A u \in Reporters, m \in Messages :
            ReportsOn(u, m, {"save report"})' => u # t /\ ReportsOn(u, m, {"save report"})
  BY <1>2, <1>5, LeavesIs
<1>7. Counts BY <1>1, SameCalls, CallsCount
<1>8. Gentle BY <1>1, SaveIsGentle
<1>9. ASSUME NEW n \in Messages, rep[t].of = n
      PROVE  Has(n) /\ ~Has(n)' /\ ~Fresh(n)' /\ (Serving => Ready(n))
  <2>1. rep[t].what # "began" BY <1>1, <1>9, BeganIs
  <2>2. t = <<t[1], cur>> /\ t[1] \in Kinds BY <1>2, CurThreads
  <2>3. ReportsOn(t, n, Reporting) BY <1>1, <1>9, <2>1 DEF ReportsOn, Reporting
  <2>4. IsAt(<<"report", t[1]>>, n) /\ <<"report", t[1]>> \in Places
    <3>1. IsAt(<<"report", t[1]>>, n) <=> ReportsOn(<<t[1], cur>>, n, Reporting) BY PlaceIs
    <3> QED BY <2>2, <2>3, <3>1, PlacesAre
  <2>5. \A p \in Places : IsAt(p, n) => p = <<"report", t[1]>> BY <1>2, <2>4 DEF AllInv, OnceInv
  <2>6. \A p \in Places : ~IsAt(p, n)' BY <1>6, <2>5
  <2>7. ~Fresh(n)
    <3>1. ~IsAt(QueueIs, n) /\ ~IsAt(TurnIs, n) BY <2>5, PlacesAre DEF QueueIs, TurnIs
    <3> QED BY <3>1, PlaceIs DEF Fresh, Begins
  <2>8. Serving => Ready(n)
    <3>1. <<"report", t[1]>>[1] = "report" /\ <<<<"report", t[1]>>[2], cur>> = t BY <2>2
    <3>2. Serving => Waits(<<"report", t[1]>>, n) BY <2>4, ReadyIs DEF AllInv
    <3> QED BY <1>1, <3>1, <3>2 DEF Waits
  <2> QED BY <1>2, <1>6, <2>4, <2>6, <2>7, <2>8 DEF Has, Shrinks
<1>10. UNCHANGED handed \/ \E n \in Messages : handed' = [handed EXCEPT ![n] = NoGen] /\ Has(n) /\ ~Has(n)' /\ ~Fresh(n)'
  <2>1. CASE rep[t].of \in Messages BY <1>1, <1>9, <2>1
  <2>2. CASE rep[t].of \notin Messages BY <1>1, <2>2, TypesAre DEF TickType
  <2> QED BY <2>1, <2>2
<1>11. ASSUME Serving', NEW m \in Messages, NEW p \in Places, IsAt(p, m)' PROVE Waits(p, m)'
  <2>1. IsAt(p, m) /\ Serving /\ p # <<"report", t[1]>> BY <1>6, <1>11
  <2>2. p[1] = "report" => at'[<<p[2], cur>>] = at[<<p[2], cur>>] BY <1>6, <2>1
  <2> QED BY <1>1, <1>8, <2>1, <2>2, WaitsOn
<1>12. ASSUME Serving', NEW m \in Messages, Has(m) PROVE Has(m)' \/ Ready(m)
  <2>1. PICK p \in Places : IsAt(p, m) BY <1>12 DEF Has
  <2>2. CASE p # <<"report", t[1]>>
    <3>1. IsAt(p, m)' BY <1>6, <2>1, <2>2
    <3> QED BY <1>1, <1>2, <3>1 DEF Has
  <2>3. CASE p = <<"report", t[1]>>
    <3>1. rep[t].of = m BY <1>2, <2>1, <2>3, ReportPlace DEF ReportsOn
    <3> QED BY <1>6, <1>9, <1>12, <3>1
  <2> QED BY <2>2, <2>3
<1>13. OnceInv' /\ OwnInv' /\ LookInv' /\ ReadyInv'
  <2>1. \A m \in Messages : Kept(m) BY <1>6 DEF Kept
  <2>2. \A i, j \in 1..Len(queue'[cur]) : queue'[cur][i] = queue'[cur][j] => i = j
    BY <1>1, <1>2, CurQueue DEF Apart
  <2> QED BY <1>1, <1>2, <1>3, <1>6, <1>10, <1>11, <1>12, <2>1, <2>2, RunStep
<1>14. TurnGoes BY <1>1, <1>3, <1>4, OtherTurn
<1> QED BY <1>7, <1>13, <1>14, CountKeeps DEF Rest

\* Messages go from one place of the runtime to another.
Passes(a, b) ==
    \A m \in Messages :
        /\ \A p \in Places : IsAt(p, m)' => IsAt(p, m) \/ (p = b /\ IsAt(a, m))
        /\ \A p \in Places : IsAt(p, m) => IsAt(p, m)' \/ (p = a /\ IsAt(b, m)')
        /\ IsAt(a, m) /\ IsAt(b, m)' => ~IsAt(a, m)'

\* A step that does no more keeps the messages apart, and waiting.
LEMMA MoveStep ==
    ASSUME AllInv, NEW a \in Places, NEW b \in Places, a # b, Passes(a, b), a[1] # "report",
           cur' = cur, cur # NoGen, Serving' => Serving, \A m \in Messages : Fresh(m)' => Fresh(m),
           UNCHANGED <<handed, tickVars, box, next, disk>>, at'[Tick] = at[Tick],
           \A g \in Gens : phase'[g] = "live" => phase[g] = "live", Apart(queue'[cur]),
           b[1] = "report" => at'[<<b[2], cur>>] \notin {"save report", "forget"},
           \A m \in Messages, p \in Places : IsAt(p, m) /\ p[1] = "report" => at'[<<p[2], cur>>] = at[<<p[2], cur>>],
           \A t \in Reporters, m \in Messages :
                t[2] = cur /\ ReportsOn(t, m, {"save report"})' => ReportsOn(t, m, {"save report"})
    PROVE  OnceInv' /\ OwnInv' /\ LookInv' /\ ReadyInv'
<1>1. \A m \in Messages : Has(m)' <=> Has(m)
  <2>1. \A m \in Messages : Has(m)' => Has(m) BY DEF Has, Passes
  <2>2. \A m \in Messages : Has(m) => Has(m)' BY DEF Has, Passes
  <2> QED BY <2>1, <2>2
<1>2. Shrinks BY <1>1 DEF Shrinks
<1>3. ASSUME NEW m \in Messages PROVE Kept(m) \/ \E c \in Places : Only(m, c)
  <2>1. CASE ~IsAt(a, m) BY <2>1 DEF Passes, Kept
  <2>2. CASE IsAt(a, m)
    <3>1. \A p \in Places : IsAt(p, m) => p = a BY <2>2 DEF AllInv, OnceInv
    <3>2. \A p \in Places : IsAt(p, m)' => p = a \/ p = b BY <3>1 DEF Passes
    <3>3. CASE IsAt(b, m)'
      <4>1. \A p \in Places : IsAt(p, m)' => p = b BY <2>2, <3>2, <3>3 DEF Passes
      <4> QED BY <4>1 DEF Only
    <3>4. CASE ~IsAt(b, m)'
      <4>1. \A p \in Places : IsAt(p, m)' => p = a BY <3>2, <3>4
      <4> QED BY <4>1 DEF Only
    <3> QED BY <3>3, <3>4
  <2> QED BY <2>1, <2>2
<1>4. Gentle BY SaveIsGentle
<1>5. ASSUME Serving', NEW m \in Messages, NEW p \in Places, IsAt(p, m)' PROVE Waits(p, m)'
  <2>1. CASE IsAt(p, m) BY <1>4, <1>5, <2>1, WaitsOn
  <2>2. CASE p = b /\ IsAt(a, m)
    <3>1. m \in Open(box) \/ Settled(m) BY <1>5, <2>2, WaitsHere
    <3> QED BY <1>4, <2>2, <3>1, WaitsThere
  <2> QED BY <1>5, <2>1, <2>2 DEF Passes
<1>6. \A i, j \in 1..Len(queue'[cur]) : queue'[cur][i] = queue'[cur][j] => i = j BY DEF Apart
<1> QED BY <1>1, <1>2, <1>3, <1>5, <1>6, RunStep

\* A place that is not a goroutine's goes on, while it and the queue, the turn and the drops
\* are as they were.
LEMMA PlaceStays ==
    ASSUME AllInv, cur' = cur, NEW m \in Messages
    PROVE  /\ queue'[cur] = queue[cur] => (IsAt(QueueIs, m)' <=> IsAt(QueueIs, m))
           /\ turn'[cur] = turn[cur] => (IsAt(TurnIs, m)' <=> IsAt(TurnIs, m))
           /\ \A k : drops'[<<k, cur>>] = drops[<<k, cur>>] => (IsAt(<<"drops", k>>, m)' <=> IsAt(<<"drops", k>>, m))
           /\ \A k : rep'[<<k, cur>>] = rep[<<k, cur>>] /\ at'[<<k, cur>>] = at[<<k, cur>>] =>
                (IsAt(<<"report", k>>, m)' <=> IsAt(<<"report", k>>, m))
<1>1. ASSUME NEW k, rep'[<<k, cur>>] = rep[<<k, cur>>] /\ at'[<<k, cur>>] = at[<<k, cur>>]
      PROVE  IsAt(<<"report", k>>, m)' <=> IsAt(<<"report", k>>, m)
  <2>1. IsAt(<<"report", k>>, m) <=>
             rep[<<k, cur>>].of = m /\ rep[<<k, cur>>].what # "began" /\ at[<<k, cur>>] \in Reporting
    BY PlaceIs DEF ReportsOn
  <2>2. IsAt(<<"report", k>>, m)' <=>
             rep'[<<k, cur'>>].of = m /\ rep'[<<k, cur'>>].what # "began" /\ at'[<<k, cur'>>] \in Reporting
    BY PlaceIs
  <2> QED BY <1>1, <2>1, <2>2
<1> QED BY <1>1, PlaceIs

\* The first of a dropped queue is reported on.
LEMMA DropRest ==
    ASSUME AllInv, StoreInv', NEW t \in Reporters, ReportDrop(t)
    PROVE  Rest'
<1>1. /\ at[t] = Home(t) /\ drops[t] # {} /\ Goto(t, "look")
      /\ rep' = [rep EXCEPT ![t] = [of |-> First(drops[t]), what |-> "lost"]]
      /\ drops' = [drops EXCEPT ![t] = @ \ {First(drops[t])}]
      /\ UNCHANGED <<box, next, disk, handed, prompted, tickVars, phase, queue, turn, cur>>
  BY DEF ReportDrop, runVars, reportFrame, paneVars, diskVars
<1>2. t[2] = cur /\ cur # NoGen /\ t = <<t[1], cur>> /\ t[1] \in Kinds BY <1>1, BeganIs, CurThreads
<1>3. at'[t] = "look" /\ at'[Tick] = at[Tick] /\ \A u \in Threads : u # t => at'[u] = at[u]
  BY <1>1, TypesAre, ThreadsAre DEF Goto
<1>4. PICK n \in Messages : n = First(drops[t]) /\ n \in drops[t]
  <2>1. drops[t] \in SUBSET Messages BY TypesAre, RunTypeIs
  <2> QED BY <1>1, <2>1, FirstIs
<1>5. /\ rep'[t] = [of |-> n, what |-> "lost"] /\ drops'[t] = drops[t] \ {n}
      /\ \A u \in Reporters : u # t => rep'[u] = rep[u] /\ drops'[u] = drops[u] /\ at'[u] = at[u]
  BY <1>1, <1>3, <1>4, TypesAre, RunTypeIs, ThreadsAre
<1>6. at[t] \in {"idle", "pop"} BY <1>1 DEF Home
<1> DEFINE a == <<"drops", t[1]>>
           b == <<"report", t[1]>>
<1>7. a \in Places /\ b \in Places /\ a # b /\ a[1] # "report" /\ b[2] = t[1] BY <1>2, PlacesAre
<1>8. ASSUME NEW m \in Messages
      PROVE  /\ IsAt(a, m) <=> m \in drops[t]
             /\ IsAt(a, m)' <=> m \in drops[t] /\ m # n
             /\ ~IsAt(b, m)
             /\ IsAt(b, m)' <=> m = n
             /\ \A p \in Places : p \notin {a, b} => (IsAt(p, m)' <=> IsAt(p, m))
  <2>1. (IsAt(a, m) <=> m \in drops[t]) /\ (IsAt(a, m)' <=> m \in drops[t] /\ m # n)
    BY <1>1, <1>2, <1>5, PlaceIs
  <2>2. IsAt(b, m) <=> rep[t].of = m /\ rep[t].what # "began" /\ at[t] \in Reporting
    BY <1>2, PlaceIs DEF ReportsOn
  <2>3. IsAt(b, m)' <=> rep'[t].of = m /\ rep'[t].what # "began" /\ at'[t] \in Reporting
    BY <1>1, <1>2, PlaceIs
  <2>4. ~IsAt(b, m) /\ (IsAt(b, m)' <=> m = n)
    <3>1. rep'[t].of = n /\ rep'[t].what # "began" BY <1>5
    <3>2. at'[t] \in Reporting /\ at[t] \notin Reporting BY <1>3, <1>6 DEF Reporting
    <3> QED BY <2>2, <2>3, <3>1, <3>2
  <2>5. ASSUME NEW p \in Places, p \notin {a, b} PROVE IsAt(p, m)' <=> IsAt(p, m)
    <3>1. CASE p \in {QueueIs, TurnIs} BY <1>1, <3>1, PlaceStays
    <3>2. ASSUME NEW k \in Kinds, p = <<"drops", k>> \/ p = <<"report", k>> PROVE IsAt(p, m)' <=> IsAt(p, m)
      <4>1. k # t[1] BY <2>5, <3>2
      <4>2. <<k, cur>> \in Reporters /\ <<k, cur>> # t BY <1>2, <4>1, CurThreads
      <4>3. rep'[<<k, cur>>] = rep[<<k, cur>>] /\ drops'[<<k, cur>>] = drops[<<k, cur>>] /\ at'[<<k, cur>>] = at[<<k, cur>>]
        BY <1>5, <4>2
      <4> QED BY <1>1, <3>2, <4>3, PlaceStays
    <3> QED BY <3>1, <3>2, PlacesAre
  <2> QED BY <2>1, <2>4, <2>5
<1> HIDE DEF a, b
<1>9. Passes(a, b)
  <2> SUFFICES ASSUME NEW m \in Messages
               PROVE  /\ \A p \in Places : IsAt(p, m)' => IsAt(p, m) \/ (p = b /\ IsAt(a, m))
                      /\ \A p \in Places : IsAt(p, m) => IsAt(p, m)' \/ (p = a /\ IsAt(b, m)')
                      /\ IsAt(a, m) /\ IsAt(b, m)' => ~IsAt(a, m)'
    BY DEF Passes
  <2> QED BY <1>4, <1>7, <1>8
<1>10. \A m \in Messages : Fresh(m)' => Fresh(m)
  <2>1. CASE t = Loop(cur) BY <1>1, <1>5, <2>1 DEF Fresh, Begins
  <2>2. CASE t # Loop(cur)
    <3>1. rep'[Loop(cur)] = rep[Loop(cur)] /\ at'[Loop(cur)] = at[Loop(cur)] BY <1>2, <1>5, <2>2, CurThreads
    <3> QED BY <1>1, <3>1 DEF Fresh, Begins
  <2> QED BY <2>1, <2>2
<1>11. ASSUME NEW m \in Messages, NEW p \in Places, IsAt(p, m), p[1] = "report"
       PROVE  at'[<<p[2], cur>>] = at[<<p[2], cur>>]
  <2>1. p # <<"report", t[1]>> BY <1>8, <1>11 DEF b
  <2>2. <<p[2], cur>> \in Reporters /\ <<p[2], cur>> # t BY <1>2, <1>11, <2>1, ReportPlace
  <2> QED BY <1>5, <2>2
<1>12. \A u \in Reporters, m \in Messages :
            u[2] = cur /\ ReportsOn(u, m, {"save report"})' => ReportsOn(u, m, {"save report"})
  BY <1>3, <1>5 DEF ReportsOn
<1>13. OnceInv' /\ OwnInv' /\ LookInv' /\ ReadyInv'
  <2>1. Apart(queue'[cur]) BY <1>1, <1>2, CurQueue
  <2>2. at'[<<b[2], cur>>] \notin {"save report", "forget"} BY <1>2, <1>3, <1>7
  <2>3. Serving' => Serving BY <1>1 DEF Serving
  <2> QED BY <1>1, <1>2, <1>3, <1>7, <1>9, <1>10, <1>11, <1>12, <2>1, <2>2, <2>3, MoveStep
<1>14. TurnGoes BY <1>1, <1>3, OtherTurn
<1>15. Counts BY <1>1, SameCalls, CallsCount
<1> QED BY <1>13, <1>14, <1>15, CountKeeps DEF Rest

\* The loop takes a message from its queue, which begins its turn.
LEMMA PopRest ==
    ASSUME AllInv, StoreInv', NEW g \in Gens, Pop(g)
    PROVE  Rest'
<1> DEFINE t == Loop(g)
<1>1. /\ at[t] = "pop" /\ phase[g] = "live" /\ queue[g] # <<>> /\ Goto(t, "look")
      /\ turn' = [turn EXCEPT ![g] = Head(queue[g])] /\ queue' = [queue EXCEPT ![g] = Tail(@)]
      /\ rep' = [rep EXCEPT ![t] = [of |-> Head(queue[g]), what |-> "began"]]
      /\ UNCHANGED <<box, next, disk, handed, prompted, tickVars, drops, phase, cur>>
  BY DEF Pop, reportFrame, paneVars, diskVars
<1>2. g = cur /\ cur # NoGen /\ t \in Reporters /\ t = Loop(cur) /\ t = <<"loop", cur>> /\ t[2] = cur
  BY <1>1, TypesAre, BusyIsCur, ThreadsAre DEF AllInv, Loop
<1>3. at'[t] = "look" /\ at'[Tick] = at[Tick] /\ \A u \in Threads : u # t => at'[u] = at[u]
  BY <1>1, <1>2, TypesAre, ThreadsAre DEF Goto
<1>4. PICK n \in Messages : n = Head(queue[cur]) BY <1>1, <1>2, CurQueue, HeadIs
<1>5. queue'[cur] = Tail(queue[cur]) /\ turn'[cur] = n /\ rep'[t] = [of |-> n, what |-> "began"]
  BY <1>1, <1>2, <1>4, TypesAre, RunTypeIs
<1>6. \A u \in Reporters : u # t => rep'[u] = rep[u] /\ at'[u] = at[u] BY <1>1, <1>3, TypesAre, RunTypeIs, ThreadsAre
<1>7. /\ Apart(queue'[cur]) /\ n \notin ToSet(queue'[cur]) /\ ToSet(queue[cur]) = {n} \cup ToSet(queue'[cur])
  BY <1>1, <1>2, <1>4, <1>5, CurQueue, ApartIs, HeadIs
<1>8. turn[cur] = NoMail BY <1>1, <1>2, BeganIs
<1> HIDE DEF t
<1>9. QueueIs \in Places /\ TurnIs \in Places /\ QueueIs # TurnIs /\ QueueIs[1] # "report" /\ TurnIs[1] # "report"
  BY PlacesAre DEF QueueIs, TurnIs
<1>10. ASSUME NEW m \in Messages
       PROVE  /\ IsAt(QueueIs, m) <=> m \in ToSet(queue[cur])
              /\ IsAt(QueueIs, m)' <=> m \in ToSet(queue[cur]) /\ m # n
              /\ ~IsAt(TurnIs, m)
              /\ IsAt(TurnIs, m)' <=> m = n
              /\ \A p \in Places : p \notin {QueueIs, TurnIs} => (IsAt(p, m)' <=> IsAt(p, m))
              /\ ~IsAt(<<"report", "loop">>, m)
  <2>1. (IsAt(QueueIs, m) <=> m \in ToSet(queue[cur])) /\ (IsAt(QueueIs, m)' <=> m \in ToSet(queue[cur]) /\ m # n)
    BY <1>1, <1>7, PlaceIs
  <2>2. ~IsAt(TurnIs, m) /\ (IsAt(TurnIs, m)' <=> m = n) BY <1>1, <1>5, <1>8, MoreBounds, PlaceIs
  <2>3. ~IsAt(<<"report", "loop">>, m)
    <3>1. IsAt(<<"report", "loop">>, m) <=> ReportsOn(<<"loop", cur>>, m, Reporting) BY PlaceIs
    <3> QED BY <1>1, <1>2, <3>1 DEF Reporting, ReportsOn, t
  <2>4. ~IsAt(<<"report", "loop">>, m)'
    <3>1. IsAt(<<"report", "loop">>, m)' => rep'[<<"loop", cur'>>].what # "began" BY PlaceIs
    <3> QED BY <1>1, <1>2, <1>5, <3>1
  <2>5. ASSUME NEW k \in Kinds, NEW p \in Places, p = <<"drops", k>> \/ (p = <<"report", k>> /\ k # "loop")
        PROVE  IsAt(p, m)' <=> IsAt(p, m)
    <3>1. CASE p = <<"drops", k>> BY <1>1, <3>1, PlaceStays
    <3>2. CASE p = <<"report", k>> /\ k # "loop"
      <4>1. <<k, cur>> \in Reporters /\ <<k, cur>> # t BY <1>2, <3>2, CurThreads
      <4> QED BY <1>1, <1>6, <3>2, <4>1, PlaceStays
    <3> QED BY <2>5, <3>1, <3>2
  <2> QED BY <2>1, <2>2, <2>3, <2>4, <2>5, PlacesAre
<1>11. Passes(QueueIs, TurnIs)
  <2> SUFFICES ASSUME NEW m \in Messages
               PROVE  /\ \A p \in Places : IsAt(p, m)' => IsAt(p, m) \/ (p = TurnIs /\ IsAt(QueueIs, m))
                      /\ \A p \in Places : IsAt(p, m) => IsAt(p, m)' \/ (p = QueueIs /\ IsAt(TurnIs, m)')
                      /\ IsAt(QueueIs, m) /\ IsAt(TurnIs, m)' => ~IsAt(QueueIs, m)'
    BY DEF Passes
  <2>1. n \in ToSet(queue[cur]) BY <1>7
  <2> QED BY <1>9, <1>10, <2>1
<1>12. \A m \in Messages : Fresh(m)' => Fresh(m)
  <2>1. \A m \in Messages : Begins(m)' => m = n BY <1>1, <1>5 DEF Begins
  <2> QED BY <1>1, <1>2, <1>7, <2>1 DEF Fresh
<1>13. ASSUME NEW m \in Messages, NEW p \in Places, IsAt(p, m), p[1] = "report"
       PROVE  at'[<<p[2], cur>>] = at[<<p[2], cur>>]
  <2>1. p # <<"report", "loop">> /\ t[1] = "loop" BY <1>2, <1>10, <1>13
  <2>2. <<p[2], cur>> \in Reporters /\ <<p[2], cur>> # t BY <1>2, <1>13, <2>1, ReportPlace
  <2> QED BY <1>6, <2>2
<1>14. \A u \in Reporters, m \in Messages :
            u[2] = cur /\ ReportsOn(u, m, {"save report"})' => ReportsOn(u, m, {"save report"})
  BY <1>3, <1>6 DEF ReportsOn
<1>15. OnceInv' /\ OwnInv' /\ LookInv' /\ ReadyInv'
  <2>1. Serving' => Serving BY <1>1 DEF Serving
  <2> QED BY <1>1, <1>2, <1>3, <1>7, <1>9, <1>11, <1>12, <1>13, <1>14, <2>1, MoveStep
<1>16. TurnGoes
  <2>1. Ready(n)
    <3>1. Fresh(n) BY <1>2, <1>7 DEF Fresh
    <3> QED BY <3>1, ReadyIs DEF AllInv
  <2>2. n < next
    <3>1. n \in Nat /\ next \in Nat /\ (n >= next => n \notin Open(box)) BY TypesAre
    <3> QED BY <2>1, <3>1, OpenIs DEF Ready, Settled
  <2> QED BY <1>2, <1>3, <1>5, <2>2 DEF TurnGoes
<1>17. Counts BY <1>1, SameCalls, CallsCount
<1> QED BY <1>15, <1>16, <1>17, CountKeeps DEF Rest

\* The prompt is sent, and was counted before, in memory and on the disk.
LEMMA PromptRest ==
    ASSUME AllInv, StoreInv', NEW g \in Gens, SendPrompt(g)
    PROVE  Rest'
<1> DEFINE t == Loop(g)
           one == [prompted EXCEPT ![turn[g]] = IF @ > MaxAttempts THEN @ ELSE @ + 1]
<1>1. /\ at[t] = "prompt" /\ Goto(t, "wait") /\ rep' = [rep EXCEPT ![t] = NoReport] /\ prompted' = one
      /\ UNCHANGED <<box, next, disk, handed, tickVars, drops, phase, queue, turn, cur>>
  BY DEF SendPrompt, runVars, reportFrame, paneVars, diskVars
<1>2. t \in Reporters /\ t[2] = g /\ t = <<"loop", g>> BY ThreadsAre DEF Loop
<1>3. g = cur /\ cur # NoGen /\ t[1] = "loop"
  <2>1. t[2] = cur /\ cur # NoGen
    <3> HIDE DEF t
    <3>1. at[t] \notin {"idle", "pop"} BY <1>1
    <3> QED BY <1>2, <3>1, BeganIs
  <2>2. t[1] = "loop" BY <1>2
  <2> QED BY <1>2, <2>1, <2>2
<1>4. at'[t] = "wait" /\ at'[Tick] = at[Tick] /\ \A u \in Threads : u # t => at'[u] = at[u]
  BY <1>1, <1>2, TypesAre, ThreadsAre DEF Goto
<1>5. Leaves(t) BY <1>1, <1>4 DEF Leaves
<1> HIDE DEF t, one
<1>6. /\ Shrinks /\ (Serving' <=> Serving)
      /\ \A m \in Messages, p \in Places : IsAt(p, m)' <=> IsAt(p, m) /\ p # <<"report", t[1]>>
      /\ \A p \in Places : p[1] = "report" /\ p # <<"report", t[1]>> => at'[<<p[2], cur>>] = at[<<p[2], cur>>]
      /\ \A u \in Reporters, m \in Messages :
            ReportsOn(u, m, {"save report"})' => u # t /\ ReportsOn(u, m, {"save report"})
  BY <1>2, <1>3, <1>5, LeavesIs
<1>7. ASSUME NEW m \in Messages PROVE ~IsAt(<<"report", t[1]>>, m)
  <2>1. IsAt(<<"report", t[1]>>, m) <=> ReportsOn(t, m, Reporting)
    <3>1. IsAt(<<"report", t[1]>>, m) <=> ReportsOn(<<t[1], cur>>, m, Reporting) BY PlaceIs
    <3>2. t = <<t[1], cur>> BY <1>2, <1>3
    <3> QED BY <3>1, <3>2
  <2> QED BY <1>1, <2>1 DEF Reporting, ReportsOn
<1>8. Gentle BY <1>1, SaveIsGentle
<1>9. ASSUME Serving', NEW m \in Messages, NEW p \in Places, IsAt(p, m)' PROVE Waits(p, m)'
  <2>1. IsAt(p, m) /\ Serving /\ p # <<"report", t[1]>> BY <1>6, <1>9
  <2>2. p[1] = "report" => at'[<<p[2], cur>>] = at[<<p[2], cur>>] BY <1>6, <2>1
  <2> QED BY <1>1, <1>8, <2>1, <2>2, WaitsOn
<1>10. ASSUME NEW m \in Messages, Has(m) PROVE Has(m)'
  <2>1. PICK p \in Places : IsAt(p, m) BY <1>10 DEF Has
  <2>2. IsAt(p, m)' BY <1>6, <1>7, <2>1
  <2> QED BY <1>1, <1>3, <2>2 DEF Has
<1>11. OnceInv' /\ OwnInv' /\ LookInv' /\ ReadyInv'
  <2>1. \A m \in Messages : Kept(m) BY <1>6 DEF Kept
  <2>2. \A i, j \in 1..Len(queue'[cur]) : queue'[cur][i] = queue'[cur][j] => i = j
    BY <1>1, <1>3, CurQueue DEF Apart
  <2> QED BY <1>1, <1>3, <1>4, <1>6, <1>9, <1>10, <2>1, <2>2, RunStep
<1>12. prompted \in [Messages -> 0..(MaxAttempts + 1)] BY TypesAre DEF StoreType
<1>13. ASSUME NEW m \in Messages
       PROVE  /\ m # turn[cur] => prompted'[m] = prompted[m]
              /\ prompted'[m] \in Nat /\ prompted[m] \in Nat /\ prompted'[m] <= prompted[m] + 1
  <2>1. prompted[m] \in Nat /\ MaxAttempts \in Nat BY TypesAre, BoundsAreNat
  <2>2. prompted'[m] = IF m = turn[cur] THEN (IF prompted[m] > MaxAttempts THEN prompted[m] ELSE prompted[m] + 1) ELSE prompted[m]
    BY <1>1, <1>3, <1>12 DEF one
  <2> QED BY <2>1, <2>2
<1>14. cur # NoGen /\ turn[cur] # NoMail =>
         turn[cur] \in Messages /\ turn[cur] < next /\ Counted(box, turn[cur], 1) /\ Counted(disk, turn[cur], 1)
  BY <1>1, <1>3, CurQueue DEF AllInv, CountInv, t
<1>15. ASSUME NEW m \in Messages
       PROVE  Counted(box, m, 0)' /\ Counted(disk, m, 0)' /\ (m >= next' => prompted'[m] = 0)
  <2>1. Counted(box, m, 0) /\ Counted(disk, m, 0) /\ (m >= next => prompted[m] = 0) BY DEF AllInv, CountInv
  <2>2. CASE m # turn[cur] BY <1>1, <1>13, <2>1, <2>2 DEF Counted
  <2>3. CASE m = turn[cur]
    <3>1. m < next /\ Counted(box, m, 1) /\ Counted(disk, m, 1) BY <1>3, <1>14, <2>3, MoreBounds
    <3>2. /\ m \in Open(box) => prompted[m] + 1 <= box[m].attempts
          /\ m \in Open(disk) => prompted[m] + 1 <= disk[m].attempts
      BY <3>1 DEF Counted
    <3>3. /\ m \in Open(box) => prompted'[m] + 0 <= box[m].attempts
          /\ m \in Open(disk) => prompted'[m] + 0 <= disk[m].attempts
      BY <1>13, <3>2, TypesAre
    <3>4. ~(m >= next) BY <3>1, TypesAre
    <3> QED BY <1>1, <3>3, <3>4 DEF Counted
  <2> QED BY <2>2, <2>3
<1>16. CountInv'
  <2>1. cur' # NoGen /\ turn'[cur'] # NoMail => turn'[cur'] < next' /\ at'[Loop(cur')] = "wait"
    BY <1>1, <1>3, <1>4, <1>14 DEF t
  <2> QED BY <1>15, <2>1 DEF CountInv
<1> QED BY <1>11, <1>16 DEF Rest

\* The turn ends, and its end is to be reported.
LEMMA EndsRest ==
    ASSUME AllInv, StoreInv', NEW g \in Gens, SendFails(g) \/ \E what \in Outcomes : TurnEnds(g, what)
    PROVE  Rest'
<1> DEFINE t == Loop(g)
<1>0. PICK what \in Outcomes :
      /\ at[t] \in {"prompt", "wait"} /\ Goto(t, "look")
      /\ rep' = [rep EXCEPT ![t] = [of |-> turn[g], what |-> what]]
      /\ turn' = [turn EXCEPT ![g] = NoMail]
      /\ UNCHANGED <<box, next, disk, handed, prompted, tickVars, drops, phase, queue, cur>>
  <2>1. CASE SendFails(g) BY <2>1 DEF SendFails, reportFrame, paneVars, diskVars, Outcomes
  <2>2. ASSUME NEW what \in Outcomes, TurnEnds(g, what)
        PROVE  /\ at[t] \in {"prompt", "wait"} /\ Goto(t, "look")
               /\ rep' = [rep EXCEPT ![t] = [of |-> turn[g], what |-> what]]
               /\ turn' = [turn EXCEPT ![g] = NoMail]
               /\ UNCHANGED <<box, next, disk, handed, prompted, tickVars, drops, phase, queue, cur>>
    BY <2>2 DEF TurnEnds, reportFrame, paneVars, diskVars
  <2> QED BY <2>1, <2>2
<1>1. /\ at[t] \in {"prompt", "wait"} /\ Goto(t, "look")
      /\ UNCHANGED <<box, next, disk, handed, prompted, tickVars, drops, phase, queue, cur>>
  BY <1>0
<1>2. t \in Reporters /\ t[2] = g /\ t = <<"loop", g>> BY ThreadsAre DEF Loop
<1>3. g = cur /\ cur # NoGen /\ t[1] = "loop"
  <2>1. t[2] = cur /\ cur # NoGen
    <3> HIDE DEF t
    <3>1. at[t] \notin {"idle", "pop"} BY <1>1
    <3> QED BY <1>2, <3>1, BeganIs
  <2>2. t[1] = "loop" BY <1>2
  <2> QED BY <1>2, <2>1, <2>2
<1>4. at'[t] = "look" /\ at'[Tick] = at[Tick] /\ \A u \in Threads : u # t => at'[u] = at[u]
  BY <1>1, <1>2, TypesAre, ThreadsAre DEF Goto
<1>5. rep'[t].of = turn[cur] /\ rep'[t].what # "began" /\ turn'[cur] = NoMail
  <2>1. rep'[t] = [of |-> turn[cur], what |-> what] /\ turn'[cur] = NoMail
    BY <1>0, <1>2, <1>3, TypesAre, RunTypeIs
  <2> QED BY <2>1 DEF Outcomes
<1>6. \A u \in Reporters : u # t => rep'[u] = rep[u] /\ at'[u] = at[u] BY <1>0, <1>4, TypesAre, RunTypeIs, ThreadsAre
<1> HIDE DEF t
<1> DEFINE b == <<"report", "loop">>
<1>7. /\ TurnIs \in Places /\ b \in Places /\ TurnIs # b /\ TurnIs[1] # "report" /\ b[2] = "loop" /\ b[1] = "report"
  BY PlacesAre DEF TurnIs, Kinds
<1>8. ASSUME NEW m \in Messages
      PROVE  /\ IsAt(TurnIs, m) <=> m = turn[cur]
             /\ ~IsAt(TurnIs, m)'
             /\ ~IsAt(b, m)
             /\ IsAt(b, m)' <=> m = turn[cur]
             /\ \A p \in Places : p \notin {TurnIs, b} => (IsAt(p, m)' <=> IsAt(p, m))
  <2>1. (IsAt(TurnIs, m) <=> m = turn[cur]) /\ ~IsAt(TurnIs, m)' BY <1>1, <1>5, MoreBounds, PlaceIs
  <2>2. IsAt(b, m) <=> rep[t].of = m /\ rep[t].what # "began" /\ at[t] \in Reporting
    BY <1>2, <1>3, PlaceIs DEF ReportsOn
  <2>3. IsAt(b, m)' <=> rep'[t].of = m /\ rep'[t].what # "began" /\ at'[t] \in Reporting
    BY <1>1, <1>2, <1>3, PlaceIs
  <2>4. at'[t] \in Reporting /\ at[t] \notin Reporting BY <1>1, <1>4 DEF Reporting, t
  <2>5. ~IsAt(b, m) /\ (IsAt(b, m)' <=> m = turn[cur]) BY <1>5, <2>2, <2>3, <2>4
  <2>6. ASSUME NEW p \in Places, p \notin {TurnIs, b} PROVE IsAt(p, m)' <=> IsAt(p, m)
    <3>1. CASE p = QueueIs BY <1>1, <3>1, PlaceStays
    <3>2. ASSUME NEW k \in Kinds, p = <<"drops", k>> PROVE IsAt(p, m)' <=> IsAt(p, m) BY <1>1, <3>2, PlaceStays
    <3>3. ASSUME NEW k \in Kinds, p = <<"report", k>> PROVE IsAt(p, m)' <=> IsAt(p, m)
      <4>1. k # "loop" BY <2>6, <3>3
      <4>2. <<k, cur>> \in Reporters /\ <<k, cur>> # t BY <1>2, <1>3, <4>1, CurThreads
      <4> QED BY <1>1, <1>6, <3>3, <4>2, PlaceStays
    <3> QED BY <2>6, <3>1, <3>2, <3>3, PlacesAre
  <2> QED BY <2>1, <2>5, <2>6
<1> HIDE DEF b
<1>9. Passes(TurnIs, b)
  <2> SUFFICES ASSUME NEW m \in Messages
               PROVE  /\ \A p \in Places : IsAt(p, m)' => IsAt(p, m) \/ (p = b /\ IsAt(TurnIs, m))
                      /\ \A p \in Places : IsAt(p, m) => IsAt(p, m)' \/ (p = TurnIs /\ IsAt(b, m)')
                      /\ IsAt(TurnIs, m) /\ IsAt(b, m)' => ~IsAt(TurnIs, m)'
    BY DEF Passes
  <2> QED BY <1>7, <1>8
<1>10. \A m \in Messages : Fresh(m)' => Fresh(m)
  <2>1. \A m \in Messages : ~Begins(m)' BY <1>1, <1>3, <1>5 DEF Begins, t
  <2> QED BY <1>1, <2>1 DEF Fresh
<1>11. ASSUME NEW m \in Messages, NEW p \in Places, IsAt(p, m), p[1] = "report"
       PROVE  at'[<<p[2], cur>>] = at[<<p[2], cur>>]
  <2>1. p # <<"report", t[1]>> BY <1>3, <1>8, <1>11 DEF b
  <2>2. <<p[2], cur>> \in Reporters /\ <<p[2], cur>> # t BY <1>2, <1>3, <1>11, <2>1, ReportPlace
  <2> QED BY <1>6, <2>2
<1>12. \A u \in Reporters, m \in Messages :
            u[2] = cur /\ ReportsOn(u, m, {"save report"})' => ReportsOn(u, m, {"save report"})
  BY <1>4, <1>6 DEF ReportsOn
<1>13. OnceInv' /\ OwnInv' /\ LookInv' /\ ReadyInv'
  <2>1. Apart(queue'[cur]) BY <1>1, <1>3, CurQueue
  <2>2. at'[<<b[2], cur>>] \notin {"save report", "forget"} BY <1>2, <1>3, <1>4, <1>7
  <2>3. Serving' => Serving BY <1>1 DEF Serving
  <2> QED BY <1>1, <1>3, <1>4, <1>7, <1>9, <1>10, <1>11, <1>12, <2>1, <2>2, <2>3, MoveStep
<1>14. TurnGoes BY <1>5 DEF TurnGoes
<1>15. Counts BY <1>1, SameCalls, CallsCount
<1> QED BY <1>13, <1>14, <1>15, CountKeeps DEF Rest

\* Dropping the queue leaves its messages with the goroutine that reports on them.
LEMMA DropsRest ==
    ASSUME AllInv, StoreInv', NEW t \in Reporters, t[2] = cur, DropQueue(t),
           UNCHANGED <<box, next, disk, handed, prompted, at, tickVars, rep, turn, cur>>,
           \A g \in Gens : phase'[g] = "live" => phase[g] = "live"
    PROVE  Rest'
<1>1. cur \in Gens /\ cur # NoGen /\ t = <<t[1], cur>> /\ t[1] \in Kinds BY CurThreads
<1>2. /\ drops[t] = {} /\ drops'[t] = ToSet(queue[cur]) /\ queue'[cur] = <<>>
      /\ \A u \in Reporters : u # t => drops'[u] = drops[u]
  BY <1>1, TypesAre, RunTypeIs DEF DropQueue
<1>3. ToSet(<<>>) = {} /\ Apart(<<>>) BY DEF ToSet, Apart
<1> DEFINE b == <<"drops", t[1]>>
<1>4. QueueIs \in Places /\ b \in Places /\ QueueIs # b /\ QueueIs[1] # "report" /\ b[1] # "report"
  BY <1>1, PlacesAre DEF QueueIs
<1>5. ASSUME NEW m \in Messages
      PROVE  /\ IsAt(QueueIs, m) <=> m \in ToSet(queue[cur])
             /\ ~IsAt(QueueIs, m)'
             /\ ~IsAt(b, m)
             /\ IsAt(b, m)' <=> m \in ToSet(queue[cur])
             /\ \A p \in Places : p \notin {QueueIs, b} => (IsAt(p, m)' <=> IsAt(p, m))
  <2>1. (IsAt(QueueIs, m) <=> m \in ToSet(queue[cur])) /\ ~IsAt(QueueIs, m)' BY <1>2, <1>3, PlaceIs
  <2>2. ~IsAt(b, m) /\ (IsAt(b, m)' <=> m \in ToSet(queue[cur])) BY <1>1, <1>2, PlaceIs
  <2>3. ASSUME NEW p \in Places, p \notin {QueueIs, b} PROVE IsAt(p, m)' <=> IsAt(p, m)
    <3>1. CASE p = TurnIs BY <3>1, PlaceStays
    <3>2. ASSUME NEW k \in Kinds, p = <<"drops", k>> PROVE IsAt(p, m)' <=> IsAt(p, m)
      <4>1. k # t[1] BY <2>3, <3>2
      <4>2. <<k, cur>> \in Reporters /\ <<k, cur>> # t BY <1>1, <4>1, CurThreads
      <4> QED BY <1>2, <3>2, <4>2, PlaceStays
    <3>3. ASSUME NEW k \in Kinds, p = <<"report", k>> PROVE IsAt(p, m)' <=> IsAt(p, m) BY <3>3, PlaceStays
    <3> QED BY <2>3, <3>1, <3>2, <3>3, PlacesAre
  <2> QED BY <2>1, <2>2, <2>3
<1> HIDE DEF b
<1>6. Passes(QueueIs, b)
  <2> SUFFICES ASSUME NEW m \in Messages
               PROVE  /\ \A p \in Places : IsAt(p, m)' => IsAt(p, m) \/ (p = b /\ IsAt(QueueIs, m))
                      /\ \A p \in Places : IsAt(p, m) => IsAt(p, m)' \/ (p = QueueIs /\ IsAt(b, m)')
                      /\ IsAt(QueueIs, m) /\ IsAt(b, m)' => ~IsAt(QueueIs, m)'
    BY DEF Passes
  <2> QED BY <1>4, <1>5
<1>7. \A m \in Messages : Fresh(m)' => Fresh(m) BY <1>2, <1>3 DEF Fresh, Begins
<1>8. \A u \in Reporters, m \in Messages : ReportsOn(u, m, {"save report"})' => ReportsOn(u, m, {"save report"})
  BY DEF ReportsOn
<1>9. OnceInv' /\ OwnInv' /\ LookInv' /\ ReadyInv'
  <2>1. Serving' => Serving BY <1>1 DEF Serving
  <2> QED BY <1>1, <1>2, <1>3, <1>4, <1>6, <1>7, <1>8, <2>1, MoveStep
<1>10. TurnGoes BY <1>1, CurQueue DEF TurnGoes
<1>11. Counts BY SameCalls, CallsCount
<1> QED BY <1>9, <1>10, <1>11, CountKeeps DEF Rest

\* A runtime that starts has nothing.
LEMMA StartRest ==
    ASSUME AllInv, StoreInv', NEW g \in Gens, Start(g)
    PROVE  Rest'
<1>1. /\ cur = NoGen /\ cur' = g /\ phase[g] = "none" /\ phase' = [phase EXCEPT ![g] = "live"]
      /\ UNCHANGED <<box, next, disk, handed, prompted, at, copy, live, todo, rep, drops, queue, turn>>
  BY DEF Start, ownerFrame, diskVars, tickVars
<1>2. \A u \in Reporters : at[u] \in {"idle", "pop"} /\ drops[u] = {} BY <1>1, BeganIs
<1>3. queue[g] = <<>> BY <1>1 DEF AllInv, CalmInv
<1>4. turn[g] = NoMail
  <2>1. Loop(g) \in Reporters BY ThreadsAre
  <2> QED BY <1>2, <2>1, TypesAre DEF TurnInv
<1>5. g # NoGen /\ \A k \in Kinds : <<k, g>> \in Reporters BY MoreBounds DEF Reporters, Kinds
<1>6. ASSUME NEW m \in Messages PROVE ~Fresh(m)' /\ ~Has(m)' /\ \A p \in Places : ~IsAt(p, m)'
  <2>1. ~IsAt(QueueIs, m)' BY <1>1, <1>3, PlaceIs DEF ToSet
  <2>2. ~IsAt(TurnIs, m)' BY <1>1, <1>4, MoreBounds, PlaceIs
  <2>3. ASSUME NEW k \in Kinds PROVE ~IsAt(<<"drops", k>>, m)' /\ ~IsAt(<<"report", k>>, m)'
    <3>1. drops'[<<k, cur'>>] = {} /\ at'[<<k, cur'>>] \in {"idle", "pop"} BY <1>1, <1>2, <1>5
    <3> QED BY <3>1, PlaceIs DEF Reporting
  <2>4. \A p \in Places : ~IsAt(p, m)' BY <2>1, <2>2, <2>3, PlacesAre
  <2>5. ~Begins(m)' BY <1>1, <1>4, MoreBounds DEF Begins
  <2> QED BY <2>1, <2>4, <2>5, PlaceIs DEF Has, Fresh
<1>7. ASSUME NEW h \in {copy} \cup {handed[m] : m \in Messages} PROVE h # g /\ (h # NoGen => phase'[h] # "live")
  <2>1. h \in Gens \cup {NoGen} BY TypesAre DEF TickType
  <2>2. h # g BY <1>1, <1>5, TypesAre DEF GensInv
  <2>3. h # NoGen => phase[h] # "live" BY <1>1, <2>1 DEF AllInv, CalmInv
  <2>4. h # NoGen => phase'[h] = phase[h] BY <1>1, <2>1, <2>2, TypesAre, RunTypeIs
  <2> QED BY <2>2, <2>3, <2>4
<1>8. OnceInv'
  <2>1. Len(queue'[cur']) = 0 /\ 1..0 = {} BY <1>1, <1>3
  <2> QED BY <1>6, <2>1 DEF OnceInv
<1>9. OwnInv' BY <1>1, <1>6, <1>7 DEF OwnInv
<1>10. LookInv'
  <2> DEFINE N == at[Tick] \in {"interrupt", "save interrupt", "forget", "send", "unhand", "refused", "fail"}
  <2>1. N => First(todo) \in Messages BY AtHand
  <2>2. \A m \in todo : ~Fresh(m)' BY <1>6, AtHand
  <2>3. N => (~Fresh(First(todo)) /\ ~Has(First(todo)))'
    <3> SUFFICES ASSUME N PROVE (~Fresh(First(todo)) /\ ~Has(First(todo)))'
      OBVIOUS
    <3>1. PICK n \in Messages : n = First(todo) BY <2>1
    <3>2. ~Fresh(n)' /\ ~Has(n)' /\ First(todo') = n BY <1>1, <1>6, <3>1
    <3> QED BY <3>2
  <2>4. copy # g /\ (copy # NoGen => phase'[copy] # "live") BY <1>7
  <2>5. at[Tick] \in {"interrupt", "save interrupt", "forget"} /\ live => handed[First(todo)] # copy
    BY DEF AllInv, LookInv
  <2>6. at[Tick] = "fail" => handed[First(todo)] = NoGen BY DEF AllInv, LookInv
  <2> QED BY <1>1, <2>2, <2>3, <2>4, <2>5, <2>6 DEF LookInv
<1>11. ReadyInv'
  <2>1. \A t \in Reporters : at'[t] # "save report" BY <1>1, <1>2
  <2>2. copy' # cur' BY <1>1, <1>7
  <2> QED BY <1>6, <2>1, <2>2 DEF ReadyInv, ReportsOn
<1>12. CountInv'
  <2>1. \A m \in Messages : Counted(box, m, 0)' /\ Counted(disk, m, 0)' /\ (m >= next' => prompted'[m] = 0)
    BY <1>1 DEF AllInv, CountInv, Counted
  <2>2. turn'[cur'] = NoMail BY <1>1, <1>4
  <2> QED BY <2>1, <2>2 DEF CountInv
<1> QED BY <1>8, <1>9, <1>10, <1>11, <1>12 DEF Rest

\* Nor has a pane whose runtime is retired.
LEMMA RetireRest ==
    ASSUME AllInv, StoreInv', Retire \/ BecomeTerminal
    PROVE  Rest'
<1>1. cur' = NoGen /\ UNCHANGED <<box, next, disk, handed, prompted, at, copy, live, todo, phase>>
  BY DEF Retire, BecomeTerminal, ownerFrame, diskVars, tickVars
<1>2. ~Serving' /\ \A m \in Messages : ~Fresh(m)' /\ ~Has(m)' BY <1>1, NoRuntime
<1>3. LookInv'
  <2>1. \A m \in todo : ~Fresh(m)' BY <1>2, AtHand
  <2>2. at[Tick] \in {"send", "unhand", "refused"} => ~Fresh(First(todo))'
    BY <1>1 DEF Fresh
  <2> QED BY <1>1, <1>2, <2>1, <2>2 DEF AllInv, LookInv
<1>4. CountInv'
  <2>1. \A m \in Messages : Counted(box, m, 0)' /\ Counted(disk, m, 0)' /\ (m >= next' => prompted'[m] = 0)
    BY <1>1 DEF AllInv, CountInv, Counted
  <2> QED BY <1>1, <2>1 DEF CountInv
<1> QED BY <1>1, <1>3, <1>4, NoRuntime DEF Rest

\* What a crash leaves is what the disk has, where every prompt is counted.
LEMMA CrashRest ==
    ASSUME AllInv, StoreInv', Crash
    PROVE  Rest'
<1>1. /\ cur' = NoGen /\ box' = Restored(disk) /\ next' = diskNext /\ disk' = disk /\ at' = AllHome
      /\ prompted' = [m \in Messages |-> IF m < diskNext THEN prompted[m] ELSE 0]
  BY DEF Crash
<1>2. at'[Tick] = "idle" BY <1>1, ThreadsAre, LabelsAre DEF AllHome
<1>3. LookInv' BY <1>2 DEF LookInv
<1>4. ASSUME NEW m \in Messages
      PROVE  Counted(box, m, 0)' /\ Counted(disk, m, 0)' /\ (m >= next' => prompted'[m] = 0)
  <2>1. prompted'[m] = IF m < diskNext THEN prompted[m] ELSE 0 BY <1>1
  <2>2. m \in Nat /\ diskNext \in Nat /\ (m >= diskNext => m \notin Open(disk)) BY TypesAre
  <2>3. Counted(disk, m, 0) BY DEF AllInv, CountInv
  <2>4. m \in Open(disk) => prompted'[m] + 0 <= disk[m].attempts BY <2>1, <2>2, <2>3 DEF Counted
  <2>5. Calls(disk, box') BY <1>1, TypesAre, OthersCount
  <2>6. m \in Open(box') => m \in Open(disk) /\ disk[m].attempts <= box'[m].attempts BY <2>5 DEF Calls
  <2>7. prompted'[m] \in Nat /\ disk[m].attempts \in Nat /\ box'[m].attempts \in Nat
    <3>1. box'[m] \in Message BY StoreGoes
    <3> QED BY <2>1, <3>1, TypesAre, BoundsAreNat DEF Message
  <2>8. m \in Open(box') => prompted'[m] + 0 <= box'[m].attempts BY <2>4, <2>6, <2>7
  <2>9. m >= next' => prompted'[m] = 0 BY <1>1, <2>1, <2>2
  <2> QED BY <1>1, <2>4, <2>8, <2>9 DEF Counted
<1>5. CountInv' BY <1>1, <1>4 DEF CountInv
<1> QED BY <1>1, <1>3, <1>5, NoRuntime DEF Rest

\* So does every step, while Close outwaits those that report.
LEMMA NextPrompt ==
    ASSUME ~LateReports, StoreInv, StoreInv', TypeOK, HeldInv, PromptInv, [Next]_vars
    PROVE  PromptInv'
<1>1. CASE Next /\ kind' # "gone"
  <2>0. StoreType /\ TickType /\ RunType /\ PaneType /\ at \in [Threads -> Labels] /\ Dropping
        /\ LabelInv /\ TodoInv /\ GensInv
    BY DEF TypeOK, HeldInv, StoreInv
  <2>1. kind # "gone" /\ ~RemovePane /\ ~DropInbox BY <1>1, <2>0, GoneStays
  <2>2. AllInv BY <2>1 DEF AllInv, PromptInv
  <2>3. CalmInv' BY <1>1, <2>0, <2>2, CalmSteps DEF AllInv
  <2> SUFFICES Rest'
    BY <2>3 DEF PromptInv, Rest
  <2>4. CASE TickSteps BY <2>2, <2>4, TickRest
  <2>5. ASSUME NEW t \in Threads, Save(t) PROVE Rest'
    <3>1. CASE t \in Reporters BY <2>2, <2>5, <3>1, ReportSaves
    <3>2. CASE t \notin Reporters BY <2>2, <2>5, <3>2, OthersSave
    <3> QED BY <3>1, <3>2
  <2>6. CASE SendRouted \/ SendPut \/ (\E m \in Messages : ReadMail(m)) \/ Switch
    BY <2>2, <2>6, SendersRest
  <2>7. ASSUME NEW t \in Reporters, Reports(t) PROVE Rest'
    BY <2>2, <2>7, LookRest, ApplyRest, ForgetRest, DropRest DEF Reports
  <2>8. ASSUME NEW g \in Gens, Turns(g) PROVE Rest'
    BY <2>2, <2>8, PopRest, PromptRest, EndsRest DEF Turns
  <2>9. CASE CancelPane
    <3>1. cur # NoGen /\ DropQueue(Canceller(cur)) /\ phase' = phase
          /\ UNCHANGED <<box, next, disk, handed, prompted, at, tickVars, rep, turn, cur>>
      BY <2>9 DEF CancelPane, diskVars
    <3>2. Canceller(cur) \in Reporters /\ Canceller(cur)[2] = cur
      BY <2>2, <3>1, CurThreads DEF Canceller, Kinds
    <3> QED BY <2>2, <3>1, <3>2, DropsRest
  <2>10. ASSUME NEW t \in Reporters, NEW p \in {"needs setup", "final"}, RuntimeEnds(t, p) PROVE Rest'
    <3>1. phase[t[2]] = "live" /\ DropQueue(t) /\ phase' = [phase EXCEPT ![t[2]] = p]
          /\ UNCHANGED <<box, next, disk, handed, prompted, at, tickVars, rep, turn, cur>>
      BY <2>10 DEF RuntimeEnds, reportFrame, diskVars, paneVars
    <3>2. t[2] \in Gens /\ t[2] = cur BY <2>0, <2>2, <3>1, ThreadsAre, BusyIsCur DEF AllInv
    <3>3. \A g \in Gens : phase'[g] = "live" => phase[g] = "live"
      BY <2>0, <3>1, <3>2, RunTypeIs
    <3> QED BY <2>2, <3>1, <3>2, <3>3, DropsRest
  <2>11. ASSUME NEW g \in Gens, Start(g) PROVE Rest' BY <2>2, <2>11, StartRest
  <2>12. CASE Retire \/ BecomeTerminal BY <2>2, <2>12, RetireRest
  <2>13. CASE Crash BY <2>2, <2>13, CrashRest
  <2> QED BY <1>1, <2>1, <2>4, <2>5, <2>6, <2>7, <2>8, <2>9, <2>10, <2>11, <2>12, <2>13 DEF Next
<1>2. CASE UNCHANGED vars
  <2>1. UNCHANGED <<at, box, next, disk, diskNext, accepted, prompted, handed, copy, live, todo, route, rep, drops,
                    phase, queue, turn, cur, kind, on, cancels, crashes>>
    BY <1>2 DEF vars, storeVars, diskVars, tickVars, runVars, paneVars
  <2>2. CalmInv' <=> CalmInv BY <2>1 DEF CalmInv, Silent
  <2>3. OnceInv' <=> OnceInv BY <2>1 DEF OnceInv, IsAt, ReportsOn
  <2>4. OwnInv' <=> OwnInv BY <2>1 DEF OwnInv, Fresh, Has, Begins, Serving, IsAt, ReportsOn
  <2>5. LookInv' <=> LookInv BY <2>1 DEF LookInv, Fresh, Has, Begins, Serving, IsAt, ReportsOn
  <2>6. ReadyInv' <=> ReadyInv
    BY <2>1 DEF ReadyInv, Fresh, Has, Begins, Serving, Ready, Settled, IsAt, ReportsOn
  <2>7. CountInv' <=> CountInv BY <2>1 DEF CountInv, Counted
  <2> QED BY <2>1, <2>2, <2>3, <2>4, <2>5, <2>6, <2>7 DEF PromptInv
<1>3. CASE kind' = "gone" BY <1>3 DEF PromptInv
<1> QED BY <1>1, <1>2, <1>3

\* At the start there is no mail and no runtime.
LEMMA InitPrompt == Init => PromptInv
<1> SUFFICES ASSUME Init PROVE PromptInv
  OBVIOUS
<1>1. /\ cur = NoGen /\ at = AllHome /\ kind = "structured" /\ box = EmptyBox /\ disk = EmptyBox
      /\ \A m \in Messages : prompted[m] = 0
      /\ \A g \in Gens : queue[g] = <<>> /\ phase[g] = "none"
      /\ \A t \in Reporters : drops[t] = {}
  BY DEF Init, EmptyQueues, NoDrops
<1>2. at[Tick] = "idle" /\ \A t \in Reporters : at[t] = Home(t) BY <1>1, ThreadsAre, LabelsAre DEF AllHome
<1>3. CalmInv BY <1>1, <1>2 DEF CalmInv, Silent
<1>4. \A m \in Messages : ~Fresh(m) /\ ~Has(m) BY <1>1 DEF Fresh, Has
<1>5. OnceInv /\ OwnInv /\ LookInv /\ ReadyInv
  BY <1>1, <1>2, <1>4 DEF OnceInv, OwnInv, LookInv, ReadyInv, Serving
<1>6. \A m \in Messages : m \notin Open(EmptyBox) BY EmptyIsGood, NoMessageIs, OpenIs
<1>7. CountInv BY <1>1, <1>6 DEF CountInv, Counted
<1> QED BY <1>3, <1>5, <1>7 DEF PromptInv

\* While Close outwaits the goroutines that report, every prompt the agent of a pane was
\* sent for an unfinished message is an attempt on the disk: a crash forgets none of them.
THEOREM CountedCorrect == ~LateReports => (Spec => []PromptIsCounted)
<1> SUFFICES ASSUME ~LateReports PROVE Spec => []PromptIsCounted
  OBVIOUS
<1>1. Init => PromptInv BY InitPrompt
<1>2. StoreInv /\ StoreInv' /\ (TypeOK /\ HeldInv) /\ PromptInv /\ [Next]_vars => PromptInv' BY NextPrompt
<1>3. TypeOK /\ PromptInv => PromptIsCounted
  <2> SUFFICES ASSUME TypeOK, PromptInv, kind # "gone", NEW m \in Open(disk) PROVE prompted[m] <= disk[m].attempts
    BY DEF PromptIsCounted
  <2>1. m \in Messages BY DEF Open, Pending, InFlight, In
  <2>2. prompted[m] + 0 <= disk[m].attempts BY <2>1 DEF PromptInv, CountInv, Counted
  <2>3. prompted[m] \in Nat BY <2>1, BoundsAreNat DEF TypeOK, StoreType
  <2> QED BY <2>2, <2>3
<1> QED BY <1>1, <1>2, <1>3, StoreCorrect, HeldCorrect, PTL DEF Spec

=============================================================================
