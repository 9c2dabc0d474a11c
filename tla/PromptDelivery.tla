--------------------------- MODULE PromptDelivery ---------------------------
(* The prompt delivery service (internal/workspace/promptdelivery.go) of one  *)
(* pane: how messages in the pane's inbox become prompts of its agent, across *)
(* restarts of the agent, and crashes of Flockdeck.                           *)
(*                                                                            *)
(* The store's calls come from Inbox. Each is followed by a save of the whole *)
(* inbox on the goroutine that made it (OnChange), after the store's lock is  *)
(* let go, so other goroutines run, and the process may die, in between. The  *)
(* tick works from copies of the inbox and of the pane's runtime, and a       *)
(* report of a runtime is three regions: the look at its generation, the call *)
(* of the store, and the forgetting.                                          *)
(*                                                                            *)
(* A runtime is what StructuredTurns shows it to be: a queue, one turn at a   *)
(* time, and for each prompt "began" and then "ended" or "lost", or only      *)
(* "lost". Runtimes are told apart by their generation.                       *)
EXTENDS Inbox, Sequences, SequencesExt

CONSTANTS
    MaxGen,     \* how many runtimes the pane ever has (a bound)
    MaxQueue,   \* maxQueue: how many prompts a runtime holds
    MaxCancels, \* how often the person cancels (a bound)
    MaxCrashes, \* how often Flockdeck dies (a bound)
    Refused,    \* the messages a runtime will not take
    Fates,      \* what may become of the pane: "terminal", "gone"
    MayPause,   \* whether the person uses the off switch
    LateReports \* whether a goroutine that reports may outlast its runtime's Close

ASSUME DeliveryAssumption ==
    /\ {MaxGen, MaxQueue} \subseteq Nat \ {0} /\ {MaxCancels, MaxCrashes} \subseteq Nat
    /\ Refused \subseteq Messages /\ Fates \subseteq {"terminal", "gone"} /\ {MayPause, LateReports} \subseteq BOOLEAN

Gens == 1..MaxGen
NoGen == 0
NoMail == 0
\* The goroutines a runtime reports from: its loop, a caller of Cancel, and one
\* that closes it (a bound: one of each at a time).
Loop(g) == <<"loop", g>>
Canceller(g) == <<"cancel", g>>
Closer(g) == <<"close", g>>
Reporters == {"loop", "cancel", "close"} \X Gens
Threads == {<<t, NoGen>> : t \in {"tick", "sender", "reader", "owner"}} \cup Reporters
Tick == <<"tick", NoGen>>
Sender == <<"sender", NoGen>>
Reader == <<"reader", NoGen>>
Owner == <<"owner", NoGen>>

VARIABLES
    box,      \* the pane's messages in memory
    next,     \* s.next
    disk,     \* the messages as they were last saved
    diskNext, \* and s.next
    accepted, \* the messages whose Send has returned
    prompted, \* how often the agent was sent each message (a history)
    handed,   \* s.handed: the generation each message was given to
    at,       \* where each goroutine is
    copy,     \* the generation of the tick's promptPane
    live,     \* whether the tick found it alive
    todo,     \* the messages the tick still goes through
    route,    \* the route the sender was given by the router
    rep,      \* what each reporter reports
    drops,    \* the messages each reporter has dropped and not yet reported
    phase,    \* the phase of each runtime
    queue,    \* its queue
    turn,     \* the message of its turn
    cur,      \* the generation of the pane's runtime
    kind,     \* what the pane is
    on,       \* WakeEnabled
    cancels,  \* how often the person has cancelled
    crashes   \* how often Flockdeck has died

storeVars == <<box, next>>
diskVars  == <<disk, diskNext, accepted>>
tickVars  == <<copy, live, todo>>
runVars   == <<phase, queue, turn>>
paneVars  == <<cur, kind, on, cancels>>
vars == <<storeVars, diskVars, prompted, handed, at, tickVars, route, rep, drops, runVars, paneVars, crashes>>

NoReport == [of |-> NoMail, what |-> "none"]
Home(t) == IF t[1] = "loop" THEN "pop" ELSE "idle"

NoneHanded == [m \in Messages |-> NoGen]
AllHome == [t \in Threads |-> Home(t)]
NoReports == [t \in Reporters |-> NoReport]
NoDrops == [t \in Reporters |-> {}]
EmptyQueues == [g \in Gens |-> <<>>]
NoTurns == [g \in Gens |-> NoMail]

Init ==
    /\ box = EmptyBox /\ next = 1 /\ disk = EmptyBox /\ diskNext = 1
    /\ accepted = {} /\ prompted = [m \in Messages |-> 0]
    /\ handed = NoneHanded /\ at = AllHome
    /\ copy = NoGen /\ live = FALSE /\ todo = {} /\ route = "none"
    /\ rep = NoReports /\ drops = NoDrops
    /\ phase = [g \in Gens |-> "none"] /\ queue = EmptyQueues /\ turn = NoTurns
    /\ cur = NoGen /\ kind = "structured" /\ on = TRUE /\ cancels = 0 /\ crashes = 0

Goto(t, label) == at' = [at EXCEPT ![t] = label]
Alive(g) == g # NoGen /\ phase[g] \in {"live", "needs setup"}
First(S) == CHOOSE m \in S : \A n \in S : m <= n
ForgetNothing(m) == UNCHANGED handed
Forget(m) == handed' = [handed EXCEPT ![m] = NoGen]

\* A call of the store: when it changed the box, what comes next is the save.
Call(t, newBox, saveLabel, otherwise) ==
    /\ box' = newBox
    /\ Goto(t, IF newBox # box THEN saveLabel ELSE otherwise)

-----------------------------------------------------------------------------
(* The save after each change, under saveMu: a snapshot of the inbox as it is *)
(* by then, and the write of the file, which is whole or not done.            *)

AfterSave(t) ==
    LET label == at[t] IN
    CASE label = "save interrupt" -> "forget"
      [] label = "save fail"      -> "offer"
      [] label = "save reroute"   -> "cleanup"
      [] label = "save report"    -> IF rep[t].what = "began" THEN "prompt" ELSE "forget"
      [] OTHER                    -> Home(t)

SaveLabels == {"save interrupt", "save fail", "save reroute", "save report", "save"}

Save(t) ==
    /\ at[t] \in SaveLabels
    /\ disk' = box /\ diskNext' = next
    /\ accepted' = IF t = Sender THEN accepted \cup {next - 1} ELSE accepted
    /\ Goto(t, AfterSave(t))
    /\ UNCHANGED <<storeVars, prompted, handed, tickVars, route, rep, drops, runVars, paneVars, crashes>>

-----------------------------------------------------------------------------
(* Senders and readers.                                                       *)

\* Send asks the router for the route before SendRoute takes the store's lock.
SendRouted ==
    /\ at[Sender] = "idle" /\ next <= MaxMessages /\ kind # "gone"
    /\ route' = IF kind = "structured" THEN "queued" ELSE "unread"
    /\ Goto(Sender, "put")
    /\ UNCHANGED <<storeVars, diskVars, prompted, handed, tickVars, rep, drops, runVars, paneVars, crashes>>

SendPut ==
    /\ at[Sender] = "put"
    /\ IF CanPut(box)
       THEN box' = Put(box, next, route) /\ next' = next + 1 /\ Goto(Sender, "save")
       ELSE UNCHANGED storeVars /\ Goto(Sender, "idle")
    /\ route' = "none"
    /\ UNCHANGED <<diskVars, prompted, handed, tickVars, rep, drops, runVars, paneVars, crashes>>

\* A terminal agent reads its inbox.
ReadMail(m) ==
    /\ at[Reader] = "idle" /\ kind = "terminal" /\ Read(box, m) # box
    /\ Call(Reader, Read(box, m), "save", "idle")
    /\ UNCHANGED <<next, diskVars, prompted, handed, tickVars, route, rep, drops, runVars, paneVars, crashes>>

-----------------------------------------------------------------------------
(* The tick.                                                                  *)

tickFrame == <<next, diskVars, prompted, route, rep, drops, runVars, paneVars, crashes>>

\* promptPanes: the tick's copy of the pane's runtime.
TickStart ==
    /\ at[Tick] = "idle"
    /\ copy' = cur /\ Goto(Tick, "panes")
    /\ UNCHANGED <<box, handed, live, todo, tickFrame>>

\* Panes, and whether a pane that has no runtime is a terminal.
TickPanes ==
    /\ at[Tick] = "panes"
    /\ Goto(Tick, IF Open(box) = {} THEN "cleanup"
                  ELSE IF copy = NoGen /\ kind = "terminal" THEN "reroute" ELSE "look")
    /\ UNCHANGED <<box, handed, tickVars, tickFrame>>

TickReroute ==
    /\ at[Tick] = "reroute"
    /\ Call(Tick, Reroute(box), "save reroute", "cleanup")
    /\ UNCHANGED <<handed, tickVars, tickFrame>>

\* Whether the runtime is alive, and the messages in flight.
TickLook ==
    /\ at[Tick] = "look"
    /\ live' = Alive(copy) /\ todo' = InFlight(box) /\ Goto(Tick, "settle")
    /\ UNCHANGED <<box, handed, copy, tickFrame>>

\* A message in flight with another runtime, or with none.
Stale(m) == ~live \/ handed[m] = NoGen \/ handed[m] # copy

TickSettle ==
    /\ at[Tick] = "settle" /\ todo # {}
    /\ LET m == First(todo) IN
       IF Stale(m) THEN Goto(Tick, "interrupt") /\ UNCHANGED todo
                   ELSE todo' = todo \ {m} /\ UNCHANGED at
    /\ UNCHANGED <<box, handed, copy, live, tickFrame>>

TickInterrupt ==
    /\ at[Tick] = "interrupt"
    /\ Call(Tick, Interrupted(box, First(todo)), "save interrupt", "forget")
    /\ UNCHANGED <<handed, tickVars, tickFrame>>

TickForget ==
    /\ at[Tick] = "forget"
    /\ Forget(First(todo)) /\ todo' = todo \ {First(todo)} /\ Goto(Tick, "settle")
    /\ UNCHANGED <<box, copy, live, tickFrame>>

\* The off switch, and a copy of what is queued.
TickPending ==
    /\ at[Tick] = "settle" /\ todo = {}
    /\ IF live /\ on THEN todo' = Pending(box) /\ Goto(Tick, "offer")
                     ELSE UNCHANGED todo /\ Goto(Tick, "cleanup")
    /\ UNCHANGED <<box, handed, copy, live, tickFrame>>

\* A message this runtime was given already is passed over; any other is
\* recorded as handed to it before it is sent.
WasHanded(m) == handed[m] = copy

TickOffer ==
    /\ at[Tick] = "offer"
    /\ IF todo = {} THEN Goto(Tick, "cleanup") /\ UNCHANGED <<todo, handed>>
       ELSE LET m == First(todo) IN
            IF WasHanded(m) THEN todo' = todo \ {m} /\ UNCHANGED <<at, handed>>
            ELSE handed' = [handed EXCEPT ![m] = copy] /\ Goto(Tick, "send") /\ UNCHANGED todo
    /\ UNCHANGED <<box, copy, live, tickFrame>>

\* The runtime takes no prompt now (ErrNotRunning, ErrQueueFull).
NoRoom(g) == phase[g] # "live" \/ Len(queue[g]) >= MaxQueue

\* SendMail: the runtime refuses a prompt for what it is, or takes none now.
TickSend ==
    /\ at[Tick] = "send"
    /\ LET m == First(todo) IN
       CASE m \in Refused -> Goto(Tick, "refused") /\ UNCHANGED <<todo, queue>>
         [] m \notin Refused /\ NoRoom(copy) -> Goto(Tick, "unhand") /\ UNCHANGED <<todo, queue>>
         [] OTHER -> /\ queue' = [queue EXCEPT ![copy] = Append(@, m)]
                     /\ todo' = todo \ {m} /\ Goto(Tick, "offer")
    /\ UNCHANGED <<storeVars, diskVars, prompted, handed, copy, live, route, rep, drops, phase, turn, paneVars, crashes>>

TickUnhandNothing ==
    /\ at[Tick] = "unhand"
    /\ todo' = {} /\ Goto(Tick, "cleanup")
    /\ UNCHANGED <<box, handed, copy, live, tickFrame>>

\* No room, or no runtime: the rest of the mail waits for a later tick.
TickUnhand ==
    /\ at[Tick] = "unhand"
    /\ Forget(First(todo)) /\ todo' = {} /\ Goto(Tick, "cleanup")
    /\ UNCHANGED <<box, copy, live, tickFrame>>

TickRefused ==
    /\ at[Tick] = "refused"
    /\ Forget(First(todo)) /\ Goto(Tick, "fail")
    /\ UNCHANGED <<box, tickVars, tickFrame>>

TickFail ==
    /\ at[Tick] = "fail"
    /\ Call(Tick, Fail(box, First(todo)), "save fail", "offer")
    /\ todo' = todo \ {First(todo)}
    /\ UNCHANGED <<handed, copy, live, tickFrame>>

TickCleanup ==
    /\ at[Tick] = "cleanup"
    /\ handed' = IF copy = NoGen THEN NoneHanded ELSE handed
    /\ copy' = NoGen /\ live' = FALSE /\ todo' = {} /\ Goto(Tick, "idle")
    /\ UNCHANGED <<box, tickFrame>>

-----------------------------------------------------------------------------
(* turn: a runtime reports on a prompt.                                       *)

reportFrame == <<next, diskVars, tickVars, route, paneVars, crashes>>

AfterReport(t) == IF t[1] = "loop" /\ rep[t].what = "began" THEN "prompt" ELSE Home(t)

\* The look at the generation. A report of another runtime is ignored.
Heard(t) == handed[rep[t].of] = t[2]

ReportLook(t) ==
    /\ at[t] = "look"
    /\ Goto(t, IF Heard(t) THEN "apply" ELSE AfterReport(t))
    /\ rep' = IF Heard(t) THEN rep ELSE [rep EXCEPT ![t] = NoReport]
    /\ UNCHANGED <<box, handed, prompted, drops, runVars, reportFrame>>

Applied(t) ==
    CASE rep[t].what = "began"   -> Deliver(box, rep[t].of)
      [] rep[t].what = "handled" -> End(box, rep[t].of, TRUE)
      [] OTHER                   -> End(box, rep[t].of, FALSE)

ReportApply(t) ==
    /\ at[t] = "apply"
    /\ Call(t, Applied(t), "save report", IF rep[t].what = "began" THEN "prompt" ELSE "forget")
    /\ UNCHANGED <<handed, prompted, rep, drops, runVars, reportFrame>>

ReportForget(t) ==
    /\ t \in Reporters /\ at[t] = "forget"
    /\ Forget(rep[t].of) /\ Goto(t, Home(t)) /\ rep' = [rep EXCEPT ![t] = NoReport]
    /\ UNCHANGED <<box, prompted, drops, runVars, reportFrame>>

-----------------------------------------------------------------------------
(* The runtimes.                                                              *)

\* A queue that was dropped is reported on one message after the other.
ReportDrop(t) ==
    /\ at[t] = Home(t) /\ drops[t] # {}
    /\ rep' = [rep EXCEPT ![t] = [of |-> First(drops[t]), what |-> "lost"]]
    /\ drops' = [drops EXCEPT ![t] = @ \ {First(drops[t])}]
    /\ Goto(t, "look")
    /\ UNCHANGED <<box, handed, prompted, runVars, reportFrame>>

Pop(g) ==
    /\ at[Loop(g)] = "pop" /\ drops[Loop(g)] = {} /\ phase[g] = "live" /\ queue[g] # <<>>
    /\ turn' = [turn EXCEPT ![g] = Head(queue[g])]
    /\ queue' = [queue EXCEPT ![g] = Tail(@)]
    /\ rep' = [rep EXCEPT ![Loop(g)] = [of |-> Head(queue[g]), what |-> "began"]]
    /\ Goto(Loop(g), "look")
    /\ UNCHANGED <<box, handed, prompted, drops, phase, reportFrame>>

\* PromptTurn sends the prompt once the report that the turn began has returned.
\* A runtime that has ended may send it still, or not. The history counts to one
\* more than MaxAttempts and stays there (a bound).
SendPrompt(g) ==
    /\ at[Loop(g)] = "prompt"
    /\ prompted' = [prompted EXCEPT ![turn[g]] = IF @ > MaxAttempts THEN @ ELSE @ + 1]
    /\ Goto(Loop(g), "wait") /\ rep' = [rep EXCEPT ![Loop(g)] = NoReport]
    /\ UNCHANGED <<box, handed, drops, runVars, reportFrame>>

SendFails(g) ==
    /\ at[Loop(g)] = "prompt" /\ phase[g] # "live"
    /\ rep' = [rep EXCEPT ![Loop(g)] = [of |-> turn[g], what |-> "lost"]]
    /\ turn' = [turn EXCEPT ![g] = NoMail]
    /\ Goto(Loop(g), "look")
    /\ UNCHANGED <<box, handed, prompted, drops, phase, queue, reportFrame>>

\* The turn ends with a stop reason that counts as handled (Outcome, and
\* cancelled when the person asked), with one that does not, or with an error.
TurnEnds(g, what) ==
    /\ at[Loop(g)] = "wait"
    /\ rep' = [rep EXCEPT ![Loop(g)] = [of |-> turn[g], what |-> what]]
    /\ turn' = [turn EXCEPT ![g] = NoMail]
    /\ Goto(Loop(g), "look")
    /\ UNCHANGED <<box, handed, prompted, drops, phase, queue, reportFrame>>

DropQueue(t) ==
    /\ at[t] = Home(t) /\ drops[t] = {}
    /\ drops' = [drops EXCEPT ![t] = ToSet(queue[t[2]])]
    /\ queue' = [queue EXCEPT ![t[2]] = <<>>]

\* Cancel drops the queue and leaves the runtime as it is.
CancelPane ==
    /\ cancels < MaxCancels /\ cur # NoGen /\ phase[cur] = "live"
    /\ DropQueue(Canceller(cur)) /\ cancels' = cancels + 1
    /\ UNCHANGED <<box, handed, prompted, at, rep, phase, turn, next, diskVars, tickVars, route, cur, kind, on, crashes>>

\* finish, set and fail: the loop, when the agent has gone or asks to be set up, or
\* the goroutine that closes the pane ends the runtime and drops its queue.
RuntimeEnds(t, p) ==
    /\ t[1] # "cancel" /\ (p = "final" \/ t[1] = "loop")
    /\ phase[t[2]] = "live"
    /\ DropQueue(t)
    /\ phase' = [phase EXCEPT ![t[2]] = p]
    /\ UNCHANGED <<box, handed, prompted, at, rep, turn, reportFrame>>

ownerFrame == <<box, next, diskVars, prompted, handed, at, tickVars, route, rep, drops, queue, turn, cancels, crashes>>

\* startStructured: a runtime of a new generation.
Start(g) ==
    /\ kind = "structured" /\ cur = NoGen
    /\ phase[g] = "none" /\ \A h \in Gens : h < g => phase[h] # "none"
    /\ phase' = [phase EXCEPT ![g] = "live"] /\ cur' = g
    /\ UNCHANGED <<kind, on, ownerFrame>>

\* Close has reported what it dropped, and has waited for the loop, for closeWait
\* at most, but not for a caller of Cancel.
Silent(t) == at[t] = Home(t) /\ drops[t] = {}
Closed ==
    cur # NoGen =>
        /\ phase[cur] # "live" /\ Silent(Closer(cur))
        /\ LateReports \/ (Silent(Loop(cur)) /\ Silent(Canceller(cur)))

\* restartStructured has closed the old runtime.
Retire ==
    /\ cur # NoGen /\ Closed
    /\ cur' = NoGen
    /\ UNCHANGED <<kind, on, phase, ownerFrame>>

\* RestartPaneAsTerminal.
BecomeTerminal ==
    /\ "terminal" \in Fates /\ kind = "structured"
    /\ Closed
    /\ cur' = NoGen /\ kind' = "terminal"
    /\ UNCHANGED <<on, phase, ownerFrame>>

\* destroyPane takes the pane out of the list before it closes the runtime, and
\* a pane closed on purpose then takes its inbox with it (dropInbox).
RemovePane ==
    /\ "gone" \in Fates /\ kind # "gone"
    /\ cur' = NoGen /\ kind' = "gone"
    /\ Goto(Owner, "drop")
    /\ UNCHANGED <<on, phase, box, next, diskVars, prompted, handed, tickVars, route, rep, drops, queue, turn, cancels, crashes>>

DropInbox ==
    /\ at[Owner] = "drop" /\ \A g \in Gens : phase[g] # "live"
    /\ Call(Owner, EmptyBox, "save", "idle")
    /\ UNCHANGED <<next, diskVars, prompted, handed, tickVars, route, rep, drops, runVars, paneVars, crashes>>

Switch ==
    /\ MayPause /\ on' = ~on
    /\ UNCHANGED <<cur, kind, phase, ownerFrame>>

\* Flockdeck dies and starts again: what it holds in memory is gone, Load reads
\* what was saved, and an id that was not saved is given to another message.
\* Generations go on from where they were, which only keeps them apart.
Crash ==
    /\ crashes < MaxCrashes /\ crashes' = crashes + 1
    /\ box' = Restored(disk) /\ next' = diskNext
    /\ accepted' = accepted \cap 1..(diskNext - 1)
    /\ prompted' = [m \in Messages |-> IF m < diskNext THEN prompted[m] ELSE 0]
    /\ handed' = NoneHanded /\ at' = AllHome
    /\ copy' = NoGen /\ live' = FALSE /\ todo' = {} /\ route' = "none"
    /\ rep' = NoReports /\ drops' = NoDrops
    /\ queue' = EmptyQueues /\ turn' = NoTurns /\ cur' = NoGen
    /\ phase' = [g \in Gens |-> IF phase[g] = "none" THEN "none" ELSE "final"]
    /\ UNCHANGED <<disk, diskNext, kind, on, cancels>>

-----------------------------------------------------------------------------
TickSteps ==
    \/ TickStart \/ TickPanes \/ TickReroute \/ TickLook \/ TickSettle \/ TickInterrupt
    \/ TickForget \/ TickPending \/ TickOffer \/ TickSend \/ TickUnhand \/ TickRefused
    \/ TickFail \/ TickCleanup

Reports(t) == ReportLook(t) \/ ReportApply(t) \/ ReportForget(t) \/ ReportDrop(t)
Outcomes == {"handled", "again", "lost"}
Turns(g) == Pop(g) \/ SendPrompt(g) \/ SendFails(g) \/ \E what \in Outcomes : TurnEnds(g, what)

Next ==
    \/ \E t \in Threads : Save(t)
    \/ SendRouted \/ SendPut \/ \E m \in Messages : ReadMail(m)
    \/ TickSteps
    \/ \E t \in Reporters : Reports(t)
    \/ \E g \in Gens : Turns(g)
    \/ CancelPane \/ \E t \in Reporters, p \in {"needs setup", "final"} : RuntimeEnds(t, p)
    \/ \E g \in Gens : Start(g)
    \/ Retire \/ BecomeTerminal \/ RemovePane \/ DropInbox \/ Switch \/ Crash

Spec == Init /\ [][Next]_vars

\* Every goroutine that can run does, and the agent ends its turns.
Fairness ==
    /\ WF_vars(TickSteps)
    /\ \A t \in Threads : WF_vars(Save(t))
    /\ \A t \in Reporters : WF_vars(Reports(t))
    /\ \A g \in Gens : WF_vars(Turns(g))

FairSpec == Spec /\ Fairness

-----------------------------------------------------------------------------
Labels == {"idle", "pop", "put", "panes", "reroute", "look", "settle", "interrupt", "forget", "offer",
           "send", "unhand", "refused", "drop", "fail", "cleanup", "apply", "prompt", "wait"} \cup SaveLabels

\* Every variable has its type, and the inbox and the queues keep to their limits.
StoreType ==
    /\ box \in TypeOfBox /\ disk \in TypeOfBox
    /\ Cardinality(Held(box)) <= MaxInbox /\ Cardinality(Held(disk)) <= MaxInbox
    /\ next \in 1..(MaxMessages + 1) /\ diskNext \in 1..next
    /\ accepted \subseteq Messages /\ prompted \in [Messages -> 0..(MaxAttempts + 1)]
    /\ route \in {"none", "queued", "unread"}
TickType ==
    /\ handed \in [Messages -> Gens \cup {NoGen}]
    /\ copy \in Gens \cup {NoGen} /\ live \in BOOLEAN /\ todo \subseteq Messages
RunType ==
    /\ rep \in [Reporters -> [of : Messages \cup {NoMail}, what : {"none", "began"} \cup Outcomes]]
    /\ drops \in [Reporters -> SUBSET Messages]
    /\ phase \in [Gens -> {"none", "live", "needs setup", "final"}]
    /\ queue \in [Gens -> Seq(Messages)] /\ (\A g \in Gens : Len(queue[g]) <= MaxQueue)
    /\ turn \in [Gens -> Messages \cup {NoMail}]
PaneType ==
    /\ cur \in Gens \cup {NoGen} /\ kind \in {"structured", "terminal", "gone"}
    /\ on \in BOOLEAN /\ cancels \in 0..MaxCancels /\ crashes \in 0..MaxCrashes
TypeOK == at \in [Threads -> Labels] /\ StoreType /\ TickType /\ RunType /\ PaneType

\* A message that still waits has turns left, in memory and after a restart
\* (MaxAttempts): it is never sent for ever.
WaitingHasTurnsLeft == HasTurnsLeft(box) /\ HasTurnsLeft(Restored(disk))

\* Every prompt the agent of a pane was sent for an unfinished message is on disk
\* as an attempt, so that a crash forgets none of them (Deliver is saved before
\* TurnBegan returns, and the prompt is sent after).
PromptIsCounted ==
    kind # "gone" => \A m \in Open(disk) : prompted[m] <= disk[m].attempts

\* A queued message that is down as handed to the pane's live runtime is somewhere
\* in it, or about to be given to it or reported on: it is not passed over for ever.
HeldBy(m, g) ==
    \/ m \in ToSet(queue[g]) \/ turn[g] = m
    \/ \E t \in Reporters : t[2] = g /\ m \in drops[t]
    \/ \E t \in Reporters : t[2] = g /\ rep[t].of = m /\ at[t] \in {"look", "apply", "save report", "forget"}
    \/ m \in todo /\ at[Tick] \in {"send", "unhand", "refused"} /\ First(todo) = m
HandedIsHeld ==
    \A m \in Messages, g \in Gens :
        box[m].state = "queued" /\ handed[m] = g /\ g = cur => HeldBy(m, g)

\* What is finished stays so, in memory until the process dies and on disk for
\* ever, or makes room for another message.
FinishedStays ==
    [][\A m \in Messages :
        /\ Finished(box[m]) /\ crashes' = crashes => box'[m] \in {box[m], NoMessage}
        /\ Finished(disk[m]) => disk'[m] \in {disk[m], NoMessage}]_vars

\* A message whose sender was told it was sent leaves the inbox only finished,
\* or with the pane, whatever crashes.
AcceptedIsKept ==
    [][\A m \in Messages :
        m \in accepted /\ box[m] # NoMessage /\ box'[m] = NoMessage
            => Finished(box[m]) \/ kind' = "gone"]_vars

\* A pane that keeps a live runtime and its switch on gets all of its mail settled.
Served == cur # NoGen /\ phase[cur] = "live" /\ on
MailIsSettled ==
    <>[]Served => \A m \in Messages : (m \in Open(box)) ~> (m \notin Open(box))

-----------------------------------------------------------------------------
(* The inductive invariant of the proofs: how memory and disk stand to each   *)
(* other. The disk is behind, by what it does not have yet and by messages    *)
(* that have moved on since, never ahead.                                     *)

Boxes == {box, disk} \subseteq TypeOfBox /\ HasTurnsLeft(box) /\ HasTurnsLeft(disk)
Numbers ==
    /\ {next, diskNext} \subseteq Nat \ {0} /\ diskNext <= next /\ crashes \in Nat
    /\ \A m \in Messages : (m >= next => box[m] = NoMessage) /\ (m >= diskNext => disk[m] = NoMessage)
    /\ accepted \subseteq 0..(next - 1)
DiskIsBehind ==
    \A m \in Messages :
        /\ Finished(disk[m]) => box[m] \in {disk[m], NoMessage}
        /\ m \in accepted /\ disk[m] = NoMessage => box[m] = NoMessage
Routed == route \in {"none", "queued", "unread"}
\* A pane whose inbox is dropped is gone.
Dropping == DOMAIN at = Threads /\ (at[Owner] = "drop" => kind = "gone")

\* Memory and disk agree as the proofs need it.
StoreInv == Boxes /\ Numbers /\ DiskIsBehind /\ Routed /\ Dropping

\* Where each goroutine can be.
TickLabels ==
    {"idle", "panes", "reroute", "save reroute", "look", "settle", "interrupt", "save interrupt", "forget",
     "offer", "send", "unhand", "refused", "fail", "save fail", "cleanup"}
ReportLabels(t) ==
    {Home(t), "look", "apply", "save report", "forget"} \cup (IF t[1] = "loop" THEN {"prompt", "wait"} ELSE {})
LabelsFor(t) ==
    CASE t = Tick   -> TickLabels
      [] t = Sender -> {"idle", "put", "save"}
      [] t = Reader -> {"idle", "save"}
      [] t = Owner  -> {"idle", "drop", "save"}
      [] OTHER      -> ReportLabels(t)
LabelInv ==
    /\ \A t \in Threads : at[t] \in LabelsFor(t)
    /\ at[Sender] = "put" => next <= MaxMessages
    /\ at[Sender] = "save" => next > 1
\* The tick has the message at hand.
TodoInv ==
    at[Tick] \in {"interrupt", "save interrupt", "forget", "send", "unhand", "refused", "fail"} => todo # {}

\* Only generations that began are known, a report that a turn began is of the loop's
\* turn, a loop has one only while it sends it, reports that it began or waits for its
\* end, and what is down as handed to the pane's runtime is in its hands.
GensInv ==
    /\ \A g \in {cur, copy} \cup {handed[m] : m \in Messages} : g # NoGen => phase[g] # "none"
    /\ (live => copy # NoGen) /\ (at[Tick] = "idle" => ~live)
    /\ at[Tick] \in {"offer", "send", "unhand", "refused", "fail", "save fail"} => live
    /\ at[Tick] \in {"send", "unhand", "refused"} => handed[First(todo)] \in {copy, NoGen}
BeganInv == \A t \in Reporters : rep[t].what = "began" => t[1] = "loop" /\ turn[t[2]] = rep[t].of
TurnInv ==
    \A g \in Gens : turn[g] # NoMail =>
        \/ at[Loop(g)] \in {"prompt", "wait"}
        \/ at[Loop(g)] \in {"look", "apply", "save report"} /\ rep[Loop(g)].what = "began"
HandedInv == \A m \in Messages : handed[m] = cur /\ cur # NoGen => HeldBy(m, cur)
HeldInv == LabelInv /\ TodoInv /\ GensInv /\ BeganInv /\ TurnInv /\ HandedInv

(* And what it takes to count prompts. While Close outwaits those that report, only  *)
(* the pane's runtime has anything to say, and a message is in one place of it.      *)

\* Nobody will touch the message any more, here or on the disk; or it waits.
Settled(m) == m < next /\ m \notin Open(box) /\ m \notin Open(disk)
Ready(m) == m \in Pending(box) \/ Settled(m)

Places == ({"queue", "turn"} \X {"loop"}) \cup ({"drops", "report"} \X {"loop", "cancel", "close"})
ReportsOn(t, m, labels) == rep[t].of = m /\ rep[t].what # "began" /\ at[t] \in labels
IsAt(p, m) ==
    CASE p[1] = "queue" -> m \in ToSet(queue[cur])
      [] p[1] = "turn"  -> turn[cur] = m
      [] p[1] = "drops" -> m \in drops[<<p[2], cur>>]
      [] OTHER          -> ReportsOn(<<p[2], cur>>, m, {"look", "apply", "save report", "forget"})
Has(m) == cur # NoGen /\ \E p \in Places : IsAt(p, m)
\* The runtime has it and its turn is not counted yet.
Begins(m) == at[Loop(cur)] \in {"look", "apply"} /\ rep[Loop(cur)].what = "began" /\ turn[cur] = m
Fresh(m) == cur # NoGen /\ (m \in ToSet(queue[cur]) \/ Begins(m))
Serving == cur # NoGen /\ phase[cur] = "live"

CalmInv ==
    /\ \A g \in Gens : g # cur => phase[g] # "live" /\ \A t \in Reporters : t[2] = g => Silent(t)
    /\ \A g \in Gens : phase[g] # "live" => queue[g] = <<>>
    /\ kind # "structured" => cur = NoGen
    /\ at[Tick] = "reroute" => kind # "structured"
OnceInv ==
    cur # NoGen =>
        /\ \A i, j \in 1..Len(queue[cur]) : queue[cur][i] = queue[cur][j] => i = j
        /\ \A m \in Messages, p, q \in Places : IsAt(p, m) /\ IsAt(q, m) => p = q
OwnInv ==
    /\ \A m \in Messages : (Fresh(m) \/ (Serving /\ Has(m))) => handed[m] = cur
    /\ at[Tick] # "idle" => \A m \in Messages : handed[m] = cur /\ cur # NoGen => copy = cur
\* What the tick takes from the runtime, the runtime has not.
LookInv ==
    /\ at[Tick] \in {"settle", "interrupt", "save interrupt", "forget"} /\ ~live =>
        (copy # NoGen => phase[copy] # "live") /\ \A m \in todo : ~Fresh(m)
    /\ at[Tick] \in {"interrupt", "save interrupt", "forget"} /\ live => handed[First(todo)] # copy
    /\ at[Tick] \in {"send", "unhand", "refused"} => ~Fresh(First(todo)) /\ (Serving => ~Has(First(todo)))
    /\ at[Tick] = "send" /\ Serving /\ copy = cur => handed[First(todo)] = cur
    /\ at[Tick] = "fail" => handed[First(todo)] = NoGen
ReadyInv ==
    /\ \A m \in Messages : Fresh(m) => Ready(m)
    /\ Serving =>
        /\ \A m \in Messages, p \in Places :
            IsAt(p, m) => IF p[1] = "report" /\ at[<<p[2], cur>>] \in {"save report", "forget"}
                          THEN m < next /\ (at[<<p[2], cur>>] = "forget" => Ready(m))
                          ELSE m \in Open(box) \/ Settled(m)
        /\ at[Tick] \in {"offer", "send", "unhand", "refused", "fail", "save fail"} /\ copy = cur =>
            \A m \in todo : Ready(m) \/ Has(m)
    /\ cur # NoGen => \A t \in Reporters, m \in Messages :
        t[2] = cur /\ ReportsOn(t, m, {"save report"}) => m \notin InFlight(box)
\* A prompt is counted before it is sent.
Counted(b, m, more) == m \in Open(b) => prompted[m] + more <= b[m].attempts
CountInv ==
    /\ \A m \in Messages : Counted(box, m, 0) /\ Counted(disk, m, 0) /\ (m >= next => prompted[m] = 0)
    /\ cur # NoGen /\ turn[cur] # NoMail =>
        /\ turn[cur] < next
        /\ at[Loop(cur)] = "prompt" => Counted(box, turn[cur], 1) /\ Counted(disk, turn[cur], 1)
        /\ at[Loop(cur)] = "save report" => Counted(box, turn[cur], 1)
PromptInv == kind # "gone" => CalmInv /\ OnceInv /\ OwnInv /\ LookInv /\ ReadyInv /\ CountInv

-----------------------------------------------------------------------------
\* The next is what the comments say of the code, and it does not keep.

\* "A handled message is done" (EndTurn): the agent is not sent it again, which
\* "would repeat the work" (Outcome).
HandledIsDone ==
    [][\A m \in Messages : prompted'[m] > prompted[m] => box[m].state # "handled"]_vars
=============================================================================
