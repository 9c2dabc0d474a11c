---------------------------- MODULE WakeService ----------------------------
(* The wake service (internal/workspace/wake.go): it types one line into an   *)
(* idle agent's terminal to say that there is mail, waits, and presses Enter. *)
(* Around it: the person at the keyboard, the agent, SendToPane               *)
(* (panesend.go), which types into the same box, the off switch, and panes    *)
(* that are restarted.                                                        *)
(*                                                                            *)
(* The box a pane's keys go to is what the properties are about, so it is     *)
(* modelled: whose text it holds. Time is not: the ages the code compares are *)
(* flags ("within the last minute") that a step of time clears, and the order *)
(* of two moments is a flag that the later one sets. Flockdeck's own idea of  *)
(* whether a pane is idle and the agent's word on it are one flag, because a  *)
(* wake asks for both. Only Claude's panes have such a word. The other way to   *)
(* judge a pane, a screen rule, is left out: a rule allows nothing until it is  *)
(* Tested, and no rule of the catalogue is.                                     *)
EXTENDS Naturals, FiniteSets, FiniteSetsExt

CONSTANTS
    Panes,       \* the panes of one project, whose agents write down their own state
    TextPanes,   \* those that may be typed the text itself (Caps.TextWake)
    MaxMail,     \* a bound: the messages a pane is sent
    MaxEvents,   \* a bound: what the person, the agent and the workspace do
    ProjectHour, \* wakeProjectHour: lines in an hour
    StreakMax,   \* wakeStreakMax: lines with no read between them
    None         \* no pane

ASSUME PanesAssumption == None \notin Panes /\ TextPanes \subseteq Panes
ASSUME LimitsAssumption ==
    /\ MaxMail \in Nat /\ MaxEvents \in Nat
    /\ ProjectHour \in Nat \ {0} /\ StreakMax \in Nat \ {0}

VARIABLES
    up,          \* the pane has a session
    idle,        \* the pane is idle, by Flockdeck and by the agent's own word
    calm,        \* every quiet period is over: output, keys, hook, idle
    keyedIdle,   \* the person has typed since the agent went idle
    keyedLine,   \* the person has typed since st.typedAt, or no line waits for that
    dialog,      \* the screen holds something the rule forbids
    box,         \* whose text the input box holds
    unread,      \* the messages unread
    lastWake,    \* st.lastWake is within wakePaneEvery
    streak,      \* st.streak
    readSince,   \* a message was read since st.streakFrom
    inFlight,    \* st.inFlight
    stuck,       \* st.stuck
    slots,       \* the entries of s.projects that are within the hour
    claimed,     \* p.sending
    tick,        \* the tick: the panes it found, and those still to consider
    look,        \* the pane it is considering, and what it saw
    pc,          \* where the goroutine of each pane's line is
    att,         \* what that goroutine was given, and what has changed since
    spc,         \* where a SendToPane of each pane is
    switch,      \* the wake switches on disk
    cache,       \* the copy of them the service keeps
    stopped,     \* s.stop is closed
    events,      \* how much of MaxEvents is used
    unanswered,  \* history: lines typed since the last read
    typedInHour, \* history: lines typed whose entry is within the hour
    keyedLate    \* history: the person typed after the last look before Enter

paneVars    == <<up, idle, calm, keyedIdle, keyedLine, dialog, box>>
stateVars   == <<lastWake, streak, readSince, inFlight, stuck, slots>>
switchVars  == <<switch, cache, stopped>>
tickVars    == <<tick, look>>
historyVars == <<unanswered, typedInHour, keyedLate>>
vars == <<paneVars, unread, stateVars, claimed, tickVars, pc, att, spc, switchVars, events, historyVars>>

NoTick   == [on |-> FALSE, seen |-> {}, todo |-> {}]
Switches == {"off", "line", "text"}
NoLook   == [pane |-> None, id |-> 0, text |-> FALSE,
             keyed |-> FALSE, printed |-> FALSE, flipped |-> FALSE, gone |-> FALSE, read |-> FALSE]

On(f, p, v) == [f EXCEPT ![p] = v]
Goto(p, label) == pc' = On(pc, p, label)

Init ==
    /\ up = [p \in Panes |-> TRUE] /\ idle = [p \in Panes |-> TRUE]
    /\ calm = [p \in Panes |-> FALSE]
    /\ keyedIdle = [p \in Panes |-> FALSE] /\ keyedLine = [p \in Panes |-> TRUE]
    /\ dialog = [p \in Panes |-> FALSE] /\ box = [p \in Panes |-> {}]
    /\ unread = [p \in Panes |-> {}]
    /\ lastWake = [p \in Panes |-> FALSE] /\ streak = [p \in Panes |-> 0]
    /\ readSince = [p \in Panes |-> FALSE] /\ inFlight = [p \in Panes |-> FALSE]
    /\ stuck = [p \in Panes |-> FALSE] /\ slots = 0
    /\ claimed = [p \in Panes |-> FALSE] /\ tick = NoTick /\ look = NoLook
    /\ pc = [p \in Panes |-> "none"] /\ att = [p \in Panes |-> NoLook] /\ spc = [p \in Panes |-> "none"]
    /\ switch = "line" /\ cache = "line" /\ stopped = FALSE /\ events = 0
    /\ unanswered = [p \in Panes |-> 0] /\ typedInHour = 0 /\ keyedLate = [p \in Panes |-> FALSE]

\* One of the MaxEvents.
Event == events < MaxEvents /\ events' = events + 1

\* What a line in the making remembers of pane p is out of date: field says how.
Changed(p, field) ==
    /\ look' = IF look.pane = p THEN [look EXCEPT ![field] = TRUE] ELSE look
    /\ att' = IF att[p].pane = p THEN [att EXCEPT ![p][field] = TRUE] ELSE att

-----------------------------------------------------------------------------
(* The tick: consider.                                                        *)

TextMode(p, set) == p \in TextPanes /\ set = "text"

\* The conditions that are looked at before the lock is taken.
Holds(p) ==
    /\ unread[p] # {} /\ idle[p] /\ calm[p] /\ cache # "off"
    /\ ~keyedIdle[p]

TickBegins ==
    /\ ~tick.on /\ ~stopped
    /\ LET found == {p \in Panes : up[p]} IN tick' = [on |-> TRUE, seen |-> found, todo |-> found]
    /\ UNCHANGED <<paneVars, unread, stateVars, claimed, look, pc, att, spc, switchVars, events, historyVars>>

\* Message text is typed oldest first; the fixed line names the newest.
Look(p) ==
    /\ p \in tick.todo /\ look.pane = None
    /\ tick' = [tick EXCEPT !.todo = @ \ {p}]
    /\ \/ Holds(p) /\ look' = [NoLook EXCEPT
                  !.pane = p, !.text = TextMode(p, cache),
                  !.id = IF TextMode(p, cache) THEN Min(unread[p]) ELSE Max(unread[p])]
       \/ ~Holds(p) /\ UNCHANGED look
    /\ UNCHANGED <<paneVars, unread, stateVars, claimed, pc, att, spc, switchVars, events, historyVars>>

\* Under s.mu: an earlier line that was not submitted, the read that ends a
\* streak, and the limits.
StillStuck(p) == stuck[p] /\ ~keyedLine[p]
StreakNow(p)  == IF streak[p] > 0 /\ readSince[p] THEN 0 ELSE streak[p]
LimitedLate(p) == lastWake[p] \/ StreakNow(p) >= StreakMax \/ slots > ProjectHour
Limited(p)    == lastWake[p] \/ StreakNow(p) >= StreakMax \/ slots >= ProjectHour
AnyClaim(p)   == TRUE
Claimable(p)  == ~claimed[p]

\* streakFrom moves to this line when it is the first of its streak.
StreakFrom(p) == readSince' = IF StreakNow(p) = 0 THEN On(readSince, p, look.read) ELSE readSince

Refuse ==
    LET p == look.pane IN
    /\ p # None
    /\ \/ (inFlight[p] \/ StillStuck(p)) /\ UNCHANGED <<stuck, streak>>
       \/ /\ ~inFlight[p] /\ ~StillStuck(p) /\ (Limited(p) \/ ~Claimable(p))
          /\ stuck' = On(stuck, p, FALSE) /\ streak' = On(streak, p, StreakNow(p))
    /\ look' = NoLook
    /\ UNCHANGED <<tick, paneVars, unread, lastWake, readSince, inFlight, slots, claimed, pc, att, spc,
                   switchVars, events, historyVars>>

Start ==
    LET p == look.pane IN
    /\ p # None
    /\ ~inFlight[p] /\ ~StillStuck(p) /\ ~Limited(p) /\ Claimable(p)
    /\ claimed' = On(claimed, p, TRUE) /\ slots' = slots + 1
    /\ lastWake' = On(lastWake, p, TRUE) /\ streak' = On(streak, p, StreakNow(p) + 1)
    /\ StreakFrom(p)
    /\ inFlight' = On(inFlight, p, TRUE) /\ stuck' = On(stuck, p, FALSE)
    /\ att' = On(att, p, look) /\ look' = NoLook /\ Goto(p, "check")
    /\ UNCHANGED <<tick, paneVars, unread, spc, switchVars, events, historyVars>>

\* The end of a tick: what is remembered of a pane it did not find is dropped.
TickEnds ==
    /\ tick.on /\ tick.todo = {} /\ look.pane = None
    /\ LET gone == {p \in Panes \ tick.seen : ~inFlight[p]} IN
       /\ lastWake' = [p \in Panes |-> p \notin gone /\ lastWake[p]]
       /\ stuck' = [p \in Panes |-> p \notin gone /\ stuck[p]]
       /\ keyedLine' = [p \in Panes |-> p \in gone \/ keyedLine[p]]
       /\ streak' = [p \in Panes |-> IF p \in gone THEN 0 ELSE streak[p]]
    /\ tick' = NoTick
    /\ UNCHANGED <<up, idle, calm, keyedIdle, dialog, box, unread, readSince, inFlight, slots, claimed, look,
                   pc, att, spc, switchVars, events, historyVars>>

-----------------------------------------------------------------------------
(* The goroutine of one line: fire.                                           *)

\* undo: an attempt that typed nothing gives its place in the hour and in the
\* streak back. With backoff the pane still waits out the minute.
Undo(p, backoff) ==
    /\ slots' = slots - 1
    /\ lastWake' = IF backoff THEN lastWake ELSE On(lastWake, p, FALSE)
    /\ streak' = IF streak[p] > 0 THEN On(streak, p, streak[p] - 1) ELSE streak
    /\ Goto(p, "release")
    /\ UNCHANGED <<readSince, inFlight, stuck>>

\* off reads the switches and not the copy.
Off(p) == switch = "off" \/ (att[p].text /\ switch # "text")

\* typing() || off().
Check(p) ==
    /\ pc[p] = "check"
    /\ IF att[p].keyed \/ Off(p) THEN Undo(p, FALSE) ELSE Goto(p, "judge") /\ UNCHANGED stateVars
    /\ cache' = IF att[p].keyed THEN cache ELSE switch
    /\ UNCHANGED <<paneVars, unread, claimed, tickVars, att, spc, switch, stopped, events, historyVars>>

\* wordStands: the same record and the same screen, with the conditions again.
WordStands(p) == ~att[p].printed /\ ~att[p].flipped /\ idle[p] /\ ~keyedIdle[p] /\ ~dialog[p]
Judge(p) ==
    /\ pc[p] = "judge"
    /\ IF WordStands(p) THEN Goto(p, "line") /\ UNCHANGED stateVars ELSE Undo(p, TRUE)
    /\ UNCHANGED <<paneVars, unread, claimed, tickVars, att, spc, switchVars, events, historyVars>>

\* The line is written; a session that has ended takes nothing.
WriteLine(p) ==
    /\ pc[p] = "line"
    /\ IF att[p].gone
       THEN Undo(p, TRUE) /\ UNCHANGED <<box, calm, unanswered, typedInHour>>
       ELSE /\ box' = On(box, p, box[p] \cup {"wake"}) /\ calm' = On(calm, p, FALSE)
            /\ unanswered' = On(unanswered, p, unanswered[p] + 1) /\ typedInHour' = typedInHour + 1
            /\ Goto(p, "written") /\ UNCHANGED stateVars
    /\ UNCHANGED <<up, idle, keyedIdle, keyedLine, dialog, unread, claimed, tickVars, att, spc,
                   switchVars, events, keyedLate>>

\* typedAt is taken after the write.
TypedAt(p) ==
    /\ pc[p] = "written"
    /\ keyedLine' = On(keyedLine, p, FALSE)
    /\ Goto(p, "settle")
    /\ UNCHANGED <<up, idle, calm, keyedIdle, dialog, box, unread, stateVars, claimed,
                   tickVars, att, spc, switchVars, events, historyVars>>

\* beforeEnter.
StillIdleUnkeyed(p) == idle[p] /\ ~att[p].flipped /\ ~dialog[p]
StillIdle(p) == idle[p] /\ ~att[p].flipped /\ ~keyedIdle[p] /\ ~dialog[p]
MayEnter(p)  == ~keyedLine[p] /\ ~Off(p) /\ StillIdle(p)

\* The pause is over, or the service stops in it.
Settle(p) ==
    /\ pc[p] = "settle"
    /\ \/ /\ Goto(p, IF MayEnter(p) THEN "enter" ELSE "unsubmitted")
          /\ cache' = IF keyedLine[p] THEN cache ELSE switch
       \/ stopped /\ Goto(p, "unsubmitted") /\ UNCHANGED cache
    /\ keyedLate' = On(keyedLate, p, FALSE)
    /\ UNCHANGED <<paneVars, unread, stateVars, claimed, tickVars, att, spc, switch, stopped, events,
                   unanswered, typedInHour>>

Enter(p) ==
    /\ pc[p] = "enter"
    /\ IF att[p].gone THEN Goto(p, "unsubmitted") /\ UNCHANGED <<box, calm>>
       ELSE Goto(p, "mark") /\ box' = On(box, p, {}) /\ calm' = On(calm, p, FALSE)
    /\ UNCHANGED <<up, idle, keyedIdle, keyedLine, dialog, unread, stateVars, claimed,
                   tickVars, att, spc, switchVars, events, historyVars>>

\* A message of pane p is read: what the streak looks for.
ReadBy(p, m) ==
    /\ unread' = On(unread, p, unread[p] \ {m})
    /\ readSince' = On(readSince, p, TRUE)
    /\ look' = IF look.pane = p THEN [look EXCEPT !.read = TRUE] ELSE look
    /\ unanswered' = On(unanswered, p, 0)

\* Text that was typed counts as read. (MarkWoken writes what nothing here reads.)
Mark(p) ==
    /\ pc[p] = "mark"
    /\ IF att[p].text /\ att[p].id \in unread[p] THEN ReadBy(p, att[p].id)
       ELSE UNCHANGED <<unread, readSince, look, unanswered>>
    /\ keyedLine' = On(keyedLine, p, TRUE) /\ Goto(p, "release")
    /\ UNCHANGED <<tick, up, idle, calm, keyedIdle, dialog, box, lastWake, streak, inFlight, stuck, slots,
                   claimed, att, spc, switchVars, events, typedInHour, keyedLate>>

SetStuck(p) == stuck' = On(stuck, p, TRUE)
UnsubmittedAndUndone(p) ==
    /\ pc[p] = "unsubmitted"
    /\ SetStuck(p) /\ slots' = slots - 1
    /\ Goto(p, "release")
    /\ UNCHANGED <<paneVars, unread, lastWake, streak, readSince, inFlight, claimed, tickVars, att,
                   spc, switchVars, events, historyVars>>

Unsubmitted(p) ==
    /\ pc[p] = "unsubmitted"
    /\ SetStuck(p)
    /\ Goto(p, "release")
    /\ UNCHANGED <<paneVars, unread, lastWake, streak, readSince, inFlight, slots, claimed, tickVars, att,
                   spc, switchVars, events, historyVars>>

\* releaseSend.
KeepClaim(p) == UNCHANGED claimed
Unclaim(p)   == claimed' = On(claimed, p, FALSE)

\* The deferred end: the claim first, then inFlight.
Release(p) ==
    /\ pc[p] = "release"
    /\ Unclaim(p) /\ att' = On(att, p, NoLook)
    /\ Goto(p, "landed")
    /\ UNCHANGED <<paneVars, unread, stateVars, tickVars, spc, switchVars, events, historyVars>>

Landed(p) ==
    /\ pc[p] = "landed"
    /\ inFlight' = On(inFlight, p, FALSE)
    /\ Goto(p, "none")
    /\ UNCHANGED <<paneVars, unread, lastWake, streak, readSince, stuck, slots, claimed, tickVars, att, spc,
                   switchVars, events, historyVars>>

\* Stop closes s.stop, and waits for the goroutines above.
Stop ==
    /\ Event /\ ~stopped /\ stopped' = TRUE
    /\ UNCHANGED <<paneVars, unread, stateVars, claimed, tickVars, pc, att, spc, switch, cache, historyVars>>

-----------------------------------------------------------------------------
(* SendToPane: text, a pause and an Enter under the claim, and a second Enter *)
(* after it, when the agent has not started (confirmSubmitted).               *)

SendGoto(p, label) == spc' = On(spc, p, label)

SendClaim(p) ==
    /\ Event /\ spc[p] = "none" /\ up[p] /\ Claimable(p)
    /\ claimed' = On(claimed, p, TRUE)
    /\ SendGoto(p, "text")
    /\ UNCHANGED <<paneVars, unread, stateVars, tickVars, pc, att, switchVars, historyVars>>

SendText(p) ==
    /\ spc[p] = "text"
    /\ box' = On(box, p, box[p] \cup {"send"})
    /\ calm' = On(calm, p, FALSE)
    /\ SendGoto(p, "enter")
    /\ UNCHANGED <<up, idle, keyedIdle, keyedLine, dialog, unread, stateVars, claimed,
                   tickVars, pc, att, switchVars, events, historyVars>>

SendEnter(p) ==
    /\ spc[p] = "enter"
    /\ box' = On(box, p, {}) /\ calm' = On(calm, p, FALSE)
    /\ SendGoto(p, "sent")
    /\ UNCHANGED <<up, idle, keyedIdle, keyedLine, dialog, unread, stateVars, claimed,
                   tickVars, pc, att, switchVars, events, historyVars>>

\* writeToPane's deferred release, when the write of the Enter has returned, or
\* failed ("over"). The caller may have asked for the second look.
SendRelease(p) ==
    /\ spc[p] \in {"sent", "over"}
    /\ Unclaim(p)
    /\ \E next \in {"confirm", "none"} : (spc[p] = "over" => next = "none") /\ SendGoto(p, next)
    /\ UNCHANGED <<paneVars, unread, stateVars, tickVars, pc, att, switchVars, events, historyVars>>

\* The agent has left idle, or a second Enter is pressed, outside the claim.
SendConfirm(p) ==
    /\ spc[p] = "confirm"
    /\ IF idle[p] /\ up[p] THEN box' = On(box, p, {}) /\ calm' = On(calm, p, FALSE)
                           ELSE UNCHANGED <<box, calm>>
    /\ SendGoto(p, "none")
    /\ UNCHANGED <<up, idle, keyedIdle, keyedLine, dialog, unread, stateVars, claimed,
                   tickVars, pc, att, switchVars, events, historyVars>>

-----------------------------------------------------------------------------
(* The person, the agent, the mail, the switches and time.                    *)

\* Keys in the pane: a draft, or an Enter that submits what the box holds.
Keys(p, left) ==
    /\ Event /\ up[p]
    /\ box' = On(box, p, left)
    /\ calm' = On(calm, p, FALSE) /\ Changed(p, "keyed")
    /\ keyedIdle' = On(keyedIdle, p, TRUE) /\ keyedLine' = On(keyedLine, p, TRUE)
    /\ keyedLate' = IF pc[p] = "enter" THEN On(keyedLate, p, TRUE) ELSE keyedLate
    /\ UNCHANGED <<up, idle, dialog, unread, stateVars, claimed, tick, pc, spc, switchVars,
                   unanswered, typedInHour>>
UserTypes(p)  == Keys(p, box[p] \cup {"draft"})
UserEnters(p) == Keys(p, {})

\* A turn begins, by an Enter or of the agent's own.
AgentBusy(p) ==
    /\ Event /\ idle[p]
    /\ idle' = On(idle, p, FALSE) /\ calm' = On(calm, p, FALSE) /\ Changed(p, "flipped")
    /\ UNCHANGED <<up, keyedIdle, keyedLine, dialog, box, tick, unread, stateVars, claimed,
                   pc, spc, switchVars, historyVars>>

\* It ends. What was typed meanwhile is still in the box.
AgentIdle(p) ==
    /\ ~idle[p]
    /\ idle' = On(idle, p, TRUE) /\ keyedIdle' = On(keyedIdle, p, FALSE)
    /\ calm' = On(calm, p, FALSE) /\ Changed(p, "flipped")
    /\ UNCHANGED <<up, keyedLine, dialog, box, tick, unread, stateVars, claimed, pc, spc,
                   switchVars, events, historyVars>>

\* Output, which may be a dialog, or the end of one.
Outputs(p) ==
    /\ Event /\ up[p]
    /\ \E d \in BOOLEAN : dialog' = On(dialog, p, d)
    /\ calm' = On(calm, p, FALSE) /\ Changed(p, "printed")
    /\ UNCHANGED <<up, idle, keyedIdle, keyedLine, box, tick, unread, stateVars, claimed, pc,
                   spc, switchVars, historyVars>>

\* The pane's session is closed, and then replaced by one nobody has typed in.
SessionEnds(p) ==
    /\ Event /\ up[p]
    /\ up' = On(up, p, FALSE) /\ box' = On(box, p, {}) /\ dialog' = On(dialog, p, FALSE)
    /\ calm' = On(calm, p, FALSE) /\ Changed(p, "gone")
    /\ tick' = [tick EXCEPT !.todo = @ \ {p}]
    /\ SendGoto(p, IF spc[p] \in {"text", "enter", "sent", "over"} THEN "over" ELSE "none")
    /\ unanswered' = On(unanswered, p, 0)
    /\ UNCHANGED <<idle, keyedIdle, keyedLine, unread, stateVars, claimed, pc, switchVars,
                   typedInHour, keyedLate>>

SessionStarts(p) ==
    /\ ~up[p]
    /\ up' = On(up, p, TRUE) /\ idle' = On(idle, p, TRUE)
    /\ keyedIdle' = On(keyedIdle, p, FALSE)
    /\ keyedLine' = On(keyedLine, p, ~stuck[p] /\ pc[p] = "none")
    /\ UNCHANGED <<calm, dialog, box, unread, stateVars, claimed, tickVars, pc, att, spc, switchVars,
                   events, historyVars>>

\* Numbers are used again, so that the mail never ends.
MailComes(p) ==
    /\ \E m \in (1..MaxMail) \ unread[p] : unread' = On(unread, p, unread[p] \cup {m})
    /\ UNCHANGED <<paneVars, stateVars, claimed, tickVars, pc, att, spc, switchVars, events, historyVars>>

AgentReads(p, m) ==
    /\ m \in unread[p]
    /\ ReadBy(p, m)
    /\ UNCHANGED <<tick, paneVars, lastWake, streak, inFlight, stuck, slots, claimed, pc, att,
                   spc, switchVars, events, typedInHour, keyedLate>>

\* A switch is set, in the window, which drops the copy, or by another process.
SetSwitch(s) ==
    /\ Event /\ s # switch
    /\ switch' = s /\ cache' \in {cache, s}
    /\ UNCHANGED <<paneVars, unread, stateVars, claimed, tickVars, pc, att, spc, stopped, historyVars>>

\* wakeSettingsTTL.
CacheExpires ==
    /\ cache # switch /\ cache' = switch
    /\ UNCHANGED <<paneVars, unread, stateVars, claimed, tickVars, pc, att, spc, switch, stopped, events, historyVars>>

\* Every quiet period passes. That takes 30 seconds: no line and no send is
\* between two of its steps that long, but for a write to a terminal that does
\* not read ("sent"). A tick compares with the time it looked at the clock, so to
\* it none passes between its look and the lock.
Firing(p) == pc[p] \notin {"none", "landed"}
QuietPasses(p) ==
    /\ look.pane = None
    /\ ~calm[p] /\ up[p] /\ ~Firing(p) /\ spc[p] \in {"none", "sent"}
    /\ calm' = On(calm, p, TRUE)
    /\ UNCHANGED <<up, idle, keyedIdle, keyedLine, dialog, box, unread, stateVars, claimed, tickVars, pc,
                   att, spc, switchVars, events, historyVars>>

MinutePasses(p) ==
    /\ look.pane = None
    /\ lastWake[p] /\ ~Firing(p)
    /\ lastWake' = On(lastWake, p, FALSE)
    /\ UNCHANGED <<paneVars, unread, streak, readSince, inFlight, stuck, slots, claimed, tickVars, pc, att,
                   spc, switchVars, events, historyVars>>

\* The oldest entry is an hour old, and the line it was for.
HourPasses ==
    /\ look.pane = None
    /\ slots > 0 /\ \A p \in Panes : ~Firing(p)
    /\ slots' = slots - 1
    /\ typedInHour' = IF typedInHour > 0 THEN typedInHour - 1 ELSE 0
    /\ UNCHANGED <<paneVars, unread, lastWake, streak, readSince, inFlight, stuck, claimed, tickVars, pc,
                   att, spc, switchVars, events, unanswered, keyedLate>>

-----------------------------------------------------------------------------
Consider == TickBegins \/ TickEnds \/ Refuse \/ Start \/ \E p \in Panes : Look(p)

Fire(p) ==
    \/ Check(p) \/ Judge(p) \/ WriteLine(p) \/ TypedAt(p) \/ Settle(p) \/ Enter(p)
    \/ Mark(p) \/ Unsubmitted(p) \/ Release(p) \/ Landed(p)

SendToPane(p) == SendText(p) \/ SendEnter(p) \/ SendRelease(p) \/ SendConfirm(p)

Time == CacheExpires \/ HourPasses \/ \E p \in Panes : QuietPasses(p) \/ MinutePasses(p)

Others ==
    \/ \E p \in Panes :
          \/ SendClaim(p) \/ UserTypes(p) \/ UserEnters(p) \/ AgentBusy(p) \/ AgentIdle(p) \/ Outputs(p)
          \/ SessionEnds(p) \/ SessionStarts(p) \/ MailComes(p)
          \/ \E m \in 1..MaxMail : AgentReads(p, m)
    \/ \E s \in Switches : SetSwitch(s)
    \/ Stop

Next == Consider \/ (\E p \in Panes : Fire(p) \/ SendToPane(p)) \/ Time \/ Others

Spec == Init /\ [][Next]_vars

\* The service's goroutines run, the ticker ticks, and time passes, although it is
\* never to be seen in the middle of a look (hence SF). Nothing is assumed of the
\* person, the agent or the mail.
Fairness ==
    /\ WF_vars(Consider) /\ WF_vars(CacheExpires) /\ SF_vars(HourPasses)
    /\ \A p \in Panes :
          /\ WF_vars(Fire(p)) /\ WF_vars(SendToPane(p))
          /\ SF_vars(QuietPasses(p)) /\ SF_vars(MinutePasses(p))

FairSpec == Spec /\ Fairness

-----------------------------------------------------------------------------
(* Properties.                                                                *)

\* Every variable has its type, and the two limits are kept.
Flags == [Panes -> BOOLEAN]
Looks == [pane : Panes \cup {None}, id : 0..MaxMail, text : BOOLEAN, keyed : BOOLEAN, printed : BOOLEAN,
          flipped : BOOLEAN, gone : BOOLEAN, read : BOOLEAN]
Tick == [on : BOOLEAN, seen : SUBSET Panes, todo : SUBSET Panes]
PaneType ==
    /\ up \in Flags /\ idle \in Flags /\ calm \in Flags /\ keyedIdle \in Flags
    /\ keyedLine \in Flags /\ dialog \in Flags
    /\ box \in [Panes -> SUBSET {"wake", "send", "draft"}]
    /\ unread \in [Panes -> SUBSET (1..MaxMail)]
StateType ==
    /\ lastWake \in Flags /\ readSince \in Flags /\ inFlight \in Flags /\ stuck \in Flags
    /\ streak \in [Panes -> 0..StreakMax] /\ slots \in 0..ProjectHour
LineType ==
    /\ tick \in Tick /\ look \in Looks /\ att \in [Panes -> Looks] /\ claimed \in Flags
    /\ pc \in [Panes -> {"none", "check", "judge", "line", "written", "settle", "enter", "mark",
                        "unsubmitted", "release", "landed"}]
    /\ spc \in [Panes -> {"none", "text", "enter", "sent", "over", "confirm"}]
SwitchType == switch \in Switches /\ cache \in Switches /\ stopped \in BOOLEAN /\ events \in 0..MaxEvents
HistoryType == unanswered \in [Panes -> Nat] /\ typedInHour \in Nat /\ keyedLate \in Flags
TypeOK == PaneType /\ StateType /\ LineType /\ SwitchType /\ HistoryType

\* Between a line and its Enter no text of SendToPane is written to the pane, nor
\* the other way round: "a send of Flockdeck's own cannot land between them". And
\* a line whose Enter was not written has no other line typed onto it until its
\* person has typed there.
LineIsAlone ==
    \A p \in Panes :
        ~att[p].gone =>
            /\ Firing(p) => spc[p] \in {"none", "confirm"} /\ "send" \notin box[p]
            /\ pc[p] = "line" => "wake" \notin box[p] \/ keyedLine[p]

\* Nothing the person typed after the line is submitted with it, nor anything typed
\* since the agent went idle, although the person may begin to type between
\* any two steps. Keys that come after the last look cannot be helped (keyedLate).
NobodyIsSubmitted ==
    \A p \in Panes :
        pc[p] = "enter" /\ ~att[p].gone /\ ~keyedLate[p] =>
            ~keyedLine[p] /\ ~keyedIdle[p]

\* The project's hour holds every line typed in it: an attempt is given back only
\* if it typed nothing.  And an agent that does not read is left alone after
\* StreakMax lines, and one more when a message is read between the look at the
\* clock and the lock.
HourIsKept == typedInHour <= ProjectHour
StreakIsKept == \A p \in Panes : unanswered[p] <= StreakMax + 1
LimitsAreKept == HourIsKept /\ StreakIsKept

\* A pane that stays ready, with mail unread, is typed to for as long as its agent
\* reads, or until its streak is used up or a line is left in its box: no attempt
\* that was given up leaves the pane, the project or the claim taken.
Ready(p) ==
    /\ up[p] /\ idle[p] /\ unread[p] # {} /\ ~dialog[p] /\ ~stopped /\ switch # "off"
    /\ ~keyedIdle[p]
WakesGoOn == \A p \in Panes :
    <>[]Ready(p) => []<>(pc[p] = "written") \/ <>(streak[p] = StreakMax \/ stuck[p])

-----------------------------------------------------------------------------
(* What a comment says, and the code does not always do.                      *)

\* wordHolds: "nobody has pressed a key in the pane since it went idle. The last
\* is what shows the input box is empty".
BoxIsEmpty ==
    \A p \in Panes :
        pc[p] = "line" /\ WordStands(p) /\ ~att[p].gone => "draft" \notin box[p]

-----------------------------------------------------------------------------
(* The inductive invariants the proofs of WakeServiceProofs rest on.          *)

\* A line that has its place in the hour and in the streak, and is not typed yet.
Early(p) == pc[p] \in {"check", "judge", "line"}
\* A place is kept for every line typed in the hour, and for every early one.
HourInv ==
    LET early == {p \in Panes : Early(p)}
    IN IsFiniteSet(early) /\ slots >= typedInHour + Cardinality(early)

\* One goroutine or one SendToPane at a time holds the claim, and is of its pane.
Sending(p) == spc[p] \in {"text", "enter", "sent", "over"}
ClaimInv(p) ==
    /\ claimed[p] <=> Firing(p) \/ Sending(p)
    /\ ~(Firing(p) /\ Sending(p))
    /\ inFlight[p] <=> pc[p] # "none"
    /\ Firing(p) => att[p].pane = p
    /\ Early(p) => ~stuck[p] /\ streak[p] > 0
    /\ Firing(p) /\ pc[p] # "release" => lastWake[p]

\* Nothing is typed into a pane that has no session, nor into one that has come
\* back since a line for it was begun.
Quiet(p) == unanswered[p] = 0 /\ (Firing(p) => att[p].gone)
DownInv(p) ==
    /\ ~up[p] => /\ Quiet(p) /\ box[p] = {} /\ spc[p] \in {"none", "over"} /\ p \notin tick.todo
                 /\ look.pane = p => look.gone
    /\ tick.on /\ p \notin tick.seen => Quiet(p) /\ p \notin tick.todo /\ look.pane # p
    /\ ~tick.on => p \notin tick.todo /\ look.pane # p

\* Whose text is in a box, and who will see to it.
BoxInv(p) ==
    /\ "send" \in box[p] => spc[p] = "enter"
    /\ "wake" \in box[p] =>
          keyedLine[p] \/ stuck[p] \/ pc[p] \in {"written", "settle", "enter", "unsubmitted"}

\* The streak counts the lines typed with no read between them, but for one when a
\* message was read before the streak's beginning was taken down.
Counted(p) == unanswered[p] + (IF Early(p) THEN 1 ELSE 0)
StreakInv(p) ==
    /\ Counted(p) <= streak[p] + 1
    /\ readSince[p] /\ streak[p] > 0 => Counted(p) <= 1
    /\ look.pane = p /\ look.read => unanswered[p] = 0 \/ (lastWake[p] /\ ~Early(p))

WakeInv ==
    /\ HourInv
    /\ \A p \in Panes : ClaimInv(p) /\ DownInv(p) /\ BoxInv(p) /\ StreakInv(p)
=============================================================================
