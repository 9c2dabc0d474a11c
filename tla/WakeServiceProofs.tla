------------------------- MODULE WakeServiceProofs -------------------------
(* What is proved of WakeService, for any panes, messages and limits.          *)
EXTENDS WakeService, FiniteSetTheorems, WellFoundedInduction, TLAPS

\* The bounds are numbers.
LEMMA Numbers ==
    /\ MaxMail \in Nat /\ MaxEvents \in Nat /\ ProjectHour \in Nat /\ StreakMax \in Nat
    /\ ProjectHour >= 1 /\ StreakMax >= 1
    /\ 0 \in 0..MaxMail /\ 0 \in 0..StreakMax /\ 0 \in 0..ProjectHour /\ 0 \in 0..MaxEvents
BY LimitsAssumption

\* A set of numbers that is not empty has a least one.
LEMMA LeastNumber ==
    ASSUME NEW S \in SUBSET Nat, S # {}
    PROVE  \E x \in S : \A y \in S : x <= y
<1> DEFINE R == {ss \in Nat \X Nat : ss[1] < ss[2]}
<1>1. \E x \in S : \A y \in S : ~ (<<y, x>> \in R)
  <2>1. IsWellFoundedOn(R, Nat) BY NatLessThanWellFounded DEF OpToRel
  <2> HIDE DEF R
  <2> QED BY <2>1, WFMin
<1>2. \A x, y \in Nat : y < x => <<y, x>> \in R
  OBVIOUS
<1>3. PICK x \in S : \A y \in S : ~ (<<y, x>> \in R) BY <1>1
<1>4. \A y \in S : ~ (y < x) BY <1>2, <1>3
<1> QED BY <1>4

\* The oldest and the newest of a pane's messages are messages of its.
LEMMA OldestAndNewest ==
    ASSUME NEW N \in Nat, NEW S \in SUBSET (1..N), S # {}
    PROVE  Min(S) \in S /\ Max(S) \in S
<1>1. \E x \in S : \A y \in S : x <= y BY LeastNumber
<1>2. \E x \in S : \A y \in S : x >= y
  <2> DEFINE T == {n \in Nat : \A y \in S : n >= y}
  <2>1. T \in SUBSET Nat /\ N \in T OBVIOUS
  <2>2. PICK t \in T : \A y \in T : t <= y BY <2>1, LeastNumber
  <2>3. CASE t \in S BY <2>3
  <2>4. CASE t \notin S
    <3>1. PICK y \in S : TRUE OBVIOUS
    <3>2. t \in Nat /\ t >= 1 BY <3>1
    <3>3. t - 1 \in Nat /\ \A z \in S : t - 1 >= z BY <2>4, <3>2
    <3> QED BY <2>2, <3>3
  <2> QED BY <2>3, <2>4
<1> QED BY <1>1, <1>2 DEF Min, Max

-----------------------------------------------------------------------------
(* Types, and the places in the hour. *)

\* What a change does to a line in the making keeps its type.
LEMMA ChangedTypes ==
    ASSUME LineType, NEW p \in Panes, NEW field \in {"keyed", "printed", "flipped", "gone"},
           Changed(p, field)
    PROVE  look' \in Looks /\ att' \in [Panes -> Looks]
<1>1. \A l \in Looks : [l EXCEPT ![field] = TRUE] \in Looks BY DEF Looks
<1> QED BY <1>1 DEF Changed, LineType

\* The steps of the tick keep every variable's type.
LEMMA ConsiderTypes ==
    ASSUME TypeOK, Consider
    PROVE  PaneType' /\ StateType' /\ LineType' /\ SwitchType' /\ HistoryType'
<1> USE DEF On, Goto, paneVars, stateVars, switchVars, tickVars, historyVars, Flags
<1>1. /\ PaneType /\ StateType /\ LineType /\ SwitchType /\ HistoryType BY DEF TypeOK
<1>2. NoLook \in Looks BY Numbers DEF NoLook, Looks
<1>3. CASE TickBegins \/ (\E p \in Panes : Look(p))
  <2>1. UNCHANGED <<paneVars, unread, stateVars, claimed, pc, att, spc, switchVars, events, historyVars>>
    BY <1>3 DEF TickBegins, Look
  <2>2. tick' \in Tick
    <3>1. CASE TickBegins
      <4>1. {p \in Panes : up[p]} \in SUBSET Panes OBVIOUS
      <4> QED BY <3>1, <4>1 DEF TickBegins, Tick
    <3>2. ASSUME NEW p \in Panes, Look(p) PROVE tick' \in Tick BY <1>1, <3>2 DEF Look, LineType, Tick
    <3> QED BY <1>3, <3>1, <3>2
  <2>3. look' \in Looks
    <3>1. CASE TickBegins BY <1>1, <3>1 DEF TickBegins, LineType
    <3>2. ASSUME NEW p \in Panes, Look(p) PROVE look' \in Looks
      <4>1. CASE UNCHANGED look BY <1>1, <4>1 DEF LineType
      <4>2. CASE Holds(p) /\ ~ UNCHANGED look
        <5>1. unread[p] \in SUBSET (1..MaxMail) /\ unread[p] # {} BY <1>1, <4>2 DEF Holds, PaneType
        <5>2. Min(unread[p]) \in 0..MaxMail /\ Max(unread[p]) \in 0..MaxMail
          <6>1. Min(unread[p]) \in unread[p] /\ Max(unread[p]) \in unread[p]
            BY <5>1, Numbers, OldestAndNewest
          <6>2. unread[p] \subseteq 0..MaxMail BY <5>1, Numbers
          <6> QED BY <6>1, <6>2
        <5>3. PICK i \in 0..MaxMail, t \in BOOLEAN : look' = [NoLook EXCEPT !.pane = p, !.text = t, !.id = i]
          BY <3>2, <4>2, <5>2 DEF Look, TextMode
        <5> QED BY <1>2, <5>3 DEF Looks
      <4> QED BY <3>2, <4>1, <4>2 DEF Look
    <3> QED BY <1>3, <3>1, <3>2
  <2> QED BY <1>1, <2>1, <2>2, <2>3 DEF PaneType, StateType, LineType, SwitchType, HistoryType
<1>4. CASE TickEnds
  <2>1. StateType' BY <1>1, <1>4, Numbers DEF TickEnds, StateType
  <2>2. PaneType' BY <1>1, <1>4 DEF TickEnds, PaneType
  <2>3. LineType' BY <1>1, <1>4 DEF TickEnds, LineType, Tick, NoTick
  <2> QED BY <1>1, <1>4, <2>1, <2>2, <2>3 DEF TickEnds, SwitchType, HistoryType
<1>5. CASE Refuse
  <2>0. look.pane \in Panes BY <1>1, <1>5 DEF Refuse, LineType, Looks
  <2>1. StreakNow(look.pane) \in 0..StreakMax
    BY <1>1, <2>0, Numbers DEF StreakNow, StateType
  <2>2. StateType'
    BY <1>1, <1>5, <2>0, <2>1 DEF Refuse, StateType
  <2>3. LineType' BY <1>1, <1>2, <1>5 DEF Refuse, LineType
  <2> QED BY <1>1, <1>5, <2>2, <2>3 DEF Refuse, PaneType, SwitchType, HistoryType
<1>6. CASE Start
  <2>0. look.pane \in Panes /\ look \in Looks /\ look.read \in BOOLEAN
    BY <1>1, <1>6 DEF Start, LineType, Looks
  <2>1. StreakNow(look.pane) + 1 \in 0..StreakMax /\ slots + 1 \in 0..ProjectHour
    BY <1>1, <1>6, <2>0, Numbers DEF Start, Limited, StreakNow, StateType
  <2>2. StateType'
    BY <1>1, <1>6, <2>0, <2>1 DEF Start, StreakFrom, StateType
  <2>3. LineType' BY <1>1, <1>2, <1>6, <2>0 DEF Start, LineType
  <2> QED BY <1>1, <1>6, <2>2, <2>3 DEF Start, PaneType, SwitchType, HistoryType
<1> QED BY <1>3, <1>4, <1>5, <1>6 DEF Consider

\* The steps of a line keep every variable's type.
LEMMA FireTypes ==
    ASSUME TypeOK, HourInv, NEW p \in Panes, Fire(p)
    PROVE  PaneType' /\ StateType' /\ LineType' /\ SwitchType' /\ HistoryType'
<1> USE DEF On, Goto, paneVars, stateVars, switchVars, tickVars, historyVars, Flags
<1>1. /\ PaneType /\ StateType /\ LineType /\ SwitchType /\ HistoryType BY DEF TypeOK
<1>2. Early(p) => slots - 1 \in 0..ProjectHour
  <2> DEFINE early == {q \in Panes : Early(q)}
  <2>1. IsFiniteSet(early) /\ slots >= typedInHour + Cardinality(early) BY DEF HourInv
  <2>2. Early(p) => Cardinality(early) >= 1 /\ Cardinality(early) \in Nat
    <3> HIDE DEF early
    <3>1. Cardinality(early) \in Nat BY <2>1, FS_CardinalityType
    <3>2. Early(p) => early # {} BY DEF early
    <3> QED BY <2>1, <3>1, <3>2, FS_EmptySet
  <2> QED BY <1>1, <2>1, <2>2, Numbers DEF StateType, HistoryType
<1>3. streak[p] > 0 => streak[p] - 1 \in 0..StreakMax BY <1>1, Numbers DEF StateType
<1>4. ASSUME NEW b \in BOOLEAN, Undo(p, b), Early(p) PROVE StateType'
  BY <1>1, <1>2, <1>3, <1>4 DEF Undo, StateType
<1>5. ASSUME NEW b \in BOOLEAN, Undo(p, b), UNCHANGED <<claimed, tickVars, att, spc>> PROVE LineType'
  BY <1>1, <1>5 DEF Undo, LineType
<1>6. CASE Check(p)
  <2>1. Early(p) BY <1>6 DEF Check, Early
  <2>2. StateType' BY <1>1, <1>4, <1>6, <2>1 DEF Check, StateType
  <2>3. LineType' BY <1>1, <1>5, <1>6 DEF Check, LineType
  <2> QED BY <1>1, <1>6, <2>2, <2>3 DEF Check, PaneType, SwitchType, HistoryType
<1>7. CASE Judge(p)
  <2>1. Early(p) BY <1>7 DEF Judge, Early
  <2>2. StateType' BY <1>1, <1>4, <1>7, <2>1 DEF Judge, StateType
  <2>3. LineType' BY <1>1, <1>5, <1>7 DEF Judge, LineType
  <2> QED BY <1>1, <1>7, <2>2, <2>3 DEF Judge, PaneType, SwitchType, HistoryType
<1>8. CASE WriteLine(p)
  <2>1. Early(p) BY <1>8 DEF WriteLine, Early
  <2>2. StateType' BY <1>1, <1>4, <1>8, <2>1 DEF WriteLine, StateType
  <2>3. LineType'
    <3>1. CASE att[p].gone BY <1>1, <1>5, <1>8, <3>1 DEF WriteLine
    <3>2. CASE ~ att[p].gone BY <1>1, <1>8, <3>2 DEF WriteLine, LineType
    <3> QED BY <3>1, <3>2
  <2>4. PaneType'
    <3>1. box[p] \cup {"wake"} \in SUBSET {"wake", "send", "draft"} BY <1>1 DEF PaneType
    <3>2. box' \in [Panes -> SUBSET {"wake", "send", "draft"}] BY <1>1, <1>8, <3>1 DEF WriteLine, PaneType
    <3>3. calm' \in Flags BY <1>1, <1>8 DEF WriteLine, PaneType
    <3> QED BY <1>1, <1>8, <3>2, <3>3 DEF WriteLine, PaneType
  <2>5. HistoryType'
    <3>1. CASE att[p].gone BY <1>1, <1>8, <3>1 DEF WriteLine, HistoryType
    <3>2. CASE ~ att[p].gone
      <4>1. unanswered[p] + 1 \in Nat /\ typedInHour + 1 \in Nat BY <1>1 DEF HistoryType
      <4>2. unanswered' \in [Panes -> Nat] BY <1>1, <1>8, <3>2, <4>1 DEF WriteLine, HistoryType
      <4> QED BY <1>1, <1>8, <3>2, <4>1, <4>2 DEF WriteLine, HistoryType
    <3> QED BY <3>1, <3>2
  <2> QED BY <1>1, <1>8, <2>2, <2>3, <2>4, <2>5 DEF WriteLine, SwitchType
<1>9. CASE TypedAt(p) \/ Enter(p)
  BY <1>1, <1>9 DEF TypedAt, Enter, PaneType, StateType, LineType, SwitchType, HistoryType
<1>10. CASE Settle(p)
  BY <1>1, <1>10 DEF Settle, PaneType, StateType, LineType, SwitchType, HistoryType
<1>11. CASE Mark(p)
  <2>1. unread' \in [Panes -> SUBSET (1..MaxMail)] BY <1>1, <1>11 DEF Mark, ReadBy, PaneType
  <2>2. look' \in Looks
    <3>1. [look EXCEPT !.read = TRUE] \in Looks BY <1>1 DEF LineType, Looks
    <3> QED BY <1>1, <1>11, <3>1 DEF Mark, ReadBy, LineType
  <2>3. readSince' \in Flags /\ unanswered' \in [Panes -> Nat]
    <3>1. CASE att[p].text /\ att[p].id \in unread[p]
      <4>1. readSince' = [readSince EXCEPT ![p] = TRUE] /\ unanswered' = [unanswered EXCEPT ![p] = 0]
        BY <1>11, <3>1 DEF Mark, ReadBy
      <4>2. readSince' \in Flags BY <1>1, <4>1 DEF StateType
      <4>3. unanswered' \in [Panes -> Nat] BY <1>1, <4>1 DEF HistoryType
      <4> QED BY <4>2, <4>3
    <3>2. CASE ~ (att[p].text /\ att[p].id \in unread[p])
      BY <1>1, <1>11, <3>2 DEF Mark, StateType, HistoryType
    <3> QED BY <3>1, <3>2
  <2> QED BY <1>1, <1>11, <2>1, <2>2, <2>3 DEF Mark, PaneType, StateType, LineType, SwitchType, HistoryType
<1>12. CASE Unsubmitted(p)
  BY <1>1, <1>12 DEF Unsubmitted, SetStuck, PaneType, StateType, LineType, SwitchType, HistoryType
<1>13. CASE Release(p) \/ Landed(p)
  <2>1. NoLook \in Looks BY Numbers DEF NoLook, Looks
  <2>2. StateType' BY <1>1, <1>13 DEF Release, Landed, StateType
  <2>3. LineType'
    <3>1. CASE Release(p)
      <4>1. claimed' \in Flags BY <1>1, <3>1 DEF Release, Unclaim, LineType
      <4>2. att' \in [Panes -> Looks] BY <1>1, <2>1, <3>1 DEF Release, LineType
      <4> QED BY <1>1, <3>1, <4>1, <4>2 DEF Release, LineType
    <3>2. CASE Landed(p) BY <1>1, <3>2 DEF Landed, LineType
    <3> QED BY <1>13, <3>1, <3>2
  <2> QED BY <1>1, <1>13, <2>2, <2>3 DEF Release, Landed, PaneType, SwitchType, HistoryType
<1> QED BY <1>6, <1>7, <1>8, <1>9, <1>10, <1>11, <1>12, <1>13 DEF Fire

\* The steps of SendToPane, of time and of everybody else keep every variable's type.
LEMMA OtherTypes ==
    ASSUME TypeOK, (\E p \in Panes : SendToPane(p)) \/ Time \/ Others
    PROVE  PaneType' /\ StateType' /\ LineType' /\ SwitchType' /\ HistoryType'
<1> USE DEF On, SendGoto, paneVars, stateVars, switchVars, tickVars, historyVars, Flags
<1>1. /\ PaneType /\ StateType /\ LineType /\ SwitchType /\ HistoryType BY DEF TypeOK
<1>2. Event => events' \in 0..MaxEvents BY <1>1, Numbers DEF Event, SwitchType
<1>3. ASSUME NEW p \in Panes, SendToPane(p)
      PROVE  PaneType' /\ StateType' /\ LineType' /\ SwitchType' /\ HistoryType'
  <2>1. UNCHANGED <<up, idle, keyedIdle, keyedLine, dialog, unread, stateVars, tickVars, pc, att,
                    switchVars, events, historyVars>>
    BY <1>3 DEF SendToPane, SendText, SendEnter, SendRelease, SendConfirm
  <2>2. claimed' \in Flags
    BY <1>1, <1>3 DEF SendToPane, SendText, SendEnter, SendRelease, SendConfirm, Unclaim, LineType
  <2>3. spc' \in [Panes -> {"none", "text", "enter", "sent", "over", "confirm"}]
    BY <1>1, <1>3 DEF SendToPane, SendText, SendEnter, SendRelease, SendConfirm, LineType
  <2>4. calm' \in Flags
    BY <1>1, <1>3 DEF SendToPane, SendText, SendEnter, SendRelease, SendConfirm, PaneType
  <2>5. box' \in [Panes -> SUBSET {"wake", "send", "draft"}]
    <3>1. box[p] \cup {"send"} \in SUBSET {"wake", "send", "draft"} BY <1>1 DEF PaneType
    <3> QED BY <1>1, <1>3, <3>1 DEF SendToPane, SendText, SendEnter, SendRelease, SendConfirm, PaneType
  <2> QED BY <1>1, <2>1, <2>2, <2>3, <2>4, <2>5 DEF PaneType, StateType, LineType, SwitchType, HistoryType
<1>4. CASE Time
  <2>1. CASE CacheExpires \/ (\E p \in Panes : QuietPasses(p) \/ MinutePasses(p))
    <3>1. UNCHANGED <<up, idle, keyedIdle, keyedLine, dialog, box, unread, streak, readSince, inFlight, stuck,
                      slots, claimed, tickVars, pc, att, spc, switch, stopped, events, historyVars>>
      BY <2>1 DEF CacheExpires, QuietPasses, MinutePasses
    <3>2. calm' \in Flags /\ lastWake' \in Flags
      BY <1>1, <2>1 DEF CacheExpires, QuietPasses, MinutePasses, PaneType, StateType
    <3>3. cache' \in Switches BY <1>1, <2>1 DEF CacheExpires, QuietPasses, MinutePasses, SwitchType
    <3> QED BY <1>1, <3>1, <3>2, <3>3 DEF PaneType, StateType, LineType, SwitchType, HistoryType
  <2>2. CASE HourPasses
    <3>1. slots' \in 0..ProjectHour /\ typedInHour' \in Nat
      BY <1>1, <2>2, Numbers DEF HourPasses, StateType, HistoryType
    <3> QED BY <1>1, <2>2, <3>1 DEF HourPasses, PaneType, StateType, LineType, SwitchType, HistoryType
  <2> QED BY <1>4, <2>1, <2>2 DEF Time
<1>5. ASSUME NEW p \in Panes, SendClaim(p) \/ SessionStarts(p) \/ MailComes(p)
      PROVE  PaneType' /\ StateType' /\ LineType' /\ SwitchType' /\ HistoryType'
  <2>1. UNCHANGED <<calm, dialog, box, stateVars, tickVars, pc, att, switchVars, historyVars>>
    BY <1>5 DEF SendClaim, SessionStarts, MailComes
  <2>2. up' \in Flags /\ idle' \in Flags /\ keyedIdle' \in Flags
    BY <1>1, <1>5 DEF SendClaim, SessionStarts, MailComes, PaneType
  <2>3. keyedLine' \in Flags
    BY <1>1, <1>5 DEF SendClaim, SessionStarts, MailComes, PaneType
  <2>4. unread' \in [Panes -> SUBSET (1..MaxMail)]
    <3>1. CASE MailComes(p)
      <4>1. PICK m \in (1..MaxMail) \ unread[p] : unread' = On(unread, p, unread[p] \cup {m})
        BY <3>1 DEF MailComes
      <4>2. unread[p] \cup {m} \in SUBSET (1..MaxMail) BY <1>1 DEF PaneType
      <4> QED BY <1>1, <4>1, <4>2 DEF PaneType
    <3> QED BY <1>1, <1>5, <3>1 DEF SendClaim, SessionStarts, PaneType
  <2>5. claimed' \in Flags /\ spc' \in [Panes -> {"none", "text", "enter", "sent", "over", "confirm"}]
    BY <1>1, <1>5 DEF SendClaim, SessionStarts, MailComes, LineType
  <2>6. events' \in 0..MaxEvents BY <1>1, <1>2, <1>5 DEF SendClaim, SessionStarts, MailComes, SwitchType
  <2> QED BY <1>1, <2>1, <2>2, <2>3, <2>4, <2>5, <2>6 DEF PaneType, StateType, LineType, SwitchType,
            HistoryType
<1>6. ASSUME NEW p \in Panes, UserTypes(p) \/ UserEnters(p)
      PROVE  PaneType' /\ StateType' /\ LineType' /\ SwitchType' /\ HistoryType'
  <2>1. PICK left \in {box[p] \cup {"draft"}, {}} : Keys(p, left) BY <1>6 DEF UserTypes, UserEnters
  <2>2. left \in SUBSET {"wake", "send", "draft"} BY <1>1, <2>1 DEF PaneType
  <2>3. PaneType' BY <1>1, <2>1, <2>2 DEF Keys, PaneType
  <2>4. look' \in Looks /\ att' \in [Panes -> Looks] BY <1>1, <2>1, ChangedTypes DEF Keys
  <2> QED BY <1>1, <1>2, <2>1, <2>3, <2>4 DEF Keys, StateType, LineType, SwitchType, HistoryType
<1>7. ASSUME NEW p \in Panes, AgentBusy(p) \/ AgentIdle(p) \/ Outputs(p)
      PROVE  PaneType' /\ StateType' /\ LineType' /\ SwitchType' /\ HistoryType'
  <2>1. look' \in Looks /\ att' \in [Panes -> Looks]
    BY <1>1, <1>7, ChangedTypes DEF AgentBusy, AgentIdle, Outputs
  <2>2. PaneType' BY <1>1, <1>7 DEF AgentBusy, AgentIdle, Outputs, PaneType
  <2> QED BY <1>1, <1>2, <1>7, <2>1, <2>2 DEF AgentBusy, AgentIdle, Outputs, StateType, LineType,
            SwitchType, HistoryType
<1>8. ASSUME NEW p \in Panes, SessionEnds(p)
      PROVE  PaneType' /\ StateType' /\ LineType' /\ SwitchType' /\ HistoryType'
  <2>1. look' \in Looks /\ att' \in [Panes -> Looks] BY <1>1, <1>8, ChangedTypes DEF SessionEnds
  <2>2. tick' \in Tick BY <1>1, <1>8 DEF SessionEnds, LineType, Tick
  <2>3. PaneType' BY <1>1, <1>8 DEF SessionEnds, PaneType
  <2> QED BY <1>1, <1>2, <1>8, <2>1, <2>2, <2>3 DEF SessionEnds, StateType, LineType, SwitchType,
            HistoryType
<1>9. ASSUME NEW p \in Panes, NEW m, AgentReads(p, m)
      PROVE  PaneType' /\ StateType' /\ LineType' /\ SwitchType' /\ HistoryType'
  <2>1. [look EXCEPT !.read = TRUE] \in Looks BY <1>1 DEF LineType, Looks
  <2>2. LineType' BY <1>1, <1>9, <2>1 DEF AgentReads, ReadBy, LineType
  <2> QED BY <1>1, <1>9, <2>2 DEF AgentReads, ReadBy, PaneType, StateType, SwitchType, HistoryType
<1>10. CASE Stop \/ (\E s \in Switches : SetSwitch(s))
  BY <1>1, <1>2, <1>10 DEF Stop, SetSwitch, PaneType, StateType, LineType, SwitchType, HistoryType
<1> QED BY <1>3, <1>4, <1>5, <1>6, <1>7, <1>8, <1>9, <1>10 DEF Others

-----------------------------------------------------------------------------
(* The steps of a line that is not typed yet: it goes on, its place is given   *)
(* back, or it is typed.                                                       *)

GoesOn(p) ==
    /\ pc[p] \in {"check", "judge"} /\ \E next \in {"judge", "line"} : Goto(p, next)
    /\ UNCHANGED <<paneVars, unread, stateVars, claimed, tickVars, att, spc, historyVars>>
GivenBack(p) ==
    /\ Early(p) /\ \E backoff \in BOOLEAN : Undo(p, backoff)
    /\ UNCHANGED <<paneVars, unread, claimed, tickVars, att, spc, historyVars>>
Typed(p) ==
    /\ pc[p] = "line" /\ ~att[p].gone /\ Goto(p, "written")
    /\ box' = On(box, p, box[p] \cup {"wake"})
    /\ unanswered' = On(unanswered, p, unanswered[p] + 1) /\ typedInHour' = typedInHour + 1
    /\ UNCHANGED <<up, idle, keyedIdle, keyedLine, dialog, unread, stateVars, claimed, tickVars, att, spc,
                   keyedLate>>

\* Every step of a line is one of these or a later one.
LEMMA FireSteps ==
    ASSUME NEW p \in Panes, Fire(p)
    PROVE  \/ GoesOn(p) \/ GivenBack(p) \/ Typed(p)
           \/ TypedAt(p) \/ Settle(p) \/ Enter(p) \/ Mark(p) \/ Unsubmitted(p) \/ Release(p) \/ Landed(p)
<1> USE DEF paneVars, stateVars, tickVars, switchVars, historyVars
<1>1. CASE Check(p) BY <1>1 DEF Check, GoesOn, GivenBack, Early
<1>2. CASE Judge(p) BY <1>2 DEF Judge, GoesOn, GivenBack, Early
<1>3. CASE WriteLine(p)
  <2>1. CASE att[p].gone BY <1>3, <2>1 DEF WriteLine, GivenBack, Early
  <2>2. CASE ~ att[p].gone BY <1>3, <2>2 DEF WriteLine, Typed
  <2> QED BY <2>1, <2>2
<1> QED BY <1>1, <1>2, <1>3 DEF Fire

\* One place fewer, or one more line typed, for an early line that is early no more.
LEMMA EarlyLeaves ==
    ASSUME TypeOK, HourInv, NEW p \in Panes, Early(p), NEW label, Goto(p, label),
           label \notin {"check", "judge", "line"}, slots' - typedInHour' >= slots - typedInHour - 1,
           slots' \in Nat, typedInHour' \in Nat
    PROVE  HourInv'
<1> DEFINE E == {q \in Panes : Early(q)}
           F == {q \in Panes : Early(q)'}
<1>1. IsFiniteSet(E) /\ slots >= typedInHour + Cardinality(E) BY DEF HourInv
<1>2. F = E \ {p} BY DEF Goto, On, Early, TypeOK, LineType
<1>3. p \in E OBVIOUS
<1>4. slots \in Nat /\ typedInHour \in Nat BY Numbers DEF TypeOK, StateType, HistoryType
<1>5. IsFiniteSet(F) /\ slots' >= typedInHour' + Cardinality(F)
  <2> HIDE DEF E, F
  <2>1. /\ IsFiniteSet(F) /\ Cardinality(E) \in Nat
        /\ Cardinality(F) = Cardinality(E) - 1
    BY <1>1, <1>2, <1>3, FS_RemoveElement, FS_CardinalityType
  <2>2. \A c, d, s, t, ss, tt \in Int :
           s >= t + c /\ d = c - 1 /\ ss - tt >= s - t - 1 => ss >= tt + d
    OBVIOUS
  <2>3. /\ Cardinality(E) \in Int /\ Cardinality(F) \in Int
        /\ slots \in Int /\ slots' \in Int /\ typedInHour \in Int /\ typedInHour' \in Int
    BY <1>4, <2>1
  <2>4. slots' - typedInHour' >= slots - typedInHour - 1 OBVIOUS
  <2>5. slots' >= typedInHour' + Cardinality(F) BY <1>1, <2>1, <2>2, <2>3, <2>4
  <2> QED BY <2>1, <2>5
<1> QED BY <1>5 DEF HourInv

\* A step of the service keeps a place for every line typed in the hour, and for
\* every one that is about to be.
LEMMA HourSteps ==
    ASSUME TypeOK, HourInv, Next, TypeOK'
    PROVE  HourInv'
<1> USE DEF paneVars, stateVars, tickVars, switchVars, historyVars
<1>1. /\ slots \in Nat /\ typedInHour \in Nat /\ slots' \in Nat /\ typedInHour' \in Nat
  BY Numbers DEF TypeOK, StateType, HistoryType
<1>2. ASSUME UNCHANGED <<pc, slots, typedInHour>> PROVE HourInv'
  BY <1>2 DEF HourInv, Early
<1>3. CASE Start
  <2> DEFINE p == look.pane
             E == {q \in Panes : Early(q)}
             F == {q \in Panes : Early(q)'}
  <2>1. IsFiniteSet(E) /\ slots >= typedInHour + Cardinality(E) BY DEF HourInv
  <2>2. p \in Panes BY <1>3 DEF Start, TypeOK, LineType, Looks
  <2>3. F = E \cup {p} BY <1>3, <2>2 DEF Start, Goto, On, Early, TypeOK, LineType
  <2>4. slots' = slots + 1 /\ typedInHour' = typedInHour BY <1>3 DEF Start
  <2>5. IsFiniteSet(F) /\ slots' >= typedInHour' + Cardinality(F)
    <3> HIDE DEF E, F, p
    <3>1. /\ IsFiniteSet(F) /\ Cardinality(E) \in Nat /\ Cardinality(F) \in Nat
          /\ Cardinality(F) <= Cardinality(E) + 1
      <4>1. Cardinality(E) \in Nat BY <2>1, FS_CardinalityType
      <4>2. IsFiniteSet(F) /\ (Cardinality(F) = Cardinality(E) \/ Cardinality(F) = Cardinality(E) + 1)
        BY <2>1, <2>3, FS_AddElement
      <4> QED BY <4>1, <4>2
    <3> QED BY <1>1, <2>1, <2>4, <3>1
  <2> QED BY <2>5 DEF HourInv
<1>4. CASE TickBegins \/ TickEnds \/ Refuse \/ (\E p \in Panes : Look(p))
  BY <1>2, <1>4 DEF TickBegins, TickEnds, Refuse, Look
<1>5. ASSUME NEW p \in Panes, Fire(p) PROVE HourInv'
  <2>1. CASE GoesOn(p)
    <3>1. \A q \in Panes : Early(q)' <=> Early(q)
      BY <2>1 DEF GoesOn, Goto, On, Early, TypeOK, LineType
    <3>2. {q \in Panes : Early(q)'} = {q \in Panes : Early(q)} BY <3>1
    <3> QED BY <2>1, <3>2 DEF GoesOn, HourInv
  <2>2. CASE GivenBack(p)
    <3>1. slots' = slots - 1 /\ typedInHour' = typedInHour /\ Goto(p, "release")
      BY <2>2 DEF GivenBack, Undo
    <3> QED BY <1>1, <2>2, <3>1, EarlyLeaves DEF GivenBack
  <2>3. CASE Typed(p)
    <3>1. slots' = slots /\ typedInHour' = typedInHour + 1 /\ Goto(p, "written") /\ Early(p)
      BY <2>3 DEF Typed, Early
    <3> QED BY <1>1, <3>1, EarlyLeaves
  <2>4. CASE TypedAt(p) \/ Settle(p) \/ Enter(p) \/ Mark(p) \/ Unsubmitted(p) \/ Release(p) \/ Landed(p)
    <3>1. UNCHANGED <<slots, typedInHour>>
      BY <2>4 DEF TypedAt, Settle, Enter, Mark, ReadBy, Unsubmitted, Release, Landed
    <3>2. \A q \in Panes : Early(q)' <=> Early(q)
      BY <2>4 DEF TypedAt, Settle, Enter, Mark, Unsubmitted, Release, Landed, Goto, On, Early, TypeOK, LineType
    <3>3. {q \in Panes : Early(q)'} = {q \in Panes : Early(q)} BY <3>2
    <3> QED BY <3>1, <3>3 DEF HourInv
  <2> QED BY <1>5, <2>1, <2>2, <2>3, <2>4, FireSteps
<1>6. CASE HourPasses
  <2> DEFINE E == {q \in Panes : Early(q)}
  <2>1. E = {} BY <1>6 DEF HourPasses, Firing, Early
  <2>2. {q \in Panes : Early(q)'} = {} BY <1>6, <2>1 DEF HourPasses, Early
  <2>3. slots >= typedInHour BY <1>1, <2>1, FS_EmptySet DEF HourInv
  <2>4. slots' >= typedInHour' BY <1>1, <1>6, <2>3 DEF HourPasses
  <2> QED BY <1>1, <2>2, <2>4, FS_EmptySet DEF HourInv
<1>7. ASSUME NEW p \in Panes,
             \/ SendToPane(p) \/ QuietPasses(p) \/ MinutePasses(p) \/ SendClaim(p) \/ UserTypes(p)
             \/ UserEnters(p) \/ AgentBusy(p) \/ AgentIdle(p) \/ Outputs(p) \/ SessionEnds(p)
             \/ SessionStarts(p) \/ MailComes(p) \/ \E m \in 1..MaxMail : AgentReads(p, m)
      PROVE  HourInv'
  BY <1>2, <1>7 DEF SendToPane, SendText, SendEnter, SendRelease, SendConfirm, QuietPasses, MinutePasses,
      SendClaim, UserTypes, UserEnters, Keys, AgentBusy, AgentIdle, Outputs, SessionEnds, SessionStarts,
      MailComes, AgentReads, ReadBy
<1>8. CASE CacheExpires \/ Stop \/ \E s \in Switches : SetSwitch(s)
  BY <1>2, <1>8 DEF CacheExpires, Stop, SetSwitch
<1> QED BY <1>3, <1>4, <1>5, <1>6, <1>7, <1>8 DEF Next, Consider, Time, Others

\* Types and places together, of every behaviour.
LEMMA PlacesCorrect == Spec => [](TypeOK /\ HourInv)
<1>1. ASSUME Init PROVE TypeOK /\ HourInv
  <2> USE <1>1 DEF Init
  <2>1. NoLook \in Looks /\ NoTick \in Tick BY Numbers DEF NoLook, Looks, NoTick, Tick
  <2>2. PaneType BY DEF PaneType, Flags
  <2>3. StateType BY Numbers DEF StateType, Flags
  <2>4. LineType BY <2>1 DEF LineType, Flags
  <2>5. SwitchType /\ HistoryType BY Numbers DEF SwitchType, Switches, HistoryType, Flags
  <2>6. HourInv
    <3>1. {p \in Panes : Early(p)} = {} BY DEF Early
    <3> QED BY <3>1, FS_EmptySet DEF HourInv
  <2> QED BY <2>2, <2>3, <2>4, <2>5, <2>6 DEF TypeOK
<1>2. ASSUME TypeOK, HourInv, [Next]_vars PROVE TypeOK' /\ HourInv'
  <2>1. CASE UNCHANGED vars
    BY <1>2, <2>1 DEF vars, paneVars, stateVars, tickVars, switchVars, historyVars, TypeOK, PaneType,
        StateType, LineType, SwitchType, HistoryType, HourInv, Early
  <2>2. CASE Next
    <3>1. PaneType' /\ StateType' /\ LineType' /\ SwitchType' /\ HistoryType'
      BY <1>2, <2>2, ConsiderTypes, FireTypes, OtherTypes DEF Next
    <3>2. TypeOK' BY <3>1 DEF TypeOK
    <3> QED BY <1>2, <2>2, <3>2, HourSteps
  <2> QED BY <1>2, <2>1, <2>2
<1> QED BY <1>1, <1>2, PTL DEF Spec

\* Every variable has its type, and the two limits of the service are kept.
THEOREM TypeCorrect == Spec => []TypeOK
<1>1. TypeOK /\ HourInv => TypeOK OBVIOUS
<1> QED BY <1>1, PlacesCorrect, PTL

-----------------------------------------------------------------------------
(* The claim.                                                                  *)

\* The functions the steps below change at one pane are functions of the panes.
LEMMA OfPanes ==
    ASSUME TypeOK
    PROVE  /\ DOMAIN up = Panes /\ DOMAIN box = Panes /\ DOMAIN keyedIdle = Panes /\ DOMAIN keyedLine = Panes
           /\ DOMAIN pc = Panes /\ DOMAIN spc = Panes /\ DOMAIN claimed = Panes /\ DOMAIN att = Panes
           /\ DOMAIN lastWake = Panes /\ DOMAIN inFlight = Panes /\ DOMAIN stuck = Panes
           /\ DOMAIN streak = Panes /\ DOMAIN readSince = Panes
           /\ DOMAIN unanswered = Panes /\ DOMAIN keyedLate = Panes
BY DEF TypeOK, PaneType, StateType, LineType, HistoryType, Flags

\* What is taken down of a change does not move a line to another pane, nor bring
\* a session back.
LEMMA ChangedKeeps ==
    ASSUME TypeOK, NEW p \in Panes, NEW field \in {"keyed", "printed", "flipped", "gone"},
           Changed(p, field)
    PROVE  /\ look'.pane = look.pane /\ look'.read = look.read /\ (look.gone => look'.gone)
           /\ \A q \in Panes : att'[q].pane = att[q].pane /\ (att[q].gone => att'[q].gone)
<1>1. \A l \in Looks : LET k == [l EXCEPT ![field] = TRUE] IN
          k.pane = l.pane /\ k.read = l.read /\ (l.gone => k.gone)
  BY DEF Looks
<1>2. look \in Looks /\ att \in [Panes -> Looks] BY DEF TypeOK, LineType
<1>3. look'.pane = look.pane /\ look'.read = look.read /\ (look.gone => look'.gone)
  BY <1>1, <1>2 DEF Changed
<1>4. att'[p].pane = att[p].pane /\ (att[p].gone => att'[p].gone)
  <2>1. att[p] \in Looks BY <1>2
  <2>2. CASE att[p].pane = p
    <3>1. att'[p] = [att[p] EXCEPT ![field] = TRUE] BY <1>2, <2>2 DEF Changed
    <3> QED BY <1>1, <2>1, <3>1
  <2>3. CASE att[p].pane # p BY <2>3 DEF Changed
  <2> QED BY <2>2, <2>3
<1>5. \A q \in Panes : q # p => att'[q] = att[q] BY <1>2 DEF Changed
<1> QED BY <1>3, <1>4, <1>5

\* One goroutine or one send at a time holds a pane's claim.
LEMMA ClaimSteps ==
    ASSUME TypeOK, NEW q \in Panes, \A p \in Panes : ClaimInv(p), Next
    PROVE  ClaimInv(q)'
<1> USE OfPanes DEF On, Goto, SendGoto, paneVars, stateVars, tickVars, switchVars, historyVars
<1>1. ClaimInv(q) OBVIOUS
<1>2. ASSUME UNCHANGED <<claimed, inFlight, stuck, streak, lastWake, pc, spc>>, att'[q].pane = att[q].pane
      PROVE  ClaimInv(q)'
  BY <1>1, <1>2 DEF ClaimInv, Firing, Sending, Early
<1>3. CASE TickBegins \/ \E p \in Panes : Look(p)
  BY <1>2, <1>3 DEF TickBegins, Look
<1>4. CASE Refuse
  <2>1. look.pane \in Panes BY <1>4 DEF Refuse, TypeOK, LineType, Looks
  <2>2. UNCHANGED <<claimed, inFlight, lastWake, pc, spc, att>> BY <1>4 DEF Refuse
  <2>3. q = look.pane => UNCHANGED <<stuck, streak>> \/ ~inFlight[q] BY <1>4 DEF Refuse
  <2>4. q # look.pane => stuck'[q] = stuck[q] /\ streak'[q] = streak[q] BY <1>4, <2>1 DEF Refuse
  <2> QED BY <1>1, <2>2, <2>3, <2>4 DEF ClaimInv, Firing, Sending, Early
<1>5. CASE Start
  <2>1. look.pane \in Panes BY <1>5 DEF Start, TypeOK, LineType, Looks
  <2>2. CASE q # look.pane
    <3>1. /\ claimed'[q] = claimed[q] /\ inFlight'[q] = inFlight[q] /\ stuck'[q] = stuck[q]
          /\ streak'[q] = streak[q] /\ lastWake'[q] = lastWake[q] /\ pc'[q] = pc[q] /\ spc'[q] = spc[q]
          /\ att'[q] = att[q]
      BY <1>5, <2>1, <2>2 DEF Start
    <3> QED BY <1>1, <3>1 DEF ClaimInv, Firing, Sending, Early
  <2>3. CASE q = look.pane
    <3>1. /\ claimed'[q] /\ inFlight'[q] /\ ~stuck'[q] /\ lastWake'[q] /\ pc'[q] = "check"
          /\ spc'[q] = spc[q] /\ att'[q].pane = q /\ streak'[q] = StreakNow(q) + 1 /\ ~claimed[q]
      BY <1>5, <2>1, <2>3 DEF Start, Claimable
    <3>2. StreakNow(q) \in Nat BY Numbers DEF StreakNow, TypeOK, StateType
    <3>3. streak'[q] > 0 BY <3>1, <3>2
    <3> QED BY <1>1, <3>1, <3>3 DEF ClaimInv, Firing, Sending, Early
  <2> QED BY <2>2, <2>3
<1>6. CASE TickEnds
  <2>1. UNCHANGED <<claimed, inFlight, pc, spc, att>> BY <1>6 DEF TickEnds
  <2>2. \/ ~inFlight[q]
        \/ stuck'[q] = stuck[q] /\ streak'[q] = streak[q] /\ lastWake'[q] = lastWake[q]
    BY <1>6 DEF TickEnds, TypeOK, StateType, Flags
  <2> QED BY <1>1, <2>1, <2>2 DEF ClaimInv, Firing, Sending, Early
<1>7. ASSUME NEW p \in Panes, Fire(p) PROVE ClaimInv(q)'
  <2>1. spc' = spc /\ (att' = att \/ Release(p))
    BY <1>7, FireSteps DEF GoesOn, GivenBack, Typed, TypedAt, Settle, Enter, Mark, Unsubmitted, Release, Landed
  <2>2. CASE q # p
    <3>1. /\ claimed'[q] = claimed[q] /\ inFlight'[q] = inFlight[q] /\ stuck'[q] = stuck[q]
          /\ streak'[q] = streak[q] /\ lastWake'[q] = lastWake[q] /\ pc'[q] = pc[q]
          /\ att'[q] = att[q]
      BY <1>7, <2>2, FireSteps DEF GoesOn, GivenBack, Undo, Typed, TypedAt, Settle, Enter, Mark, ReadBy,
          Unsubmitted, SetStuck, Release, Unclaim, Landed
    <3> QED BY <1>1, <2>1, <3>1 DEF ClaimInv, Firing, Sending, Early
  <2>3. CASE q = p
    <3>1. CASE GoesOn(p) \/ Typed(p) \/ TypedAt(p) \/ Settle(p) \/ Enter(p) \/ Mark(p)
      <4>1. UNCHANGED <<claimed, inFlight, stuck, streak, lastWake, spc, att>>
        BY <3>1 DEF GoesOn, Typed, TypedAt, Settle, Enter, Mark, ReadBy
      <4>2. Firing(p) /\ pc[p] # "release" /\ Firing(p)' /\ (Early(p)' => Early(p))
        BY <3>1 DEF GoesOn, Typed, TypedAt, Settle, Enter, Mark, Firing, Early
      <4> QED BY <1>1, <2>3, <4>1, <4>2 DEF ClaimInv, Sending, Firing
    <3>2. CASE GivenBack(p)
      <4>1. UNCHANGED <<claimed, inFlight, spc, att>> /\ pc'[p] = "release" /\ Early(p)
        BY <3>2 DEF GivenBack, Undo
      <4> QED BY <1>1, <2>3, <4>1 DEF ClaimInv, Sending, Firing, Early
    <3>3. CASE Unsubmitted(p)
      <4>1. UNCHANGED <<claimed, inFlight, spc, att>> /\ pc'[p] = "release" /\ pc[p] = "unsubmitted"
        BY <3>3 DEF Unsubmitted
      <4> QED BY <1>1, <2>3, <4>1 DEF ClaimInv, Sending, Firing, Early
    <3>4. CASE Release(p)
      <4>1. UNCHANGED <<inFlight, spc>> /\ ~claimed'[p] /\ pc'[p] = "landed" /\ pc[p] = "release"
        BY <3>4 DEF Release, Unclaim
      <4> QED BY <1>1, <2>3, <4>1 DEF ClaimInv, Sending, Firing, Early
    <3>5. CASE Landed(p)
      <4>1. UNCHANGED <<claimed, spc>> /\ ~inFlight'[p] /\ pc'[p] = "none" /\ pc[p] = "landed"
        BY <3>5 DEF Landed
      <4> QED BY <1>1, <2>3, <4>1 DEF ClaimInv, Sending, Firing, Early
    <3> QED BY <1>7, <3>1, <3>2, <3>3, <3>4, <3>5, FireSteps
  <2> QED BY <2>2, <2>3
<1>8. ASSUME NEW p \in Panes, SendToPane(p) \/ SendClaim(p) PROVE ClaimInv(q)'
  <2>1. UNCHANGED <<inFlight, stuck, streak, lastWake, pc, att>>
    BY <1>8 DEF SendToPane, SendText, SendEnter, SendRelease, SendConfirm, SendClaim
  <2>2. CASE q # p
    <3>1. claimed'[q] = claimed[q] /\ spc'[q] = spc[q]
      BY <1>8, <2>2 DEF SendToPane, SendText, SendEnter, SendRelease, SendConfirm, SendClaim, Unclaim
    <3> QED BY <1>1, <2>1, <3>1 DEF ClaimInv, Firing, Sending, Early
  <2>3. CASE q = p
    <3>1. \/ claimed' = claimed /\ (Sending(p)' <=> Sending(p))
          \/ ~claimed'[p] /\ Sending(p) /\ ~Sending(p)'
          \/ claimed'[p] /\ ~claimed[p] /\ Sending(p)'
      BY <1>8 DEF SendToPane, SendText, SendEnter, SendRelease, SendConfirm, SendClaim, Unclaim, Claimable,
          Sending
    <3> QED BY <1>1, <2>1, <2>3, <3>1 DEF ClaimInv, Firing, Early
  <2> QED BY <2>2, <2>3
<1>9. ASSUME NEW p \in Panes, MinutePasses(p) PROVE ClaimInv(q)'
  <2>1. UNCHANGED <<claimed, inFlight, stuck, streak, pc, spc, att>> BY <1>9 DEF MinutePasses
  <2>2. ~Firing(q) \/ lastWake'[q] = lastWake[q] BY <1>9 DEF MinutePasses
  <2> QED BY <1>1, <2>1, <2>2 DEF ClaimInv, Firing, Sending, Early
<1>10. ASSUME NEW p \in Panes, UserTypes(p) \/ UserEnters(p) \/ AgentBusy(p) \/ AgentIdle(p) \/ Outputs(p)
       PROVE  ClaimInv(q)'
  <2>1. \E field \in {"keyed", "flipped", "printed"} : Changed(p, field)
    BY <1>10 DEF UserTypes, UserEnters, Keys, AgentBusy, AgentIdle, Outputs
  <2>2. att'[q].pane = att[q].pane BY <2>1, ChangedKeeps
  <2> QED BY <1>2, <1>10, <2>2 DEF UserTypes, UserEnters, Keys, AgentBusy, AgentIdle, Outputs
<1>11. ASSUME NEW p \in Panes, SessionEnds(p) PROVE ClaimInv(q)'
  <2>1. UNCHANGED <<claimed, inFlight, stuck, streak, lastWake, pc>> BY <1>11 DEF SessionEnds
  <2>2. att'[q].pane = att[q].pane BY <1>11, ChangedKeeps DEF SessionEnds
  <2>3. Sending(q)' <=> Sending(q) BY <1>11 DEF SessionEnds, Sending
  <2> QED BY <1>1, <2>1, <2>2, <2>3 DEF ClaimInv, Firing, Early
<1>12. ASSUME NEW p \in Panes,
              \/ QuietPasses(p) \/ SessionStarts(p) \/ MailComes(p) \/ \E m \in 1..MaxMail : AgentReads(p, m)
       PROVE  ClaimInv(q)'
  BY <1>2, <1>12 DEF QuietPasses, SessionStarts, MailComes, AgentReads, ReadBy
<1>13. CASE CacheExpires \/ HourPasses \/ Stop \/ \E s \in Switches : SetSwitch(s)
  BY <1>2, <1>13 DEF CacheExpires, HourPasses, Stop, SetSwitch
<1> QED BY <1>3, <1>4, <1>5, <1>6, <1>7, <1>8, <1>9, <1>10, <1>11, <1>12, <1>13
        DEF Next, Consider, Time, Others

-----------------------------------------------------------------------------
(* Panes without a session.                                                    *)

\* Nothing is typed into a pane without a session, nor into one that came back.
LEMMA DownSteps ==
    ASSUME TypeOK, NEW q \in Panes, ClaimInv(q), \A p \in Panes : DownInv(p), Next
    PROVE  DownInv(q)'
<1> USE OfPanes DEF On, Goto, SendGoto, paneVars, stateVars, tickVars, switchVars, historyVars
<1>1. DownInv(q) OBVIOUS
<1>2. CASE TickBegins
  <2>1. UNCHANGED <<paneVars, look, pc, att, spc, unanswered>> BY <1>2 DEF TickBegins
  <2>2. tick'.on /\ (q \in tick'.todo <=> up[q]) /\ (q \in tick'.seen <=> up[q]) BY <1>2 DEF TickBegins
  <2>3. ~tick.on BY <1>2 DEF TickBegins
  <2> QED BY <1>1, <2>1, <2>2, <2>3 DEF DownInv, Quiet, Firing
<1>3. ASSUME NEW p \in Panes, Look(p) PROVE DownInv(q)'
  <2>1. UNCHANGED <<paneVars, pc, att, spc, unanswered>> BY <1>3 DEF Look
  <2>2. tick'.on = tick.on /\ tick'.seen = tick.seen /\ tick'.todo \subseteq tick.todo /\ p \in tick.todo
    BY <1>3 DEF Look, TypeOK, LineType, Tick
  <2>3. look'.pane = p \/ look' = look BY <1>3 DEF Look, NoLook
  <2>4. DownInv(p) OBVIOUS
  <2> QED BY <1>1, <2>1, <2>2, <2>3, <2>4 DEF DownInv, Quiet, Firing
<1>4. CASE Refuse
  <2>1. UNCHANGED <<paneVars, tick, pc, att, spc, unanswered>> BY <1>4 DEF Refuse
  <2>2. look'.pane # q BY <1>4, PanesAssumption DEF Refuse, NoLook
  <2> QED BY <1>1, <2>1, <2>2 DEF DownInv, Quiet, Firing
<1>5. CASE Start
  <2>1. UNCHANGED <<paneVars, tick, spc, unanswered>> BY <1>5 DEF Start
  <2>2. look'.pane # q BY <1>5, PanesAssumption DEF Start, NoLook
  <2>3. look.pane \in Panes BY <1>5 DEF Start, TypeOK, LineType, Looks
  <2>4. CASE look.pane # q
    <3>1. att'[q] = att[q] /\ pc'[q] = pc[q] BY <1>5, <2>3, <2>4 DEF Start
    <3> QED BY <1>1, <2>1, <2>2, <3>1 DEF DownInv, Quiet, Firing
  <2>5. CASE look.pane = q
    <3>1. att'[q] = look BY <1>5, <2>5 DEF Start
    <3> QED BY <1>1, <2>1, <2>2, <2>5, <3>1 DEF DownInv, Quiet
  <2> QED BY <2>4, <2>5
<1>6. CASE TickEnds
  <2>1. UNCHANGED <<up, box, look, pc, att, spc, unanswered>> BY <1>6 DEF TickEnds
  <2>2. ~tick'.on /\ q \notin tick'.todo /\ look'.pane # q
    BY <1>6, PanesAssumption DEF TickEnds, NoTick
  <2> QED BY <1>1, <2>1, <2>2 DEF DownInv, Quiet, Firing
<1>7. ASSUME NEW p \in Panes, Fire(p) PROVE DownInv(q)'
  <2>1. UNCHANGED <<up, tick, spc>>
    BY <1>7, FireSteps DEF GoesOn, GivenBack, Typed, TypedAt, Settle, Enter, Mark, ReadBy, Unsubmitted,
        Release, Landed
  <2>2. look'.pane = look.pane /\ (look.gone => look'.gone)
    <3>1. look' = look \/ look' = [look EXCEPT !.read = TRUE]
      BY <1>7, FireSteps DEF GoesOn, GivenBack, Typed, TypedAt, Settle, Enter, Mark, ReadBy, Unsubmitted,
          Release, Landed
    <3> QED BY <3>1 DEF TypeOK, LineType, Looks
  <2>3. CASE q # p
    <3>1. box'[q] = box[q] /\ unanswered'[q] = unanswered[q] /\ pc'[q] = pc[q] /\ att'[q] = att[q]
      BY <1>7, <2>3, FireSteps DEF GoesOn, GivenBack, Undo, Typed, TypedAt, Settle, Enter, Mark, ReadBy,
          Unsubmitted, Release, Landed
    <3> QED BY <1>1, <2>1, <2>2, <3>1 DEF DownInv, Quiet, Firing
  <2>4. CASE q = p
    <3>1. Quiet(p) => ~Typed(p) BY DEF Typed, Quiet, Firing
    <3>2. Quiet(p) => Quiet(p)'
      <4>1. CASE ~Typed(p) /\ ~Release(p)
        <5>1. (att' = att /\ Firing(p) /\ (unanswered' = unanswered \/ unanswered'[p] = 0)) \/ Landed(p)
          BY <1>7, <4>1, FireSteps DEF GoesOn, GivenBack, Undo, TypedAt, Settle, Enter, Mark, ReadBy,
              Unsubmitted, Firing, Early
        <5> QED BY <5>1 DEF Quiet, Firing, Landed
      <4>2. CASE Release(p) BY <4>2 DEF Release, Quiet, Firing
      <4> QED BY <3>1, <4>1, <4>2
    <3>3. box'[p] = box[p] \/ box'[p] = {} \/ Typed(p)
      BY <1>7, FireSteps DEF GoesOn, GivenBack, TypedAt, Settle, Enter, Mark, Unsubmitted,
          Release, Landed
    <3> QED BY <1>1, <2>1, <2>2, <2>4, <3>1, <3>2, <3>3 DEF DownInv
  <2> QED BY <2>3, <2>4
<1>8. ASSUME NEW p \in Panes, SendToPane(p) \/ SendClaim(p) PROVE DownInv(q)'
  <2>1. UNCHANGED <<up, tickVars, pc, att, unanswered>>
    BY <1>8 DEF SendToPane, SendText, SendEnter, SendRelease, SendConfirm, SendClaim
  <2>2. CASE q # p
    <3>1. box'[q] = box[q] /\ spc'[q] = spc[q]
      BY <1>8, <2>2 DEF SendToPane, SendText, SendEnter, SendRelease, SendConfirm, SendClaim
    <3> QED BY <1>1, <2>1, <3>1 DEF DownInv, Quiet, Firing
  <2>3. CASE q = p
    <3>1. \/ spc[p] \notin {"none", "over"}
          \/ SendClaim(p) /\ up[p]
          \/ box'[p] = box[p] /\ spc'[p] = "none"
      BY <1>8 DEF SendToPane, SendText, SendEnter, SendRelease, SendConfirm, SendClaim
    <3> QED BY <1>1, <2>1, <2>3, <3>1 DEF DownInv, Quiet, Firing
  <2> QED BY <2>2, <2>3
<1>9. ASSUME NEW p \in Panes, UserTypes(p) \/ UserEnters(p) \/ AgentBusy(p) \/ AgentIdle(p) \/ Outputs(p)
       PROVE  DownInv(q)'
  <2>1. \E field \in {"keyed", "flipped", "printed"} : Changed(p, field)
    BY <1>9 DEF UserTypes, UserEnters, Keys, AgentBusy, AgentIdle, Outputs
  <2>2. look'.pane = look.pane /\ (look.gone => look'.gone) /\ (att[q].gone => att'[q].gone)
    BY <2>1, ChangedKeeps
  <2>3. UNCHANGED <<up, tick, pc, spc, unanswered>>
    BY <1>9 DEF UserTypes, UserEnters, Keys, AgentBusy, AgentIdle, Outputs
  <2>4. box'[q] = box[q] \/ up[q]
    BY <1>9 DEF UserTypes, UserEnters, Keys, AgentBusy, AgentIdle, Outputs
  <2> QED BY <1>1, <2>2, <2>3, <2>4 DEF DownInv, Quiet, Firing
<1>10. ASSUME NEW p \in Panes, SessionEnds(p) PROVE DownInv(q)'
  <2>1. UNCHANGED pc /\ tick'.on = tick.on /\ tick'.seen = tick.seen /\ tick'.todo = tick.todo \ {p}
    BY <1>10 DEF SessionEnds, TypeOK, LineType, Tick
  <2>2. look'.pane = look.pane /\ (look.gone => look'.gone) /\ (att[q].gone => att'[q].gone)
    BY <1>10, ChangedKeeps DEF SessionEnds
  <2>3. CASE q # p
    <3>1. up'[q] = up[q] /\ box'[q] = box[q] /\ unanswered'[q] = unanswered[q]
      BY <1>10, <2>3 DEF SessionEnds
    <3>2. spc'[q] = spc[q] BY <1>10, <2>3 DEF SessionEnds
    <3> QED BY <1>1, <2>1, <2>2, <3>1, <3>2 DEF DownInv, Quiet, Firing
  <2>4. CASE q = p
    <3>1. box'[p] = {} /\ unanswered'[p] = 0 /\ spc'[p] \in {"none", "over"} BY <1>10 DEF SessionEnds
    <3>2. look.pane = p => look'.gone
      BY <1>10 DEF SessionEnds, Changed, TypeOK, LineType, Looks
    <3>3. Firing(p) => att'[p].gone
      <4>1. Firing(p) => att[p].pane = p BY <2>4 DEF ClaimInv
      <4>2. att[p] \in Looks BY DEF TypeOK, LineType
      <4>3. Firing(p) => att'[p] = [att[p] EXCEPT !.gone = TRUE] BY <1>10, <4>1 DEF SessionEnds, Changed
      <4> QED BY <4>2, <4>3 DEF Looks
    <3>4. Firing(p)' => Firing(p) BY <2>1 DEF Firing
    <3> QED BY <1>1, <2>1, <2>2, <2>4, <3>1, <3>2, <3>3, <3>4 DEF DownInv, Quiet
  <2> QED BY <2>3, <2>4
<1>11. ASSUME NEW p \in Panes, SessionStarts(p) PROVE DownInv(q)'
  <2>1. UNCHANGED <<box, tickVars, pc, att, spc, unanswered>> BY <1>11 DEF SessionStarts
  <2>2. up[q] => up'[q] BY <1>11 DEF SessionStarts
  <2> QED BY <1>1, <2>1, <2>2 DEF DownInv, Quiet, Firing
<1>12. ASSUME NEW p \in Panes, NEW m \in 1..MaxMail, AgentReads(p, m) PROVE DownInv(q)'
  <2>1. UNCHANGED <<paneVars, tick, pc, att, spc>> BY <1>12 DEF AgentReads
  <2>2. look'.pane = look.pane /\ (look.gone => look'.gone)
    BY <1>12 DEF AgentReads, ReadBy, TypeOK, LineType, Looks
  <2>3. unanswered'[q] = unanswered[q] \/ unanswered'[q] = 0 BY <1>12 DEF AgentReads, ReadBy
  <2> QED BY <1>1, <2>1, <2>2, <2>3 DEF DownInv, Quiet, Firing
<1>13. ASSUME NEW p \in Panes, QuietPasses(p) \/ MinutePasses(p) \/ MailComes(p) PROVE DownInv(q)'
  BY <1>1, <1>13 DEF QuietPasses, MinutePasses, MailComes, DownInv, Quiet, Firing
<1>14. CASE CacheExpires \/ HourPasses \/ Stop \/ \E s \in Switches : SetSwitch(s)
  BY <1>1, <1>14 DEF CacheExpires, HourPasses, Stop, SetSwitch, DownInv, Quiet, Firing
<1> QED BY <1>2, <1>3, <1>4, <1>5, <1>6, <1>7, <1>8, <1>9, <1>10, <1>11, <1>12, <1>13, <1>14
        DEF Next, Consider, Time, Others

-----------------------------------------------------------------------------
(* The box.                                                                    *)

\* Whose text a box holds stays known.
LEMMA BoxSteps ==
    ASSUME TypeOK, NEW q \in Panes, ClaimInv(q), DownInv(q), BoxInv(q), Next
    PROVE  BoxInv(q)'
<1> USE OfPanes DEF On, Goto, SendGoto, paneVars, stateVars, tickVars, switchVars, historyVars
<1>1. ASSUME box'[q] = box[q], keyedLine'[q] = keyedLine[q], stuck'[q] = stuck[q], pc'[q] = pc[q],
             spc'[q] = spc[q]
      PROVE  BoxInv(q)'
  BY <1>1 DEF BoxInv
<1>2. CASE Refuse
  <2>1. look.pane \in Panes BY <1>2 DEF Refuse, TypeOK, LineType, Looks
  <2>2. UNCHANGED <<paneVars, pc, spc>> BY <1>2 DEF Refuse
  <2>3. stuck'[q] = stuck[q] \/ keyedLine[q] BY <1>2, <2>1 DEF Refuse, StillStuck, TypeOK, StateType, Flags
  <2> QED BY <2>2, <2>3 DEF BoxInv
<1>3. CASE Start
  <2>1. look.pane \in Panes BY <1>3 DEF Start, TypeOK, LineType, Looks
  <2>2. UNCHANGED <<paneVars, spc>> BY <1>3 DEF Start
  <2>3. CASE q # look.pane
    <3>1. stuck'[q] = stuck[q] /\ pc'[q] = pc[q] BY <1>3, <2>1, <2>3 DEF Start
    <3> QED BY <2>2, <3>1 DEF BoxInv
  <2>4. CASE q = look.pane
    <3>1. (~stuck[q] \/ keyedLine[q]) /\ ~inFlight[q] BY <1>3, <2>4 DEF Start, StillStuck
    <3>2. pc[q] = "none" BY <3>1 DEF ClaimInv
    <3> QED BY <2>2, <3>1, <3>2 DEF BoxInv
  <2> QED BY <2>3, <2>4
<1>4. CASE TickEnds
  <2>1. UNCHANGED <<box, pc, spc>> BY <1>4 DEF TickEnds
  <2>2. keyedLine'[q] \/ (keyedLine'[q] = keyedLine[q] /\ stuck'[q] = stuck[q])
    BY <1>4 DEF TickEnds, TypeOK, PaneType, StateType, Flags
  <2> QED BY <2>1, <2>2 DEF BoxInv
<1>5. ASSUME NEW p \in Panes, Fire(p) PROVE BoxInv(q)'
  <2>1. spc' = spc
    BY <1>5, FireSteps DEF GoesOn, GivenBack, Typed, TypedAt, Settle, Enter, Mark, Unsubmitted, Release, Landed
  <2>2. CASE q # p
    <3>1. box'[q] = box[q] /\ keyedLine'[q] = keyedLine[q] /\ stuck'[q] = stuck[q] /\ pc'[q] = pc[q]
      BY <1>5, <2>2, FireSteps DEF GoesOn, GivenBack, Undo, Typed, TypedAt, Settle, Enter, Mark, ReadBy,
          Unsubmitted, SetStuck, Release, Landed
    <3> QED BY <1>1, <2>1, <3>1
  <2>3. CASE q = p
    <3>1. CASE GoesOn(p) \/ GivenBack(p) \/ Release(p) \/ Landed(p)
      <4>1. UNCHANGED <<box, keyedLine, stuck>> /\ pc[p] \notin {"written", "settle", "enter", "unsubmitted"}
        BY <3>1 DEF GoesOn, GivenBack, Undo, Release, Landed, Early
      <4> QED BY <2>1, <2>3, <4>1 DEF BoxInv
    <3>2. CASE Typed(p)
      <4>1. pc'[p] = "written" /\ ("send" \in box'[p] => "send" \in box[p]) BY <3>2 DEF Typed
      <4> QED BY <2>1, <2>3, <4>1 DEF BoxInv
    <3>3. CASE TypedAt(p) \/ Settle(p)
      <4>1. box' = box /\ pc'[p] \in {"settle", "enter", "unsubmitted"} BY <3>3 DEF TypedAt, Settle
      <4> QED BY <2>1, <2>3, <4>1 DEF BoxInv
    <3>4. CASE Enter(p)
      <4>1. CASE att[p].gone
        <5>1. box' = box /\ pc'[p] = "unsubmitted" BY <3>4, <4>1 DEF Enter
        <5> QED BY <2>1, <2>3, <5>1 DEF BoxInv
      <4>2. CASE ~ att[p].gone
        <5>1. box'[p] = {} BY <3>4, <4>2 DEF Enter
        <5> QED BY <2>3, <5>1 DEF BoxInv
      <4> QED BY <4>1, <4>2
    <3>5. CASE Mark(p) \/ Unsubmitted(p)
      <4>1. box' = box /\ (keyedLine'[p] \/ stuck'[p]) BY <3>5 DEF Mark, Unsubmitted, SetStuck
      <4> QED BY <2>1, <2>3, <4>1 DEF BoxInv
    <3> QED BY <1>5, <3>1, <3>2, <3>3, <3>4, <3>5, FireSteps
  <2> QED BY <2>2, <2>3
<1>6. ASSUME NEW p \in Panes, SendToPane(p) \/ SendClaim(p) PROVE BoxInv(q)'
  <2>1. UNCHANGED <<keyedLine, stuck, pc>>
    BY <1>6 DEF SendToPane, SendText, SendEnter, SendRelease, SendConfirm, SendClaim
  <2>2. CASE q # p
    <3>1. box'[q] = box[q] /\ spc'[q] = spc[q]
      BY <1>6, <2>2 DEF SendToPane, SendText, SendEnter, SendRelease, SendConfirm, SendClaim
    <3> QED BY <1>1, <2>1, <3>1
  <2>3. CASE q = p
    <3>1. \/ box'[p] = {}
          \/ spc[p] # "enter" /\ box' = box
          \/ spc'[p] = "enter" /\ box'[p] = box[p] \cup {"send"}
      BY <1>6 DEF SendToPane, SendText, SendEnter, SendRelease, SendConfirm, SendClaim
    <3> QED BY <2>1, <2>3, <3>1 DEF BoxInv
  <2> QED BY <2>2, <2>3
<1>7. ASSUME NEW p \in Panes, UserTypes(p) \/ UserEnters(p) PROVE BoxInv(q)'
  <2>1. UNCHANGED <<stuck, pc, spc>> BY <1>7 DEF UserTypes, UserEnters, Keys
  <2>2. CASE q # p
    <3>1. box'[q] = box[q] /\ keyedLine'[q] = keyedLine[q] BY <1>7, <2>2 DEF UserTypes, UserEnters, Keys
    <3> QED BY <1>1, <2>1, <3>1
  <2>3. CASE q = p
    <3>1. keyedLine'[p] /\ ("send" \in box'[p] => "send" \in box[p])
      BY <1>7 DEF UserTypes, UserEnters, Keys
    <3> QED BY <2>1, <2>3, <3>1 DEF BoxInv
  <2> QED BY <2>2, <2>3
<1>8. ASSUME NEW p \in Panes, SessionEnds(p) PROVE BoxInv(q)'
  <2>1. UNCHANGED <<keyedLine, stuck, pc>> BY <1>8 DEF SessionEnds
  <2>2. q # p => box'[q] = box[q] /\ spc'[q] = spc[q] BY <1>8 DEF SessionEnds
  <2>3. box'[p] = {} BY <1>8 DEF SessionEnds
  <2> QED BY <1>1, <2>1, <2>2, <2>3 DEF BoxInv
<1>9. ASSUME NEW p \in Panes, SessionStarts(p) PROVE BoxInv(q)'
  <2>1. UNCHANGED <<box, stuck, pc, spc>> BY <1>9 DEF SessionStarts
  <2>2. q # p => keyedLine'[q] = keyedLine[q] BY <1>9 DEF SessionStarts
  <2>3. q = p => box[q] = {} BY <1>9 DEF SessionStarts, DownInv
  <2> QED BY <1>1, <2>1, <2>2, <2>3 DEF BoxInv
<1>10. ASSUME NEW p \in Panes,
              \/ Look(p) \/ AgentBusy(p) \/ AgentIdle(p) \/ Outputs(p) \/ QuietPasses(p) \/ MinutePasses(p)
              \/ MailComes(p) \/ \E m \in 1..MaxMail : AgentReads(p, m)
       PROVE  BoxInv(q)'
  BY <1>1, <1>10 DEF Look, AgentBusy, AgentIdle, Outputs, QuietPasses, MinutePasses, MailComes, AgentReads,
      ReadBy
<1>11. CASE TickBegins \/ CacheExpires \/ HourPasses \/ Stop \/ \E s \in Switches : SetSwitch(s)
  BY <1>1, <1>11 DEF TickBegins, CacheExpires, HourPasses, Stop, SetSwitch
<1> QED BY <1>2, <1>3, <1>4, <1>5, <1>6, <1>7, <1>8, <1>9, <1>10, <1>11 DEF Next, Consider, Time, Others

-----------------------------------------------------------------------------
(* The streak.                                                                 *)

\* The streak counts the lines typed with no read between them, but for one.
LEMMA StreakSteps ==
    ASSUME TypeOK, TypeOK', NEW q \in Panes, ClaimInv(q), DownInv(q), StreakInv(q), Next
    PROVE  StreakInv(q)'
<1> USE OfPanes DEF On, Goto, SendGoto, paneVars, stateVars, tickVars, switchVars, historyVars
<1>1. /\ streak[q] \in Nat /\ unanswered[q] \in Nat /\ streak'[q] \in Nat /\ unanswered'[q] \in Nat
      /\ readSince[q] \in BOOLEAN /\ lastWake[q] \in BOOLEAN
  BY Numbers DEF TypeOK, StateType, HistoryType, Flags
<1>2. ASSUME unanswered'[q] = unanswered[q], streak'[q] = streak[q], readSince'[q] = readSince[q],
             lastWake'[q] = lastWake[q], Early(q)' <=> Early(q),
             look'.pane = q => look.pane = q /\ look'.read = look.read
      PROVE  StreakInv(q)'
  BY <1>1, <1>2 DEF StreakInv, Counted
<1>3. CASE TickBegins \/ \E p \in Panes : Look(p)
  <2>1. UNCHANGED <<unanswered, streak, readSince, lastWake, pc>> BY <1>3 DEF TickBegins, Look
  <2>2. look' = look \/ look'.read = FALSE
    <3>1. ASSUME NEW p \in Panes, Look(p) PROVE look' = look \/ look'.read = FALSE
      BY <3>1 DEF Look, NoLook
    <3> QED BY <1>3, <3>1 DEF TickBegins
  <2> QED BY <1>1, <2>1, <2>2 DEF StreakInv, Counted, Early
<1>4. CASE Refuse
  <2>1. UNCHANGED <<unanswered, readSince, lastWake, pc>> BY <1>4 DEF Refuse
  <2>2. look'.pane # q BY <1>4, PanesAssumption DEF Refuse, NoLook
  <2>3. look.pane \in Panes BY <1>4 DEF Refuse, TypeOK, LineType, Looks
  <2>4. streak'[q] = streak[q] \/ streak'[q] = StreakNow(q) BY <1>4, <2>3 DEF Refuse
  <2>5. streak'[q] = streak[q] \/ (streak'[q] = 0 /\ streak[q] > 0 /\ readSince[q])
    BY <2>4 DEF StreakNow
  <2> QED BY <1>1, <2>1, <2>2, <2>5 DEF StreakInv, Counted, Early
<1>5. CASE Start
  <2>1. unanswered' = unanswered BY <1>5 DEF Start
  <2>2. look'.pane # q BY <1>5, PanesAssumption DEF Start, NoLook
  <2>3. look.pane \in Panes BY <1>5 DEF Start, TypeOK, LineType, Looks
  <2>4. CASE q # look.pane
    <3>1. streak'[q] = streak[q] /\ pc'[q] = pc[q] BY <1>5, <2>3, <2>4 DEF Start
    <3>2. readSince'[q] = readSince[q] BY <1>5, <2>3, <2>4 DEF Start, StreakFrom
    <3> QED BY <1>1, <2>1, <2>2, <3>1, <3>2 DEF StreakInv, Counted, Early
  <2>5. CASE q = look.pane
    <3>1. /\ streak'[q] = StreakNow(q) + 1 /\ pc'[q] = "check" /\ ~inFlight[q] /\ ~lastWake[q]
      BY <1>5, <2>5 DEF Start, Limited
    <3>2. readSince'[q] = IF StreakNow(q) = 0 THEN look.read ELSE readSince[q]
      BY <1>5, <2>5 DEF Start, StreakFrom
    <3>3. ~Early(q) /\ Early(q)' BY <3>1 DEF ClaimInv, Early
    <3>4. CASE streak[q] > 0 /\ ~readSince[q]
      <4>1. streak'[q] = streak[q] + 1 /\ ~readSince'[q] BY <1>1, <3>1, <3>2, <3>4 DEF StreakNow
      <4> QED BY <1>1, <2>1, <2>2, <3>3, <4>1 DEF StreakInv, Counted
    <3>5. CASE ~ (streak[q] > 0 /\ ~readSince[q])
      <4>1. streak'[q] = 1 /\ readSince'[q] = look.read /\ unanswered[q] <= 1
        BY <1>1, <3>1, <3>2, <3>3, <3>5 DEF StreakNow, StreakInv, Counted
      <4>2. look.read => unanswered[q] = 0 BY <2>5, <3>1 DEF StreakInv
      <4> QED BY <1>1, <2>1, <2>2, <3>3, <4>1, <4>2 DEF StreakInv, Counted
    <3> QED BY <3>4, <3>5
  <2> QED BY <2>4, <2>5
<1>6. CASE TickEnds
  <2>1. UNCHANGED <<unanswered, readSince, pc, look>> BY <1>6 DEF TickEnds
  <2>2. look'.pane # q BY <1>6, PanesAssumption DEF TickEnds
  <2>3. \/ streak'[q] = streak[q]
        \/ streak'[q] = 0 /\ q \notin tick.seen /\ ~inFlight[q] /\ tick.on
    BY <1>6 DEF TickEnds
  <2>4. q \notin tick.seen /\ ~inFlight[q] /\ tick.on => unanswered[q] = 0 /\ ~Early(q)
    BY DEF DownInv, Quiet, ClaimInv, Early
  <2> QED BY <1>1, <2>1, <2>2, <2>3, <2>4 DEF StreakInv, Counted, Early
<1>7. ASSUME NEW p \in Panes, Fire(p) PROVE StreakInv(q)'
  <2>1. look'.pane = look.pane /\ (look'.read = look.read \/ look.pane = p)
    <3>1. look' = look \/ (look' = [look EXCEPT !.read = TRUE] /\ look.pane = p)
      BY <1>7, FireSteps DEF GoesOn, GivenBack, Typed, TypedAt, Settle, Enter, Mark, ReadBy, Unsubmitted,
          Release, Landed
    <3> QED BY <3>1 DEF TypeOK, LineType, Looks
  <2>2. CASE q # p
    <3>1. /\ unanswered'[q] = unanswered[q] /\ streak'[q] = streak[q] /\ readSince'[q] = readSince[q]
          /\ lastWake'[q] = lastWake[q] /\ pc'[q] = pc[q]
      BY <1>7, <2>2, FireSteps DEF GoesOn, GivenBack, Undo, Typed, TypedAt, Settle, Enter, Mark, ReadBy,
          Unsubmitted, Release, Landed
    <3>2. Early(q)' <=> Early(q) BY <3>1 DEF Early
    <3> QED BY <1>2, <2>1, <2>2, <3>1, <3>2
  <2>3. CASE q = p
    <3>1. CASE GoesOn(p)
      <4>1. UNCHANGED <<unanswered, streak, readSince, lastWake, look>> /\ Early(p) /\ Early(p)'
        BY <3>1 DEF GoesOn, Early
      <4> QED BY <1>2, <2>3, <4>1
    <3>2. CASE GivenBack(p)
      <4>1. UNCHANGED <<unanswered, readSince, look>> /\ Early(p) /\ pc'[p] = "release"
        BY <3>2 DEF GivenBack, Undo
      <4>2. streak[p] > 0 BY <2>3, <4>1 DEF ClaimInv
      <4>3. streak'[p] = streak[p] - 1 BY <3>2, <4>2 DEF GivenBack, Undo
      <4>4. ~Early(p)' BY <4>1 DEF Early
      <4> QED BY <1>1, <2>3, <4>1, <4>2, <4>3, <4>4 DEF StreakInv, Counted
    <3>3. CASE Typed(p)
      <4>1. UNCHANGED <<streak, readSince, lastWake, look>> /\ pc[p] = "line" /\ pc'[p] = "written"
        BY <3>3 DEF Typed
      <4>2. unanswered'[p] = unanswered[p] + 1 BY <3>3 DEF Typed
      <4>3. lastWake[p] BY <2>3, <4>1 DEF ClaimInv, Firing
      <4>4. Early(p) /\ ~Early(p)' BY <4>1 DEF Early
      <4> QED BY <1>1, <2>3, <4>1, <4>2, <4>3, <4>4 DEF StreakInv, Counted
    <3>4. CASE Mark(p)
      <4>1. UNCHANGED <<streak, lastWake>> /\ ~Early(p) /\ ~Early(p)' BY <3>4 DEF Mark, Early
      <4>2. \/ UNCHANGED <<unanswered, readSince, look>>
            \/ unanswered'[p] = 0
        BY <3>4 DEF Mark, ReadBy
      <4> QED BY <1>1, <2>3, <4>1, <4>2 DEF StreakInv, Counted
    <3>5. CASE TypedAt(p) \/ Settle(p) \/ Enter(p) \/ Unsubmitted(p) \/ Release(p) \/ Landed(p)
      <4>1. UNCHANGED <<unanswered, streak, readSince, lastWake, look>> /\ ~Early(p) /\ ~Early(p)'
        BY <3>5 DEF TypedAt, Settle, Enter, Unsubmitted, Release, Landed, Early
      <4> QED BY <1>2, <2>3, <4>1
    <3> QED BY <1>7, <3>1, <3>2, <3>3, <3>4, <3>5, FireSteps
  <2> QED BY <2>2, <2>3
<1>8. ASSUME NEW p \in Panes, MinutePasses(p) PROVE StreakInv(q)'
  <2>1. UNCHANGED <<unanswered, streak, readSince, pc, look>> BY <1>8 DEF MinutePasses
  <2>2. look'.pane # q BY <1>8, PanesAssumption DEF MinutePasses
  <2> QED BY <1>1, <2>1, <2>2 DEF StreakInv, Counted, Early
<1>9. ASSUME NEW p \in Panes, UserTypes(p) \/ UserEnters(p) \/ AgentBusy(p) \/ AgentIdle(p) \/ Outputs(p)
      PROVE  StreakInv(q)'
  <2>1. \E field \in {"keyed", "flipped", "printed"} : Changed(p, field)
    BY <1>9 DEF UserTypes, UserEnters, Keys, AgentBusy, AgentIdle, Outputs
  <2>2. look'.pane = look.pane /\ look'.read = look.read BY <2>1, ChangedKeeps
  <2>3. UNCHANGED <<unanswered, streak, readSince, lastWake, pc>>
    BY <1>9 DEF UserTypes, UserEnters, Keys, AgentBusy, AgentIdle, Outputs
  <2> QED BY <1>2, <2>2, <2>3 DEF Early
<1>10. ASSUME NEW p \in Panes, SessionEnds(p) PROVE StreakInv(q)'
  <2>1. look'.pane = look.pane /\ look'.read = look.read BY <1>10, ChangedKeeps DEF SessionEnds
  <2>2. UNCHANGED <<streak, readSince, lastWake, pc>> BY <1>10 DEF SessionEnds
  <2>3. unanswered'[q] = unanswered[q] \/ unanswered'[q] = 0 BY <1>10 DEF SessionEnds
  <2> QED BY <1>1, <2>1, <2>2, <2>3 DEF StreakInv, Counted, Early
<1>11. ASSUME NEW p \in Panes, NEW m \in 1..MaxMail, AgentReads(p, m) PROVE StreakInv(q)'
  <2>1. UNCHANGED <<streak, lastWake, pc>> BY <1>11 DEF AgentReads
  <2>2. CASE q = p
    <3>1. unanswered'[q] = 0 BY <1>11, <2>2 DEF AgentReads, ReadBy
    <3> QED BY <1>1, <2>1, <3>1 DEF StreakInv, Counted
  <2>3. CASE q # p
    <3>1. unanswered'[q] = unanswered[q] /\ readSince'[q] = readSince[q]
      BY <1>11, <2>3 DEF AgentReads, ReadBy
    <3>2. look'.pane = q => look.pane = q /\ look'.read = look.read
      BY <1>11, <2>3 DEF AgentReads, ReadBy, TypeOK, LineType, Looks
    <3> QED BY <1>2, <2>1, <3>1, <3>2 DEF Early
  <2> QED BY <2>2, <2>3
<1>12. ASSUME NEW p \in Panes,
              \/ SendToPane(p) \/ SendClaim(p) \/ SessionStarts(p) \/ QuietPasses(p) \/ MailComes(p)
       PROVE  StreakInv(q)'
  BY <1>2, <1>12 DEF SendToPane, SendText, SendEnter, SendRelease, SendConfirm, SendClaim, SessionStarts,
      QuietPasses, MailComes, Early
<1>13. CASE CacheExpires \/ HourPasses \/ Stop \/ \E s \in Switches : SetSwitch(s)
  BY <1>2, <1>13 DEF CacheExpires, HourPasses, Stop, SetSwitch, Early
<1> QED BY <1>3, <1>4, <1>5, <1>6, <1>7, <1>8, <1>9, <1>10, <1>11, <1>12, <1>13
        DEF Next, Consider, Time, Others

-----------------------------------------------------------------------------
(* The person.                                                                 *)

\* NobodyIsSubmitted, of one pane.
Unmixed(p) == pc[p] = "enter" /\ ~att[p].gone /\ ~keyedLate[p] => ~keyedLine[p] /\ ~keyedIdle[p]

\* No step puts what the person typed under an Enter that is about to be pressed.
LEMMA UnmixedSteps ==
    ASSUME TypeOK, NEW q \in Panes, ClaimInv(q), Unmixed(q), Next
    PROVE  Unmixed(q)'
<1> USE OfPanes DEF On, Goto, SendGoto, paneVars, stateVars, tickVars, switchVars, historyVars
<1>1. ASSUME pc'[q] = "enter" => pc[q] = "enter" /\ (att[q].gone => att'[q].gone),
             keyedLate'[q] = keyedLate[q], keyedLine'[q] => keyedLine[q], keyedIdle'[q] => keyedIdle[q]
      PROVE  Unmixed(q)'
  BY <1>1 DEF Unmixed
<1>2. CASE TickBegins \/ Refuse \/ \E p \in Panes : Look(p)
  BY <1>1, <1>2 DEF TickBegins, Refuse, Look
<1>3. CASE Start
  <2>1. UNCHANGED <<keyedLate, keyedLine, keyedIdle>> BY <1>3 DEF Start
  <2>2. look.pane \in Panes BY <1>3 DEF Start, TypeOK, LineType, Looks
  <2>3. q # look.pane => pc'[q] = pc[q] /\ att'[q] = att[q] BY <1>3, <2>2 DEF Start
  <2>4. q = look.pane => pc'[q] = "check" BY <1>3 DEF Start
  <2> QED BY <1>1, <2>1, <2>3, <2>4
<1>4. CASE TickEnds
  <2>1. UNCHANGED <<pc, att, keyedLate, keyedIdle>> BY <1>4 DEF TickEnds
  <2>2. ~inFlight[q] \/ keyedLine'[q] = keyedLine[q]
    BY <1>4 DEF TickEnds, TypeOK, PaneType, Flags
  <2>3. pc[q] = "enter" => inFlight[q] BY DEF ClaimInv
  <2> QED BY <2>1, <2>2, <2>3 DEF Unmixed
<1>5. ASSUME NEW p \in Panes, Fire(p) PROVE Unmixed(q)'
  <2>1. keyedIdle' = keyedIdle
    BY <1>5, FireSteps DEF GoesOn, GivenBack, Typed, TypedAt, Settle, Enter, Mark, Unsubmitted, Release, Landed
  <2>2. CASE q # p
    <3>1. keyedLine'[q] = keyedLine[q] /\ keyedLate'[q] = keyedLate[q] /\ pc'[q] = pc[q] /\ att'[q] = att[q]
      BY <1>5, <2>2, FireSteps DEF GoesOn, GivenBack, Undo, Typed, TypedAt, Settle, Enter, Mark,
          Unsubmitted, Release, Landed
    <3> QED BY <1>1, <2>1, <3>1
  <2>3. CASE q = p
    <3>1. CASE pc'[p] # "enter" BY <2>3, <3>1 DEF Unmixed
    <3>2. CASE pc'[p] = "enter"
      <4>1. Settle(p)
        BY <1>5, <3>2, FireSteps DEF GoesOn, GivenBack, Undo, Typed, TypedAt, Enter, Mark, Unsubmitted,
            Release, Landed
      <4>2. MayEnter(p) BY <3>2, <4>1 DEF Settle
      <4>3. keyedLine' = keyedLine BY <4>1 DEF Settle
      <4> QED BY <2>1, <2>3, <4>2, <4>3 DEF Unmixed, MayEnter, StillIdle
    <3> QED BY <3>1, <3>2
  <2> QED BY <2>2, <2>3
<1>6. ASSUME NEW p \in Panes, UserTypes(p) \/ UserEnters(p) PROVE Unmixed(q)'
  <2>1. pc' = pc BY <1>6 DEF UserTypes, UserEnters, Keys
  <2>2. att[q].gone => att'[q].gone
    BY <1>6, ChangedKeeps DEF UserTypes, UserEnters, Keys
  <2>3. CASE q # p
    <3>1. keyedLine'[q] = keyedLine[q] /\ keyedIdle'[q] = keyedIdle[q]
      BY <1>6, <2>3 DEF UserTypes, UserEnters, Keys
    <3>2. keyedLate'[q] = keyedLate[q] BY <1>6, <2>3 DEF UserTypes, UserEnters, Keys
    <3> QED BY <1>1, <2>1, <2>2, <3>1, <3>2
  <2>4. CASE q = p
    <3>1. pc[p] = "enter" => keyedLate'[p] BY <1>6 DEF UserTypes, UserEnters, Keys
    <3> QED BY <2>1, <2>4, <3>1 DEF Unmixed
  <2> QED BY <2>3, <2>4
<1>7. ASSUME NEW p \in Panes, AgentBusy(p) \/ AgentIdle(p) \/ Outputs(p) PROVE Unmixed(q)'
  <2>1. UNCHANGED <<pc, keyedLine, keyedLate>> BY <1>7 DEF AgentBusy, AgentIdle, Outputs
  <2>2. \E field \in {"flipped", "printed"} : Changed(p, field) BY <1>7 DEF AgentBusy, AgentIdle, Outputs
  <2>3. att[q].gone => att'[q].gone BY <2>2, ChangedKeeps
  <2>4. keyedIdle'[q] => keyedIdle[q] BY <1>7 DEF AgentBusy, AgentIdle, Outputs
  <2> QED BY <1>1, <2>1, <2>3, <2>4
<1>8. ASSUME NEW p \in Panes, SessionEnds(p) PROVE Unmixed(q)'
  <2>1. UNCHANGED <<pc, keyedLine, keyedIdle, keyedLate>> BY <1>8 DEF SessionEnds
  <2>2. att[q].gone => att'[q].gone BY <1>8, ChangedKeeps DEF SessionEnds
  <2> QED BY <1>1, <2>1, <2>2
<1>9. ASSUME NEW p \in Panes, SessionStarts(p) PROVE Unmixed(q)'
  <2>1. UNCHANGED <<pc, att, keyedLate>> BY <1>9 DEF SessionStarts
  <2>2. q # p => keyedLine'[q] = keyedLine[q] /\ keyedIdle'[q] = keyedIdle[q] BY <1>9 DEF SessionStarts
  <2>3. q = p /\ pc[q] = "enter" => ~keyedLine'[q] /\ ~keyedIdle'[q] BY <1>9 DEF SessionStarts
  <2> QED BY <2>1, <2>2, <2>3 DEF Unmixed
<1>10. ASSUME NEW p \in Panes,
              \/ SendToPane(p) \/ SendClaim(p) \/ QuietPasses(p) \/ MinutePasses(p) \/ MailComes(p)
              \/ \E m \in 1..MaxMail : AgentReads(p, m)
       PROVE  Unmixed(q)'
  BY <1>1, <1>10 DEF SendToPane, SendText, SendEnter, SendRelease, SendConfirm, SendClaim, QuietPasses,
      MinutePasses, MailComes, AgentReads
<1>11. CASE CacheExpires \/ HourPasses \/ Stop \/ \E s \in Switches : SetSwitch(s)
  BY <1>1, <1>11 DEF CacheExpires, HourPasses, Stop, SetSwitch
<1> QED BY <1>2, <1>3, <1>4, <1>5, <1>6, <1>7, <1>8, <1>9, <1>10, <1>11 DEF Next, Consider, Time, Others

-----------------------------------------------------------------------------
(* The theorems.                                                               *)

\* The inductive invariants together, of every behaviour.
LEMMA WakeCorrect ==
    Spec => [](TypeOK /\ WakeInv /\ \A p \in Panes : Unmixed(p))
<1> DEFINE All == \A p \in Panes : ClaimInv(p) /\ DownInv(p) /\ BoxInv(p) /\ StreakInv(p) /\ Unmixed(p)
<1>1. TypeOK /\ Init => All
  <2> SUFFICES ASSUME TypeOK, Init, NEW p \in Panes
               PROVE  ClaimInv(p) /\ DownInv(p) /\ BoxInv(p) /\ StreakInv(p) /\ Unmixed(p)
    OBVIOUS
  <2>1. ClaimInv(p) BY DEF Init, ClaimInv, Firing, Sending, Early
  <2>2. DownInv(p) BY PanesAssumption DEF Init, DownInv, NoTick, NoLook
  <2>3. BoxInv(p) /\ StreakInv(p) /\ Unmixed(p)
    BY PanesAssumption DEF Init, BoxInv, StreakInv, Counted, Early, NoLook, Unmixed
  <2> QED BY <2>1, <2>2, <2>3
<1>2. TypeOK /\ HourInv /\ (TypeOK /\ HourInv)' /\ All /\ [Next]_vars => All'
  <2> SUFFICES ASSUME TypeOK, TypeOK', All, [Next]_vars, NEW p \in Panes
               PROVE  (ClaimInv(p) /\ DownInv(p) /\ BoxInv(p) /\ StreakInv(p) /\ Unmixed(p))'
    OBVIOUS
  <2>1. CASE UNCHANGED vars
    <3>1. ClaimInv(p) /\ DownInv(p) /\ BoxInv(p) /\ StreakInv(p) /\ Unmixed(p) OBVIOUS
    <3> QED BY <2>1, <3>1 DEF vars, paneVars, stateVars, tickVars, switchVars, historyVars, ClaimInv, DownInv,
            Quiet, BoxInv, StreakInv, Counted, Unmixed, Firing, Sending, Early
  <2>2. CASE Next BY <2>2, ClaimSteps, DownSteps, BoxSteps, StreakSteps, UnmixedSteps
  <2> QED BY <2>1, <2>2
<1>3. HourInv /\ All => WakeInv /\ \A p \in Panes : Unmixed(p) BY DEF WakeInv
<1> HIDE DEF All
<1> QED BY <1>1, <1>2, <1>3, PlacesCorrect, PTL DEF Spec

\* Between a line and its Enter no send of Flockdeck's own is written to the pane,
\* nor the other way round, and no line is typed onto one that was left in the box.
THEOREM AloneCorrect == Spec => []LineIsAlone
<1>1. TypeOK /\ WakeInv => LineIsAlone
  BY DEF WakeInv, ClaimInv, BoxInv, LineIsAlone, Firing, Sending, Early, TypeOK, LineType
<1> QED BY <1>1, WakeCorrect, PTL

\* No Enter of the service's own submits what the person typed before its last look.
THEOREM SubmittedCorrect == Spec => []NobodyIsSubmitted
<1>1. (\A p \in Panes : Unmixed(p)) => NobodyIsSubmitted BY DEF Unmixed, NobodyIsSubmitted
<1> QED BY <1>1, WakeCorrect, PTL

\* The project's hour holds every line typed in it, and an agent that does not read
\* is left alone after StreakMax lines, and one more.
THEOREM LimitsCorrect == Spec => []LimitsAreKept
<1>1. TypeOK /\ WakeInv => HourIsKept
  <2> SUFFICES ASSUME TypeOK, HourInv PROVE typedInHour <= ProjectHour
    BY DEF WakeInv, HourIsKept
  <2> DEFINE E == {p \in Panes : Early(p)}
  <2>1. IsFiniteSet(E) /\ slots >= typedInHour + Cardinality(E) BY DEF HourInv
  <2>2. Cardinality(E) \in Nat BY <2>1, FS_CardinalityType
  <2>3. slots \in Nat /\ slots <= ProjectHour /\ typedInHour \in Nat
    BY Numbers DEF TypeOK, StateType, HistoryType
  <2> HIDE DEF E
  <2> QED BY <2>1, <2>2, <2>3, Numbers
<1>2. TypeOK /\ WakeInv => StreakIsKept
  <2> SUFFICES ASSUME TypeOK, NEW p \in Panes, StreakInv(p) PROVE unanswered[p] <= StreakMax + 1
    BY DEF WakeInv, StreakIsKept
  <2>1. unanswered[p] \in Nat /\ streak[p] \in 0..StreakMax BY DEF TypeOK, StateType, HistoryType
  <2> QED BY <2>1, Numbers DEF StreakInv, Counted
<1> QED BY <1>1, <1>2, WakeCorrect, PTL DEF LimitsAreKept

=============================================================================
