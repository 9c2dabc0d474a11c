------------------------- MODULE RemoteTunnelProofs -------------------------
(* What is proved of RemoteTunnel, for any users, connectors, hosts and bounds. *)
EXTENDS RemoteTunnel, TLAPS

\* The bounds are numbers, and there is a connector and a host.
LEMMA Numbers ==
    /\ MaxTunnels \in Nat /\ MaxHosts \in Nat /\ MaxCalls \in Nat /\ MaxTroubles \in Nat
    /\ MaxTunnels >= 1 /\ MaxHosts >= 1 /\ MaxCalls >= 1
    /\ 0 \in 0..MaxTunnels /\ 0 \in 0..MaxHosts /\ 1 \in 0..MaxHosts
BY RemoteAssumption

\* What is there at first has its type.
LEMMA FirstTypes ==
    /\ NoFile \in Config /\ On(1) \in Config /\ Off(1) \in Config
    /\ Idle \in CallType /\ NoTunnel \in TunnelType
BY Numbers DEF NoFile, On, Off, Idle, NoTunnel, Config, CallType, CallPcs, TunnelType, Trying

-----------------------------------------------------------------------------
(* The connectors, and what is outside. *)

\* A step of the connectors, of the relay or of the network.
Outsides ==
    \/ \E c \in Tunnels : Accepts(c) \/ Runs(c) \/ TunnelSuffers(c)
    \/ \E h \in Hosts : RelayRefuses(h) \/ Paid(h)
    \/ Unreachable \/ Reachable

\* What such a step may do to a tunnel: it neither starts one nor tells one to
\* stop, one that is over stays so and does not look alive, and one that was told
\* not to come back is not dialled again.
MayBecome(t, to) ==
    /\ to.host = t.host /\ to.stop = t.stop
    /\ t.pc = "new" <=> to.pc = "new"
    /\ t = NoTunnel => to = NoTunnel
    /\ t.pc = "gone" => to.pc = "gone"
    /\ (t.pc = "gone" => t.status \notin Trying) => (to.pc = "gone" => to.status \notin Trying)
    /\ ToldOff(t) => ToldOff(to) \/ to.err \in {"revoked", "replaced", "stopped"}

\* A step of a connector's goroutine changes its own tunnel and no other.
LEMMA Stepped ==
    ASSUME TypeOK, NEW c \in Tunnels, NEW pc, NEW to \in TunnelType, Step(c, pc, to),
           tun[c].pc = pc => MayBecome(tun[c], to)
    PROVE  /\ tun' \in [Tunnels -> TunnelType]
           /\ \A t \in Tunnels : MayBecome(tun[t], tun'[t])
<1>1. \A t \in Tunnels : MayBecome(tun[t], tun[t]) BY DEF MayBecome
<1> QED BY <1>1 DEF Step, TypeOK

\* The session's end, whatever ended it.
LEMMA EndedType ==
    ASSUME NEW t \in TunnelType, NEW e \in {"none", "stopped", "lost", "revoked", "replaced", "unpaid"}
    PROVE  Ended(t, e) \in TunnelType
BY DEF Ended, TunnelType

\* Every step of a connector is by the code's order.
LEMMA RunsSteps ==
    ASSUME TypeOK, NEW c \in Tunnels, Runs(c)
    PROVE  /\ UNCHANGED <<manager, outside>>
           /\ tun' \in [Tunnels -> TunnelType]
           /\ \A t \in Tunnels : MayBecome(tun[t], tun'[t])
<1> DEFINE in == tun[c]
           May(pc, to) == in.pc = pc => MayBecome(in, to)
           Errors == {"none", "stopped", "lost", "revoked", "replaced", "unpaid"}
<1>0. in.pc # "new" => in # NoTunnel BY DEF NoTunnel
<1>1. in \in TunnelType BY DEF TypeOK
<1>2. \A e \in Errors : Ended(in, e) \in TunnelType BY <1>1, EndedType
<1>3. UNCHANGED <<manager, outside>>
  BY DEF Runs, Refused, DialFails, DialStopped, Connects, ReadFails, KeepaliveCloses, ServeCloses,
      SelectStop, SelectClosed, SelectFailed, Leaves, Waits, WaitEnds, WaitStopped
<1>4. CASE Refused(c) \/ DialFails(c) \/ DialStopped(c)
  <2>1. \A e \in Errors : May("dial", Ended(in, e))
    BY <1>0, <1>1 DEF MayBecome, Ended, ToldOff, TunnelType
  <2>2. PICK e \in Errors : Step(c, "dial", Ended(in, e))
    BY <1>4 DEF Refused, DialFails, DialStopped
  <2> QED BY <1>2, <1>3, <2>1, <2>2, Stepped
<1>5. CASE Connects(c)
  <2> DEFINE to == [in EXCEPT !.pc = "serve", !.status = "connected"]
  <2>a. to \in TunnelType
    BY <1>1 DEF TunnelType, Trying
  <2>b. May("dial", to)
    BY <1>0, <1>1 DEF MayBecome, ToldOff, Trying, TunnelType
  <2> QED BY <1>3, <1>5, <2>a, <2>b, Stepped DEF Connects
<1>6. CASE ReadFails(c)
  <2> DEFINE to == [in EXCEPT !.first = in.wire]
  <2>a. to \in TunnelType
    BY <1>1, <1>6 DEF TunnelType, Trying, ReadFails
  <2>b. May("serve", to)
    BY <1>0, <1>1, <1>6 DEF MayBecome, ToldOff, Trying, TunnelType, ReadFails
  <2> QED BY <1>3, <1>6, <2>a, <2>b, Stepped DEF ReadFails
<1>7. CASE KeepaliveCloses(c) \/ ServeCloses(c)
  <2> DEFINE to == [in EXCEPT !.shut = TRUE]
  <2>a. to \in TunnelType
    BY <1>1 DEF TunnelType, Trying
  <2>b. May("serve", to)
    BY <1>0, <1>1 DEF MayBecome, ToldOff, Trying, TunnelType
  <2> QED BY <1>3, <1>7, <2>a, <2>b, Stepped DEF KeepaliveCloses, ServeCloses
<1>8. CASE SelectStop(c) \/ SelectClosed(c) \/ SelectFailed(c)
  <2>1. PICK e \in {"stopped", Why(in.first)} : Step(c, "serve", Ended(in, e))
    BY <1>8 DEF SelectStop, SelectClosed, SelectFailed, LookAgain
  <2>2. e \in Errors /\ (ToldOff(in) => e \in {"revoked", "replaced", "stopped"})
    BY <1>1, <2>1 DEF Why, ToldOff, TunnelType
  <2>3. May("serve", Ended(in, e))
    BY <1>0, <1>1, <2>2 DEF MayBecome, Ended, ToldOff, TunnelType
  <2> QED BY <1>2, <1>3, <2>1, <2>2, <2>3, Stepped
<1>9. CASE Leaves(c)
  <2> DEFINE to == [in EXCEPT !.pc = "gone", !.err = "none",
                              !.status = IF in.stop THEN "off" ELSE in.err]
  <2>a. to \in TunnelType
    BY <1>1, <1>9 DEF TunnelType, Trying, Leaves, Pointless
  <2>b. May("decide", to)
    BY <1>0, <1>1, <1>9 DEF MayBecome, ToldOff, Trying, TunnelType, Leaves, Pointless
  <2> QED BY <1>3, <1>9, <2>a, <2>b, Stepped DEF Leaves
<1>10. CASE Waits(c)
  <2>1. PICK s \in {"lapsed", "error", "connecting"} :
          Step(c, "decide", [in EXCEPT !.pc = "wait", !.err = "none", !.status = s])
    BY <1>10 DEF Waits
  <2> DEFINE to == [in EXCEPT !.pc = "wait", !.err = "none", !.status = s]
  <2>a. to \in TunnelType
    BY <1>1, <2>1 DEF TunnelType, Trying
  <2>b. May("decide", to)
    BY <1>0, <1>1, <2>1 DEF MayBecome, ToldOff, Trying, TunnelType
  <2> QED BY <1>3, <2>1, <2>a, <2>b, Stepped
<1>11. CASE WaitEnds(c)
  <2> DEFINE to == [in EXCEPT !.pc = "dial", !.status = "connecting"]
  <2>a. to \in TunnelType
    BY <1>1 DEF TunnelType, Trying
  <2>b. May("wait", to)
    BY <1>0, <1>1 DEF MayBecome, ToldOff, Trying, TunnelType
  <2> QED BY <1>3, <1>11, <2>a, <2>b, Stepped DEF WaitEnds
<1>12. CASE WaitStopped(c)
  <2> DEFINE to == [in EXCEPT !.pc = "gone", !.status = "off"]
  <2>a. to \in TunnelType
    BY <1>1 DEF TunnelType, Trying
  <2>b. May("wait", to)
    BY <1>0, <1>1 DEF MayBecome, ToldOff, Trying, TunnelType
  <2> QED BY <1>3, <1>12, <2>a, <2>b, Stepped DEF WaitStopped
<1> QED BY <1>4, <1>5, <1>6, <1>7, <1>8, <1>9, <1>10, <1>11, <1>12 DEF Runs

\* Nothing outside the manager changes the manager, and it changes tunnels only so.
LEMMA OutsideSteps ==
    ASSUME TypeOK, Outsides
    PROVE  /\ UNCHANGED manager
           /\ TypeOK'
           /\ \A t \in Tunnels : MayBecome(tun[t], tun'[t])
           /\ \A h \in Hosts : slot'[h] # slot[h] =>
                 slot'[h] \in Tunnels /\ tun[slot'[h]].pc = "dial"
<1> DEFINE Goes1 == \A t \in Tunnels : MayBecome(tun[t], tun'[t])
           Slots == \A h \in Hosts : slot'[h] # slot[h] =>
                      slot'[h] \in Tunnels /\ tun[slot'[h]].pc = "dial"
           Wires == {"open", "revoked", "replaced", "unpaid", "dropped", "quiet"}
           Cut(t, w) == [tun[t] EXCEPT !.wire = w]
<1>1. \A t \in Tunnels : MayBecome(tun[t], tun[t]) /\ tun[t] \in TunnelType
  BY DEF TypeOK, MayBecome
<1>2. \A t \in Tunnels, w \in Wires :
         /\ Cut(t, w) \in TunnelType
         /\ tun[t].wire = "open" \/ tun[t].pc = "dial" => MayBecome(tun[t], Cut(t, w))
  <2>0. \A t \in Tunnels : tun[t].wire = "open" \/ tun[t].pc = "dial" => tun[t] # NoTunnel
    BY DEF NoTunnel
  <2>1. \A t \in Tunnels, w \in Wires : Cut(t, w) \in TunnelType
    BY <1>1 DEF TunnelType
  <2>2. \A t \in Tunnels, w \in Wires :
           tun[t].wire = "open" \/ tun[t].pc = "dial" => MayBecome(tun[t], Cut(t, w))
    BY <1>1, <2>0 DEF TunnelType, MayBecome, ToldOff
  <2> QED BY <2>1, <2>2
<1>3. ASSUME \A t \in Tunnels :
                \/ tun'[t] = tun[t]
                \/ \E w \in Wires : /\ tun[t].wire = "open" \/ tun[t].pc = "dial"
                                    /\ tun'[t] = Cut(t, w),
             tun' = [t \in Tunnels |-> tun'[t]]
      PROVE  Goes1 /\ tun' \in [Tunnels -> TunnelType]
  <2> HIDE DEF Cut, Wires
  <2>1. \A t \in Tunnels : MayBecome(tun[t], tun'[t]) /\ tun'[t] \in TunnelType
    BY <1>1, <1>2, <1>3
  <2>2. [t \in Tunnels |-> tun'[t]] \in [Tunnels -> TunnelType] BY <2>1
  <2> QED BY <1>3, <2>1, <2>2
<1>4. ASSUME UNCHANGED manager, OutsideType', tun' \in [Tunnels -> TunnelType] PROVE TypeOK'
  BY <1>4 DEF TypeOK, ManagerType, manager
<1>5. troubles > 0 => troubles - 1 \in 0..MaxTroubles
  BY Numbers DEF TypeOK, OutsideType
<1> HIDE DEF Goes1, Slots
<1>6. ASSUME NEW c \in Tunnels, Runs(c)
      PROVE  UNCHANGED manager /\ TypeOK' /\ Goes1 /\ Slots
  <2>1. OutsideType' BY <1>6, RunsSteps DEF TypeOK, OutsideType, outside
  <2> QED BY <1>4, <1>6, <2>1, RunsSteps DEF outside, Goes1, Slots
<1>7. ASSUME NEW c \in Tunnels, Accepts(c)
      PROVE  UNCHANGED manager /\ TypeOK' /\ Goes1 /\ Slots
  <2> DEFINE h == tun[c].host
  <2>0. UNCHANGED manager BY <1>7 DEF Accepts
  <2>4. tun' = [t \in Tunnels |-> CASE t = c -> Cut(c, "open")
                                    [] t # c /\ t = slot[h] /\ tun[t].wire = "open"
                                         -> Cut(t, "replaced")
                                    [] OTHER -> tun[t]]
    BY <1>7 DEF Accepts
  <2>5. /\ tun' = [t \in Tunnels |-> tun'[t]]
        /\ \A t \in Tunnels : \/ tun'[t] = tun[t]
                              \/ t = c /\ tun'[t] = Cut(t, "open")
                              \/ tun[t].wire = "open" /\ tun'[t] = Cut(t, "replaced")
    <3> HIDE DEF Cut
    <3> QED BY <2>4
  <2>6. tun[c].pc = "dial" BY <1>7 DEF Accepts
  <2>1. Goes1 /\ tun' \in [Tunnels -> TunnelType]
    <3> HIDE DEF Cut
    <3> QED BY <1>3, <2>5, <2>6
  <2>7. c \in 0..MaxTunnels /\ slot \in [Hosts -> 0..MaxTunnels] /\ slot' = [slot EXCEPT ![h] = c]
    BY <1>7, Numbers DEF Accepts, TypeOK, OutsideType, Tunnels
  <2>2. slot' \in [Hosts -> 0..MaxTunnels] /\ Slots
    BY <2>6, <2>7 DEF Slots
  <2>3. OutsideType' BY <1>7, <2>2 DEF Accepts, TypeOK, OutsideType
  <2> QED BY <1>4, <2>0, <2>1, <2>2, <2>3
<1>8. ASSUME NEW c \in Tunnels, TunnelSuffers(c)
      PROVE  UNCHANGED manager /\ TypeOK' /\ Goes1 /\ Slots
  <2>0. UNCHANGED manager /\ Slots BY <1>8 DEF TunnelSuffers, Trouble, Slots
  <2>1. Goes1 /\ tun' \in [Tunnels -> TunnelType]
    BY <1>3, <1>8 DEF TunnelSuffers, TypeOK
  <2>2. OutsideType' BY <1>5, <1>8 DEF TunnelSuffers, Trouble, TypeOK, OutsideType
  <2> QED BY <1>4, <2>0, <2>1, <2>2 DEF manager
<1>9. ASSUME NEW h \in Hosts, RelayRefuses(h)
      PROVE  UNCHANGED manager /\ TypeOK' /\ Goes1 /\ Slots
  <2>0. UNCHANGED manager /\ Slots BY <1>9 DEF RelayRefuses, Trouble, Slots
  <2>1. PICK why \in {"revoked", "unpaid"} :
          /\ relay' = [relay EXCEPT ![h] = why]
          /\ tun' = [c \in Tunnels |-> IF c = slot[h] /\ tun[c].wire = "open"
                                         THEN [tun[c] EXCEPT !.wire = why] ELSE tun[c]]
    BY <1>9 DEF RelayRefuses
  <2>2. Goes1 /\ tun' \in [Tunnels -> TunnelType] BY <1>3, <2>1
  <2>3. OutsideType' BY <1>5, <1>9, <2>1 DEF RelayRefuses, Trouble, TypeOK, OutsideType
  <2> QED BY <1>4, <2>0, <2>2, <2>3
<1>10. CASE (\E h \in Hosts : Paid(h)) \/ Unreachable \/ Reachable
  <2>0. UNCHANGED manager /\ UNCHANGED tun /\ Slots
    BY <1>10 DEF Paid, Unreachable, Reachable, Trouble, Slots
  <2>1. Goes1 /\ tun' \in [Tunnels -> TunnelType] BY <1>1, <2>0 DEF Goes1, TypeOK
  <2>2. OutsideType'
    BY <1>5, <1>10 DEF Paid, Unreachable, Reachable, Trouble, TypeOK, OutsideType
  <2> QED BY <1>4, <2>0, <2>1, <2>2 DEF Goes1, Slots
<1> QED BY <1>6, <1>7, <1>8, <1>9, <1>10 DEF Outsides, Goes1, Slots

-----------------------------------------------------------------------------
(* The manager's calls. *)

\* A call keeps its type when its old connector is set.
LEMMA OldType ==
    ASSUME NEW x \in CallType, NEW c \in 0..MaxTunnels
    PROVE  [x EXCEPT !.old = c] \in CallType
BY DEF CallType

\* And a tunnel, when it is told to stop or starts.
LEMMA ToldTypes ==
    ASSUME NEW t \in TunnelType
    PROVE  /\ [t EXCEPT !.stop = TRUE] \in TunnelType
           /\ [t EXCEPT !.pc = "dial", !.status = "connecting"] \in TunnelType
<1>1. [t EXCEPT !.stop = TRUE] \in TunnelType BY DEF TunnelType
<1>2. [t EXCEPT !.pc = "dial", !.status = "connecting"] \in TunnelType BY DEF TunnelType, Trying
<1> QED BY <1>1, <1>2

\* The steps of the calls keep every variable's type.
LEMMA CallTypes ==
    ASSUME TypeOK, NEW u \in Users, Asks(u) \/ Goes(u)
    PROVE  TypeOK'
<1> DEFINE me == user[u]
<1>1. /\ me \in CallType /\ me.cfg \in Config /\ me.old \in 0..MaxTunnels
      /\ me.next \in 0..MaxTunnels
  BY DEF TypeOK, ManagerType, CallType
<1>2. \A pc \in CallPcs : At(u, pc) \in CallType /\ [Idle EXCEPT !.pc = pc] \in CallType
  BY <1>1, FirstTypes DEF At, CallType
<1>3. calls < MaxCalls => calls + 1 \in 0..MaxCalls
  BY Numbers DEF TypeOK, ManagerType
<1>4. ASSUME NEW to \in CallType, user' = [user EXCEPT ![u] = to]
      PROVE  user' \in [Users -> CallType]
  BY <1>4 DEF TypeOK, ManagerType
<1>5. \A t \in Tunnels :
         /\ [tun[t] EXCEPT !.stop = TRUE] \in TunnelType
         /\ [tun[t] EXCEPT !.pc = "dial", !.status = "connecting"] \in TunnelType
  <2>1. \A t \in Tunnels : tun[t] \in TunnelType BY DEF TypeOK
  <2> QED BY <2>1, ToldTypes
<1>6. ASSUME NEW pc \in CallPcs, Begins(u, pc)
      PROVE  user' \in [Users -> CallType] /\ calls' \in 0..MaxCalls /\ OutsideType'
  <2>1. user' \in [Users -> CallType] BY <1>2, <1>4, <1>6 DEF Begins, Call
  <2>2. calls' \in 0..MaxCalls BY <1>3, <1>6 DEF Begins
  <2>3. OutsideType' BY <1>6 DEF Begins, Call, TypeOK, OutsideType, outside
  <2> QED BY <2>1, <2>2, <2>3
<1>7. ASSUME NEW pc, NEW to \in CallType, Call(u, pc, to)
      PROVE  user' \in [Users -> CallType] /\ OutsideType'
  BY <1>4, <1>7 DEF Call, TypeOK, OutsideType, outside
<1>8. CASE FileChanges(u)
  <2>1. Enrolments \subseteq Config
    <3>1. file.host \in 0..MaxHosts BY DEF TypeOK, ManagerType, Config
    <3>2. \A h \in 0..MaxHosts : On(h) \in Config /\ Off(h) \in Config BY DEF On, Off, Config
    <3>3. Hosts \subseteq 0..MaxHosts BY Numbers DEF Hosts
    <3> QED BY <3>1, <3>2, <3>3, FirstTypes DEF Enrolments
  <2> QED BY <1>6, <1>8, <2>1 DEF FileChanges, CallPcs, TypeOK, ManagerType
<1>9. CASE ReloadAsked(u)
  BY <1>6, <1>9 DEF ReloadAsked, CallPcs, TypeOK, ManagerType
<1>10. CASE ReloadLocks(u)
  <2>1. [At(u, "look") EXCEPT !.cfg = file] \in CallType
    BY <1>2 DEF CallPcs, CallType, TypeOK, ManagerType
  <2>2. user' \in [Users -> CallType] /\ OutsideType'
    BY <1>2, <1>7, <1>10, <2>1 DEF ReloadLocks, CallPcs
  <2> QED BY <1>10, <2>2 DEF ReloadLocks, Lock, TypeOK, ManagerType
<1>11. CASE ReloadKeeps(u)
  BY <1>2, <1>7, <1>11 DEF ReloadKeeps, CallPcs, TypeOK, ManagerType
<1>12. CASE ReloadReplaces(u)
  <2>1. PICK next \in 0..MaxTunnels :
          /\ Call(u, "look", [At(u, "start") EXCEPT !.old = conn, !.next = next])
          /\ cfg' = me.cfg /\ conn' = next
          /\ made' = IF next = 0 THEN made ELSE next
          /\ tun' = IF next = 0 THEN tun ELSE [tun EXCEPT ![next].host = me.cfg.host]
          /\ UNCHANGED <<file, closed, reloading, enrolling, unread, calls>>
    <3>1. made < MaxTunnels => made + 1 \in 0..MaxTunnels
      BY Numbers DEF TypeOK, ManagerType
    <3> QED BY <1>12, <3>1, Numbers DEF ReloadReplaces
  <2>2. [At(u, "start") EXCEPT !.old = conn, !.next = next] \in CallType
    <3>1. At(u, "start") \in CallType /\ conn \in 0..MaxTunnels
      BY <1>2 DEF CallPcs, TypeOK, ManagerType
    <3> QED BY <3>1, <2>1 DEF CallType
  <2>3. user' \in [Users -> CallType] /\ OutsideType' BY <1>7, <2>1, <2>2
  <2>4. tun' \in [Tunnels -> TunnelType]
    <3>1. me.cfg.host \in 0..MaxHosts BY <1>1 DEF Config
    <3>2. \A t \in Tunnels : [tun[t] EXCEPT !.host = me.cfg.host] \in TunnelType
      BY <3>1 DEF TypeOK, TunnelType
    <3> QED BY <2>1, <3>2 DEF TypeOK
  <2> QED BY <1>1, <2>1, <2>3, <2>4 DEF TypeOK, ManagerType
<1>13. CASE ReloadStarts(u)
  <2>1. tun' \in [Tunnels -> TunnelType]
    <3>1. tun' = tun \/ tun' = [tun EXCEPT ![me.next] =
                                 [tun[me.next] EXCEPT !.pc = "dial", !.status = "connecting"]]
      BY <1>13 DEF ReloadStarts, TypeOK
    <3>2. me.next \notin Tunnels => tun' = tun BY <1>13, <3>1 DEF TypeOK
    <3> QED BY <1>5, <3>1, <3>2 DEF TypeOK
  <2> QED BY <1>2, <1>7, <1>13, <2>1 DEF ReloadStarts, CallPcs, TypeOK, ManagerType
<1>14. CASE Stops(u)
  <2>1. tun' \in [Tunnels -> TunnelType]
    BY <1>5, <1>14 DEF Stops, TypeOK
  <2> QED BY <1>2, <1>7, <1>14, <2>1 DEF Stops, CallPcs, TypeOK, ManagerType
<1>15. CASE Stopped(u)
  BY <1>2, <1>7, <1>15 DEF Stopped, CallPcs, TypeOK, ManagerType
<1>16. CASE Unlocks(u)
  BY <1>7, <1>16, FirstTypes DEF Unlocks, TypeOK, ManagerType
<1>17. CASE RemoveLocks(u)
  BY <1>6, <1>17 DEF RemoveLocks, Lock, CallPcs, TypeOK, ManagerType
<1>18. CASE RemoveStops(u)
  <2>1. tun' \in [Tunnels -> TunnelType]
    BY <1>5, <1>18 DEF RemoveStops, TypeOK
  <2>2. [At(u, "asked") EXCEPT !.old = conn] \in CallType
    <3>1. At(u, "asked") \in CallType BY <1>2 DEF CallPcs
    <3>2. conn \in 0..MaxTunnels BY DEF TypeOK, ManagerType
    <3> QED BY ONLY <3>1, <3>2, OldType
  <2> QED BY <1>7, <1>18, <2>1, <2>2 DEF RemoveStops, TypeOK, ManagerType
<1>19. CASE RemoveStopped(u)
  BY <1>2, <1>7, <1>19 DEF RemoveStopped, CallPcs, TypeOK, ManagerType
<1>20. CASE Removes(u)
  BY <1>2, <1>4, <1>20, FirstTypes DEF Removes, CallPcs, TypeOK, ManagerType, OutsideType
<1>21. CASE Closes(u)
  BY <1>6, <1>21 DEF Closes, Lock, CallPcs, TypeOK, ManagerType
<1>22. CASE CloseForgets(u)
  <2>1. [At(u, "stop") EXCEPT !.old = conn] \in CallType
    <3>1. At(u, "stop") \in CallType BY <1>2 DEF CallPcs
    <3>2. conn \in 0..MaxTunnels BY DEF TypeOK, ManagerType
    <3> QED BY ONLY <3>1, <3>2, OldType
  <2> QED BY <1>7, <1>22, <2>1, Numbers DEF CloseForgets, TypeOK, ManagerType
<1> QED BY <1>8, <1>9, <1>10, <1>11, <1>12, <1>13, <1>14, <1>15, <1>16, <1>17, <1>18, <1>19,
           <1>20, <1>21, <1>22 DEF Asks, Goes

\* Every variable of the connectors and the manager keeps its type.
THEOREM TypeCorrect == Spec => []TypeOK
<1>1. Init => TypeOK
  <2> SUFFICES ASSUME Init PROVE TypeOK
    OBVIOUS
  <2>1. user \in [Users -> CallType] /\ tun \in [Tunnels -> TunnelType] BY FirstTypes DEF Init
  <2>4. file \in Config /\ cfg \in Config BY FirstTypes DEF Init
  <2>5. conn \in 0..MaxTunnels /\ made \in 0..MaxTunnels /\ calls \in 0..MaxCalls
    BY Numbers DEF Init
  <2>2. ManagerType BY <2>1, <2>4, <2>5 DEF Init, ManagerType
  <2>3. OutsideType BY Numbers DEF Init, OutsideType
  <2> QED BY <2>1, <2>2, <2>3 DEF TypeOK
<1>2. TypeOK /\ [Next]_vars => TypeOK'
  <2> SUFFICES ASSUME TypeOK, [Next]_vars PROVE TypeOK'
    OBVIOUS
  <2>1. CASE Outsides BY <2>1, OutsideSteps
  <2>2. CASE \E u \in Users : Asks(u) \/ Goes(u) BY <2>2, CallTypes
  <2>3. CASE UNCHANGED vars
    BY <2>3 DEF vars, TypeOK, ManagerType, OutsideType
  <2> QED BY <2>1, <2>2, <2>3 DEF Next, Outsides
<1> QED BY <1>1, <1>2, PTL DEF Spec

-----------------------------------------------------------------------------
(* The lock, and the connectors that a call holds. *)

\* What a call's step makes of the call.
LEMMA CallTo ==
    ASSUME TypeOK, NEW u \in Users, NEW pc, NEW to, Call(u, pc, to)
    PROVE  /\ user[u].pc = pc /\ user'[u] = to /\ UNCHANGED outside
           /\ \A v \in Users \ {u} : user'[v] = user[v]
BY DEF Call, TypeOK, ManagerType

\* What a call holds that only moves on, or begins.
LEMMA AtIs ==
    ASSUME TypeOK, NEW u \in Users, NEW pc
    PROVE  /\ At(u, pc).pc = pc /\ At(u, pc).old = user[u].old
           /\ At(u, pc).next = user[u].next /\ At(u, pc).cfg = user[u].cfg
           /\ [Idle EXCEPT !.pc = pc].pc = pc /\ [Idle EXCEPT !.pc = pc].old = 0
           /\ [Idle EXCEPT !.pc = pc].next = 0
BY DEF At, Idle, TypeOK, ManagerType, CallType

\* A call's step is its own, and while another holds the lock it leaves the tunnels alone.
LEMMA CallSteps ==
    ASSUME TypeOK, NEW u \in Users, Asks(u) \/ Goes(u)
    PROVE  /\ \A v \in Users \ {u} : user'[v] = user[v]
           /\ \/ /\ user[u].pc \notin Locked /\ user'[u].pc \notin Locked /\ reloading' = reloading
                 /\ UNCHANGED <<conn, cfg, closed, tun, made>>
              \/ user[u].pc \in Locked /\ user'[u].pc \in Locked /\ reloading' = reloading
              \/ reloading = NoUser /\ reloading' = u /\ user'[u].pc \in Locked
              \/ user[u].pc \in Locked /\ user'[u].pc \notin Locked /\ reloading' = NoUser
<1>1. user \in [Users -> CallType] /\ user[u] \in CallType BY DEF TypeOK, ManagerType
<1>2. ASSUME NEW pc, NEW to, Call(u, pc, to)
      PROVE  user[u].pc = pc /\ user'[u] = to /\ \A v \in Users \ {u} : user'[v] = user[v]
  BY <1>2, CallTo
<1>3. \A pc \in CallPcs : At(u, pc).pc = pc /\ [Idle EXCEPT !.pc = pc].pc = pc
  BY AtIs
<1> DEFINE Others == \A v \in Users \ {u} : user'[v] = user[v]
<1>4. CASE FileChanges(u) \/ ReloadAsked(u)
  <2>1. Call(u, "idle", [Idle EXCEPT !.pc = "reload"]) BY <1>4 DEF FileChanges, ReloadAsked, Begins
  <2>2. Others /\ user[u].pc = "idle" /\ user'[u] = [Idle EXCEPT !.pc = "reload"] BY <1>2, <2>1
  <2>3. user'[u].pc = "reload" BY <2>2 DEF Idle
  <2> QED BY <1>4, <2>2, <2>3 DEF FileChanges, ReloadAsked, Locked
<1>5. CASE RemoveLocks(u) \/ Closes(u)
  <2>1. PICK pc \in {"asking", "closing"} : Call(u, "idle", [Idle EXCEPT !.pc = pc])
    BY <1>5 DEF RemoveLocks, Closes, Begins
  <2>2. Others /\ user'[u] = [Idle EXCEPT !.pc = pc] BY <1>2, <2>1
  <2>3. user'[u].pc = pc BY <2>2 DEF Idle
  <2> QED BY <1>5, <2>1, <2>2, <2>3 DEF RemoveLocks, Closes, Lock, Locked
<1>6. CASE ReloadLocks(u)
  <2>1. [At(u, "look") EXCEPT !.cfg = file].pc = "look" BY <1>1 DEF At, CallType
  <2>2. PICK to \in {[At(u, "look") EXCEPT !.cfg = file], At(u, "unlock")} : Call(u, "reload", to)
    BY <1>6 DEF ReloadLocks
  <2>3. Others /\ user'[u] = to BY <1>2, <2>2
  <2>4. to.pc \in Locked BY <1>3, <2>1, <2>2 DEF Locked, CallPcs
  <2> QED BY <1>6, <2>3, <2>4 DEF ReloadLocks, Lock
<1>7. CASE ReloadReplaces(u) \/ RemoveStops(u) \/ CloseForgets(u)
  <2>1. \A o, n : [At(u, "start") EXCEPT !.old = o, !.next = n].pc = "start"
    BY <1>1 DEF At, CallType
  <2>2. \A o : /\ [At(u, "asked") EXCEPT !.old = o].pc = "asked"
               /\ [At(u, "stop") EXCEPT !.old = o].pc = "stop"
    BY <1>1 DEF At, CallType
  <2>3. /\ Others
        /\ user[u].pc \in {"look", "asking", "closing"}
        /\ user'[u].pc \in {"start", "asked", "stop"}
    <3>1. CASE ReloadReplaces(u)
      <4>1. PICK n : Call(u, "look", [At(u, "start") EXCEPT !.old = conn, !.next = n])
        BY <3>1 DEF ReloadReplaces
      <4>2. Others /\ user[u].pc = "look" /\ user'[u] = [At(u, "start") EXCEPT !.old = conn, !.next = n]
        BY <1>2, <4>1
      <4> QED BY <2>1, <4>2
    <3>2. CASE RemoveStops(u) \/ CloseForgets(u)
      <4>1. \/ Call(u, "asking", [At(u, "asked") EXCEPT !.old = conn])
            \/ Call(u, "closing", [At(u, "stop") EXCEPT !.old = conn])
        BY <3>2 DEF RemoveStops, CloseForgets
      <4>2. /\ Others /\ user[u].pc \in {"asking", "closing"}
            /\ user'[u] \in {[At(u, "asked") EXCEPT !.old = conn], [At(u, "stop") EXCEPT !.old = conn]}
        BY <1>2, <4>1
      <4> QED BY <2>2, <4>2
    <3> QED BY <1>7, <3>1, <3>2
  <2> QED BY <1>7, <2>3 DEF ReloadReplaces, RemoveStops, CloseForgets, Locked
<1>8. CASE ReloadKeeps(u) \/ ReloadStarts(u) \/ Stops(u) \/ Stopped(u)
  <2>1. PICK pc \in Locked, to \in Locked : Call(u, pc, At(u, to))
    BY <1>8 DEF ReloadKeeps, ReloadStarts, Stops, Stopped, Locked
  <2>2. Others /\ user[u].pc = pc /\ user'[u] = At(u, to) BY <1>2, <2>1
  <2>3. At(u, to).pc = to BY <1>3, <2>1 DEF Locked, CallPcs
  <2> QED BY <1>8, <2>1, <2>2, <2>3 DEF ReloadKeeps, ReloadStarts, Stops, Stopped
<1>9. CASE Unlocks(u) \/ RemoveStopped(u)
  <2>1. PICK to \in {Idle, At(u, "remove")} : Call(u, "unlock", to) \/ Call(u, "asked", to)
    BY <1>9 DEF Unlocks, RemoveStopped
  <2>2. Others /\ user'[u] = to /\ user[u].pc \in {"unlock", "asked"} BY <1>2, <2>1
  <2>3. to.pc \in {"idle", "remove"} BY <1>3, <2>1 DEF Idle, CallPcs
  <2> QED BY <1>9, <2>2, <2>3 DEF Unlocks, RemoveStopped, Locked
<1>10. CASE Removes(u)
  <2>1. Others /\ user'[u].pc = "reload" BY <1>1, <1>3, <1>10 DEF Removes, CallPcs
  <2> QED BY <1>10, <2>1 DEF Removes, Locked
<1> QED BY <1>4, <1>5, <1>6, <1>7, <1>8, <1>9, <1>10 DEF Asks, Goes

\* Who holds the lock, and what the calls hold.
HeldInv == LockInv /\ MadeInv /\ CallInv /\ ClosedInv

\* A call that holds the lock is the only one to change the manager's tunnel, and
\* names connectors that are made.
LEMMA HeldCorrect == Spec => []HeldInv
<1>1. Init => HeldInv
  BY Numbers DEF Init, HeldInv, LockInv, MadeInv, CallInv, Holds, ClosedInv, Idle, Locked, Tunnels, Hosts
<1>2. TypeOK /\ HeldInv /\ [Next]_vars => HeldInv'
  <2> SUFFICES ASSUME TypeOK, HeldInv, [Next]_vars PROVE HeldInv'
    OBVIOUS
  <2> USE DEF HeldInv
  <2>1. CASE Outsides
    <3>1. /\ UNCHANGED manager
          /\ \A t \in Tunnels : MayBecome(tun[t], tun'[t])
          /\ \A h \in Hosts : slot'[h] # slot[h] =>
                slot'[h] \in Tunnels /\ tun[slot'[h]].pc = "dial"
      BY <2>1, OutsideSteps
    <3>2. LockInv' /\ ClosedInv' BY <3>1 DEF manager, LockInv, ClosedInv
    <3>3. MadeInv'
      <4>1. \A c \in Tunnels : c > made => tun[c] = NoTunnel /\ tun[c].pc # "dial"
        BY DEF MadeInv, NoTunnel
      <4>2. \A h \in Hosts : slot'[h] <= made
        BY <3>1, <4>1 DEF MadeInv, Tunnels, TypeOK, ManagerType
      <4> QED BY <3>1, <4>1, <4>2 DEF manager, MadeInv, MayBecome
    <3>4. CallInv'
      <4>1. conn # 0 => conn \in Tunnels BY DEF TypeOK, ManagerType, Tunnels
      <4>2. \A t : t # 0 /\ t \in 0..MaxTunnels => t \in Tunnels BY Numbers DEF Tunnels
      <4>3. \A u \in Users : user[u].old \in 0..MaxTunnels
        BY DEF TypeOK, ManagerType, CallType
      <4>4. \A u \in Users : Gone(user[u].old) => Gone(user[u].old)'
        BY <3>1, <4>2, <4>3 DEF manager, Gone, MayBecome
      <4> QED BY <3>1, <4>1, <4>4 DEF manager, CallInv, Holds, MayBecome
    <3> QED BY <3>2, <3>3, <3>4
  <2>2. ASSUME NEW u \in Users, Asks(u) \/ Goes(u) PROVE HeldInv'
    <3>1. /\ \A v \in Users \ {u} : user'[v] = user[v]
          /\ \/ /\ user[u].pc \notin Locked /\ user'[u].pc \notin Locked /\ reloading' = reloading
                /\ UNCHANGED <<conn, cfg, closed, tun, made>>
             \/ user[u].pc \in Locked /\ user'[u].pc \in Locked /\ reloading' = reloading
             \/ reloading = NoUser /\ reloading' = u /\ user'[u].pc \in Locked
             \/ user[u].pc \in Locked /\ user'[u].pc \notin Locked /\ reloading' = NoUser
      BY <2>2, CallSteps
    <3>2. LockInv'
      BY <3>1, RemoteAssumption DEF LockInv, TypeOK, ManagerType
    <3>3. \A v \in Users \ {u} : user[v].pc \in Locked => UNCHANGED <<conn, closed, tun>>
      BY <3>1, RemoteAssumption DEF LockInv
    <3>4. ASSUME Holds(u)' PROVE CallInv'
      <4>1. \A v \in Users \ {u} : Holds(v)'
        BY <3>1, <3>3 DEF CallInv, Holds, Gone, Locked
      <4> QED BY <3>4, <4>1 DEF CallInv
    <3>5. ASSUME made' >= made, conn' <= made', user'[u].old <= made', user'[u].next <= made',
                 slot' = slot, \A c \in Tunnels : c > made' => tun'[c] = NoTunnel
          PROVE  MadeInv'
      <4>1. \A v \in Users : user[v].old \in 0..MaxTunnels /\ user[v].next \in 0..MaxTunnels
        BY DEF TypeOK, ManagerType, CallType
      <4>2. \A h \in Hosts : slot[h] \in 0..MaxTunnels BY DEF TypeOK, OutsideType
      <4>3. made \in Nat /\ made' \in Nat BY <2>2, CallTypes, Numbers DEF TypeOK, ManagerType
      <4> QED BY <3>1, <3>5, <4>1, <4>2, <4>3 DEF MadeInv
    <3> DEFINE me == user[u]
    <3>6. /\ me \in CallType /\ me.old <= made /\ me.next <= made
          /\ conn \in 0..MaxTunnels /\ made \in 0..MaxTunnels /\ conn <= made
          /\ \A t \in Tunnels : t > made => tun[t] = NoTunnel
          /\ Holds(u)
      BY DEF TypeOK, ManagerType, MadeInv, CallInv
    <3>7. ASSUME NEW pc, NEW to, Call(u, pc, to)
          PROVE  me.pc = pc /\ user'[u] = to /\ slot' = slot
      BY <3>7, CallTo DEF outside
    <3>8. \A pc : /\ At(u, pc).pc = pc /\ At(u, pc).old = me.old /\ At(u, pc).next = me.next
                  /\ [Idle EXCEPT !.pc = pc].pc = pc /\ [Idle EXCEPT !.pc = pc].old = 0
                  /\ [Idle EXCEPT !.pc = pc].next = 0
      BY AtIs
    <3>9. ASSUME UNCHANGED <<made, conn, tun>>, slot' = slot, user'[u].old = 0 \/ user'[u].old = me.old,
                 user'[u].next = 0 \/ user'[u].next = me.next
          PROVE  MadeInv'
      BY <3>5, <3>6, <3>9
    <3>10. ASSUME closed' = closed, conn' = conn, me.pc # "closing" PROVE ClosedInv'
      BY <3>1, <3>10, RemoteAssumption DEF ClosedInv, LockInv, TypeOK, ManagerType
    <3>11. CASE FileChanges(u) \/ ReloadAsked(u) \/ RemoveLocks(u) \/ Closes(u)
      <4>1. PICK pc \in {"reload", "asking", "closing"} :
              Call(u, "idle", [Idle EXCEPT !.pc = pc]) /\ (pc = "closing" => Closes(u))
        BY <3>11 DEF FileChanges, ReloadAsked, RemoveLocks, Closes, Begins
      <4>2. user'[u] = [Idle EXCEPT !.pc = pc] /\ slot' = slot /\ me.pc = "idle" BY <3>7, <4>1
      <4>3. user'[u].pc = pc /\ user'[u].old = 0 /\ user'[u].next = 0 BY <3>8, <4>2
      <4>4. UNCHANGED <<made, conn, tun>>
        BY <3>11 DEF FileChanges, ReloadAsked, RemoveLocks, Closes
      <4>5. MadeInv' BY <3>9, <4>2, <4>3, <4>4
      <4>6. Holds(u)' BY <4>1, <4>3 DEF Holds, Closes
      <4>7. ASSUME ~ Closes(u) PROVE ClosedInv'
        BY <3>10, <3>11, <4>2, <4>4, <4>7 DEF FileChanges, ReloadAsked, RemoveLocks
      <4>8. CASE Closes(u)
        <5>1. user'[u] = [Idle EXCEPT !.pc = "closing"] BY <3>7, <4>8 DEF Closes, Begins
        <5>2. user'[u].pc = "closing" BY <3>8, <5>1
        <5>3. ClosedInv' BY <4>8, <5>2, RemoteAssumption DEF ClosedInv, Closes, Lock
        <5> QED BY <3>2, <3>4, <4>5, <4>6, <5>3
      <4>9. CASE ~ Closes(u) BY <3>2, <3>4, <4>5, <4>6, <4>7, <4>9
      <4> QED BY <4>8, <4>9
    <3>12. CASE ReloadLocks(u)
      <4>1. PICK to \in {[At(u, "look") EXCEPT !.cfg = file], At(u, "unlock")} :
              Call(u, "reload", to)
        BY <3>12 DEF ReloadLocks
      <4>2. user'[u] = to /\ slot' = slot /\ me.pc = "reload" /\ me.old = 0
        BY <3>6, <3>7, <4>1 DEF Holds
      <4>3. [At(u, "look") EXCEPT !.cfg = file].pc = "look"
            /\ [At(u, "look") EXCEPT !.cfg = file].old = me.old
            /\ [At(u, "look") EXCEPT !.cfg = file].next = me.next
        BY <3>6 DEF At, CallType
      <4>4. user'[u].pc \in {"look", "unlock"} /\ user'[u].old = 0 /\ user'[u].next = me.next
        <5>1. CASE to = [At(u, "look") EXCEPT !.cfg = file] BY <4>2, <4>3, <5>1
        <5>2. CASE to = At(u, "unlock") BY <3>8, <4>2, <5>2
        <5> QED BY <4>1, <5>1, <5>2
      <4>5. closed => user'[u].pc = "unlock"
        <5>1. closed => Call(u, "reload", At(u, "unlock")) BY <3>12 DEF ReloadLocks, MayReload
        <5>2. closed => user'[u] = At(u, "unlock") BY <3>7, <5>1
        <5> QED BY <3>8, <5>2
      <4>6. UNCHANGED <<made, conn, tun, closed>> BY <3>12 DEF ReloadLocks
      <4>7. Holds(u)' BY <4>4, <4>5, <4>6 DEF Holds, Gone
      <4>8. MadeInv' /\ ClosedInv' BY <3>9, <3>10, <4>2, <4>4, <4>6
      <4> QED BY <3>2, <3>4, <4>7, <4>8
    <3>13. CASE ReloadKeeps(u)
      <4>1. user'[u] = At(u, "unlock") /\ slot' = slot /\ me.pc = "look" /\ me.old = 0
        BY <3>6, <3>7, <3>13 DEF Holds, ReloadKeeps
      <4>2. user'[u].pc = "unlock" /\ user'[u].old = 0 /\ user'[u].next = me.next BY <3>8, <4>1
      <4>3. UNCHANGED <<made, conn, tun, closed>> BY <3>13 DEF ReloadKeeps
      <4>4. Holds(u)' BY <4>2 DEF Holds, Gone
      <4>5. MadeInv' /\ ClosedInv' BY <3>9, <3>10, <4>1, <4>2, <4>3
      <4> QED BY <3>2, <3>4, <4>4, <4>5
    <3>14. CASE ReloadReplaces(u)
      <4>1. PICK next : /\ next = IF Wanted(me.cfg) THEN made + 1 ELSE 0
                        /\ Wanted(me.cfg) => made < MaxTunnels
                        /\ Call(u, "look", [At(u, "start") EXCEPT !.old = conn, !.next = next])
                        /\ conn' = next /\ made' = IF next = 0 THEN made ELSE next
                        /\ tun' = IF next = 0 THEN tun ELSE [tun EXCEPT ![next].host = me.cfg.host]
                        /\ closed' = closed
        BY <3>14 DEF ReloadReplaces
      <4>2. user'[u] = [At(u, "start") EXCEPT !.old = conn, !.next = next] /\ slot' = slot /\ me.pc = "look"
        BY <3>7, <4>1
      <4>3. user'[u].pc = "start" /\ user'[u].old = conn /\ user'[u].next = next
        BY <3>6, <4>2 DEF At, CallType
      <4>4. /\ next \in 0..MaxTunnels
            /\ next # 0 => next \in Tunnels /\ next = made + 1
            /\ made' >= made /\ made' \in Nat
        BY <3>6, <4>1, Numbers DEF Tunnels
      <4>5. next # 0 => tun[next] = NoTunnel /\ tun'[next].pc = "new"
        <5>1. next # 0 => tun[next] = NoTunnel BY <3>6, <4>4, Numbers
        <5>2. next # 0 => tun'[next].pc = tun[next].pc BY <4>1, <4>4 DEF TypeOK, TunnelType
        <5> QED BY <5>1, <5>2 DEF NoTunnel
      <4>6. \A t \in Tunnels : t # next => tun'[t] = tun[t] BY <4>1, <4>4 DEF TypeOK
      <4>7. \A t \in Tunnels : t > made' => tun'[t] = NoTunnel
        BY <3>6, <4>1, <4>4, <4>6, Numbers DEF Tunnels
      <4>8. MadeInv' BY <3>5, <3>6, <4>1, <4>2, <4>3, <4>4, <4>7, Numbers
      <4>9. ~ closed BY <3>6, <4>2 DEF Holds
      <4>10. conn # next \/ next = 0 BY <3>6, <4>4, Numbers
      <4>11. conn = 0 \/ conn # conn' BY <4>1, <4>10
      <4>12. Holds(u)' BY <4>1, <4>3, <4>5, <4>9, <4>11 DEF Holds
      <4>13. ClosedInv' BY <4>1, <4>9 DEF ClosedInv
      <4> QED BY <3>2, <3>4, <4>8, <4>12, <4>13
    <3>15. CASE ReloadStarts(u)
      <4>1. user'[u] = At(u, "stop") /\ slot' = slot /\ me.pc = "start"
        BY <3>7, <3>15 DEF ReloadStarts
      <4>2. user'[u].pc = "stop" /\ user'[u].old = me.old /\ user'[u].next = me.next BY <3>8, <4>1
      <4>3. UNCHANGED <<made, conn, closed>> BY <3>15 DEF ReloadStarts
      <4>4. \A t \in Tunnels : t > made => tun'[t] = tun[t]
        BY <3>6, <3>15, Numbers DEF ReloadStarts, TypeOK, CallType, Tunnels
      <4>5. Holds(u)' BY <3>6, <4>1, <4>2, <4>3 DEF Holds
      <4>6. MadeInv' BY <3>5, <3>6, <4>1, <4>2, <4>3, <4>4
      <4>7. ClosedInv' BY <3>10, <4>1, <4>3
      <4> QED BY <3>2, <3>4, <4>5, <4>6, <4>7
    <3>16. CASE Stops(u)
      <4>1. user'[u] = At(u, "stopping") /\ slot' = slot /\ me.pc = "stop"
        BY <3>7, <3>16 DEF Stops
      <4>2. user'[u].pc = "stopping" /\ user'[u].old = me.old /\ user'[u].next = me.next BY <3>8, <4>1
      <4>3. UNCHANGED <<made, conn, closed>> BY <3>16 DEF Stops
      <4>4. \A t \in Tunnels : t > made => tun'[t] = tun[t]
        BY <3>6, <3>16, Numbers DEF Stops, TypeOK, CallType, Tunnels
      <4>5. Holds(u)' BY <3>6, <4>1, <4>2, <4>3 DEF Holds
      <4>6. MadeInv' BY <3>5, <3>6, <4>1, <4>2, <4>3, <4>4
      <4>7. ClosedInv' BY <3>10, <4>1, <4>3
      <4> QED BY <3>2, <3>4, <4>5, <4>6, <4>7
    <3>17. CASE Stopped(u)
      <4>1. user'[u] = At(u, "unlock") /\ slot' = slot /\ me.pc = "stopping"
        BY <3>7, <3>17 DEF Stopped
      <4>2. user'[u].pc = "unlock" /\ user'[u].old = me.old /\ user'[u].next = me.next BY <3>8, <4>1
      <4>3. UNCHANGED <<made, conn, closed, tun>> BY <3>17 DEF Stopped
      <4>4. Holds(u)' BY <3>17, <4>2, <4>3 DEF Holds, Gone, Stopped
      <4>5. MadeInv' /\ ClosedInv' BY <3>9, <3>10, <4>1, <4>2, <4>3
      <4> QED BY <3>2, <3>4, <4>4, <4>5
    <3>18. CASE Unlocks(u)
      <4>1. user'[u] = Idle /\ slot' = slot /\ me.pc = "unlock"
        BY <3>7, <3>18 DEF Unlocks
      <4>2. user'[u].pc = "idle" /\ user'[u].old = 0 /\ user'[u].next = 0 BY <4>1 DEF Idle
      <4>3. UNCHANGED <<made, conn, closed, tun>> BY <3>18 DEF Unlocks
      <4>4. Holds(u)' BY <4>2 DEF Holds
      <4>5. MadeInv' /\ ClosedInv' BY <3>9, <3>10, <4>1, <4>2, <4>3
      <4> QED BY <3>2, <3>4, <4>4, <4>5
    <3>19. CASE RemoveStops(u)
      <4>1. user'[u] = [At(u, "asked") EXCEPT !.old = conn] /\ slot' = slot /\ me.pc = "asking"
        BY <3>7, <3>19 DEF RemoveStops
      <4>2. user'[u].pc = "asked" /\ user'[u].old = conn /\ user'[u].next = me.next
        BY <3>6, <4>1 DEF At, CallType
      <4>3. UNCHANGED <<made, conn, closed>> BY <3>19 DEF RemoveStops
      <4>4. \A t \in Tunnels : t > made => tun'[t] = tun[t]
        BY <3>6, <3>19, Numbers DEF RemoveStops, TypeOK, Tunnels
      <4>5. Holds(u)' BY <4>2, <4>3 DEF Holds
      <4>6. MadeInv' BY <3>5, <3>6, <4>1, <4>2, <4>3, <4>4
      <4>7. ClosedInv' BY <3>10, <4>1, <4>3
      <4> QED BY <3>2, <3>4, <4>5, <4>6, <4>7
    <3>20. CASE RemoveStopped(u)
      <4>1. user'[u] = At(u, "remove") /\ slot' = slot /\ me.pc = "asked"
        BY <3>7, <3>20 DEF RemoveStopped
      <4>2. user'[u].pc = "remove" /\ user'[u].old = me.old /\ user'[u].next = me.next BY <3>8, <4>1
      <4>3. UNCHANGED <<made, conn, closed, tun>> BY <3>20 DEF RemoveStopped
      <4>4. Holds(u)' BY <4>2 DEF Holds
      <4>5. MadeInv' /\ ClosedInv' BY <3>9, <3>10, <4>1, <4>2, <4>3
      <4> QED BY <3>2, <3>4, <4>4, <4>5
    <3>21. CASE Removes(u)
      <4>1. user'[u] = [Idle EXCEPT !.pc = "reload"] /\ slot' = slot /\ me.pc = "remove"
        BY <3>21 DEF Removes, TypeOK, ManagerType
      <4>2. user'[u].pc = "reload" /\ user'[u].old = 0 /\ user'[u].next = 0 BY <3>8, <4>1
      <4>3. UNCHANGED <<made, conn, closed, tun>> BY <3>21 DEF Removes
      <4>4. Holds(u)' BY <4>2 DEF Holds
      <4>5. MadeInv' /\ ClosedInv' BY <3>9, <3>10, <4>1, <4>2, <4>3
      <4> QED BY <3>2, <3>4, <4>4, <4>5
    <3>22. CASE CloseForgets(u)
      <4>1. user'[u] = [At(u, "stop") EXCEPT !.old = conn] /\ slot' = slot /\ me.pc = "closing"
        BY <3>7, <3>22 DEF CloseForgets
      <4>2. user'[u].pc = "stop" /\ user'[u].old = conn /\ user'[u].next = me.next
        BY <3>6, <4>1 DEF At, CallType
      <4>3. UNCHANGED <<made, closed, tun>> /\ conn' = 0 BY <3>22 DEF CloseForgets
      <4>4. Holds(u)' BY <4>2, <4>3 DEF Holds
      <4>5. MadeInv' BY <3>5, <3>6, <4>1, <4>2, <4>3, Numbers
      <4>6. ClosedInv' BY <4>3 DEF ClosedInv
      <4> QED BY <3>2, <3>4, <4>4, <4>5, <4>6
    <3> QED BY <2>2, <3>11, <3>12, <3>13, <3>14, <3>15, <3>16, <3>17, <3>18, <3>19, <3>20,
               <3>21, <3>22 DEF Asks, Goes
  <2>3. CASE UNCHANGED vars
    BY <2>3 DEF vars, LockInv, MadeInv, CallInv, Holds, ClosedInv, Gone
  <2> QED BY <2>1, <2>2, <2>3 DEF Next, Outsides
<1> QED BY <1>1, <1>2, TypeCorrect, PTL DEF Spec

\* A tunnel that is open or may open is the manager's, or about to be stopped.
THEOREM ManagersCorrect == Spec => []OnlyTheManagersTunnel
<1>1. Init => OnlyTheManagersTunnel
  BY DEF Init, OnlyTheManagersTunnel, Lives, NoTunnel
<1>2. TypeOK /\ HeldInv /\ OnlyTheManagersTunnel /\ [Next]_vars => OnlyTheManagersTunnel'
  <2> SUFFICES ASSUME TypeOK, HeldInv, OnlyTheManagersTunnel, [Next]_vars
               PROVE  OnlyTheManagersTunnel'
    OBVIOUS
  <2>1. CASE Outsides
    <3>1. UNCHANGED manager /\ \A t \in Tunnels : MayBecome(tun[t], tun'[t])
      BY <2>1, OutsideSteps
    <3>2. \A t \in Tunnels : Lives(t)' => Lives(t) BY <3>1 DEF Lives, MayBecome
    <3> QED BY <3>1, <3>2 DEF OnlyTheManagersTunnel, manager
  <2>2. ASSUME NEW u \in Users, Asks(u) \/ Goes(u) PROVE OnlyTheManagersTunnel'
    <3> DEFINE me == user[u]
    <3>1. /\ \A v \in Users \ {u} : user'[v] = user[v]
          /\ \/ /\ me.pc \notin Locked /\ user'[u].pc \notin Locked /\ reloading' = reloading
                /\ UNCHANGED <<conn, cfg, closed, tun, made>>
             \/ me.pc \in Locked /\ user'[u].pc \in Locked /\ reloading' = reloading
             \/ reloading = NoUser /\ reloading' = u /\ user'[u].pc \in Locked
             \/ me.pc \in Locked /\ user'[u].pc \notin Locked /\ reloading' = NoUser
      BY <2>2, CallSteps
    <3>2. /\ me.pc \in Locked => reloading = u
          /\ reloading # NoUser => reloading \in Users /\ user[reloading].pc \in Locked
          /\ Holds(u) /\ u # NoUser
      BY RemoteAssumption DEF HeldInv, LockInv, CallInv, TypeOK, ManagerType
    <3>3. ~ ReloadStarts(u) => \A t \in Tunnels : Lives(t)' => Lives(t)
      <4>1. ASSUME ~ ReloadStarts(u)
            PROVE  \/ tun' = tun
                   \/ \E c : tun' = [tun EXCEPT ![c].stop = TRUE]
                   \/ \E c, h : tun' = [tun EXCEPT ![c].host = h]
        BY <2>2, <4>1 DEF Asks, Goes, FileChanges, ReloadAsked, RemoveLocks, Closes, ReloadLocks,
            ReloadKeeps, ReloadReplaces, Stops, Stopped, Unlocks, RemoveStops, RemoveStopped, Removes,
            CloseForgets
      <4>2. \A t \in Tunnels : tun[t] \in TunnelType BY DEF TypeOK
      <4> QED BY <4>1, <4>2 DEF Lives, TypeOK, TunnelType
    <3>4. \A t \in Tunnels : Lives(t) =>
             \/ t = conn /\ (closed => reloading # NoUser)
             \/ reloading # NoUser /\ user[reloading].old = t
      BY DEF OnlyTheManagersTunnel
    <3>5. \A t \in Tunnels : t # 0 BY Numbers DEF Tunnels
    <3>6. CASE FileChanges(u) \/ ReloadAsked(u) \/ Removes(u)
      <4>1. me.pc \notin Locked /\ UNCHANGED <<conn, closed, tun, reloading>>
        BY <3>6 DEF FileChanges, ReloadAsked, Removes, Begins, Call, Locked
      <4> QED BY <3>1, <3>2, <3>4, <4>1 DEF OnlyTheManagersTunnel, Lives
    <3>7. CASE RemoveLocks(u) \/ Closes(u) \/ ReloadLocks(u)
      <4>1. reloading = NoUser /\ reloading' = u /\ UNCHANGED <<conn, tun>>
        BY <3>7 DEF RemoveLocks, Closes, ReloadLocks, Lock
      <4> QED BY <3>2, <3>4, <4>1 DEF OnlyTheManagersTunnel, Lives
    <3>8. CASE ReloadKeeps(u) \/ ReloadStarts(u) \/ Stops(u) \/ Stopped(u)
      <4>1. PICK pc \in Locked, to \in Locked : Call(u, pc, At(u, to))
        BY <3>8 DEF ReloadKeeps, ReloadStarts, Stops, Stopped, Locked
      <4>2. user'[u] = At(u, to) /\ me.pc = pc BY <4>1, CallTo
      <4>3. user'[u].old = me.old BY <4>2, AtIs
      <4>4. UNCHANGED <<conn, closed, reloading>> /\ reloading = u
        BY <3>2, <3>8, <4>1, <4>2 DEF ReloadKeeps, ReloadStarts, Stops, Stopped
      <4>5. ReloadStarts(u) => \A t \in Tunnels : Lives(t)' => Lives(t) \/ t = conn
        <5>1. ReloadStarts(u) => me.next = conn BY <3>2, CallTo DEF ReloadStarts, Holds
        <5> QED BY <5>1 DEF ReloadStarts, Lives, TypeOK
      <4> QED BY <3>2, <3>3, <3>4, <4>3, <4>4, <4>5 DEF OnlyTheManagersTunnel
    <3>9. CASE ReloadReplaces(u) \/ RemoveStops(u) \/ CloseForgets(u)
      <4>1. PICK pc \in {"look", "asking", "closing"}, to \in {"start", "asked", "stop"} :
              \/ \E n : Call(u, pc, [At(u, to) EXCEPT !.old = conn, !.next = n])
              \/ Call(u, pc, [At(u, to) EXCEPT !.old = conn])
        BY <3>9 DEF ReloadReplaces, RemoveStops, CloseForgets
      <4>2. /\ me.pc = pc
            /\ \/ \E n : user'[u] = [At(u, to) EXCEPT !.old = conn, !.next = n]
               \/ user'[u] = [At(u, to) EXCEPT !.old = conn]
        <5>1. \A x : Call(u, pc, x) => me.pc = pc /\ user'[u] = x BY CallTo
        <5>2. CASE Call(u, pc, [At(u, to) EXCEPT !.old = conn]) BY <5>1, <5>2
        <5>3. ASSUME NEW n, Call(u, pc, [At(u, to) EXCEPT !.old = conn, !.next = n])
              PROVE  me.pc = pc /\ user'[u] = [At(u, to) EXCEPT !.old = conn, !.next = n]
          BY <5>1, <5>3
        <5> QED BY <4>1, <5>1, <5>2, <5>3
      <4>3. user'[u].old = conn BY <4>2 DEF At, TypeOK, ManagerType, CallType
      <4>4. reloading' = reloading /\ reloading = u /\ me.old = 0
        BY <3>2, <3>9, <4>1, <4>2 DEF Holds, Locked, ReloadReplaces, RemoveStops, CloseForgets
      <4>5. ~ ReloadStarts(u) BY <4>1, <4>2 DEF ReloadStarts, Call
      <4> QED BY <3>2, <3>3, <3>4, <3>5, <4>3, <4>4, <4>5 DEF OnlyTheManagersTunnel
    <3>10. CASE Unlocks(u) \/ RemoveStopped(u)
      <4>1. /\ me.pc \in {"unlock", "asked"} /\ UNCHANGED <<conn, closed, tun>>
            /\ reloading' = NoUser /\ Gone(me.old)
        BY <3>2, <3>10 DEF Unlocks, RemoveStopped, Call, Holds
      <4>2. reloading = u /\ (closed => conn = 0)
        BY <3>2, <4>1 DEF Locked, HeldInv, ClosedInv
      <4>3. \A t \in Tunnels : Lives(t) => t # me.old BY <3>5, <4>1 DEF Gone, Lives
      <4> QED BY <3>2, <3>4, <3>5, <4>1, <4>2, <4>3 DEF OnlyTheManagersTunnel, Lives
    <3> QED BY <2>2, <3>6, <3>7, <3>8, <3>9, <3>10 DEF Asks, Goes
  <2>3. CASE UNCHANGED vars
    BY <2>3 DEF vars, OnlyTheManagersTunnel, Lives
  <2> QED BY <2>1, <2>2, <2>3 DEF Next, Outsides
<1> QED BY <1>1, <1>2, TypeCorrect, HeldCorrect, PTL DEF Spec

\* A tunnel that was told not to come back is not dialled again.
THEOREM GivesUpCorrect == Spec => GivesUpForGood
<1>1. TypeOK /\ HeldInv /\ [Next]_vars =>
        \A c \in Tunnels : ToldOff(tun[c]) =>
           ToldOff(tun'[c]) \/ tun'[c].err \in {"revoked", "replaced", "stopped"}
  <2> SUFFICES ASSUME TypeOK, HeldInv, [Next]_vars, NEW c \in Tunnels, ToldOff(tun[c])
               PROVE  ToldOff(tun'[c]) \/ tun'[c].err \in {"revoked", "replaced", "stopped"}
    OBVIOUS
  <2>1. CASE Outsides BY <2>1, OutsideSteps DEF MayBecome
  <2>2. ASSUME NEW u \in Users, Asks(u) \/ Goes(u) PROVE ToldOff(tun'[c])
    <3>1. CASE ~ ReloadStarts(u)
      BY <2>2, <3>1 DEF Asks, Goes, FileChanges, ReloadAsked, RemoveLocks, Closes, ReloadLocks,
          ReloadKeeps, ReloadReplaces, Stops, Stopped, Unlocks, RemoveStops, RemoveStopped, Removes,
          CloseForgets, ToldOff, TypeOK, TunnelType
    <3>2. CASE ReloadStarts(u)
      <4>1. user[u].next # 0 => tun[user[u].next].pc = "new"
        BY <3>2, CallTo DEF ReloadStarts, HeldInv, CallInv, Holds
      <4>2. user[u].next # c BY <4>1, Numbers DEF ToldOff, Tunnels
      <4> QED BY <3>2, <4>2 DEF ReloadStarts, ToldOff, TypeOK
    <3> QED BY <3>1, <3>2
  <2>3. CASE UNCHANGED vars BY <2>3 DEF vars
  <2> QED BY <2>1, <2>2, <2>3 DEF Next, Outsides
<1>2. TypeOK /\ HeldInv /\ [Next]_vars =>
        [\A c \in Tunnels :
            ToldOff(tun[c]) => \/ ToldOff(tun'[c])
                               \/ tun'[c].err \in {"revoked", "replaced", "stopped"}]_vars
  BY <1>1
<1> QED BY <1>2, TypeCorrect, HeldCorrect, PTL DEF Spec, GivesUpForGood

-----------------------------------------------------------------------------
(* The enrolment on disk and the tunnel. *)

MatchInv == FileInv /\ ConnInv

\* The tunnel is the one of the manager's enrolment, and that is the one on disk or
\* somebody has yet to look.
LEMMA MatchCorrect == Spec => []MatchInv
<1>1. Init => MatchInv
  BY Numbers DEF Init, MatchInv, FileInv, ConnInv, Somebody, Idle, NoTunnel, Wanted, NoFile
<1>2. TypeOK /\ HeldInv /\ MatchInv /\ [Next]_vars => MatchInv'
  <2> SUFFICES ASSUME TypeOK, HeldInv, MatchInv, [Next]_vars PROVE MatchInv'
    OBVIOUS
  <2>0. conn # 0 => conn \in Tunnels BY DEF TypeOK, ManagerType, Tunnels
  <2>1. CASE Outsides
    <3>1. UNCHANGED manager /\ \A t \in Tunnels : MayBecome(tun[t], tun'[t])
      BY <2>1, OutsideSteps
    <3>2. FileInv' BY <3>1 DEF MatchInv, FileInv, Somebody, manager
    <3>3. ConnInv' BY <2>0, <3>1 DEF MatchInv, ConnInv, Somebody, manager, MayBecome, Wanted
    <3> QED BY <3>2, <3>3 DEF MatchInv
  <2>2. ASSUME NEW u \in Users, Asks(u) \/ Goes(u) PROVE MatchInv'
    <3> DEFINE me == user[u]
    <3>1. /\ \A v \in Users \ {u} : user'[v] = user[v]
          /\ reloading = NoUser \/ reloading' = reloading \/ me.pc \in Locked
          /\ reloading = NoUser => reloading' \in {u, NoUser}
      BY <2>2, CallSteps
    <3>2. /\ me.pc \in Locked => reloading = u
          /\ reloading # NoUser => reloading \in Users /\ user[reloading].pc \in Locked
          /\ \A v \in Users : user[v].pc \in Locked => reloading = v
          /\ Holds(u) /\ u # NoUser
      BY RemoteAssumption DEF HeldInv, LockInv, CallInv, TypeOK, ManagerType
    <3>3. \A pcs : Somebody(pcs) /\ me.pc \notin pcs => Somebody(pcs)'
      BY <3>1 DEF Somebody
    <3>4. \A pcs : user'[u].pc \in pcs => Somebody(pcs)'
      BY DEF Somebody
    <3>5. FileInv /\ ConnInv BY DEF MatchInv
    <3>6. \A t \in Tunnels : tun[t] \in TunnelType BY DEF TypeOK
    <3>7. CASE FileChanges(u) \/ ReloadAsked(u) \/ Removes(u)
      <4>1. user'[u].pc = "reload" /\ me.pc \in {"idle", "remove"}
        <5>1. user'[u] = [Idle EXCEPT !.pc = "reload"] /\ me.pc \in {"idle", "remove"}
          BY <3>7, CallTo DEF FileChanges, ReloadAsked, Removes, Begins, TypeOK, ManagerType
        <5> QED BY <5>1, AtIs
      <4>2. UNCHANGED <<cfg, conn, closed, reloading, unread, tun>>
        BY <3>7 DEF FileChanges, ReloadAsked, Removes
      <4>3. FileInv' BY <4>1, <3>4 DEF FileInv
      <4>4. ConnInv'
        BY <3>1, <3>2, <3>4, <3>5, <4>1, <4>2 DEF ConnInv, Wanted, Locked
      <4> QED BY <4>3, <4>4 DEF MatchInv
    <3>8. CASE RemoveLocks(u) \/ Closes(u)
      <4>1. user'[u].pc \in {"asking", "closing"} /\ me.pc = "idle"
        <5>1. PICK pc \in {"asking", "closing"} : Call(u, "idle", [Idle EXCEPT !.pc = pc])
          BY <3>8 DEF RemoveLocks, Closes, Begins
        <5>2. user'[u] = [Idle EXCEPT !.pc = pc] /\ me.pc = "idle" BY <5>1, CallTo
        <5> QED BY <5>2, AtIs
      <4>2. /\ UNCHANGED <<file, cfg, conn, unread, tun>> /\ reloading = NoUser /\ reloading' = u
            /\ closed' = closed \/ closed'
        BY <3>8 DEF RemoveLocks, Closes, Lock
      <4>3. RemoveLocks(u) => user'[u].pc = "asking"
        <5>1. RemoveLocks(u) => user'[u] = [Idle EXCEPT !.pc = "asking"]
          BY CallTo DEF RemoveLocks, Begins
        <5> QED BY <5>1, AtIs
      <4>4. FileInv'
        BY <3>1, <3>2, <3>3, <3>4, <3>5, <3>8, <4>1, <4>2, <4>3 DEF FileInv, Closes
      <4>5. ConnInv'
        BY <3>1, <3>2, <3>3, <3>5, <4>1, <4>2 DEF ConnInv, Wanted
      <4> QED BY <4>4, <4>5 DEF MatchInv
    <3>9. CASE ReloadLocks(u)
      <4>1. PICK to \in {[At(u, "look") EXCEPT !.cfg = file], At(u, "unlock")} :
              /\ Call(u, "reload", to)
              /\ \/ to = [At(u, "look") EXCEPT !.cfg = file] /\ unread' = FALSE
                 \/ to = At(u, "unlock") /\ (unread' \/ closed)
        BY <3>9 DEF ReloadLocks
      <4>2. user'[u] = to /\ me.pc = "reload" BY <4>1, CallTo
      <4>3. /\ [At(u, "look") EXCEPT !.cfg = file].pc = "look"
            /\ [At(u, "look") EXCEPT !.cfg = file].cfg = file
            /\ At(u, "unlock").pc = "unlock"
        BY DEF At, TypeOK, ManagerType, CallType
      <4>4. \/ user'[u].pc = "look" /\ user'[u].cfg = file /\ unread' = FALSE
            \/ user'[u].pc = "unlock" /\ (unread' \/ closed)
        <5>1. CASE to = [At(u, "look") EXCEPT !.cfg = file] /\ unread' = FALSE
          BY <4>2, <4>3, <5>1
        <5>2. CASE to = At(u, "unlock") /\ (unread' \/ closed) BY <4>2, <4>3, <5>2
        <5> QED BY <4>1, <5>1, <5>2
      <4>5. UNCHANGED <<file, cfg, conn, closed, calls, tun>> /\ reloading = NoUser /\ reloading' = u
        BY <3>9 DEF ReloadLocks, Lock
      <4>6. \A v \in Users : user[v].pc # "look" BY <3>2, <4>5, RemoteAssumption DEF Locked
      <4>7. FileInv'
        BY <3>1, <3>4, <4>4, <4>5, <4>6 DEF FileInv
      <4>8. conn # 0 => tun[conn].pc # "new" BY <3>5, <4>5 DEF ConnInv
      <4>9. ConnInv'
        BY <3>4, <3>5, <4>4, <4>5, <4>8 DEF ConnInv, Wanted
      <4> QED BY <4>7, <4>9 DEF MatchInv
    <3>10. CASE ReloadKeeps(u)
      <4>1. user'[u] = At(u, "unlock") /\ me.pc = "look" BY <3>10, CallTo DEF ReloadKeeps
      <4>2. user'[u].pc = "unlock" BY <4>1, AtIs
      <4>3. UNCHANGED <<file, cfg, conn, closed, unread, calls, tun, reloading>> /\ Keeps(me.cfg)
        BY <3>10 DEF ReloadKeeps
      <4>4. cfg = file \/ Somebody({"reload"})
        BY <3>5, <4>1, <4>3 DEF FileInv, Keeps
      <4>5. Somebody({"reload"}) => Somebody({"reload"})' BY <3>3, <4>1
      <4>6. Somebody({"reload"})' => Somebody({"asking", "asked", "remove", "reload", "look"})'
        BY DEF Somebody
      <4>7. \A v \in Users : user'[v].pc = "look" => FALSE
        BY <3>1, <3>2, <4>1, <4>2 DEF Locked
      <4>8. FileInv' BY <4>3, <4>4, <4>5, <4>6, <4>7 DEF FileInv
      <4>9. reloading = u /\ conn # 0 /\ ~ tun[conn].stop /\ tun[conn].pc # "new"
        BY <2>0, <3>2, <3>5, <4>1, <4>3 DEF ConnInv, Keeps, Locked
      <4>10. ConnInv' BY <3>5, <4>3, <4>9 DEF ConnInv, Wanted
      <4> QED BY <4>8, <4>10 DEF MatchInv
    <3>11. CASE ReloadReplaces(u)
      <4>1. PICK next : /\ next = IF Wanted(me.cfg) THEN made + 1 ELSE 0
                        /\ Wanted(me.cfg) => made < MaxTunnels
                        /\ Call(u, "look", [At(u, "start") EXCEPT !.old = conn, !.next = next])
                        /\ conn' = next /\ cfg' = me.cfg
                        /\ tun' = IF next = 0 THEN tun ELSE [tun EXCEPT ![next].host = me.cfg.host]
                        /\ UNCHANGED <<file, closed, unread, calls, reloading>>
        BY <3>11 DEF ReloadReplaces
      <4>2. user'[u] = [At(u, "start") EXCEPT !.old = conn, !.next = next] /\ me.pc = "look"
        BY <4>1, CallTo
      <4>3. user'[u].pc = "start" BY <4>2 DEF At, TypeOK, ManagerType, CallType
      <4>4. /\ next # 0 <=> Wanted(me.cfg)
            /\ next # 0 => next \in Tunnels /\ next > made
            /\ next \in Nat
        BY <4>1, Numbers DEF Tunnels, TypeOK, ManagerType
      <4>5. next # 0 => tun[next] = NoTunnel BY <4>4 DEF HeldInv, MadeInv
      <4>6. next # 0 => tun'[next].host = me.cfg.host /\ ~ tun'[next].stop /\ tun'[next].pc = "new"
        <5>1. next # 0 => /\ tun'[next].host = me.cfg.host /\ tun'[next].stop = tun[next].stop
                          /\ tun'[next].pc = tun[next].pc
          BY <3>6, <4>1, <4>4 DEF TypeOK, TunnelType
        <5> QED BY <4>5, <5>1 DEF NoTunnel
      <4>7. \A t \in Tunnels : t # next => tun'[t] = tun[t] BY <4>1, <4>4 DEF TypeOK
      <4>8. reloading = u BY <3>2, <4>2 DEF Locked
      <4>9. ConnInv'
        <5>1. \A t \in Tunnels : tun'[t].pc = "gone" => tun'[t].status \notin Trying
          BY <3>5, <4>1, <4>6, <4>7 DEF ConnInv
        <5>2. conn' # 0 => tun'[conn'].host = cfg'.host /\ ~ tun'[conn'].stop
          BY <4>1, <4>6
        <5>3. Wanted(cfg)' <=> conn' # 0 BY <4>1, <4>4 DEF Wanted
        <5>4. reloading' # NoUser /\ user'[reloading'].pc = "start" BY <3>2, <4>1, <4>3, <4>8
        <5> QED BY <5>1, <5>2, <5>3, <5>4 DEF ConnInv
      <4>10. me.cfg = file \/ Somebody({"reload"}) BY <3>5, <4>2 DEF FileInv
      <4>11. Somebody({"reload"}) => Somebody({"reload"})' BY <3>3, <4>2
      <4>12. Somebody({"reload"})' => Somebody({"asking", "asked", "remove", "reload", "look"})'
        BY DEF Somebody
      <4>13. \A v \in Users : user'[v].pc = "look" => FALSE
        BY <3>1, <3>2, <4>2, <4>3 DEF Locked
      <4>14. FileInv' BY <4>1, <4>10, <4>11, <4>12, <4>13 DEF FileInv
      <4> QED BY <4>9, <4>14 DEF MatchInv
    <3>12. CASE ReloadStarts(u) \/ Stops(u) \/ Stopped(u) \/ Unlocks(u) \/ CloseForgets(u)
      <4>1. /\ me.pc \in {"start", "stop", "stopping", "unlock", "closing"}
            /\ user'[u].pc \in {"stop", "stopping", "unlock", "idle"}
        <5>1. PICK pc \in {"start", "stop", "stopping", "unlock", "closing"},
                   to \in {At(u, "stop"), At(u, "stopping"), At(u, "unlock"), Idle,
                           [At(u, "stop") EXCEPT !.old = conn]} : Call(u, pc, to)
          BY <3>12 DEF ReloadStarts, Stops, Stopped, Unlocks, CloseForgets
        <5>2. user'[u] = to /\ me.pc = pc BY <5>1, CallTo
        <5>3. [At(u, "stop") EXCEPT !.old = conn].pc = "stop"
          BY DEF At, TypeOK, ManagerType, CallType
        <5>4. At(u, "stop").pc = "stop" /\ At(u, "stopping").pc = "stopping" /\ At(u, "unlock").pc = "unlock"
          BY AtIs
        <5>5. Idle.pc = "idle" BY DEF Idle
        <5>6. to.pc \in {"stop", "stopping", "unlock", "idle"} BY <5>1, <5>3, <5>4, <5>5
        <5> QED BY <5>1, <5>2, <5>6
      <4>2. UNCHANGED <<file, cfg, closed, unread, calls>> /\ reloading = u
        BY <3>2, <3>12, <4>1 DEF ReloadStarts, Stops, Stopped, Unlocks, CloseForgets, Locked
      <4>3. \A v \in Users : user'[v].pc = "look" => FALSE
        BY <3>1, <3>2, <4>1 DEF Locked
      <4>4. FileInv' BY <3>3, <3>5, <4>1, <4>2, <4>3 DEF FileInv
      <4>5. CASE CloseForgets(u)
        BY <3>2, <3>5, <4>4, <4>5, CallTo DEF MatchInv, ConnInv, CloseForgets, Holds
      <4>6. CASE Stopped(u) \/ Unlocks(u)
        <5>1. UNCHANGED <<conn, tun>> BY <4>6 DEF Stopped, Unlocks
        <5>2. me.pc \in {"stopping", "unlock"} BY <4>6, CallTo DEF Stopped, Unlocks
        <5>3. ConnInv' BY <3>3, <3>5, <4>2, <5>1, <5>2 DEF ConnInv, Wanted
        <5> QED BY <4>4, <5>3 DEF MatchInv
      <4>7. CASE ReloadStarts(u) \/ Stops(u)
        <5>1. conn' = conn /\ reloading' = u BY <4>2, <4>7 DEF ReloadStarts, Stops
        <5>2. \A t \in Tunnels :
                /\ tun'[t].host = tun[t].host
                /\ tun'[t].pc # tun[t].pc => ReloadStarts(u) /\ t = me.next /\ tun'[t].pc = "dial"
                /\ tun'[t].status # tun[t].status => tun'[t].pc = "dial"
                /\ tun'[t].stop # tun[t].stop => Stops(u) /\ t = me.old
          BY <3>6, <4>7 DEF ReloadStarts, Stops, TypeOK, TunnelType
        <5>3. /\ ReloadStarts(u) => me.pc = "start" /\ me.next = conn
              /\ Stops(u) => me.pc = "stop" /\ (me.old = 0 \/ me.old # conn)
          BY <3>2, CallTo DEF ReloadStarts, Stops, Holds
        <5>4. conn # 0 => tun'[conn].pc # "new"
          BY <2>0, <3>2, <3>5, <4>2, <4>7, <5>2, <5>3 DEF ConnInv, ReloadStarts, TypeOK, TunnelType
        <5>5. conn # 0 /\ tun'[conn].stop => tun[conn].stop BY <2>0, <3>6, <5>2, <5>3 DEF TunnelType
        <5>6. conn # 0 /\ tun[conn].pc = "gone" => tun'[conn].pc = "gone"
          BY <2>0, <3>2, <5>2, <5>3 DEF Holds
        <5>7. \A t \in Tunnels : tun'[t].pc = "gone" => tun'[t].status \notin Trying
          BY <3>5, <5>2 DEF ConnInv
        <5>8. ConnInv'
          BY <2>0, <3>3, <3>5, <4>1, <4>2, <5>1, <5>2, <5>4, <5>5, <5>6, <5>7 DEF ConnInv, Wanted
        <5> QED BY <4>4, <5>8 DEF MatchInv
      <4> QED BY <3>12, <4>5, <4>6, <4>7
    <3>13. CASE RemoveStops(u)
      <4>1. user'[u] = [At(u, "asked") EXCEPT !.old = conn] /\ me.pc = "asking"
        BY <3>13, CallTo DEF RemoveStops
      <4>2. user'[u].pc = "asked" BY <4>1 DEF At, TypeOK, ManagerType, CallType
      <4>3. UNCHANGED <<file, cfg, conn, closed, unread, calls, reloading>> /\ reloading = u
        BY <3>2, <3>13, <4>1 DEF RemoveStops, Locked
      <4>4. \A t \in Tunnels : /\ tun'[t].host = tun[t].host /\ tun'[t].pc = tun[t].pc
                               /\ tun'[t].status = tun[t].status
        BY <3>6, <3>13 DEF RemoveStops, TypeOK, TunnelType
      <4>5. \A v \in Users : user'[v].pc = "look" => FALSE
        BY <3>1, <3>2, <4>1, <4>2 DEF Locked
      <4>6. FileInv' BY <3>4, <4>2, <4>5 DEF FileInv
      <4>7. ConnInv' BY <2>0, <3>2, <3>5, <4>1, <4>2, <4>3, <4>4 DEF ConnInv, Wanted
      <4> QED BY <4>6, <4>7 DEF MatchInv
    <3>14. CASE RemoveStopped(u)
      <4>1. user'[u] = At(u, "remove") /\ me.pc = "asked" BY <3>14, CallTo DEF RemoveStopped
      <4>2. user'[u].pc = "remove" BY <4>1, AtIs
      <4>3. UNCHANGED <<file, cfg, conn, closed, unread, calls, tun>> /\ Gone(conn) /\ reloading = u
        BY <3>2, <3>14, <4>1 DEF RemoveStopped, Holds, Locked
      <4>4. conn # 0 => tun[conn].pc = "gone"
        BY <3>5, <4>1, <4>3 DEF Gone, ConnInv
      <4>5. \A v \in Users : user'[v].pc = "look" => FALSE
        BY <3>1, <3>2, <4>1, <4>2 DEF Locked
      <4>6. FileInv' BY <3>4, <4>2, <4>5 DEF FileInv
      <4>7. ConnInv' BY <3>4, <3>5, <4>2, <4>3, <4>4 DEF ConnInv, Wanted
      <4> QED BY <4>6, <4>7 DEF MatchInv
    <3> QED BY <2>2, <3>7, <3>8, <3>9, <3>10, <3>11, <3>12, <3>13, <3>14 DEF Asks, Goes
  <2>3. CASE UNCHANGED vars
    BY <2>3 DEF vars, MatchInv, FileInv, ConnInv, Somebody, Wanted
  <2> QED BY <2>1, <2>2, <2>3 DEF Next, Outsides
<1> QED BY <1>1, <1>2, TypeCorrect, HeldCorrect, PTL DEF Spec

\* With no call under way the tunnel is the one the enrolment on disk asks for.
THEOREM MatchesCorrect == Spec => []TunnelMatches
<1>1. TypeOK /\ HeldInv /\ MatchInv => TunnelMatches
  <2> SUFFICES ASSUME TypeOK, HeldInv, MatchInv, ~ closed, ~ Busy, ~ unread, calls > 0
               PROVE  /\ cfg = file
                      /\ Wanted(cfg) <=> conn # 0
                      /\ conn # 0 => tun[conn].host = cfg.host /\ ~ tun[conn].stop
    BY DEF TunnelMatches
  <2>1. \A u \in Users : user[u].pc = "idle" BY DEF Busy
  <2>2. reloading = NoUser
    BY <2>1 DEF HeldInv, LockInv, Locked, TypeOK, ManagerType
  <2>3. \A pcs : "idle" \notin pcs => ~ Somebody(pcs) BY <2>1 DEF Somebody
  <2> QED BY <2>2, <2>3 DEF MatchInv, FileInv, ConnInv
<1> QED BY <1>1, TypeCorrect, HeldCorrect, MatchCorrect, PTL
=============================================================================
