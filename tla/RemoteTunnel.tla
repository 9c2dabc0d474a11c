---------------------------- MODULE RemoteTunnel ----------------------------
(***************************************************************************)
(* Flockdeck Remote in a running instance: the connectors, which each keep *)
(* one tunnel to the relay open, and the manager, which keeps one          *)
(* connector in line with the enrolment on disk                            *)
(* (src/internal/remote/connector.go, manager.go).                         *)
(*                                                                         *)
(* A connector's session is modelled down to the signals its select        *)
(* chooses from, because which of them it takes is chance.  The relay and  *)
(* the network are external: the relay accepts a host's newest connection, *)
(* closes the one before as replaced, may revoke a host, stop it until it  *)
(* is paid for, drop a connection or go quiet.                             *)
(***************************************************************************)
EXTENDS Naturals

CONSTANTS
    Users,        \* goroutines of the window and of the command line's requests
    NoUser,       \* nobody
    MaxTunnels,   \* bound: connectors made
    MaxHosts,     \* bound: enrolments; each Enable or Move that registers is a new one
    MaxCalls,     \* bound: calls of the manager
    MaxTroubles   \* bound: what the relay and the network do to a tunnel

ASSUME RemoteAssumption ==
    /\ NoUser \notin Users
    /\ {MaxTunnels, MaxHosts, MaxCalls, MaxTroubles} \subseteq Nat \ {0}

Tunnels == 1..MaxTunnels
Hosts == 1..MaxHosts

VARIABLES
    file,      \* the enrolment on disk: [host |-> 0 or the host, off |-> Disabled]
    cfg,       \* Manager.cfg
    conn,      \* Manager.conn, 0 when there is none
    closed,    \* Manager.closed
    reloading, \* who holds Manager.reloading, or NoUser
    enrolling, \* whose Remove holds Manager.enrolling, or NoUser
    unread,    \* the last Reload could not read the enrolment (the code keeps no such flag)
    user,      \* where each call is, with what it holds
    calls,     \* how many calls have been made
    made,      \* connectors made so far
    tun,       \* the connectors
    relay,     \* per host, what the relay makes of it: "known", "unpaid" or "revoked"
    slot,      \* per host, the tunnel the relay last accepted, 0 when none
    reachable, \* the relay can be reached
    troubles   \* what may still go wrong

vars == <<file, cfg, conn, closed, reloading, enrolling, unread, user, calls, made, tun, relay, slot, reachable, troubles>>
manager == <<file, cfg, conn, closed, reloading, enrolling, unread, user, calls, made>>
outside == <<relay, slot, reachable, troubles>>

NoFile == [host |-> 0, off |-> FALSE]
On(h) == [host |-> h, off |-> FALSE]
Off(h) == [host |-> h, off |-> TRUE]
\* The enrolment wants a tunnel.
Wanted(f) == f.host # 0 /\ ~ f.off

Idle == [pc |-> "idle", cfg |-> NoFile, old |-> 0, next |-> 0]
NoTunnel == [host |-> 0, pc |-> "new", stop |-> FALSE, status |-> "off",
             wire |-> "none", first |-> "none", shut |-> FALSE, err |-> "none"]

Init ==
    /\ file \in {NoFile, On(1), Off(1)}
    /\ cfg = NoFile /\ conn = 0 /\ closed = FALSE /\ reloading = NoUser
    /\ enrolling = NoUser /\ unread = FALSE
    /\ user = [u \in Users |-> Idle] /\ calls = 0 /\ made = 0
    /\ tun = [c \in Tunnels |-> NoTunnel]
    /\ relay = [h \in Hosts |-> "known"] /\ slot = [h \in Hosts |-> 0]
    /\ reachable = TRUE /\ troubles = MaxTroubles

-----------------------------------------------------------------------------
(* Connector.run and session *)

\* A step of connector c's goroutine.
Step(c, pc, to) ==
    /\ tun[c].pc = pc
    /\ tun' = [tun EXCEPT ![c] = to]

\* The session ends with err, and its connection with it.
Ended(t, err) ==
    [t EXCEPT !.pc = "decide", !.err = err, !.wire = "none",
              !.first = "none", !.shut = FALSE]

\* The relay takes the connection, and closes the one it had for the host.
Accepts(c) ==
    LET h == tun[c].host
    IN /\ tun[c].pc = "dial" /\ tun[c].wire = "none"
       /\ reachable /\ relay[h] = "known"
       /\ tun' = [t \in Tunnels |->
                    CASE t = c -> [tun[c] EXCEPT !.wire = "open"]
                      [] t # c /\ t = slot[h] /\ tun[t].wire = "open"
                           -> [tun[t] EXCEPT !.wire = "replaced"]
                      [] OTHER -> tun[t]]
       /\ slot' = [slot EXCEPT ![h] = c]
       /\ UNCHANGED <<manager, relay, reachable, troubles>>

\* A refusal: 401 or 403, or 402.
Refused(c) ==
    /\ tun[c].pc = "dial" /\ reachable /\ tun[c].wire = "none"
    /\ LET answer == relay[tun[c].host]
       IN /\ answer \in {"revoked", "unpaid"}
          /\ Step(c, "dial", Ended(tun[c], answer))
    /\ UNCHANGED <<manager, outside>>

\* No answer in time, or a connection lost before it was heard of.
DialFails(c) ==
    /\ ~ reachable \/ tun[c].wire \notin {"none", "open"}
    /\ Step(c, "dial", Ended(tun[c], "lost"))
    /\ UNCHANGED <<manager, outside>>

DialStopped(c) ==
    /\ tun[c].stop
    /\ Step(c, "dial", Ended(tun[c], "stopped"))
    /\ UNCHANGED <<manager, outside>>

\* The session is made, serve runs, and the status says so.
Connects(c) ==
    /\ tun[c].wire # "none"
    /\ Step(c, "dial", [tun[c] EXCEPT !.pc = "serve", !.status = "connected"])
    /\ UNCHANGED <<manager, outside>>

\* recordingConn.Read fails, unless this side has closed it, and says how.
ReadFails(c) ==
    /\ tun[c].wire \notin {"open", "quiet"}
    /\ tun[c].first = "none" /\ ~ tun[c].shut
    /\ Step(c, "serve", [tun[c] EXCEPT !.first = tun[c].wire])
    /\ UNCHANGED <<manager, outside>>

\* The keepalive closes the session of a relay that has gone quiet.
KeepaliveCloses(c) ==
    /\ tun[c].wire = "quiet" /\ ~ tun[c].shut
    /\ Step(c, "serve", [tun[c] EXCEPT !.shut = TRUE])
    /\ UNCHANGED <<manager, outside>>

\* Accept fails with the tunnel, and http.Serve closes the listener, and with it
\* the session, before it returns.
ServeCloses(c) ==
    /\ tun[c].first # "none" /\ ~ tun[c].shut
    /\ Step(c, "serve", [tun[c] EXCEPT !.shut = TRUE])
    /\ UNCHANGED <<manager, outside>>

\* What the select was woken by is believed.
NoLook(t) == "none"

\* rec.failed is looked for again once the session or serve has ended.
LookAgain(t) == t.first

\* why: what a tunnel that ended so means.
Why(first) == IF first \in {"revoked", "replaced", "unpaid"} THEN first ELSE "lost"

\* The select of session, and what it makes of the case it took.
SelectStop(c) ==
    /\ tun[c].stop
    /\ Step(c, "serve", Ended(tun[c], "stopped"))
    /\ UNCHANGED <<manager, outside>>

\* sess.CloseChan, or served, which comes after it; a stop in the meantime goes first.
SelectClosed(c) ==
    /\ tun[c].shut
    /\ Step(c, "serve", Ended(tun[c], IF tun[c].stop THEN "stopped" ELSE Why(LookAgain(tun[c]))))
    /\ UNCHANGED <<manager, outside>>

SelectFailed(c) ==
    /\ tun[c].first # "none"
    /\ Step(c, "serve", Ended(tun[c], IF tun[c].stop THEN "stopped" ELSE Why(tun[c].first)))
    /\ UNCHANGED <<manager, outside>>

\* An account that has to be paid for is given up too.
PointlessUnpaid(err) == err \in {"revoked", "replaced", "unpaid"}

\* The relay has said that retrying is pointless.
Pointless(err) == err \in {"revoked", "replaced"}

\* run's end: stopped, or given up.
Leaves(c) ==
    LET err == tun[c].err
    IN /\ tun[c].stop \/ Pointless(err)
       /\ Step(c, "decide", [tun[c] EXCEPT !.pc = "gone", !.err = "none",
                                           !.status = IF tun[c].stop THEN "off" ELSE err])
       /\ UNCHANGED <<manager, outside>>

\* A tunnel that held for a good while is not shown as trouble until the retry
\* has failed too.
Waits(c) ==
    LET err == tun[c].err
    IN /\ ~ tun[c].stop /\ ~ Pointless(err)
       /\ \E s \in IF err = "unpaid" THEN {"lapsed"} ELSE {"error", "connecting"} :
            Step(c, "decide", [tun[c] EXCEPT !.pc = "wait", !.err = "none",
                                             !.status = s])
       /\ UNCHANGED <<manager, outside>>

\* The timer, or RetryNow, which only shortens the wait; the next attempt begins.
WaitEnds(c) ==
    /\ Step(c, "wait", [tun[c] EXCEPT !.pc = "dial", !.status = "connecting"])
    /\ UNCHANGED <<manager, outside>>

WaitStopped(c) ==
    /\ tun[c].stop
    /\ Step(c, "wait", [tun[c] EXCEPT !.pc = "gone", !.status = "off"])
    /\ UNCHANGED <<manager, outside>>

-----------------------------------------------------------------------------
(* The relay and the network. *)

Trouble == troubles > 0 /\ troubles' = troubles - 1 /\ UNCHANGED manager

\* A host's tunnel is closed with a reason, and later ones refused for it.
RelayRefuses(h) ==
    /\ relay[h] = "known" /\ Trouble
    /\ \E why \in {"revoked", "unpaid"} :
         /\ relay' = [relay EXCEPT ![h] = why]
         /\ tun' = [c \in Tunnels |-> IF c = slot[h] /\ tun[c].wire = "open"
                                        THEN [tun[c] EXCEPT !.wire = why] ELSE tun[c]]
    /\ UNCHANGED <<slot, reachable>>

\* The account is paid for.
Paid(h) ==
    /\ relay[h] = "unpaid"
    /\ relay' = [relay EXCEPT ![h] = "known"]
    /\ UNCHANGED <<manager, tun, slot, reachable, troubles>>

\* Another Flockdeck of this machine connects, a connection drops, or goes quiet.
TunnelSuffers(c) ==
    /\ tun[c].wire = "open" /\ Trouble
    /\ \E how \in {"replaced", "dropped", "quiet"} : tun' = [tun EXCEPT ![c].wire = how]
    /\ UNCHANGED <<relay, slot, reachable>>

Unreachable ==
    /\ reachable /\ Trouble
    /\ reachable' = FALSE
    /\ UNCHANGED <<tun, relay, slot>>

Reachable ==
    /\ ~ reachable
    /\ reachable' = TRUE
    /\ UNCHANGED <<manager, tun, relay, slot, troubles>>

-----------------------------------------------------------------------------
(* Manager *)

\* A step of u's call at pc, the connectors and the outside left alone.
Call(u, pc, to) ==
    /\ user[u].pc = pc
    /\ user' = [user EXCEPT ![u] = to]
    /\ UNCHANGED outside

Begins(u, pc) ==
    /\ calls < MaxCalls /\ calls' = calls + 1
    /\ Call(u, "idle", [Idle EXCEPT !.pc = pc])

At(u, pc) == [user[u] EXCEPT !.pc = pc]
Lock(u) == reloading = NoUser /\ reloading' = u

\* Enable, Disable, Move, Remove or Clear saves the enrolment, here or in another
\* process that then asks for a reload; a new enrolment is a new host.
Enrolments ==
    {NoFile, On(file.host), Off(file.host)} \cup {On(h) : h \in {x \in Hosts : x = file.host + 1}}

FileChanges(u) ==
    /\ Begins(u, "reload")
    /\ file' \in Enrolments \ {file, On(0), Off(0)}
    /\ UNCHANGED <<cfg, conn, closed, reloading, enrolling, unread, made, tun>>

\* Reconnect, of a tunnel that has given up, or a command's request for a reload.
ReloadAsked(u) ==
    /\ Begins(u, "reload")
    /\ UNCHANGED <<file, cfg, conn, closed, reloading, enrolling, unread, made, tun>>

\* Whether Close has been called is not asked.
MayAlwaysReload == TRUE

\* Whether Reload goes on, with the lock.
MayReload == ~ closed

\* Reload takes the lock, and reads the enrolment unless the manager is closed
\* or the file cannot be read.
ReloadLocks(u) ==
    /\ Lock(u)
    /\ \/ MayReload /\ Call(u, "reload", [At(u, "look") EXCEPT !.cfg = file]) /\ unread' = FALSE
       \/ MayReload /\ Call(u, "reload", At(u, "unlock")) /\ unread' = TRUE
       \/ closed /\ Call(u, "reload", At(u, "unlock")) /\ UNCHANGED unread
    /\ UNCHANGED <<file, cfg, conn, closed, enrolling, calls, made, tun>>

\* The states in which a tunnel has not given up.
Trying == {"connecting", "connected", "error"}

\* A tunnel that has not given up is left alone, whatever enrolment it was for.
KeepsAny(new) == Wanted(new) /\ conn # 0 /\ tun[conn].status \in Trying

\* A tunnel that matches the enrolment and has not given up is left alone.
Keeps(new) ==
    /\ Wanted(new) /\ new = cfg
    /\ conn # 0 /\ tun[conn].status \in Trying

ReloadKeeps(u) ==
    /\ Keeps(user[u].cfg)
    /\ Call(u, "look", At(u, "unlock"))
    /\ UNCHANGED <<file, cfg, conn, closed, reloading, enrolling, unread, calls, made, tun>>

\* A new connector takes the old one's place, or nothing does.
ReloadReplaces(u) ==
    LET new == user[u].cfg
        next == IF Wanted(new) THEN made + 1 ELSE 0
    IN /\ ~ Keeps(new) /\ (Wanted(new) => made < MaxTunnels)
       /\ Call(u, "look", [At(u, "start") EXCEPT !.old = conn, !.next = next])
       /\ cfg' = new /\ conn' = next
       /\ made' = IF next = 0 THEN made ELSE next
       /\ tun' = IF next = 0 THEN tun ELSE [tun EXCEPT ![next].host = new.host]
       /\ UNCHANGED <<file, closed, reloading, enrolling, unread, calls>>

\* Connector.Start of the new one, before the old one is stopped.
ReloadStarts(u) ==
    /\ Call(u, "start", At(u, "stop"))
    /\ tun' = IF user[u].next = 0 THEN tun
              ELSE [tun EXCEPT ![user[u].next].pc = "dial", ![user[u].next].status = "connecting"]
    /\ UNCHANGED <<file, cfg, conn, closed, reloading, enrolling, unread, calls, made>>

\* Connector.Stop asks, if there is something started to stop,
Stops(u) ==
    /\ Call(u, "stop", At(u, "stopping"))
    /\ tun' = IF user[u].old = 0 THEN tun ELSE [tun EXCEPT ![user[u].old].stop = TRUE]
    /\ UNCHANGED <<file, cfg, conn, closed, reloading, enrolling, unread, calls, made>>

\* and waits for its goroutine.
Gone(c) == c # 0 => tun[c].pc \in {"new", "gone"}

Stopped(u) ==
    /\ Gone(user[u].old)
    /\ Call(u, "stopping", At(u, "unlock"))
    /\ UNCHANGED <<file, cfg, conn, closed, reloading, enrolling, unread, calls, made, tun>>

Unlocks(u) ==
    /\ Call(u, "unlock", Idle)
    /\ reloading' = NoUser
    /\ enrolling' = IF enrolling = u THEN NoUser ELSE enrolling
    /\ UNCHANGED <<file, cfg, conn, closed, unread, calls, made, tun>>

\* Remove stops the tunnel before it tells the relay; one Remove at a time.
RemoveLocks(u) ==
    /\ enrolling = NoUser /\ enrolling' = u
    /\ Begins(u, "asking") /\ Lock(u)
    /\ UNCHANGED <<file, cfg, conn, closed, unread, made, tun>>

RemoveStops(u) ==
    /\ Call(u, "asking", [At(u, "asked") EXCEPT !.old = conn])
    /\ tun' = IF conn = 0 THEN tun ELSE [tun EXCEPT ![conn].stop = TRUE]
    /\ UNCHANGED <<file, cfg, conn, closed, reloading, enrolling, unread, calls, made>>

RemoveStopped(u) ==
    /\ Gone(user[u].old)
    /\ Call(u, "asked", At(u, "remove"))
    /\ reloading' = NoUser
    /\ UNCHANGED <<file, cfg, conn, closed, enrolling, unread, calls, made, tun>>

\* The relay is told and the enrolment forgotten, or it is kept; Reload follows.
Removes(u) ==
    /\ user[u].pc = "remove"
    /\ user' = [user EXCEPT ![u] = [Idle EXCEPT !.pc = "reload"]]
    /\ \/ /\ file' = NoFile
          /\ relay' = IF file.host = 0 THEN relay ELSE [relay EXCEPT ![file.host] = "revoked"]
       \/ UNCHANGED <<file, relay>>
    /\ UNCHANGED <<cfg, conn, closed, reloading, enrolling, unread, calls, made, tun, slot, reachable, troubles>>

\* Close forgets the tunnel, then stops it.
Closes(u) ==
    /\ Begins(u, "closing") /\ Lock(u)
    /\ closed' = TRUE
    /\ UNCHANGED <<file, cfg, conn, enrolling, unread, made, tun>>

CloseForgets(u) ==
    /\ Call(u, "closing", [At(u, "stop") EXCEPT !.old = conn])
    /\ conn' = 0
    /\ UNCHANGED <<file, cfg, closed, reloading, enrolling, unread, calls, made, tun>>

-----------------------------------------------------------------------------
\* The steps of c's goroutines.
Runs(c) ==
    \/ Refused(c) \/ DialFails(c) \/ DialStopped(c) \/ Connects(c)
    \/ ReadFails(c) \/ KeepaliveCloses(c) \/ ServeCloses(c)
    \/ SelectStop(c) \/ SelectClosed(c) \/ SelectFailed(c)
    \/ Leaves(c) \/ Waits(c) \/ WaitEnds(c) \/ WaitStopped(c)

\* The steps of a call under way.
Goes(u) ==
    \/ ReloadLocks(u) \/ ReloadKeeps(u) \/ ReloadReplaces(u) \/ ReloadStarts(u)
    \/ Stops(u) \/ Stopped(u) \/ Unlocks(u)
    \/ RemoveStops(u) \/ RemoveStopped(u) \/ Removes(u) \/ CloseForgets(u)

Asks(u) ==
    FileChanges(u) \/ ReloadAsked(u) \/ RemoveLocks(u) \/ Closes(u)

Next ==
    \/ \E c \in Tunnels : Accepts(c) \/ Runs(c) \/ TunnelSuffers(c)
    \/ \E h \in Hosts : RelayRefuses(h) \/ Paid(h)
    \/ Unreachable \/ Reachable
    \/ \E u \in Users : Asks(u) \/ Goes(u)

Spec == Init /\ [][Next]_vars

\* Goroutines run, timers fire, a dial is answered or times out; the relay may
\* stay unreachable or unpaid, and nobody has to call.  A lock is handed to who waits.
FairSpec ==
    /\ Spec
    /\ \A c \in Tunnels : WF_vars(Accepts(c) \/ Runs(c))
    /\ \A u \in Users : WF_vars(Goes(u)) /\ SF_vars(ReloadLocks(u))

-----------------------------------------------------------------------------
Config == [host : 0..MaxHosts, off : BOOLEAN]
CallPcs == {"idle", "reload", "look", "start", "stop", "stopping", "unlock",
            "asking", "asked", "remove", "closing"}
CallType == [pc : CallPcs, cfg : Config, old : 0..MaxTunnels, next : 0..MaxTunnels]
TunnelType ==
    [host : 0..MaxHosts, pc : {"new", "dial", "serve", "decide", "wait", "gone"},
     stop : BOOLEAN, shut : BOOLEAN,
     status : {"off", "lapsed", "revoked", "replaced"} \cup Trying,
     wire : {"none", "open", "revoked", "replaced", "unpaid", "dropped", "quiet"},
     first : {"none", "revoked", "replaced", "unpaid", "dropped"},
     err : {"none", "stopped", "lost", "revoked", "replaced", "unpaid"}]

\* Every variable has its type.
ManagerType ==
    /\ file \in Config /\ cfg \in Config /\ conn \in 0..MaxTunnels /\ made \in 0..MaxTunnels
    /\ closed \in BOOLEAN /\ unread \in BOOLEAN /\ calls \in 0..MaxCalls
    /\ reloading \in Users \cup {NoUser} /\ enrolling \in Users \cup {NoUser}
    /\ user \in [Users -> CallType]
OutsideType ==
    /\ relay \in [Hosts -> {"known", "unpaid", "revoked"}] /\ slot \in [Hosts -> 0..MaxTunnels]
    /\ reachable \in BOOLEAN /\ troubles \in 0..MaxTroubles
TypeOK == ManagerType /\ OutsideType /\ tun \in [Tunnels -> TunnelType]

\* A tunnel whose reading failed because the relay revoked this machine or let
\* another Flockdeck take its place is never dialled again, whichever of the
\* signals of its end the select takes.
ToldOff(t) == t.pc = "serve" /\ t.first \in {"revoked", "replaced"}
GivesUpForGood ==
    [][\A c \in Tunnels :
         ToldOff(tun[c]) => \/ ToldOff(tun'[c])
                            \/ tun'[c].err \in {"revoked", "replaced", "stopped"}]_vars

\* Every tunnel that is open or may open is the manager's, or its Stop is on its
\* way under the lock: none is left behind by a reload, and none runs once
\* Close has returned.
Lives(c) == tun[c].pc \notin {"new", "gone"}
OnlyTheManagersTunnel ==
    \A c \in Tunnels : Lives(c) =>
        \/ c = conn /\ (closed => reloading # NoUser)
        \/ reloading # NoUser /\ user[reloading].old = c

\* With no call under way, and unless the enrolment could not be read, the
\* tunnel is the one the enrolment on disk asks for: opened if it is on, to its
\* host and not told to stop, and none if it is off or gone.
Busy == \E u \in Users : user[u].pc # "idle"
TunnelMatches ==
    ~ closed /\ ~ Busy /\ ~ unread /\ calls > 0 =>
        /\ cfg = file
        /\ Wanted(cfg) <=> conn # 0
        /\ conn # 0 => tun[conn].host = cfg.host /\ ~ tun[conn].stop

\* Once the relay is reachable, knows the host, is paid and troubles it no more,
\* the tunnel of a machine that is left alone is connected, unless the relay had
\* told it not to come back.
Served ==
    /\ conn # 0 /\ ~ closed /\ reachable /\ relay[tun[conn].host] = "known"
    /\ ~ Busy /\ ~ unread
TunnelComesUp ==
    <>[]Served => <>[](conn # 0 /\ tun[conn].status \in {"connected", "revoked", "replaced"})

-----------------------------------------------------------------------------
(* The inductive invariants the proofs of RemoteTunnelProofs rest on. *)

\* A call holds Manager.reloading from its lock to its unlock.
Locked == {"look", "start", "stop", "stopping", "unlock", "asking", "asked", "closing"}
LockInv ==
    /\ reloading # NoUser => user[reloading].pc \in Locked
    /\ \A u \in Users : user[u].pc \in Locked => reloading = u

\* Connectors are made in order, and those not made yet are untouched.
MadeInv ==
    /\ conn <= made
    /\ \A c \in Tunnels : c > made => tun[c] = NoTunnel
    /\ \A u \in Users : user[u].old <= made /\ user[u].next <= made
    /\ \A h \in Hosts : slot[h] <= made

\* What each call holds: the connector it replaced or stops, and the one to start.
Holds(u) ==
    /\ user[u].pc \in {"idle", "reload", "look", "asking", "closing"} => user[u].old = 0
    /\ user[u].pc \in {"look", "start"} => ~ closed
    /\ user[u].pc = "closing" => closed
    /\ user[u].pc = "start" => user[u].next = conn /\ (conn # 0 => tun[conn].pc = "new")
    /\ user[u].pc \in {"start", "stop", "stopping"} => user[u].old = 0 \/ user[u].old # conn
    /\ user[u].pc = "unlock" => Gone(user[u].old)
    /\ user[u].pc = "asked" => user[u].old = conn
CallInv == \A u \in Users : Holds(u)

\* Close has forgotten the tunnel by the time it lets go of the lock.
ClosedInv == closed /\ conn # 0 => reloading # NoUser /\ user[reloading].pc = "closing"

\* The manager's enrolment is the one on disk, or some call has yet to look.
Somebody(pcs) == \E u \in Users : user[u].pc \in pcs
FileInv ==
    /\ calls > 0 /\ ~ closed /\ ~ unread =>
          cfg = file \/ Somebody({"asking", "asked", "remove", "reload", "look"})
    /\ \A u \in Users : user[u].pc = "look" => user[u].cfg = file \/ Somebody({"reload"})

\* The connector is the one that enrolment asks for; one that was told to stop
\* is over and about to be replaced.
ConnInv ==
    /\ ~ closed => (Wanted(cfg) <=> conn # 0)
    /\ conn # 0 => tun[conn].host = cfg.host
    /\ \A c \in Tunnels : tun[c].pc = "gone" => tun[c].status \notin Trying
    /\ conn # 0 /\ tun[conn].pc = "new" => reloading # NoUser /\ user[reloading].pc = "start"
    /\ conn # 0 /\ tun[conn].stop =>
          \/ reloading # NoUser /\ user[reloading].pc = "asked"
          \/ tun[conn].pc = "gone" /\ (closed \/ unread \/ Somebody({"remove", "reload", "look"}))
=============================================================================
