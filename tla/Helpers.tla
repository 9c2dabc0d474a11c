------------------------------- MODULE Helpers -------------------------------
(***************************************************************************)
(* One helper app of a Flockdeck: the supervisor that starts, watches,     *)
(* restarts and stops its process, the installer that swaps a new version  *)
(* in, the uninstall, the record run.json, and what a crash of Flockdeck   *)
(* leaves for the next one (src/internal/helpers).                         *)
(*                                                                         *)
(* Flockdeck may crash between any two steps and is started again; its     *)
(* helper's process outlives it (Linux, macOS).  An instance is one        *)
(* accepted Start.  A second Flockdeck and the command line, which share   *)
(* the files and no lock, are left out.                                    *)
(***************************************************************************)
EXTENDS Naturals, FiniteSetsExt

CONSTANTS
    Callers,      \* goroutines that call Supervisor.Start
    Stoppers,     \* goroutines that call Supervisor.Stop (StopAll is one Stop of each helper)
    MaxStarts,    \* bound: instances, over all lives of Flockdeck
    PortTries,    \* Timings.PortTries
    MaxRestarts,  \* Timings.MaxRestarts
    MaxVersion,   \* the newest release; versions are 1..MaxVersion
    MaxFailures,  \* bound: writes and removals of files that fail
    MaxEvents     \* bound: installs, uninstalls, crashes and damaged files

ASSUME HelpersAssumption ==
    /\ {MaxStarts, PortTries, MaxVersion} \subseteq Nat \ {0}
    /\ {MaxRestarts, MaxFailures, MaxEvents} \subseteq Nat

VARIABLES
    up,        \* Flockdeck: "down", "reaping" (startHelpers before SetHelpers) or "up"
    born,      \* the first instance number of this life; smaller ones are of earlier lives
    n,         \* the newest instance, 0 before the first
    inst,      \* Supervisor's instances, with the goroutine run(in) and the child of each
    record,    \* run.json
    cleaning,  \* clearRun's background retry: "no", "wait" or "remove"
    caller,    \* where each Start is
    stopper,   \* the instance each Stop waits for, 0 when none
    cur,       \* current.json's version, 0 when there is none
    dir,       \* versions/<v>: "none", "good" or "bad" (does not pass VerifyInstall)
    mark,      \* trust.json's high-water version, 0 when there is none
    ins,       \* the install under way
    un,        \* the uninstall under way: "idle", "versions" or "files"
    failures,  \* how many file operations may still fail
    events,    \* how many installs, uninstalls, crashes and damaged files may still come
    excused,   \* run.json was not written or removed as asked, or an uninstall took it from a start
    owed       \* a good version was installed, and nobody removed or changed it since

vars == <<up, born, n, inst, record, cleaning, caller, stopper,
          cur, dir, mark, ins, un, failures, events, excused, owed>>
life == <<up, born, events>>
calls == <<caller, stopper>>
disk == <<cur, dir, mark>>
run == <<record, cleaning, excused>>
installs == <<ins, un, owed>>

Instances == 1..MaxStarts
Versions == 1..MaxVersion
Final == {"stopped", "failed"}

-----------------------------------------------------------------------------
(* What the parts ask each other. *)

\* Supervisor.Active, and isActive, which the store asks.
Active == n >= born /\ inst[n].state \notin Final

Alive(i) == inst[i].child = "alive"

\* Store.RunningPID: a starting record counts while the Flockdeck that wrote it
\* runs, unless it is a leftover of this one; a pid while it is that process.
Running ==
    \/ record.kind = "starting" /\ record.of >= born /\ Active
    \/ record.kind = "pid" /\ Alive(record.of)

\* Store.Current: a version with no folder counts as not installed.
Current == IF cur # 0 /\ dir[cur] # "none" THEN cur ELSE 0

\* VerifyInstall passes.
Good == Current # 0 /\ dir[cur] = "good"

\* Installer.Installing.
Installing == ins.pc \notin {"idle", "planned"}

NoRecord == [kind |-> "none", of |-> 0]
Starting(i) == [kind |-> "starting", of |-> i]
Process(i) == [kind |-> "pid", of |-> i]

NoInstance == [state |-> "stopped", pc |-> "done", stop |-> FALSE, child |-> "none",
               named |-> FALSE, out |-> "none", tries |-> 0, crashes |-> 0]
NewInstance == [NoInstance EXCEPT !.state = "starting", !.pc = "verify", !.tries = 1]
NoInstall == [pc |-> "idle", v |-> 1, prev |-> 0, repair |-> FALSE, aside |-> "none", alone |-> TRUE]

\* One of the events that are bounded happens.
Happens == events > 0 /\ events' = events - 1

\* An operation on a file fails.
Fails == failures > 0 /\ failures' = failures - 1

\* writeRun, whose failure is ignored or only logged.
WriteRun(r) ==
    /\ \/ record' = r /\ UNCHANGED <<failures, excused>>
       \/ Fails /\ excused' = TRUE /\ UNCHANGED record
    /\ UNCHANGED cleaning

\* clearRun: whoever's record it is goes; a removal that fails is retried later.
ClearRun ==
    \/ record' = NoRecord /\ UNCHANGED <<cleaning, failures, excused>>
    \/ /\ record # NoRecord
       /\ Fails /\ excused' = TRUE /\ cleaning' = "wait"
       /\ UNCHANGED record

-----------------------------------------------------------------------------
Init ==
    /\ up = "down" /\ born = 1 /\ n = 0
    /\ inst = [i \in Instances |-> NoInstance]
    /\ record = NoRecord /\ cleaning = "no" /\ excused = FALSE
    /\ caller = [c \in Callers |-> "idle"]
    /\ stopper = [s \in Stoppers |-> 0]
    /\ cur \in {0, 1} /\ mark = cur
    /\ dir = [v \in Versions |-> IF v = cur THEN "good" ELSE "none"]
    /\ ins = NoInstall /\ un = "idle" /\ owed = Good
    /\ failures = MaxFailures /\ events = MaxEvents

-----------------------------------------------------------------------------
(* Flockdeck: a crash, the next start and its reaper. *)

\* What a crash leaves of an instance: its process.
Orphaned(in) == [NoInstance EXCEPT !.child = in.child, !.named = in.named]

Crash ==
    /\ up # "down" /\ Happens
    /\ up' = "down"
    /\ inst' = [i \in Instances |-> Orphaned(inst[i])]
    /\ born' = n + 1
    /\ caller' = [c \in Callers |-> "idle"]
    /\ stopper' = [s \in Stoppers |-> 0]
    /\ cleaning' = "no" /\ ins' = NoInstall /\ un' = "idle"
    /\ UNCHANGED <<n, record, disk, failures, excused, owed>>

Boot ==
    /\ up = "down" /\ up' = "reaping"
    /\ UNCHANGED <<born, events, n, inst, run, calls, disk, installs, failures>>

\* ReapStale leaves everything alone while another Flockdeck runs.
ReapSkipped ==
    /\ up = "reaping" /\ up' = "up"
    /\ UNCHANGED <<born, events, n, inst, run, calls, disk, installs, failures>>

\* ReapStale ends the process the record names, if it is still that process.
ReapKills ==
    /\ up = "reaping"
    /\ record.kind = "pid" /\ Alive(record.of)
    /\ inst' = [inst EXCEPT ![record.of].child = "dead"]
    /\ UNCHANGED <<life, n, run, calls, disk, installs, failures>>

\* ... and removes the record, of a process that has gone or a start nobody is at.
ReapClears ==
    /\ up = "reaping" /\ up' = "up"
    /\ record.kind = "pid" => ~ Alive(record.of)
    /\ ClearRun
    /\ UNCHANGED <<born, events, n, inst, calls, disk, installs>>

\* clearRun's goroutine looks whether a run began since.
CleanLooks ==
    /\ cleaning = "wait"
    /\ cleaning' = IF Active THEN "no" ELSE "remove"
    /\ UNCHANGED <<life, n, inst, record, excused, calls, disk, installs, failures>>

\* ... and removes the record, which fails for as long as it fails, or a minute.
CleanRemoves ==
    /\ cleaning = "remove"
    /\ \/ record' = NoRecord /\ cleaning' = "no"
       \/ cleaning' \in {"wait", "no"} /\ UNCHANGED record
    /\ UNCHANGED <<life, n, inst, excused, calls, disk, installs, failures>>

-----------------------------------------------------------------------------
(* Supervisor.Start *)

\* Installed, and no install under way.
StartLooks(c) ==
    /\ up = "up" /\ caller[c] = "idle" /\ n < MaxStarts
    /\ Current # 0 /\ ~ Installing
    /\ caller' = [caller EXCEPT ![c] = "verify"]
    /\ UNCHANGED <<life, n, inst, run, stopper, disk, installs, failures>>

\* VerifyInstall, without the lock; a refusal returns.
StartVerifies(c) ==
    /\ caller[c] = "verify"
    /\ caller' = [caller EXCEPT ![c] = IF Good THEN "take" ELSE "idle"]
    /\ UNCHANGED <<life, n, inst, run, stopper, disk, installs, failures>>

\* Without the second look at InstallBusy.
MayStartUnseen == ~ Active /\ ~ Running

\* Nothing is in the way of a start that holds s.mu and has verified the install.
MayStart == ~ Installing /\ ~ Active /\ ~ Running

\* Under s.mu: an instance of its own and a starting record, or what is in the way.
StartTakes(c) ==
    /\ caller[c] = "take"
    /\ caller' = [caller EXCEPT ![c] = "idle"]
    /\ IF MayStart /\ n < MaxStarts
         THEN /\ n' = n + 1
              /\ inst' = [inst EXCEPT ![n + 1] = NewInstance]
              /\ WriteRun(Starting(n + 1))
         ELSE UNCHANGED <<n, inst, run, failures>>
    /\ UNCHANGED <<life, stopper, disk, installs>>

-----------------------------------------------------------------------------
(* Supervisor.Stop *)

\* A stop asked only of an instance that runs.
AskedIfRunning(in) == [in EXCEPT !.stop = in.state = "running"]

Asked(in) == [in EXCEPT !.stop = TRUE]

StopAsks(s) ==
    /\ up = "up" /\ stopper[s] = 0
    /\ n >= born /\ inst[n].pc # "done"
    /\ inst' = [inst EXCEPT ![n] = Asked(@)]
    /\ stopper' = [stopper EXCEPT ![s] = n]
    /\ UNCHANGED <<life, n, run, caller, disk, installs, failures>>

\* in.done is closed.
StopReturns(s) ==
    /\ stopper[s] # 0 /\ inst[stopper[s]].pc = "done"
    /\ stopper' = [stopper EXCEPT ![s] = 0]
    /\ UNCHANGED <<life, n, inst, run, caller, disk, installs, failures>>

-----------------------------------------------------------------------------
(* Supervisor.run and runOnce: the goroutine of instance i. *)

\* The step of i's goroutine at pc, which leaves the files alone.
Step(i, pc, in) ==
    /\ up = "up" /\ i \in born..n /\ inst[i].pc = pc
    /\ inst' = [inst EXCEPT ![i] = in]
    /\ UNCHANGED <<life, n, run, calls, disk, installs, failures>>

\* The step of i's goroutine at pc that writes or clears the record.
FileStep(i, pc, in) ==
    /\ up = "up" /\ i \in born..n /\ inst[i].pc = pc
    /\ inst' = [inst EXCEPT ![i] = in]
    /\ UNCHANGED <<life, n, calls, disk, installs>>

\* The run ends before or with its child: to the deferred writes, or past them.
Ended(in, out, pc) == [in EXCEPT !.out = out, !.pc = pc]

\* A port, the binary's path and VerifyInstall again.
Verifies(i) ==
    Step(i, "verify", IF Good THEN [inst[i] EXCEPT !.pc = "launch"]
                      ELSE Ended(inst[i], "fatal", "decide"))

\* The port, the folders, the pipes or the program itself fail.
CannotLaunch(i) == Step(i, "launch", Ended(inst[i], "fatal", "decide"))

Launches(i) == Step(i, "launch", [inst[i] EXCEPT !.pc = "record", !.child = "alive"])

\* run.json names the process.
Records(i) ==
    /\ FileStep(i, "record", [inst[i] EXCEPT !.pc = "ready", !.named = TRUE])
    /\ WriteRun(Process(i))

\* The banner, the ready path and the port's owner.
IsReady(i) ==
    /\ Alive(i)
    /\ Step(i, "ready", [inst[i] EXCEPT !.pc = "watch", !.state = "running", !.tries = 0])

\* The wrong banner, none, no answer in time (fatal), or another program's port:
\* killNow, and another port for the last.
NotReady(i) == \E out \in {"fatal", "early"} : Step(i, "ready", Ended(inst[i], out, "end"))

\* killNow of a helper that stopped answering.
Unresponsive(i) ==
    Step(i, "watch", [Ended(inst[i], "ready", "end") EXCEPT !.state = "unresponsive"])

\* stop: the interrupt, the grace and the kill come in Ends.
StopSeen(i) ==
    /\ inst[i].stop
    /\ \E pc \in {"ready", "watch"} :
         Step(i, pc, [Ended(inst[i], "stopped", "end") EXCEPT !.state = "stopping"])

\* The child has exited on its own.
Exited(i) ==
    /\ inst[i].child = "dead"
    /\ \/ Step(i, "ready", Ended(inst[i], "early", "after"))
       \/ Step(i, "watch", Ended(inst[i], "ready", "after"))

\* The goroutine goes on and leaves its child.
LeftAlone(in) == [in EXCEPT !.pc = "after"]

\* A killed child, waited for.
Killed(in) == [in EXCEPT !.child = "dead", !.pc = "after"]

Ends(i) == Step(i, "end", Killed(inst[i]))

\* runOnce's deferred function: the start is still under way.
After(i) ==
    /\ FileStep(i, "after", [inst[i] EXCEPT !.pc = "decide", !.child = IF @ = "dead" THEN "none" ELSE @,
                                            !.named = FALSE])
    /\ WriteRun(Starting(i))

\* Whether another port may be tried, counted from the one before.
TriesLeftLate(in) == in.tries <= PortTries

\* Another port may be tried.
TriesLeft(in) == in.tries < PortTries

\* It exited before it was ready: another port, at once.
TriesAgain(i) ==
    /\ inst[i].out = "early" /\ TriesLeft(inst[i])
    /\ Step(i, "decide", [inst[i] EXCEPT !.pc = "verify", !.out = "none", !.tries = @ + 1])

\* The crashes in the window, this one included: older ones may have left it.
Kept(in) == 1..(in.crashes + 1)

\* A crash: the next start comes after a delay.
Restarts(i) ==
    /\ inst[i].out = "ready"
    /\ \E c \in Kept(inst[i]) :
         /\ c <= MaxRestarts
         /\ Step(i, "decide", [inst[i] EXCEPT !.pc = "backoff", !.state = "starting",
                                            !.out = "none", !.crashes = c])

\* The timer has fired and nothing has asked for a stop before it.
BackoffEnds(i) ==
    /\ ~ inst[i].stop
    /\ Step(i, "backoff", [inst[i] EXCEPT !.pc = "verify", !.tries = 1])

BackoffStopped(i) ==
    /\ inst[i].stop
    /\ Step(i, "backoff", [Ended(inst[i], "stopped", "clear") EXCEPT !.crashes = 0])

\* The lifecycle is over, and its state changed before the record goes.
OverAtOnce(in) ==
    [in EXCEPT !.pc = "clear", !.tries = 0, !.crashes = 0,
               !.state = IF in.out = "stopped" THEN "stopped" ELSE "failed"]

\* ... its state still to come.
Over(in) == [in EXCEPT !.pc = "clear", !.tries = 0, !.crashes = 0]

\* fail, or stopped as asked.
GivesUp(i) ==
    /\ \/ inst[i].out \in {"stopped", "fatal"}
       \/ inst[i].out = "early" /\ ~ TriesLeft(inst[i])
       \/ inst[i].out = "ready" /\ MaxRestarts + 1 \in Kept(inst[i])
    /\ Step(i, "decide", Over(inst[i]))

\* clearRun, before the state changes.
Clears(i) ==
    /\ FileStep(i, "clear", [inst[i] EXCEPT !.pc = "settle"])
    /\ ClearRun

Settles(i) ==
    Step(i, "settle", [inst[i] EXCEPT !.pc = "close",
                                      !.state = IF inst[i].out = "stopped" THEN "stopped" ELSE "failed"])

\* The deferred close of done.
Closes(i) == Step(i, "close", [NoInstance EXCEPT !.state = inst[i].state])

\* The helper's process ends by itself, in whichever life it was started.
ChildDies(i) ==
    /\ Alive(i)
    /\ inst' = [inst EXCEPT ![i].child = "dead"]
    /\ UNCHANGED <<life, n, run, calls, disk, installs, failures>>

-----------------------------------------------------------------------------
(* Installer.Plan and InstallPlan *)

\* A step of the install at pc.
Install(pc, to) ==
    /\ up = "up" /\ ins.pc = pc
    /\ ins' = to
    /\ UNCHANGED <<up, born, n, inst, run, calls, un>>

At(pc) == [ins EXCEPT !.pc = pc]

\* PlanVersion for the window, which never goes backwards: a newer version than
\* the one installed and no older than the mark, or the installed one repaired.
Plannable(v) == IF v = Current THEN ~ Good ELSE v > Current /\ v >= mark

Plans(v) ==
    /\ ~ Active /\ Plannable(v) /\ Happens
    /\ Install("idle", [NoInstall EXCEPT !.pc = "planned", !.v = v, !.prev = Current,
                                         !.repair = v = Current])
    /\ UNCHANGED <<disk, owed, failures>>

\* begin, and then the look at busy.
InstallBegins == Install("planned", At("look")) /\ UNCHANGED <<disk, owed, failures, events>>

InstallLooks ==
    /\ Install("look", At(IF Active THEN "end" ELSE "check"))
    /\ UNCHANGED <<disk, owed, failures, events>>

\* RunningPID, and what is installed against the plan.
InstallChecks ==
    /\ Install("check", At(IF Running \/ Current # ins.prev \/ (~ ins.repair /\ ins.v < mark)
                             THEN "end" ELSE "fetch"))
    /\ UNCHANGED <<disk, owed, failures, events>>

\* The download, its checks and the unpacking, any of which may fail.
Fetches ==
    /\ \E pc \in {"aside", "end"} : Install("fetch", At(pc))
    /\ UNCHANGED <<disk, owed, failures, events>>

\* What is at the version's name goes aside.
MovesAside ==
    /\ IF Current = ins.v /\ ~ ins.repair
         THEN Install("aside", At("end")) /\ UNCHANGED dir
         ELSE /\ Install("aside", [At("swap") EXCEPT !.prev = Current, !.aside = dir[ins.v]])
              /\ dir' = [dir EXCEPT ![ins.v] = "none"]
    /\ UNCHANGED <<cur, mark, owed, failures, events>>

\* The new folder takes the name, or what was there gets it back.
Swaps ==
    /\ \/ /\ Install("swap", At("point"))
          /\ dir' = [dir EXCEPT ![ins.v] = "good"]
          /\ UNCHANGED failures
       \/ /\ Install("swap", At("end"))
          /\ dir' = [dir EXCEPT ![ins.v] = ins.aside]
          /\ Fails
    /\ UNCHANGED <<cur, mark, owed, events>>

\* current.json names it.
Points ==
    /\ \/ Install("point", At("mark")) /\ cur' = ins.v /\ UNCHANGED failures
       \/ Install("point", At("undo")) /\ Fails /\ UNCHANGED cur
    /\ UNCHANGED <<dir, mark, owed, events>>

\* A mark that cannot be raised: the install is undone at once.
MarkFailsAtOnce == "undo"

\* ... or the pointer is put back first.
MarkFails == "restore"

\* raiseHighWater.
Marks ==
    /\ \/ /\ Install("mark", At(IF ins.repair THEN "done" ELSE "prune"))
          /\ mark' = Max({mark, ins.v})
          /\ UNCHANGED failures
       \/ Install("mark", At(MarkFails)) /\ Fails /\ UNCHANGED mark
    /\ UNCHANGED <<cur, dir, owed, events>>

\* restoreCurrent, whose failure is ignored.
Restores ==
    /\ Install("restore", At("undo"))
    /\ \/ cur' = ins.prev /\ UNCHANGED failures
       \/ Fails /\ UNCHANGED cur
    /\ UNCHANGED <<dir, mark, owed, events>>

\* InstallPlan's deferred function: the folder goes, and what was aside comes back.
Undoes ==
    /\ Install("undo", At("end"))
    /\ dir' = [dir EXCEPT ![ins.v] = ins.aside]
    /\ UNCHANGED <<cur, mark, owed, failures, events>>

\* The versions prune keeps.
Keeps == {ins.v, ins.prev}

\* Every version goes but the new one and the one before it.
Prunes ==
    /\ Install("prune", At("done"))
    /\ dir' = [v \in Versions |-> IF v \in Keeps THEN dir[v] ELSE "none"]
    /\ UNCHANGED <<cur, mark, owed, failures, events>>

\* end.
InstallEnds ==
    /\ \/ Install("done", NoInstall) /\ owed' = (owed \/ ins.alone)
       \/ Install("end", NoInstall) /\ UNCHANGED owed
    /\ UNCHANGED <<disk, failures, events>>

-----------------------------------------------------------------------------
(* Store.Uninstall, from the window, and what others do to the files. *)

UninstallLooks ==
    /\ up = "up" /\ un = "idle" /\ Happens
    /\ ~ Installing /\ ~ Active /\ ~ Running
    /\ un' = "versions"
    /\ UNCHANGED <<up, born, n, inst, run, calls, disk, ins, owed, failures>>

\* The install under way is no longer the only one at the files.
Disturbed == ins' = [ins EXCEPT !.alone = FALSE]

UninstallVersions ==
    /\ un = "versions" /\ un' = "files"
    /\ dir' = [v \in Versions |-> "none"]
    /\ owed' = FALSE /\ Disturbed
    /\ UNCHANGED <<life, n, inst, run, calls, cur, mark, failures>>

\* current.json and run.json; trust.json stays.
UninstallFiles ==
    /\ un = "files" /\ un' = "idle"
    /\ cur' = 0 /\ record' = NoRecord
    /\ excused' = (excused \/ Active)
    /\ owed' = FALSE /\ Disturbed
    /\ UNCHANGED <<life, n, inst, cleaning, calls, dir, mark, failures>>

\* Something changes the installed program.
Damage ==
    /\ Good /\ Happens
    /\ dir' = [dir EXCEPT ![cur] = "bad"]
    /\ owed' = FALSE /\ Disturbed
    /\ UNCHANGED <<up, born, n, inst, run, calls, cur, mark, un, failures>>

-----------------------------------------------------------------------------
\* What the goroutine of instance i does because it must.
Goes(i) ==
    \/ Verifies(i) \/ Launches(i) \/ Records(i) \/ IsReady(i) \/ StopSeen(i)
    \/ Exited(i) \/ Ends(i) \/ After(i) \/ TriesAgain(i) \/ Restarts(i)
    \/ BackoffEnds(i) \/ BackoffStopped(i) \/ GivesUp(i)
    \/ Clears(i) \/ Settles(i) \/ Closes(i)

Installer ==
    \/ \E v \in Versions : Plans(v)
    \/ InstallBegins \/ InstallLooks \/ InstallChecks \/ Fetches \/ MovesAside \/ Swaps
    \/ Points \/ Marks \/ Restores \/ Undoes \/ Prunes \/ InstallEnds

Next ==
    \/ Crash \/ Boot \/ ReapSkipped \/ ReapKills \/ ReapClears
    \/ CleanLooks \/ CleanRemoves
    \/ \E c \in Callers : StartLooks(c) \/ StartVerifies(c) \/ StartTakes(c)
    \/ \E s \in Stoppers : StopAsks(s) \/ StopReturns(s)
    \/ \E i \in Instances : \/ Goes(i) \/ CannotLaunch(i) \/ NotReady(i) \/ Unresponsive(i)
                            \/ ChildDies(i)
    \/ Installer
    \/ UninstallLooks \/ UninstallVersions \/ UninstallFiles \/ Damage

Spec == Init /\ [][Next]_vars

\* Goroutines run, a killed process dies, and a wait for a banner or the ready
\* path ends; nobody must start, stop, install, crash or lose anything.
FairSpec ==
    /\ Spec
    /\ \A i \in Instances : WF_vars(Goes(i) \/ NotReady(i))
    /\ \A s \in Stoppers : WF_vars(StopReturns(s))

-----------------------------------------------------------------------------
Pcs == {"verify", "launch", "record", "ready", "watch", "end", "after", "decide",
        "backoff", "clear", "settle", "close", "done"}
InstanceType ==
    [state : {"starting", "running", "stopping", "unresponsive"} \cup Final,
     pc : Pcs, stop : BOOLEAN, child : {"none", "alive", "dead"}, named : BOOLEAN,
     out : {"none", "early", "ready", "fatal", "stopped"},
     tries : 0..PortTries, crashes : 0..MaxRestarts]
InstallPcs == {"idle", "planned", "look", "check", "fetch", "aside", "swap", "point", "mark",
               "restore", "undo", "prune", "done", "end"}
InstallType ==
    [pc : InstallPcs, v : Versions, prev : 0..MaxVersion, repair : BOOLEAN,
     aside : {"none", "good", "bad"}, alone : BOOLEAN]

\* Every variable has its type.
LifeType ==
    /\ up \in {"down", "reaping", "up"}
    /\ n \in 0..MaxStarts /\ born \in 1..(n + 1)
    /\ inst \in [Instances -> InstanceType]
    /\ stopper \in [Stoppers -> 0..n] /\ caller \in [Callers -> {"idle", "verify", "take"}]
RecordType ==
    /\ record \in [kind : {"none", "starting", "pid"}, of : 0..n]
    /\ cleaning \in {"no", "wait", "remove"} /\ excused \in BOOLEAN
DiskType ==
    /\ cur \in 0..MaxVersion /\ mark \in 0..MaxVersion
    /\ dir \in [Versions -> {"none", "good", "bad"}]
    /\ ins \in InstallType /\ un \in {"idle", "versions", "files"} /\ owed \in BOOLEAN
    /\ failures \in 0..MaxFailures /\ events \in 0..MaxEvents
TypeOK == LifeType /\ RecordType /\ DiskType

\* A process that this Flockdeck started and that lives is the newest
\* instance's, and nothing says that instance is over: Stop and a failure mean
\* that the process has gone, and two Starts never give two processes.
ChildIsWatched ==
    \A i \in born..n : Alive(i) => i = n /\ inst[i].state \notin Final

\* A recorded process is named by run.json for as long as it lives, through a
\* crash of Flockdeck too, so that the reaper ends it and a start, an install
\* and an uninstall are refused meanwhile -- unless the record could not be
\* written or removed, or an uninstall that looked before the start took it.
ChildIsNamed ==
    excused \/ \A i \in 1..n : Alive(i) /\ inst[i].named => record = Process(i)

\* With no start under way and no process alive, no record that was left keeps
\* a start, an install or an uninstall away (clearRun may have failed).
LeftoverNeverBlocks ==
    ~ Active /\ (\A i \in 1..n : ~ Alive(i)) => ~ Running

\* What run.json makes Flockdeck believe is so.
RecordIsTrue == ChildIsNamed /\ LeftoverNeverBlocks

\* The install moves folders only while no instance is under way and no
\* recorded process lives: the look at Active after begin and Start's second
\* look at InstallBusy under the lock close every gap together.
SwapsAlone ==
    ins.pc \in {"aside", "swap", "point", "mark", "restore", "undo", "prune"} =>
        /\ ~ Active
        /\ excused \/ \A i \in 1..n : ~ (Alive(i) /\ inst[i].named)

\* A good installed version stays, or gives way to another good one, through
\* every install that fails at any step and every crash, until somebody removes
\* or changes it.
InstalledStays == owed => Good

\* Supervisor.Stop returns.
StopIsOver == \A s \in Stoppers : stopper[s] # 0 ~> stopper[s] = 0

\* What run.go:35-38 says of the record: from the moment a start is asked for,
\* through every restart delay, it keeps an install and an uninstall away while
\* the program is checked and launched, or is about to be again.
StartIsSeen ==
    /\ up = "up" /\ ~ excused /\ Active
    /\ inst[n].pc \in {"verify", "launch", "record", "after", "backoff"}
    => Running

-----------------------------------------------------------------------------
(* The inductive invariants the proofs of HelpersProofs rest on. *)

\* Where an instance's goroutine is, and what it has by then.
Placed(in) ==
    /\ in.pc \in {"verify", "launch", "decide", "backoff", "clear", "settle", "close", "done"}
          => in.child = "none"
    /\ in.pc = "after" => in.child = "dead"
    /\ in.pc \notin {"ready", "watch", "end", "after"} => ~ in.named
    /\ in.state \in Final <=> in.pc \in {"close", "done"}

\* Of the instances of this life only the newest is not over.
GoroutineInv ==
    \A i \in born..n : Placed(inst[i]) /\ (i < n => inst[i].state \in Final)

\* A process that run.json was made to name.
NamedAlive(i) == Alive(i) /\ inst[i].named

\* No process of an earlier life lives once an instance has been started in this
\* one, or while an uninstall is under way: each looked before it began.
RecordInv ==
    /\ record.kind = "pid" => record.of # 0
    /\ cleaning # "no" => excused
    /\ ChildIsNamed
    /\ n >= born \/ un # "idle" => excused \/ \A i \in 1..(born - 1) : ~ NamedAlive(i)

\* What an install has found out by the time it is at each step.
SwapInv ==
    /\ ins.pc \in {"check", "fetch", "aside", "swap", "point", "mark", "restore", "undo", "prune"}
          => ~ Active
    /\ ins.pc \in {"fetch", "aside", "swap", "point", "mark", "restore", "undo", "prune"}
          => excused \/ \A i \in 1..n : ~ NamedAlive(i)

\* Where the installed version is while another one takes its place, and that
\* nobody else was at the files.
InstalledInv ==
    /\ owed => Good /\ ins.alone
    /\ ins.pc # "idle" /\ ins.repair => ~ owed
    /\ owed /\ ins.pc \in {"swap", "point", "undo"} => cur = ins.prev /\ ins.prev # ins.v
    /\ owed /\ ins.pc \in {"mark", "restore"} =>
          ins.prev \in Versions \ {ins.v} /\ dir[ins.prev] = "good"
    /\ ins.alone /\ ins.pc = "point" => dir[ins.v] = "good"
    /\ ins.alone /\ ins.pc \in {"mark", "prune", "done"} => dir[ins.v] = "good" /\ cur = ins.v
    /\ ins.pc = "restore" => failures < MaxFailures
=============================================================================
