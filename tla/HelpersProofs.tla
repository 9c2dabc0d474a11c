---------------------------- MODULE HelpersProofs ----------------------------
(* What is proved of Helpers, for any callers, stoppers, limits and versions.  *)
EXTENDS Helpers, TLAPS

\* The constants are numbers.
LEMMA Numbers ==
    /\ MaxStarts \in Nat /\ PortTries \in Nat /\ MaxVersion \in Nat /\ MaxRestarts \in Nat
    /\ MaxFailures \in Nat /\ MaxEvents \in Nat
    /\ MaxStarts >= 1 /\ PortTries >= 1 /\ MaxVersion >= 1
    /\ 0 \in 0..PortTries /\ 1 \in 0..PortTries /\ 0 \in 0..MaxRestarts
    /\ 1 \in 1..MaxVersion /\ 0 \in 0..MaxVersion
BY HelpersAssumption

\* The larger of two numbers.
LEMMA MaxOfTwo == ASSUME NEW a \in Nat, NEW b \in Nat PROVE Max({a, b}) = IF a >= b THEN a ELSE b
<1> DEFINE m == IF a >= b THEN a ELSE b
<1>1. m \in {a, b} /\ \A y \in {a, b} : m >= y OBVIOUS
<1>2. \A x \in {a, b} : (\A y \in {a, b} : x >= y) => x = m OBVIOUS
<1> HIDE DEF m
<1>3. Max({a, b}) = m BY <1>1, <1>2 DEF Max
<1> QED BY <1>3 DEF m

\* The step of a goroutine moves its instance and no other.
LEMMA StepType ==
    ASSUME LifeType, NEW i, NEW pc, NEW in \in InstanceType, Step(i, pc, in) \/ FileStep(i, pc, in)
    PROVE  LifeType'
BY DEF Step, FileStep, life, calls, LifeType, Instances

\* Writing and removing the record keeps its type.
LEMMA RecordTypes ==
    ASSUME TypeOK, NEW r \in {NoRecord} \cup {Starting(j) : j \in 0..n'} \cup {Process(j) : j \in 0..n'},
           n' \in Nat, n' >= n,
           WriteRun(r) \/ ClearRun
    PROVE  RecordType' /\ failures' \in 0..MaxFailures
<1>1. r \in [kind : {"none", "starting", "pid"}, of : 0..n']
  BY DEF NoRecord, Starting, Process
<1>2. record \in [kind : {"none", "starting", "pid"}, of : 0..n']
  BY DEF TypeOK, RecordType, LifeType
<1>3. NoRecord \in [kind : {"none", "starting", "pid"}, of : 0..n']
  BY DEF NoRecord
<1>4. failures \in 0..MaxFailures /\ (failures > 0 => failures - 1 \in 0..MaxFailures)
  BY Numbers DEF TypeOK, DiskType
<1>5. cleaning \in {"no", "wait", "remove"} /\ excused \in BOOLEAN BY DEF TypeOK, RecordType
<1> QED BY <1>1, <1>2, <1>3, <1>4, <1>5 DEF WriteRun, ClearRun, Fails, TypeOK, RecordType, DiskType

\* An install that only moves on keeps its type.
LEMMA AtType == ASSUME DiskType, NEW pc \in InstallPcs PROVE At(pc) \in InstallType
BY DEF At, DiskType, InstallType

\* An instance that is not there, a new one and no install have their types.
LEMMA NoTypes ==
    /\ NoInstance \in InstanceType
    /\ NewInstance \in InstanceType
    /\ NoInstall \in InstallType
BY Numbers DEF NoInstance, NewInstance, NoInstall, InstanceType, InstallType, Pcs, Final,
    InstallPcs, Versions

\* The instance after any step of its goroutine.
LEMMA GoroutineTypes ==
    ASSUME LifeType, NEW i \in Instances,
           \/ Goes(i) \/ CannotLaunch(i) \/ NotReady(i) \/ Unresponsive(i)
    PROVE  LifeType'
<1> DEFINE in == inst[i]
<1>1. in \in InstanceType BY DEF LifeType
<1>0. in.tries \in 0..PortTries /\ (in.tries < PortTries => in.tries + 1 \in 0..PortTries)
  BY <1>1, Numbers DEF InstanceType
<1>2. CASE Verifies(i)
  BY <1>1, <1>2, StepType DEF Verifies, Ended, InstanceType, Pcs, Final
<1>3. CASE Launches(i) \/ CannotLaunch(i)
  BY <1>1, <1>3, StepType DEF Launches, CannotLaunch, Ended, InstanceType, Pcs, Final
<1>4. CASE Records(i)
  BY <1>1, <1>4, StepType DEF Records, InstanceType, Pcs, Final
<1>5. CASE IsReady(i)
  BY <1>1, <1>5, StepType, Numbers DEF IsReady, InstanceType, Pcs, Final
<1>6. CASE NotReady(i) \/ Unresponsive(i)
  BY <1>1, <1>6, StepType DEF NotReady, Unresponsive, Ended, InstanceType, Pcs, Final
<1>7. CASE StopSeen(i)
  <2>1. [Ended(in, "stopped", "end") EXCEPT !.state = "stopping"] \in InstanceType
    BY <1>1 DEF Ended, InstanceType, Pcs, Final
  <2> QED BY <1>7, <2>1, StepType DEF StopSeen
<1>8. CASE Exited(i)
  BY <1>1, <1>8, StepType DEF Exited, Ended, InstanceType, Pcs, Final
<1>9. CASE Ends(i)
  BY <1>1, <1>9, StepType DEF Ends, Killed, InstanceType, Pcs, Final
<1>10. CASE After(i)
  BY <1>1, <1>10, StepType DEF After, InstanceType, Pcs, Final
<1>11. CASE TriesAgain(i)
  BY <1>1, <1>0, <1>11, StepType DEF TriesAgain, TriesLeft, InstanceType, Pcs, Final
<1>12. CASE Restarts(i)
  <2>1. PICK c \in Kept(in) :
          /\ c <= MaxRestarts
          /\ Step(i, "decide", [in EXCEPT !.pc = "backoff", !.state = "starting",
                                          !.out = "none", !.crashes = c])
    BY <1>12 DEF Restarts
  <2>2. c \in 0..MaxRestarts BY <1>1, <2>1, Numbers DEF Kept, InstanceType
  <2> QED BY <1>1, <2>1, <2>2, StepType DEF InstanceType, Pcs, Final
<1>13. CASE BackoffEnds(i) \/ BackoffStopped(i)
  <2>1. [in EXCEPT !.pc = "verify", !.tries = 1] \in InstanceType
    BY <1>1, Numbers DEF InstanceType, Pcs, Final
  <2>2. [Ended(in, "stopped", "clear") EXCEPT !.crashes = 0] \in InstanceType
    BY <1>1, Numbers DEF Ended, InstanceType, Pcs, Final
  <2> QED BY <1>13, <2>1, <2>2, StepType DEF BackoffEnds, BackoffStopped
<1>14. CASE GivesUp(i)
  BY <1>1, <1>14, StepType, Numbers DEF GivesUp, Over, InstanceType, Pcs, Final
<1>15. CASE Clears(i)
  BY <1>1, <1>15, StepType DEF Clears, InstanceType, Pcs, Final
<1>16. CASE Settles(i)
  BY <1>1, <1>16, StepType DEF Settles, InstanceType, Pcs, Final
<1>17. CASE Closes(i)
  BY <1>1, <1>17, StepType, Numbers DEF Closes, NoInstance, InstanceType, Pcs, Final
<1> QED BY <1>2, <1>3, <1>4, <1>5, <1>6, <1>7, <1>8, <1>9, <1>10, <1>11, <1>12, <1>13, <1>14,
           <1>15, <1>16, <1>17 DEF Goes

\* Every variable of a helper keeps its type.
THEOREM TypeCorrect == Spec => []TypeOK
<1>1. Init => TypeOK
  <2> SUFFICES ASSUME Init PROVE TypeOK
    OBVIOUS
  <2>1. n \in 0..MaxStarts /\ born \in 1..(n + 1) /\ 0 \in 0..n BY Numbers DEF Init
  <2>6. inst \in [Instances -> InstanceType] BY NoTypes DEF Init
  <2>7. /\ stopper \in [Stoppers -> 0..n] /\ caller \in [Callers -> {"idle", "verify", "take"}]
        /\ up \in {"down", "reaping", "up"}
    BY <2>1 DEF Init
  <2>5. LifeType BY <2>1, <2>6, <2>7 DEF LifeType
  <2>2. RecordType BY <2>1 DEF Init, RecordType, NoRecord
  <2>3. cur \in {0, 1} /\ cur \in 0..MaxVersion BY Numbers DEF Init
  <2>8. mark \in 0..MaxVersion /\ failures \in 0..MaxFailures /\ events \in 0..MaxEvents
    BY <2>3, Numbers DEF Init
  <2>9. dir \in [Versions -> {"none", "good", "bad"}] /\ owed \in BOOLEAN BY DEF Init, Good
  <2>4. DiskType BY <2>3, <2>8, <2>9, NoTypes DEF Init, DiskType
  <2> QED BY <2>5, <2>2, <2>4 DEF TypeOK
<1>2. TypeOK /\ [Next]_vars => TypeOK'
  <2> SUFFICES ASSUME TypeOK, [Next]_vars PROVE TypeOK'
    OBVIOUS
  <2>a. LifeType /\ RecordType /\ DiskType /\ n \in Nat /\ born \in Nat BY DEF TypeOK, LifeType
  <2>b. events > 0 => events - 1 \in 0..MaxEvents BY <2>a, Numbers DEF DiskType
  <2>c. failures > 0 => failures - 1 \in 0..MaxFailures BY <2>a, Numbers DEF DiskType
  <2>d. \A i \in Instances : inst[i] \in InstanceType BY <2>a DEF LifeType
  <2>e. Current \in 0..MaxVersion BY <2>a, Numbers DEF DiskType, Current
  <2>1. CASE Crash
    <3>1. \A i \in Instances : Orphaned(inst[i]) \in InstanceType
      BY <2>d, Numbers DEF Orphaned, NoInstance, InstanceType, Pcs, Final
    <3>2. LifeType' BY <2>1, <2>a, <3>1 DEF Crash, LifeType
    <3>3. RecordType' BY <2>1, <2>a DEF Crash, RecordType
    <3>4. DiskType' BY <2>1, <2>a, <2>b, NoTypes DEF Crash, Happens, disk, DiskType
    <3> QED BY <3>2, <3>3, <3>4 DEF TypeOK
  <2>2. CASE Boot \/ ReapSkipped
    BY <2>2, <2>a DEF Boot, ReapSkipped, run, calls, disk, installs, TypeOK, LifeType, RecordType,
        DiskType
  <2>3. ASSUME NEW i \in Instances, ChildDies(i) PROVE TypeOK'
    <3>1. [inst[i] EXCEPT !.child = "dead"] \in InstanceType BY <2>d DEF InstanceType
    <3> QED BY <2>3, <2>a, <3>1 DEF ChildDies, life, run, calls, disk, installs, TypeOK, LifeType,
        RecordType, DiskType
  <2>4. CASE ReapKills
    <3>1. \A i \in Instances : [inst[i] EXCEPT !.child = "dead"] \in InstanceType
      BY <2>d DEF InstanceType
    <3>2. inst' \in [Instances -> InstanceType] BY <2>4, <2>a, <3>1 DEF ReapKills, LifeType
    <3> QED BY <2>4, <2>a, <3>2 DEF ReapKills, life, run, calls, disk, installs, TypeOK, LifeType,
        RecordType, DiskType
  <2>5. CASE ReapClears
    <3>1. RecordType' /\ failures' \in 0..MaxFailures
      BY <2>5, <2>a, RecordTypes DEF ReapClears
    <3> QED BY <2>5, <2>a, <3>1 DEF ReapClears, calls, disk, installs, TypeOK, LifeType, DiskType
  <2>6. CASE CleanLooks \/ CleanRemoves
    BY <2>6, <2>a DEF CleanLooks, CleanRemoves, NoRecord, life, calls, disk, installs, TypeOK,
        LifeType, RecordType, DiskType
  <2>7. ASSUME NEW c \in Callers, StartLooks(c) \/ StartVerifies(c) PROVE TypeOK'
    BY <2>7, <2>a DEF StartLooks, StartVerifies, life, run, disk, installs, TypeOK, LifeType,
        RecordType, DiskType
  <2>8. ASSUME NEW c \in Callers, StartTakes(c) PROVE TypeOK'
    <3>1. caller' \in [Callers -> {"idle", "verify", "take"}] BY <2>8, <2>a DEF StartTakes, LifeType
    <3>2. CASE n' = n /\ UNCHANGED <<inst, run, failures>>
      BY <2>8, <2>a, <3>1, <3>2 DEF StartTakes, life, run, disk, installs, TypeOK, LifeType,
          RecordType, DiskType
    <3>3. CASE /\ n < MaxStarts /\ n' = n + 1 /\ inst' = [inst EXCEPT ![n + 1] = NewInstance]
               /\ WriteRun(Starting(n + 1))
      <4>4. n' \in 0..MaxStarts /\ 0..n \subseteq 0..n' /\ born \in 1..(n' + 1) /\ n + 1 \in Instances
        BY <2>a, <3>3, Numbers DEF LifeType, Instances
      <4>5. inst' \in [Instances -> InstanceType] BY <2>a, <3>3, NoTypes DEF LifeType
      <4>1. LifeType' BY <2>8, <2>a, <3>1, <4>4, <4>5 DEF StartTakes, life, LifeType
      <4>2. n + 1 \in 0..n' /\ n' >= n /\ n' \in Nat BY <2>a, <3>3
      <4>3. RecordType' /\ failures' \in 0..MaxFailures
        BY <3>3, <4>2, RecordTypes
      <4> QED BY <2>8, <2>a, <4>1, <4>3 DEF StartTakes, life, disk, installs, TypeOK, DiskType
    <3> QED BY <2>8, <3>2, <3>3 DEF StartTakes
  <2>9. ASSUME NEW s \in Stoppers, StopAsks(s) \/ StopReturns(s) PROVE TypeOK'
    <3>1. \A i \in Instances : Asked(inst[i]) \in InstanceType BY <2>d DEF Asked, InstanceType
    <3>2. inst' \in [Instances -> InstanceType]
      BY <2>9, <2>a, <3>1 DEF StopAsks, StopReturns, LifeType
    <3> QED BY <2>9, <2>a, <3>2 DEF StopAsks, StopReturns, life, run, disk, installs, TypeOK, LifeType,
        RecordType, DiskType
  <2>10. ASSUME NEW i \in Instances,
                Goes(i) \/ CannotLaunch(i) \/ NotReady(i) \/ Unresponsive(i)
         PROVE  TypeOK'
    <3>1. LifeType' BY <2>10, <2>a, GoroutineTypes
    <3>2. n' = n /\ events' = events /\ UNCHANGED <<disk, installs>>
      BY <2>10 DEF Goes, CannotLaunch, NotReady, Unresponsive, Verifies, Launches, Records, IsReady,
          StopSeen, Exited, Ends, After, TriesAgain, Restarts, BackoffEnds, BackoffStopped, GivesUp,
          Clears, Settles, Closes, Step, FileStep, life
    <3>3. UNCHANGED <<run, failures>> \/ WriteRun(Process(i)) \/ WriteRun(Starting(i)) \/ ClearRun
      BY <2>10 DEF Goes, CannotLaunch, NotReady, Unresponsive, Verifies, Launches, Records, IsReady,
          StopSeen, Exited, Ends, After, TriesAgain, Restarts, BackoffEnds, BackoffStopped, GivesUp,
          Clears, Settles, Closes, Step
    <3>4. RecordType' /\ failures' \in 0..MaxFailures
      <4>1. CASE UNCHANGED <<run, failures>>
        BY <2>a, <3>2, <4>1 DEF run, RecordType, DiskType
      <4>2. CASE ClearRun BY <2>a, <3>2, <4>2, RecordTypes
      <4>3. CASE WriteRun(Process(i)) \/ WriteRun(Starting(i))
        <5>0. i \in born..n BY <2>10 DEF Goes, CannotLaunch, NotReady,
            Unresponsive, Verifies, Launches, Records, IsReady, StopSeen, Exited, Ends, After,
            TriesAgain, Restarts, BackoffEnds, BackoffStopped, GivesUp, Clears, Settles, Closes,
            Step, FileStep
        <5>1. i \in 0..n BY <2>a, <5>0
        <5> QED BY <2>a, <3>2, <4>3, <5>1, RecordTypes
      <4> QED BY <3>3, <4>1, <4>2, <4>3
    <3> QED BY <2>a, <3>1, <3>2, <3>4 DEF disk, installs, TypeOK, DiskType
  <2>11. CASE Installer
    <3>1. /\ UNCHANGED <<life, n, inst, run, calls, un>> \/ UNCHANGED <<up, born, n, inst, run, calls, un>>
          /\ events' = events \/ Happens
      BY <2>11 DEF Installer, Plans, InstallBegins, InstallLooks, InstallChecks, Fetches, MovesAside,
          Swaps, Points, Marks, Restores, Undoes, Prunes, InstallEnds, Install, life
    <3>2. LifeType' /\ RecordType' /\ events' \in 0..MaxEvents /\ un' = un
      BY <2>a, <2>b, <3>1 DEF Happens, life, run, calls, LifeType, RecordType, DiskType
    <3>3. ins' \in InstallType
      <4>1. \A pc \in InstallPcs : At(pc) \in InstallType BY <2>a, AtType
      <4>2. CASE \E v \in Versions : Plans(v)
        <5>1. PICK v \in Versions : Plans(v) BY <4>2
        <5>2. [NoInstall EXCEPT !.pc = "planned", !.v = v, !.prev = Current, !.repair = v = Current]
                \in InstallType
          BY <2>e, NoTypes DEF InstallType, InstallPcs
        <5> QED BY <5>1, <5>2 DEF Plans, Install
      <4>3. CASE MovesAside
        <5>1. [At("swap") EXCEPT !.prev = Current, !.aside = dir[ins.v]] \in InstallType
          BY <2>a, <2>e DEF At, DiskType, InstallType, InstallPcs
        <5> QED BY <4>1, <4>3, <5>1 DEF MovesAside, Install, InstallPcs
      <4>4. CASE InstallEnds BY <4>4, NoTypes DEF InstallEnds, Install
      <4>5. CASE InstallBegins \/ InstallLooks \/ InstallChecks \/ Fetches \/ Swaps
        BY <4>1, <4>5 DEF InstallBegins, InstallLooks, InstallChecks, Fetches, Swaps, Install, InstallPcs
      <4>6. CASE Points \/ Marks \/ Restores \/ Undoes \/ Prunes
        BY <4>1, <4>6 DEF Points, Marks, MarkFails, Restores, Undoes, Prunes, Install, InstallPcs
      <4> QED BY <2>11, <4>2, <4>3, <4>4, <4>5, <4>6 DEF Installer
    <3>4. ins.v \in Versions /\ ins.prev \in 0..MaxVersion /\ ins.aside \in {"none", "good", "bad"}
      BY <2>a DEF DiskType, InstallType
    <3>5. cur' \in 0..MaxVersion /\ mark' \in 0..MaxVersion /\ failures' \in 0..MaxFailures
      <4>1. ins.v \in 0..MaxVersion /\ Max({mark, ins.v}) \in 0..MaxVersion
        BY <2>a, <3>4, MaxOfTwo, Numbers DEF DiskType, Versions
      <4> QED BY <2>11, <2>a, <2>c, <3>4, <4>1 DEF Installer, Plans, InstallBegins, InstallLooks,
            InstallChecks, Fetches, MovesAside, Swaps, Points, Marks, Restores, Undoes, Prunes,
            InstallEnds, Fails, disk, DiskType
    <3>6. dir' \in [Versions -> {"none", "good", "bad"}]
      BY <2>11, <2>a, <3>4 DEF Installer, Plans, InstallBegins, InstallLooks, InstallChecks, Fetches,
          MovesAside, Swaps, Points, Marks, Restores, Undoes, Prunes, InstallEnds, disk, DiskType
    <3>7. owed' \in BOOLEAN
      <4>1. ins.alone \in BOOLEAN /\ owed \in BOOLEAN BY <2>a DEF DiskType, InstallType
      <4> QED BY <2>11, <4>1 DEF Installer, Plans, InstallBegins, InstallLooks, InstallChecks, Fetches,
            MovesAside, Swaps, Points, Marks, Restores, Undoes, Prunes, InstallEnds
    <3> QED BY <2>a, <3>2, <3>3, <3>5, <3>6, <3>7 DEF TypeOK, DiskType
  <2>12. CASE UninstallLooks \/ UninstallVersions \/ UninstallFiles \/ Damage
    <3>1. Disturbed => ins' \in InstallType BY <2>a DEF Disturbed, DiskType, InstallType
    <3>2. NoRecord \in [kind : {"none", "starting", "pid"}, of : 0..n] BY <2>a DEF NoRecord
    <3>3. LifeType' /\ RecordType'
      BY <2>12, <2>a, <3>2 DEF UninstallLooks, UninstallVersions, UninstallFiles, Damage, life, run, calls,
          Active, LifeType, RecordType
    <3>6. dir \in [Versions -> {"none", "good", "bad"}] BY <2>a DEF DiskType
    <3>5. dir' \in [Versions -> {"none", "good", "bad"}]
      BY <2>12, <3>6 DEF UninstallLooks, UninstallVersions, UninstallFiles, Damage, disk
    <3>4. DiskType'
      BY <2>12, <2>a, <2>b, <3>1, <3>5, Numbers DEF UninstallLooks, UninstallVersions, UninstallFiles, Damage,
          Happens, life, disk, DiskType
    <3> QED BY <3>3, <3>4 DEF TypeOK
  <2>13. CASE UNCHANGED vars
    BY <2>13, <2>a DEF vars, life, run, calls, disk, installs, TypeOK, LifeType, RecordType, DiskType
  <2> QED
    BY <2>1, <2>2, <2>3, <2>4, <2>5, <2>6, <2>7, <2>8, <2>9, <2>10, <2>11, <2>12, <2>13 DEF Next
<1> QED BY <1>1, <1>2, PTL DEF Spec

-----------------------------------------------------------------------------
(* The goroutines. *)

\* What a goroutine may do to its instance: it goes on by the code's order, does
\* not come back from a final state, and only Records gives a process a name.
MayBecome(in, to, named) ==
    Placed(in) =>
    /\ Placed(to)
    /\ in.state \in Final => to.state \in Final
    /\ to.child = "alive" /\ to.named => named \/ (in.child = "alive" /\ in.named)

\* A step of a goroutine changes its own instance, and by its order.
GoesOn(i) ==
    /\ i \in born..n
    /\ up = "up" /\ UNCHANGED <<life, n, calls, disk, installs>>
    /\ \A j \in Instances \ {i} : inst'[j] = inst[j]
    /\ MayBecome(inst[i], inst'[i], Records(i))

\* A step that is by the code's order is what the instance's goroutine may do.
LEMMA Stepped ==
    ASSUME LifeType, NEW i \in Instances, NEW pc, NEW in, Step(i, pc, in) \/ FileStep(i, pc, in),
           inst[i].pc = pc => MayBecome(inst[i], in, Records(i))
    PROVE  GoesOn(i)
BY DEF Step, FileStep, LifeType, GoesOn

\* Every step of a goroutine is by the code's order.
LEMMA GoroutineSteps ==
    ASSUME LifeType, NEW i \in Instances,
           Goes(i) \/ CannotLaunch(i) \/ NotReady(i) \/ Unresponsive(i)
    PROVE  GoesOn(i)
<1> DEFINE in == inst[i]
           May(pc, to) == in.pc = pc => MayBecome(in, to, Records(i))
<1>1. in \in InstanceType BY DEF LifeType
<1>2. CASE Verifies(i)
  <2>1. /\ May("verify", [in EXCEPT !.pc = "launch"])
        /\ May("verify", Ended(in, "fatal", "decide"))
    BY <1>1 DEF MayBecome, Placed, Final, Ended, Killed, Over, NoInstance, InstanceType
  <2> QED BY <1>2, <2>1, Stepped DEF Verifies
<1>3. CASE Launches(i) \/ CannotLaunch(i)
  <2>1. /\ May("launch", [in EXCEPT !.pc = "record", !.child = "alive"])
        /\ May("launch", Ended(in, "fatal", "decide"))
    BY <1>1 DEF MayBecome, Placed, Final, Ended, Killed, Over, NoInstance, InstanceType
  <2> QED BY <1>3, <2>1, Stepped DEF Launches, CannotLaunch
<1>4. CASE Records(i)
  <2>1. May("record", [in EXCEPT !.pc = "ready", !.named = TRUE])
    BY <1>4, <1>1 DEF MayBecome, Placed, Final, Ended, Killed, Over, NoInstance, InstanceType
  <2> QED BY <1>4, <2>1, Stepped DEF Records
<1>5. CASE IsReady(i)
  <2>1. May("ready", [in EXCEPT !.pc = "watch", !.state = "running", !.tries = 0])
    BY <1>1 DEF MayBecome, Placed, Final, Ended, Killed, Over, NoInstance, InstanceType
  <2> QED BY <1>5, <2>1, Stepped DEF IsReady
<1>6. CASE NotReady(i) \/ Unresponsive(i)
  <2>1. /\ May("ready", Ended(in, "fatal", "end"))
        /\ May("ready", Ended(in, "early", "end"))
        /\ May("watch", [Ended(in, "ready", "end") EXCEPT !.state = "unresponsive"])
    BY <1>1 DEF MayBecome, Placed, Final, Ended, Killed, Over, NoInstance, InstanceType
  <2> QED BY <1>6, <2>1, Stepped DEF NotReady, Unresponsive
<1>7. CASE StopSeen(i)
  <2>1. /\ May("ready", [Ended(in, "stopped", "end") EXCEPT !.state = "stopping"])
        /\ May("watch", [Ended(in, "stopped", "end") EXCEPT !.state = "stopping"])
    BY <1>1 DEF MayBecome, Placed, Final, Ended, Killed, Over, NoInstance, InstanceType
  <2> QED BY <1>7, <2>1, Stepped DEF StopSeen
<1>8. CASE Exited(i)
  <2>1. /\ May("ready", Ended(in, "early", "after"))
        /\ May("watch", Ended(in, "ready", "after"))
    BY <1>8, <1>1 DEF MayBecome, Placed, Final, Ended, Killed, Over, NoInstance, InstanceType, Exited
  <2> QED BY <1>8, <2>1, Stepped DEF Exited
<1>9. CASE Ends(i)
  <2>1. May("end", Killed(in))
    BY <1>1 DEF MayBecome, Placed, Final, Ended, Killed, Over, NoInstance, InstanceType
  <2> QED BY <1>9, <2>1, Stepped DEF Ends
<1>10. CASE After(i)
  <2>1. May("after", [in EXCEPT !.pc = "decide", !.child = IF @ = "dead" THEN "none" ELSE @, !.named = FALSE])
    BY <1>1 DEF MayBecome, Placed, Final, Ended, Killed, Over, NoInstance, InstanceType
  <2> QED BY <1>10, <2>1, Stepped DEF After
<1>11. CASE TriesAgain(i)
  <2>1. May("decide", [in EXCEPT !.pc = "verify", !.out = "none", !.tries = @ + 1])
    BY <1>1 DEF MayBecome, Placed, Final, Ended, Killed, Over, NoInstance, InstanceType
  <2> QED BY <1>11, <2>1, Stepped DEF TriesAgain
<1>12. CASE Restarts(i)
  <2>1. \A c : May("decide", [in EXCEPT !.pc = "backoff", !.state = "starting", !.out = "none",
                                     !.crashes = c])
    BY <1>1 DEF MayBecome, Placed, Final, InstanceType
  <2> QED BY <1>12, <2>1, Stepped DEF Restarts
<1>13. CASE BackoffEnds(i) \/ BackoffStopped(i)
  <2>1. /\ May("backoff", [in EXCEPT !.pc = "verify", !.tries = 1])
        /\ May("backoff", [Ended(in, "stopped", "clear") EXCEPT !.crashes = 0])
    BY <1>1 DEF MayBecome, Placed, Final, Ended, Killed, Over, NoInstance, InstanceType
  <2> QED BY <1>13, <2>1, Stepped DEF BackoffEnds, BackoffStopped
<1>14. CASE GivesUp(i)
  <2>1. May("decide", Over(in))
    BY <1>1 DEF MayBecome, Placed, Final, Ended, Killed, Over, NoInstance, InstanceType
  <2> QED BY <1>14, <2>1, Stepped DEF GivesUp
<1>15. CASE Clears(i)
  <2>1. May("clear", [in EXCEPT !.pc = "settle"])
    BY <1>1 DEF MayBecome, Placed, Final, Ended, Killed, Over, NoInstance, InstanceType
  <2> QED BY <1>15, <2>1, Stepped DEF Clears
<1>16. CASE Settles(i)
  <2>1. May("settle", [in EXCEPT !.pc = "close", !.state = IF in.out = "stopped" THEN "stopped" ELSE "failed"])
    BY <1>1 DEF MayBecome, Placed, Final, Ended, Killed, Over, NoInstance, InstanceType
  <2> QED BY <1>16, <2>1, Stepped DEF Settles
<1>17. CASE Closes(i)
  <2>1. May("close", [NoInstance EXCEPT !.state = in.state])
    BY <1>1 DEF MayBecome, Placed, Final, Ended, Killed, Over, NoInstance, InstanceType
  <2> QED BY <1>17, <2>1, Stepped DEF Closes
<1> QED BY <1>2, <1>3, <1>4, <1>5, <1>6, <1>7, <1>8, <1>9, <1>10, <1>11, <1>12, <1>13, <1>14, <1>15, <1>16, <1>17 DEF Goes

\* What an install does, it does to the installed versions alone.
LEMMA InstallerLeaves == Installer => UNCHANGED <<up, born, n, inst, run, calls, un>>
BY DEF Installer, Plans, InstallBegins, InstallLooks, InstallChecks, Fetches, MovesAside, Swaps,
    Points, Marks, Restores, Undoes, Prunes, InstallEnds, Install

\* Of the instances of this life only the newest is not over, and each is where
\* its goroutine has brought it.
LEMMA GoroutineCorrect == Spec => []GoroutineInv
<1>1. Init => GoroutineInv
  BY DEF Init, GoroutineInv
<1>2. TypeOK /\ GoroutineInv /\ [Next]_vars => GoroutineInv'
  <2> SUFFICES ASSUME TypeOK, GoroutineInv, [Next]_vars PROVE GoroutineInv'
    OBVIOUS
  <2>a. LifeType /\ n \in Nat /\ born \in Nat /\ born >= 1 /\ n <= MaxStarts /\ MaxStarts \in Nat
    BY Numbers DEF TypeOK, LifeType
  <2>b. \A i \in born..n : i \in Instances /\ inst[i] \in InstanceType
    BY <2>a DEF LifeType, Instances
  <2>1. CASE Crash
    BY <2>1, <2>a DEF Crash, GoroutineInv
  <2>2. CASE UNCHANGED <<born, n, inst>>
    BY <2>2 DEF GoroutineInv
  <2>3. ASSUME NEW i \in Instances, ChildDies(i) \/ ReapKills PROVE GoroutineInv'
    <3>1. PICK j : /\ Alive(j) /\ UNCHANGED <<born, n>>
                   /\ inst' = [inst EXCEPT ![j].child = "dead"]
      BY <2>3 DEF ChildDies, ReapKills, life
    <3>2. \A k \in born..n : Placed(inst[k]) => Placed(inst'[k]) /\ inst'[k].state = inst[k].state
      BY <2>a, <2>b, <3>1 DEF LifeType, Placed, Alive, InstanceType
    <3> QED BY <3>1, <3>2 DEF GoroutineInv
  <2>4. ASSUME NEW c \in Callers, StartTakes(c) PROVE GoroutineInv'
    <3>1. CASE UNCHANGED <<n, inst>>
      BY <2>4, <3>1 DEF StartTakes, life, GoroutineInv
    <3>2. CASE MayStart /\ n < MaxStarts /\ n' = n + 1 /\ inst' = [inst EXCEPT ![n + 1] = NewInstance]
      <4>1. n + 1 \in Instances /\ born' = born BY <2>4, <2>a, <3>2 DEF Instances, StartTakes, life
      <4>2. Placed(NewInstance) BY DEF Placed, NewInstance, NoInstance, Final
      <4>3. \A i \in born..n : inst'[i] = inst[i] /\ inst[i].state \in Final
        BY <2>a, <2>b, <3>2 DEF MayStart, Active, GoroutineInv
      <4>4. inst'[n + 1] = NewInstance BY <2>a, <3>2, <4>1 DEF LifeType
      <4>5. \A i \in born'..n' : i \in born..n \/ i = n + 1 BY <2>a, <3>2, <4>1
      <4> QED BY <2>a, <3>2, <4>1, <4>2, <4>3, <4>4, <4>5 DEF GoroutineInv
    <3> QED BY <2>4, <3>1, <3>2 DEF StartTakes
  <2>5. ASSUME NEW s \in Stoppers, StopAsks(s) PROVE GoroutineInv'
    <3>1. UNCHANGED <<born, n>> /\ inst' = [inst EXCEPT ![n] = Asked(inst[n])]
      BY <2>5 DEF StopAsks, life
    <3>2. \A k \in born..n : Placed(inst[k]) => Placed(inst'[k]) /\ inst'[k].state = inst[k].state
      BY <2>a, <2>b, <3>1 DEF LifeType, Placed, Asked, InstanceType
    <3> QED BY <3>1, <3>2 DEF GoroutineInv
  <2>6. ASSUME NEW i \in Instances,
               Goes(i) \/ CannotLaunch(i) \/ NotReady(i) \/ Unresponsive(i)
        PROVE  GoroutineInv'
    <3>1. GoesOn(i) BY <2>6, <2>a, GoroutineSteps
    <3> QED BY <2>b, <3>1 DEF GoesOn, MayBecome, GoroutineInv, life
  <2>7. CASE Installer
    BY <2>2, <2>7, InstallerLeaves
  <2> QED
    BY <2>1, <2>2, <2>3, <2>4, <2>5, <2>6, <2>7, Numbers
    DEF Next, Boot, ReapSkipped, ReapClears, CleanLooks, CleanRemoves, StartLooks, StartVerifies,
        StopReturns, UninstallLooks, UninstallVersions, UninstallFiles, Damage, vars, life, Instances
<1> QED BY <1>1, <1>2, TypeCorrect, PTL DEF Spec

\* A process that this Flockdeck started and that lives is the newest instance's,
\* and nothing says that instance is over.
THEOREM WatchedCorrect == Spec => []ChildIsWatched
<1>1. TypeOK /\ GoroutineInv => ChildIsWatched
  <2> SUFFICES ASSUME TypeOK, GoroutineInv, NEW i \in born..n, Alive(i)
               PROVE  i = n /\ inst[i].state \notin Final
    BY DEF ChildIsWatched
  <2>1. n \in Nat /\ born \in Nat BY DEF TypeOK, LifeType
  <2>2. inst[i].state \notin Final BY DEF GoroutineInv, Placed, Alive
  <2> QED BY <2>1, <2>2 DEF GoroutineInv
<1> QED BY <1>1, TypeCorrect, GoroutineCorrect, PTL

-----------------------------------------------------------------------------
(* run.json. *)

\* A step after which no process has a name it did not have, and the record says
\* what it said.
LEMMA RecordStays ==
    ASSUME TypeOK, RecordInv, n' = n, born' = born \/ (born' = n + 1 /\ un' = "idle"),
           \A i \in 1..n : NamedAlive(i)' => NamedAlive(i),
           record' = record, excused => excused', cleaning' = "no" \/ cleaning' = cleaning \/ excused',
           un' # "idle" => un # "idle" \/ ~ Running
    PROVE  RecordInv'
<1>a. n \in Nat /\ born \in Nat /\ born <= n + 1 BY DEF TypeOK, LifeType
<1>1. ChildIsNamed' BY DEF RecordInv, ChildIsNamed, NamedAlive
<1>2. ASSUME n >= born' \/ un' # "idle" PROVE excused' \/ \A i \in 1..(born' - 1) : ~ NamedAlive(i)'
  <2>1. born' = born BY <1>a, <1>2
  <2>2. 1..(born - 1) \subseteq 1..n BY <1>a
  <2>3. CASE n >= born \/ un # "idle" BY <2>1, <2>2, <2>3 DEF RecordInv
  <2>4. CASE ~ Running
    BY <2>1, <2>2, <2>4 DEF RecordInv, ChildIsNamed, NamedAlive, Running, Process
  <2> QED BY <1>2, <2>1, <2>3, <2>4
<1> QED BY <1>1, <1>2 DEF RecordInv

\* A step that writes another record, at a moment when no process has a name.
LEMMA RecordChanges ==
    ASSUME TypeOK, RecordInv, born' = born, n' \in Nat, n' >= n,
           excused => excused', cleaning' = cleaning \/ excused',
           excused' \/ \A i \in 1..n' : NamedAlive(i)' => record' = Process(i) /\ i >= born,
           record'.kind = "pid" => record'.of # 0
    PROVE  RecordInv'
<1>a. n \in Nat /\ born \in Nat /\ born <= n + 1 BY DEF TypeOK, LifeType
<1>1. ChildIsNamed' BY DEF ChildIsNamed, NamedAlive
<1>2. excused' \/ \A i \in 1..(born' - 1) : ~ NamedAlive(i)' BY <1>a
<1> QED BY <1>1, <1>2 DEF RecordInv

\* Where a process of this life is, an instance is under way.
LEMMA AliveIsActive ==
    ASSUME TypeOK, GoroutineInv, NEW j \in born..n, Alive(j) \/ inst[j].state \notin Final
    PROVE  j = n /\ Active
<1>1. n \in Nat /\ born \in Nat BY DEF TypeOK, LifeType
<1>2. inst[j].state \notin Final BY DEF GoroutineInv, Placed, Alive
<1> QED BY <1>1, <1>2 DEF GoroutineInv, Active

\* run.json names each recorded process for as long as it lives, and no uninstall
\* and no start of this life began beside one of an earlier life.
LEMMA RecordInvCorrect == Spec => []RecordInv
<1>1. Init => RecordInv
  BY DEF Init, RecordInv, ChildIsNamed, NoRecord
<1>2. TypeOK /\ GoroutineInv /\ RecordInv /\ [Next]_vars => RecordInv'
  <2> SUFFICES ASSUME TypeOK, GoroutineInv, RecordInv, [Next]_vars PROVE RecordInv'
    OBVIOUS
  <2>a. LifeType /\ n \in Nat /\ born \in Nat /\ born >= 1 /\ n <= MaxStarts /\ MaxStarts \in Nat
        /\ born <= n + 1
    BY Numbers DEF TypeOK, LifeType
  <2>b. \A i \in 1..n : i \in Instances /\ inst[i] \in InstanceType
    BY <2>a DEF LifeType, Instances
  <2>c. ASSUME NEW i \in born..n, inst[i].pc \notin {"close", "done"}
        PROVE  i = n /\ (excused \/ \A j \in 1..n : NamedAlive(j) => j = i)
    <3>1. inst[i].state \notin Final BY <2>c DEF GoroutineInv, Placed
    <3>2. i = n BY <3>1, AliveIsActive
    <3>3. excused \/ \A j \in 1..(born - 1) : ~ NamedAlive(j) BY <2>a DEF RecordInv
    <3>4. \A j \in born..n : NamedAlive(j) => j = n BY AliveIsActive DEF NamedAlive
    <3> QED BY <2>a, <3>2, <3>3, <3>4
  <2>1. CASE Crash
    <3>1. \A i \in 1..n : NamedAlive(i)' => NamedAlive(i)
      BY <2>1, <2>b DEF Crash, Orphaned, NoInstance, NamedAlive, Alive
    <3> QED BY <2>1, <3>1, RecordStays DEF Crash
  <2>2. CASE /\ UNCHANGED <<born, n, inst, record, cleaning, excused>>
             /\ un' # "idle" => un # "idle" \/ ~ Running
    BY <2>2, RecordStays DEF NamedAlive, Alive
  <2>3. ASSUME NEW i \in Instances, ChildDies(i) \/ ReapKills PROVE RecordInv'
    <3>1. PICK j : /\ UNCHANGED <<born, n, record, cleaning, excused, un>>
                   /\ inst' = [inst EXCEPT ![j].child = "dead"]
      BY <2>3 DEF ChildDies, ReapKills, life, run, installs
    <3>2. \A k \in 1..n : NamedAlive(k)' => NamedAlive(k)
      BY <2>a, <2>b, <3>1 DEF LifeType, NamedAlive, Alive, InstanceType
    <3> QED BY <3>1, <3>2, RecordStays
  <2>4. CASE ReapClears
    <3>1. UNCHANGED <<born, n, inst, un>> BY <2>4 DEF ReapClears, installs
    <3>2. CASE excused' /\ record' = record
      BY <3>1, <3>2, RecordStays DEF NamedAlive, Alive
    <3>3. CASE record' = NoRecord /\ UNCHANGED <<cleaning, excused>>
      <4>1. excused \/ \A i \in 1..n : ~ NamedAlive(i)
        BY <2>4 DEF ReapClears, RecordInv, ChildIsNamed, NamedAlive, Process
      <4> QED BY <2>a, <3>1, <3>3, <4>1, RecordChanges DEF NoRecord, NamedAlive, Alive
    <3> QED BY <2>4, <3>2, <3>3 DEF ReapClears, ClearRun
  <2>5. CASE CleanLooks \/ CleanRemoves
    <3>1. excused /\ excused' /\ UNCHANGED <<born, n, inst, un>>
      BY <2>5 DEF CleanLooks, CleanRemoves, RecordInv, life, installs
    <3>2. record' = record \/ record' = NoRecord BY <2>5 DEF CleanLooks, CleanRemoves
    <3> QED BY <2>a, <3>1, <3>2, RecordChanges DEF NoRecord, RecordInv
  <2>6. ASSUME NEW c \in Callers, StartTakes(c) PROVE RecordInv'
    <3>1. born' = born /\ un' = un BY <2>6 DEF StartTakes, life, installs
    <3>2. CASE UNCHANGED <<n, inst, run>>
      BY <2>2, <3>1, <3>2 DEF run
    <3>3. CASE /\ MayStart /\ n' = n + 1 /\ inst' = [inst EXCEPT ![n + 1] = NewInstance]
               /\ WriteRun(Starting(n + 1)) /\ n < MaxStarts
      <4>1. CASE excused' /\ UNCHANGED <<record, cleaning>>
        BY <2>a, <3>1, <3>3, <4>1, RecordChanges DEF RecordInv
      <4>2. CASE record' = Starting(n + 1) /\ UNCHANGED <<cleaning, excused>>
        <5>1. excused \/ \A i \in 1..n : ~ NamedAlive(i)
          BY <3>3 DEF MayStart, Running, RecordInv, ChildIsNamed, NamedAlive, Process
        <5>2. n + 1 \in Instances /\ inst'[n + 1] = NewInstance
          BY <2>a, <3>3 DEF LifeType, Instances
        <5>3. \A i \in {n + 1} : ~ NamedAlive(i)' BY <5>2, <3>3 DEF NamedAlive, NewInstance, NoInstance
        <5>4. \A i \in 1..n : NamedAlive(i)' => NamedAlive(i)
          BY <2>a, <2>b, <3>3 DEF NamedAlive, Alive, LifeType
        <5>5. excused' \/ \A i \in 1..n' : ~ NamedAlive(i)' BY <2>a, <3>3, <4>2, <5>1, <5>3, <5>4
        <5> QED BY <2>a, <3>1, <3>3, <4>2, <5>5, RecordChanges DEF Starting
      <4> QED BY <3>3, <4>1, <4>2 DEF WriteRun
    <3> QED BY <2>6, <3>2, <3>3 DEF StartTakes
  <2>7. ASSUME NEW s \in Stoppers, StopAsks(s) PROVE RecordInv'
    <3>1. UNCHANGED <<born, n, record, cleaning, excused, un>> /\ inst' = [inst EXCEPT ![n] = Asked(inst[n])]
      BY <2>7 DEF StopAsks, life, run, installs
    <3>2. \A k \in 1..n : NamedAlive(k)' => NamedAlive(k)
      BY <2>a, <2>b, <3>1 DEF LifeType, NamedAlive, Alive, Asked, InstanceType
    <3> QED BY <3>1, <3>2, RecordStays
  <2>8. ASSUME NEW i \in Instances,
               Goes(i) \/ CannotLaunch(i) \/ NotReady(i) \/ Unresponsive(i)
        PROVE  RecordInv'
    <3>1. GoesOn(i) /\ i \in born..n BY <2>8, <2>a, GoroutineSteps DEF GoesOn
    <3>2. UNCHANGED <<born, n, un>> BY <3>1 DEF GoesOn, life, installs
    <3>3. Placed(inst[i]) BY <3>1 DEF GoroutineInv
    <3>4. \A k \in 1..n : NamedAlive(k)' => NamedAlive(k) \/ (k = i /\ Records(i))
      BY <2>b, <3>1, <3>3 DEF GoesOn, MayBecome, NamedAlive, Alive
    <3>5. CASE Records(i)
      <4>1. inst[i].pc = "record" /\ WriteRun(Process(i)) BY <3>5 DEF Records, FileStep
      <4>2. excused \/ \A j \in 1..n : NamedAlive(j)' => j = i
        BY <2>c, <3>1, <3>4, <4>1
      <4>3. CASE excused' /\ UNCHANGED <<record, cleaning>>
        BY <2>a, <3>2, <4>3, RecordChanges DEF RecordInv
      <4>4. CASE record' = Process(i) /\ UNCHANGED <<cleaning, excused>>
        BY <2>a, <3>1, <3>2, <4>2, <4>4, RecordChanges DEF Process
      <4> QED BY <4>1, <4>3, <4>4 DEF WriteRun
    <3>6. CASE After(i)
      <4>1. inst[i].pc = "after" /\ WriteRun(Starting(i)) BY <3>6 DEF After, FileStep
      <4>2. ~ NamedAlive(i) BY <3>3, <4>1 DEF Placed, NamedAlive, Alive
      <4>3. ~ Records(i) BY <4>1 DEF Records, FileStep
      <4>4. excused \/ \A j \in 1..n : ~ NamedAlive(j)' BY <2>c, <3>1, <3>4, <4>1, <4>2, <4>3
      <4>5. CASE excused' /\ UNCHANGED <<record, cleaning>>
        BY <2>a, <3>2, <4>5, RecordChanges DEF RecordInv
      <4>6. CASE record' = Starting(i) /\ UNCHANGED <<cleaning, excused>>
        BY <2>a, <3>2, <4>4, <4>6, RecordChanges DEF Starting
      <4> QED BY <4>1, <4>5, <4>6 DEF WriteRun
    <3>7. CASE Clears(i)
      <4>1. inst[i].pc = "clear" /\ ClearRun BY <3>7 DEF Clears, FileStep
      <4>2. ~ NamedAlive(i) BY <3>3, <4>1 DEF Placed, NamedAlive, Alive
      <4>3. ~ Records(i) BY <4>1 DEF Records, FileStep
      <4>4. excused \/ \A j \in 1..n : ~ NamedAlive(j)' BY <2>c, <3>1, <3>4, <4>1, <4>2, <4>3
      <4>5. CASE excused' /\ UNCHANGED record
        BY <2>a, <3>2, <4>5, RecordChanges DEF RecordInv
      <4>6. CASE record' = NoRecord /\ UNCHANGED <<cleaning, excused>>
        BY <2>a, <3>2, <4>4, <4>6, RecordChanges DEF NoRecord
      <4> QED BY <4>1, <4>5, <4>6 DEF ClearRun
    <3>8. CASE UNCHANGED run /\ ~ Records(i)
      BY <3>2, <3>4, <3>8, RecordStays DEF run
    <3> QED
      BY <2>8, <3>5, <3>6, <3>7, <3>8
      DEF Goes, CannotLaunch, NotReady, Unresponsive, Verifies, Launches, IsReady, StopSeen, Exited,
          Ends, TriesAgain, Restarts, BackoffEnds, BackoffStopped, GivesUp, Settles, Closes, Step
  <2>9. CASE UninstallFiles
    <3>1. UNCHANGED <<born, n, inst, cleaning>> /\ record' = NoRecord /\ (excused \/ Active => excused')
          /\ un = "files"
      BY <2>9 DEF UninstallFiles, life
    <3>2. excused \/ \A j \in 1..(born - 1) : ~ NamedAlive(j) BY <3>1 DEF RecordInv
    <3>3. \A j \in born..n : NamedAlive(j) => Active BY AliveIsActive DEF NamedAlive
    <3>4. excused' \/ \A j \in 1..n : ~ NamedAlive(j) BY <2>a, <3>1, <3>2, <3>3
    <3>5. excused' \/ \A j \in 1..n' : ~ NamedAlive(j)' BY <3>1, <3>4 DEF NamedAlive, Alive
    <3> QED BY <2>a, <3>1, <3>5, RecordChanges DEF NoRecord
  <2>10. CASE Installer
    BY <2>2, <2>10, InstallerLeaves DEF run
  <2>11. CASE Boot \/ ReapSkipped \/ UninstallLooks \/ UninstallVersions \/ Damage \/ UNCHANGED vars
    BY <2>2, <2>11 DEF Boot, ReapSkipped, UninstallLooks, UninstallVersions, Damage, vars, run, life, installs
  <2>12. ASSUME NEW c \in Callers, StartLooks(c) \/ StartVerifies(c) PROVE RecordInv'
    BY <2>2, <2>12 DEF StartLooks, StartVerifies, run, life, installs
  <2>13. ASSUME NEW s \in Stoppers, StopReturns(s) PROVE RecordInv'
    BY <2>2, <2>13 DEF StopReturns, run, life, installs
  <2> QED
    BY <2>1, <2>2, <2>3, <2>4, <2>5, <2>6, <2>7, <2>8, <2>9, <2>10, <2>11, <2>12, <2>13, Numbers
    DEF Next, Instances
<1> QED BY <1>1, <1>2, TypeCorrect, GoroutineCorrect, PTL DEF Spec

\* What run.json makes Flockdeck believe is so.
THEOREM RecordCorrect == Spec => []RecordIsTrue
<1>1. TypeOK /\ RecordInv => RecordIsTrue
  <2> SUFFICES ASSUME TypeOK, RecordInv PROVE RecordIsTrue
    OBVIOUS
  <2>1. record.of \in 0..n /\ n \in Nat BY DEF TypeOK, LifeType, RecordType
  <2>2. LeftoverNeverBlocks BY <2>1 DEF LeftoverNeverBlocks, Running, RecordInv
  <2> QED BY <2>2 DEF RecordIsTrue, RecordInv
<1> QED BY <1>1, TypeCorrect, RecordInvCorrect, PTL

-----------------------------------------------------------------------------
(* The swap of an install. *)

\* Only a step of the install moves it on, but for a crash, which ends it.
LEMMA InstallMoves ==
    ASSUME TypeOK, [Next]_vars
    PROVE  Installer \/ ins'.pc = ins.pc \/ ins' = NoInstall
<1>1. ins \in InstallType /\ (Disturbed => ins'.pc = ins.pc)
  BY DEF TypeOK, DiskType, InstallType, Disturbed
<1>2. CASE ~ Installer
  BY <1>1, <1>2 DEF Next, vars, installs, Crash, Boot, ReapSkipped, ReapKills, ReapClears, CleanLooks,
      CleanRemoves, StartLooks, StartVerifies, StartTakes, StopAsks, StopReturns, Goes, CannotLaunch,
      NotReady, Unresponsive, ChildDies, Verifies, Launches, Records, IsReady, StopSeen, Exited, Ends,
      After, TriesAgain, Restarts, BackoffEnds, BackoffStopped, GivesUp, Clears, Settles, Closes, Step,
      FileStep, UninstallLooks, UninstallVersions, UninstallFiles, Damage
<1> QED BY <1>2

\* What has been excused stays excused.
LEMMA ExcusedStays == ASSUME [Next]_vars, excused PROVE excused'
BY DEF Next, vars, run, Crash, Boot, ReapSkipped, ReapKills, ReapClears, CleanLooks, CleanRemoves,
    StartLooks, StartVerifies, StartTakes, StopAsks, StopReturns, Goes, CannotLaunch, NotReady,
    Unresponsive, ChildDies, Verifies, Launches, Records, IsReady, StopSeen, Exited, Ends, After,
    TriesAgain, Restarts, BackoffEnds, BackoffStopped, GivesUp, Clears, Settles, Closes, Step,
    WriteRun, ClearRun, UninstallLooks, UninstallVersions, UninstallFiles, Damage, Installer, Plans,
    InstallBegins, InstallLooks, InstallChecks, Fetches, MovesAside, Swaps, Points, Marks, Restores,
    Undoes, Prunes, InstallEnds, Install

\* While an install has begun and no instance is under way, none comes under way
\* and no process is given a name.
LEMMA NoneStarts ==
    ASSUME TypeOK, GoroutineInv, [Next]_vars, ~ Active, Installing
    PROVE  n' = n /\ ~ Active' /\ \A i \in 1..n : NamedAlive(i)' => NamedAlive(i)
<1>a. LifeType /\ n \in Nat /\ born \in Nat /\ born >= 1 /\ n <= MaxStarts /\ MaxStarts \in Nat
  BY Numbers DEF TypeOK, LifeType
<1>b. \A i \in 1..n : i \in Instances /\ inst[i] \in InstanceType
  BY <1>a DEF LifeType, Instances
<1>c. n >= born => n \in born..n /\ n \in 1..n BY <1>a
<1>1. CASE Crash
  <2>1. \A i \in 1..n : NamedAlive(i)' => NamedAlive(i)
    BY <1>1, <1>b DEF Crash, Orphaned, NoInstance, NamedAlive, Alive
  <2> QED BY <1>1, <1>a, <2>1 DEF Crash, Active
<1>2. CASE UNCHANGED <<born, n, inst>>
  BY <1>2 DEF Active, NamedAlive, Alive
<1>3. ASSUME NEW i \in Instances, ChildDies(i) \/ ReapKills
      PROVE  n' = n /\ ~ Active' /\ \A k \in 1..n : NamedAlive(k)' => NamedAlive(k)
  <2>1. PICK j : UNCHANGED <<born, n>> /\ inst' = [inst EXCEPT ![j].child = "dead"]
    BY <1>3 DEF ChildDies, ReapKills, life
  <2>2. \A k \in 1..n : (NamedAlive(k)' => NamedAlive(k)) /\ inst'[k].state = inst[k].state
    BY <1>a, <1>b, <2>1 DEF LifeType, NamedAlive, Alive, InstanceType
  <2> QED BY <1>c, <2>1, <2>2 DEF Active
<1>4. ASSUME NEW c \in Callers, StartTakes(c)
      PROVE  UNCHANGED <<born, n, inst>>
  BY <1>4 DEF StartTakes, MayStart, life
<1>5. ASSUME NEW s \in Stoppers, StopAsks(s)
      PROVE  n' = n /\ ~ Active' /\ \A k \in 1..n : NamedAlive(k)' => NamedAlive(k)
  <2>1. UNCHANGED <<born, n>> /\ inst' = [inst EXCEPT ![n] = Asked(inst[n])]
    BY <1>5 DEF StopAsks, life
  <2>2. \A k \in 1..n : (NamedAlive(k)' => NamedAlive(k)) /\ inst'[k].state = inst[k].state
    BY <1>a, <1>b, <2>1 DEF LifeType, NamedAlive, Alive, Asked, InstanceType
  <2> QED BY <1>c, <2>1, <2>2 DEF Active
<1>6. ASSUME NEW i \in Instances,
             Goes(i) \/ CannotLaunch(i) \/ NotReady(i) \/ Unresponsive(i)
      PROVE  n' = n /\ ~ Active' /\ \A k \in 1..n : NamedAlive(k)' => NamedAlive(k)
  <2>1. GoesOn(i) /\ i \in born..n /\ UNCHANGED <<born, n>>
    BY <1>6, <1>a, GoroutineSteps DEF GoesOn, life
  <2>2. Placed(inst[i]) /\ inst[i].state \in Final BY <2>1, AliveIsActive DEF GoroutineInv
  <2>3. inst'[i].state \in Final /\ Placed(inst'[i]) BY <2>1, <2>2 DEF GoesOn, MayBecome
  <2>4. ~ NamedAlive(i)' BY <2>3 DEF Placed, NamedAlive, Alive
  <2>5. \A k \in 1..n : NamedAlive(k)' => NamedAlive(k)
    BY <1>b, <2>1, <2>4 DEF GoesOn, NamedAlive, Alive
  <2>6. n >= born => inst'[n].state \in Final BY <1>b, <1>c, <2>1, <2>3 DEF GoesOn, Active
  <2> QED BY <2>1, <2>5, <2>6 DEF Active
<1>7. CASE Installer
  BY <1>2, <1>7, InstallerLeaves
<1> QED
  BY <1>1, <1>2, <1>3, <1>4, <1>5, <1>6, <1>7, Numbers
  DEF Next, Boot, ReapSkipped, ReapClears, CleanLooks, CleanRemoves, StartLooks, StartVerifies,
      StopReturns, UninstallLooks, UninstallVersions, UninstallFiles, Damage, vars, life, Instances

\* What an install has found out stays so while it goes on.
LEMMA SwapInvCorrect == Spec => []SwapInv
<1>1. Init => SwapInv
  BY DEF Init, SwapInv, NoInstall
<1>2. TypeOK /\ GoroutineInv /\ RecordInv /\ SwapInv /\ [Next]_vars => SwapInv'
  <2> SUFFICES ASSUME TypeOK, GoroutineInv, RecordInv, SwapInv, [Next]_vars PROVE SwapInv'
    OBVIOUS
  <2> DEFINE Looked == {"check", "fetch", "aside", "swap", "point", "mark", "restore", "undo", "prune"}
             Checked == Looked \ {"check"}
  <2>a. ins \in InstallType BY DEF TypeOK, DiskType
  <2>1. ASSUME ins'.pc \in Looked => ins.pc \in Looked,
               ins'.pc \in Checked => ins.pc \in Checked
        PROVE  SwapInv'
    <3>1. CASE ins'.pc \in Looked
      <4>1. Installing /\ ~ Active BY <2>1, <3>1 DEF SwapInv, Installing
      <4>2. n' = n /\ ~ Active' /\ \A i \in 1..n : NamedAlive(i)' => NamedAlive(i)
        BY <4>1, NoneStarts
      <4> QED BY <2>1, <4>2, ExcusedStays DEF SwapInv
    <3>2. CASE ins'.pc \notin Looked
      BY <3>2 DEF SwapInv
    <3> QED BY <3>1, <3>2
  <2>2. CASE ins'.pc = ins.pc
    BY <2>1, <2>2
  <2>3. CASE ins' = NoInstall
    BY <2>1, <2>3 DEF NoInstall
  <2>4. CASE InstallLooks
    <3>1. ins'.pc \in {"end", "check"} /\ (ins'.pc = "check" => ~ Active)
      BY <2>4, <2>a DEF InstallLooks, Install, At, InstallType
    <3>2. Active' <=> Active BY <2>4 DEF InstallLooks, Install, Active
    <3> QED BY <3>1, <3>2 DEF SwapInv
  <2>5. CASE InstallChecks
    <3>1. ins.pc = "check" /\ ins'.pc \in {"end", "fetch"} /\ (ins'.pc = "fetch" => ~ Running)
      BY <2>5, <2>a DEF InstallChecks, Install, At, InstallType
    <3>2. UNCHANGED <<born, n, inst, excused>> BY <2>5 DEF InstallChecks, Install, run
    <3>3. ~ Active' BY <3>1, <3>2 DEF SwapInv, Active
    <3>4. ~ Running => excused \/ \A i \in 1..n : ~ NamedAlive(i)
      BY DEF Running, RecordInv, ChildIsNamed, NamedAlive, Process
    <3> QED BY <3>1, <3>2, <3>3, <3>4 DEF SwapInv, NamedAlive, Alive
  <2>6. CASE InstallBegins
    BY <2>1, <2>6, <2>a DEF InstallBegins, Install, At, InstallType
  <2>8. CASE Fetches \/ MovesAside \/ Swaps \/ Points \/ Marks \/ Restores
    <3>1. ins.pc \in Checked
      BY <2>8 DEF Fetches, MovesAside, Swaps, Points, Marks, Restores, Install
    <3> QED BY <2>1, <3>1
  <2>7. CASE Undoes \/ Prunes \/ InstallEnds
    <3>1. ins'.pc \notin Looked
      BY <2>7, <2>a DEF Undoes, Prunes, InstallEnds, Install, At, InstallType, NoInstall
    <3> QED BY <2>1, <3>1
  <2>9. ASSUME NEW v \in Versions, Plans(v) PROVE SwapInv'
    <3>1. ins'.pc = "planned" BY <2>9 DEF Plans, Install, NoInstall
    <3> QED BY <2>1, <3>1
  <2> QED BY <2>2, <2>3, <2>4, <2>5, <2>6, <2>7, <2>8, <2>9, InstallMoves DEF Installer
<1> QED BY <1>1, <1>2, TypeCorrect, GoroutineCorrect, RecordInvCorrect, PTL DEF Spec

\* The install moves folders only while no instance is under way and no recorded
\* process lives.
THEOREM SwapsCorrect == Spec => []SwapsAlone
<1>1. SwapInv => SwapsAlone
  BY DEF SwapInv, SwapsAlone, NamedAlive
<1> QED BY <1>1, SwapInvCorrect, PTL

-----------------------------------------------------------------------------
(* The installed version. *)

\* A step that is not the install's leaves the installed versions alone, ends the
\* install, or is somebody else's at the files.
LEMMA OthersAtTheFiles ==
    ASSUME TypeOK, [Next]_vars, ~ Installer
    PROVE  /\ failures' \in Nat /\ failures' <= failures
           /\ \/ UNCHANGED <<cur, dir, ins, owed>>
              \/ UNCHANGED <<cur, dir, owed>> /\ ins' = NoInstall
              \/ owed' = FALSE /\ Disturbed
<1>1. failures \in Nat BY Numbers DEF TypeOK, DiskType
<1>2. /\ \/ UNCHANGED <<cur, dir, ins, owed>>
         \/ UNCHANGED <<cur, dir, owed>> /\ ins' = NoInstall
         \/ owed' = FALSE /\ Disturbed
      /\ failures' = failures \/ Fails
  BY DEF Next, vars, disk, installs, Crash, Boot, ReapSkipped, ReapKills, ReapClears, CleanLooks,
      CleanRemoves, StartLooks, StartVerifies, StartTakes, StopAsks, StopReturns, Goes, CannotLaunch,
      NotReady, Unresponsive, ChildDies, Verifies, Launches, Records, IsReady, StopSeen, Exited, Ends,
      After, TriesAgain, Restarts, BackoffEnds, BackoffStopped, GivesUp, Clears, Settles, Closes, Step,
      FileStep, WriteRun, ClearRun, UninstallLooks, UninstallVersions, UninstallFiles, Damage
<1> QED BY <1>1, <1>2 DEF Fails

\* What the installed version is while another takes its place, as long as one
\* operation on a file fails at most: when the mark cannot be raised and then the
\* pointer cannot be put back, the pointer is left at the folder that is removed.
LEMMA InstalledInvCorrect == MaxFailures <= 1 => (Spec => []InstalledInv)
<1> SUFFICES ASSUME MaxFailures <= 1 PROVE Spec => []InstalledInv
  OBVIOUS
<1>1. Init => InstalledInv
  BY DEF Init, InstalledInv, NoInstall
<1>2. TypeOK /\ InstalledInv /\ [Next]_vars => InstalledInv'
  <2> SUFFICES ASSUME TypeOK, InstalledInv, [Next]_vars PROVE InstalledInv'
    OBVIOUS
  <2>a. /\ ins \in InstallType /\ dir \in [Versions -> {"none", "good", "bad"}]
        /\ cur \in Nat /\ failures \in 0..MaxFailures /\ MaxFailures \in Nat
        /\ Versions \subseteq Nat \ {0}
    BY Numbers DEF TypeOK, DiskType, Versions
  <2>b. ins.v \in Versions /\ ins.alone \in BOOLEAN /\ ins.repair \in BOOLEAN
    BY <2>a DEF InstallType
  <2>c. Good <=> cur # 0 /\ dir[cur] = "good" BY DEF Good, Current
  <2>d. Good' <=> cur' # 0 /\ dir'[cur'] = "good" BY DEF Good, Current
  <2>e. Good => Current = cur BY DEF Good, Current
  <2>1. CASE ~ Installer
    <3>1. failures' <= failures /\ failures' \in Nat
      BY <2>1, OthersAtTheFiles
    <3>2. CASE UNCHANGED <<cur, dir, ins, owed>>
      BY <2>a, <2>c, <2>d, <3>1, <3>2 DEF InstalledInv
    <3>3. CASE UNCHANGED <<cur, dir, owed>> /\ ins' = NoInstall
      BY <2>a, <2>c, <2>d, <3>1, <3>3 DEF InstalledInv, NoInstall
    <3>4. CASE owed' = FALSE /\ Disturbed
      BY <2>a, <3>1, <3>4 DEF InstalledInv, Disturbed, InstallType
    <3> QED BY <2>1, <3>2, <3>3, <3>4, OthersAtTheFiles
  <2>2. ASSUME NEW v \in Versions, Plans(v) PROVE InstalledInv'
    BY <2>2, <2>c, <2>d DEF Plans, Plannable, Install, NoInstall, disk, InstalledInv
  <2>3. CASE InstallBegins \/ InstallLooks \/ InstallChecks \/ Fetches
    BY <2>3, <2>a, <2>c, <2>d DEF InstallBegins, InstallLooks, InstallChecks, Fetches, Install, At, disk,
        InstallType, InstalledInv
  <2>f. /\ \A pc : At(pc) = [ins EXCEPT !.pc = pc]
        /\ \A pc : At(pc).pc = pc /\ At(pc).v = ins.v /\ At(pc).prev = ins.prev
                    /\ At(pc).repair = ins.repair /\ At(pc).alone = ins.alone
    BY <2>a DEF At, InstallType
  <2>4. CASE MovesAside
    <3>1. ins.pc = "aside" /\ UNCHANGED <<cur, owed, failures>> BY <2>4 DEF MovesAside, Install
    <3>2. CASE ins' = At("end") /\ UNCHANGED dir
      BY <2>c, <2>d, <2>f, <3>1, <3>2 DEF InstalledInv
    <3>3. CASE /\ ~ (Current = ins.v /\ ~ ins.repair)
               /\ ins' = [At("swap") EXCEPT !.prev = Current, !.aside = dir[ins.v]]
               /\ dir' = [dir EXCEPT ![ins.v] = "none"]
      <4>1. /\ ins'.pc = "swap" /\ ins'.v = ins.v /\ ins'.prev = Current
            /\ ins'.repair = ins.repair /\ ins'.alone = ins.alone
        BY <2>a, <3>3 DEF At, InstallType
      <4>2. owed => cur # ins.v /\ Current = cur /\ cur # 0 /\ dir[cur] = "good"
        BY <2>c, <2>e, <3>1, <3>3 DEF InstalledInv
      <4>3. owed => dir'[cur] = "good" BY <2>a, <3>3, <4>2
      <4> QED BY <2>d, <3>1, <4>1, <4>2, <4>3 DEF InstalledInv
    <3> QED BY <2>4, <3>2, <3>3 DEF MovesAside, Install
  <2>5. CASE Swaps
    <3>1. ins.pc = "swap" /\ UNCHANGED <<cur, owed>> BY <2>5 DEF Swaps, Install
    <3>2. PICK to \in {"good", ins.aside} : dir' = [dir EXCEPT ![ins.v] = to]
      BY <2>5 DEF Swaps
    <3>3. owed => Good' BY <2>a, <2>c, <2>d, <3>1, <3>2 DEF InstalledInv
    <3>4. CASE ins' = At("point") /\ dir' = [dir EXCEPT ![ins.v] = "good"]
      <4>1. dir'[ins.v] = "good" BY <2>a, <2>b, <3>4
      <4> QED BY <2>f, <3>1, <3>3, <3>4, <4>1 DEF InstalledInv
    <3>5. CASE ins' = At("end")
      BY <2>f, <3>1, <3>3, <3>5 DEF InstalledInv
    <3> QED BY <2>5, <3>4, <3>5 DEF Swaps, Install
  <2>6. CASE Points
    <3>1. ins.pc = "point" /\ UNCHANGED <<dir, owed>> BY <2>6 DEF Points, Install
    <3>2. owed => cur = ins.prev /\ ins.prev # ins.v /\ ins.alone /\ dir[ins.prev] = "good" /\ ins.prev \in Versions
      BY <2>c, <3>1, Numbers DEF InstalledInv, TypeOK, DiskType, Versions
    <3>3. CASE ins' = At("mark") /\ cur' = ins.v
      BY <2>a, <2>b, <2>d, <2>f, <3>1, <3>2, <3>3 DEF InstalledInv
    <3>4. CASE ins' = At("undo") /\ UNCHANGED cur
      BY <2>c, <2>d, <2>f, <3>1, <3>2, <3>4 DEF InstalledInv
    <3> QED BY <2>6, <3>3, <3>4 DEF Points, Install
  <2>7. CASE Marks
    BY <2>7, <2>a, <2>b, <2>c, <2>d DEF Marks, MarkFails, Install, At, Fails, InstallType, InstalledInv
  <2>8. CASE Restores
    BY <2>8, <2>a, <2>b, <2>c, <2>d DEF Restores, Install, At, Fails, InstallType, InstalledInv
  <2>9. CASE Undoes
    BY <2>9, <2>a, <2>b, <2>c, <2>d DEF Undoes, Install, At, InstallType, InstalledInv
  <2>10. CASE Prunes
    BY <2>10, <2>a, <2>b, <2>c, <2>d DEF Prunes, Keeps, Install, At, InstallType, InstalledInv
  <2>11. CASE InstallEnds
    BY <2>11, <2>a, <2>b, <2>c, <2>d DEF InstallEnds, Install, NoInstall, disk, InstallType, InstalledInv
  <2> QED BY <2>1, <2>2, <2>3, <2>4, <2>5, <2>6, <2>7, <2>8, <2>9, <2>10, <2>11 DEF Installer
<1> QED BY <1>1, <1>2, TypeCorrect, PTL DEF Spec

\* A good installed version stays, or gives way to another good one, through every
\* install that fails at any step and every crash, when at most one operation on a
\* file fails.
THEOREM InstalledCorrect == MaxFailures <= 1 => (Spec => []InstalledStays)
<1>1. InstalledInv => InstalledStays
  BY DEF InstalledInv, InstalledStays
<1> QED BY <1>1, InstalledInvCorrect, PTL
=============================================================================
